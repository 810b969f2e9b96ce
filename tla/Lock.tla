-------------------------------- MODULE Lock --------------------------------
(* cfgaudit lock and lock --check over a repository that is edited between   *)
(* and during its steps.  The settings start a script and approve tools; the *)
(* instruction file has prose only.                                          *)
EXTENDS Naturals, FiniteSets

CONSTANTS SettingsContents,   \* records with run, allow and text; Absent, Unreadable, Malformed
          Texts,              \* the contents of the script and of the instruction file
          MaxEdits,           \* bound: edits of the repository
          MaxCommands         \* bound: commands

Absent == [is |-> "absent"]
Unreadable == [is |-> "unreadable"]
Malformed == [is |-> "malformed"]
Special == {Absent, Unreadable, Malformed}
Files == {"settings", "script", "claude"}

ASSUME LockAssumption ==
    /\ \A s \in SettingsContents \ Special : IsFiniteSet(s.allow)
    /\ Texts \cap Special = {}

Commands == {"lock", "check", "strict"}
Nothing == [whole |-> FALSE, entries |-> {}, hashes |-> {}]   \* no file, or an empty one: neither can be loaded

NoTargets == [entries |-> {}, files |-> {}]

VARIABLES tree,      \* the contents of the files
          lock,      \* .cfgaudit.lock
          command, pc,
          targets,   \* what buildTargets made of the files: entries and file names
          current,   \* what buildLock returned
          exit, diff,
          quiet,     \* nothing was edited since the command started
          seen,      \* the contents buildTargets and buildLock read
          accepted,  \* the same of the last lock that was written
          edits, commands
vars == <<tree, lock, command, pc, targets, current, exit, diff, quiet, seen, accepted, edits, commands>>

Trees == {t \in [Files -> SettingsContents \cup Texts \cup {Absent, Unreadable}] :
              t.settings \in SettingsContents /\ \A f \in {"script", "claude"} : t[f] \in Texts \cup {Absent, Unreadable}}

Init ==
    /\ tree \in {t \in Trees : \A f \in Files : t[f] # Unreadable}
    /\ lock = Nothing
    /\ command = "lock" /\ pc = "idle"
    /\ targets = NoTargets
    /\ current = Nothing
    /\ exit = 3 /\ diff = {}
    /\ quiet = TRUE
    /\ accepted = [targets |-> tree, hashes |-> tree]
    /\ seen = accepted
    /\ edits = 0 /\ commands = 0
-----------------------------------------------------------------------------
(* What the builders and TrustEntries find in the contents of a tree.        *)
Entry(kind, f, name, value) == [key |-> <<f, kind, name>>, value |-> value]
Launches(t) == t.settings \notin Special /\ t.settings.run

TrustEntries(t) ==
    (IF t.settings \in Special THEN {} ELSE {Entry("setting", "settings", "permissions.allow", a) : a \in t.settings.allow})
    \cup (IF Launches(t) THEN {Entry("command", "settings", "hook", "script")} ELSE {})
    \cup (IF Launches(t) /\ t.script \in Texts THEN {Entry("script", "script", "started by the hook", t.script.text)} ELSE {})
    \cup (IF t.claude \in Texts THEN {Entry("instructions", "claude", "instructions", "")} ELSE {})

(* A file that does not parse has a target of its own.                       *)
targetFiles(t) ==
    {f \in {"settings", "claude"} : t[f] \notin {Absent, Unreadable}}
    \cup {f \in {"script"} : Launches(t) /\ t.script \in Texts}

(* The script is only opened if a command starts it.                         *)
ReadErrors(t) == {f \in Files : t[f] = Unreadable /\ (f = "script" => Launches(t))}
-----------------------------------------------------------------------------
Start(c) ==
    /\ pc = "idle" /\ commands < MaxCommands
    /\ command' = c /\ pc' = "build" /\ commands' = commands + 1
    /\ exit' = 3 /\ diff' = {} /\ quiet' = TRUE
    /\ UNCHANGED <<tree, lock, targets, current, seen, accepted, edits>>

(* The variables of a command end with it.                                   *)
End(code, lines) ==
    pc' = "idle" /\ exit' = code /\ diff' = lines /\ targets' = NoTargets /\ current' = Nothing /\ seen' = accepted

BuildTargets ==
    /\ pc = "build"
    /\ IF ReadErrors(tree) # {} THEN End(2, {})
       ELSE /\ targets' = [entries |-> TrustEntries(tree), files |-> targetFiles(tree)]
            /\ seen' = [seen EXCEPT !.targets = tree]
            /\ pc' = "hash"
            /\ UNCHANGED <<current, exit, diff>>
    /\ UNCHANGED <<tree, lock, command, quiet, accepted, edits, commands>>

(* Each file is read again for its hash; one that cannot be read any more is *)
(* left out.                                                                 *)
BuildLock ==
    /\ pc = "hash"
    /\ current' = [whole |-> TRUE, entries |-> targets.entries,
                   hashes |-> {<<f, tree[f]>> : f \in {g \in targets.files : tree[g] \notin {Absent, Unreadable}}}]
    /\ seen' = [seen EXCEPT !.hashes = tree]
    /\ pc' = IF command = "lock" THEN "truncate" ELSE "compare"
    /\ UNCHANGED <<tree, lock, command, targets, exit, diff, quiet, accepted, edits, commands>>

(* os.WriteFile empties the file before it writes.                           *)
Truncate ==
    /\ pc = "truncate"
    /\ lock' = Nothing /\ pc' = "write"
    /\ UNCHANGED <<tree, command, targets, current, exit, diff, quiet, seen, accepted, edits, commands>>

WriteLock ==
    /\ pc = "write"
    /\ lock' = current /\ accepted' = seen
    /\ End(0, {})
    /\ UNCHANGED <<tree, command, quiet, edits, commands>>
-----------------------------------------------------------------------------
(* Mutant: a file without content is a lock without entries.                 *)
LoadsAnything == TRUE

Loads == lock.whole

Values(entries, k) == {e.value : e \in {x \in entries : x.key = k}}
Line(what, k, v) == [what |-> what, key |-> k, value |-> v]

(* Mutant: one value on each side is compared, more are only counted.        *)
KeyDiffCounted(before, after, k) ==
    IF Cardinality(before) = Cardinality(after) /\ Cardinality(after) > 1 THEN {}
    ELSE {Line("new", k, v) : v \in after \ before} \cup {Line("removed", k, v) : v \in before \ after}

(* A change if there is one value on each side, else what was added and what *)
(* was removed.  buildLock has each entry once, so minus is set difference.  *)
KeyDiff(before, after, k) ==
    IF Cardinality(before) = 1 /\ Cardinality(after) = 1
    THEN {Line("changed", k, v) : v \in after \ before}
    ELSE {Line("new", k, v) : v \in after \ before} \cup {Line("removed", k, v) : v \in before \ after}

EntryDiff(before, after) ==
    UNION {KeyDiff(Values(before, k), Values(after, k), k) : k \in {e.key : e \in before \cup after}}

FileDiff(before, after) ==
    {Line("file", <<h[1]>>, "new") : h \in {x \in after : \A y \in before : y[1] # x[1]}}
    \cup {Line("file", <<h[1]>>, "changed") : h \in {x \in after : \E y \in before : y[1] = x[1] /\ y[2] # x[2]}}
    \cup {Line("file", <<h[1]>>, "removed") : h \in {x \in before : \A y \in after : y[1] # x[1]}}

(* Mutant: the hashes count for every check.                                 *)
lockDiffAlwaysStrict(locked, now, strictHash) ==
    EntryDiff(locked.entries, now.entries) \cup FileDiff(locked.hashes, now.hashes)

lockDiff(locked, now, strictHash) ==
    EntryDiff(locked.entries, now.entries) \cup (IF strictHash THEN FileDiff(locked.hashes, now.hashes) ELSE {})

Compare ==
    /\ pc = "compare"
    /\ LET lines == lockDiff(lock, current, command = "strict")
       IN  IF ~Loads THEN End(2, {}) ELSE End(IF lines = {} THEN 0 ELSE 1, lines)
    /\ UNCHANGED <<tree, lock, command, quiet, accepted, edits, commands>>
-----------------------------------------------------------------------------
Kill ==
    /\ pc # "idle"
    /\ End(3, {})
    /\ UNCHANGED <<tree, lock, command, quiet, accepted, edits, commands>>

Edit ==
    /\ edits < MaxEdits /\ edits' = edits + 1
    /\ \E f \in Files, c \in SettingsContents \cup Texts \cup {Absent, Unreadable} :
           /\ tree[f] # c
           /\ tree' = [tree EXCEPT ![f] = c]
           /\ tree' \in Trees
    /\ quiet' = FALSE
    /\ UNCHANGED <<lock, command, pc, targets, current, exit, diff, seen, accepted, commands>>

Next == (\E c \in Commands : Start(c)) \/ BuildTargets \/ BuildLock \/ Truncate \/ WriteLock \/ Compare \/ Kill \/ Edit

Spec == Init /\ [][Next]_vars
-----------------------------------------------------------------------------
(* A check has just ended, and nothing was edited while it ran.              *)
Checked(codes) == pc = "idle" /\ quiet /\ command # "lock" /\ exit \in codes

(* CI passes only on what was there when the lock was written: the same      *)
(* trust entries and, with --strict-hash, the same content of every file,    *)
(* whatever was edited, killed or unreadable in between.                     *)
PassMeansAccepted ==
    Checked({0}) =>
        /\ TrustEntries(tree) = TrustEntries(accepted.targets)
        /\ command = "strict" => \A f \in targetFiles(tree) : tree[f] = accepted.hashes[f]

(* A check without --strict-hash fails on a trust change only: an edit of    *)
(* prose or formatting does not touch the lock.                              *)
ProseIsFree == Checked({1}) /\ command = "check" => TrustEntries(tree) # TrustEntries(accepted.targets)

(* A reviewer who reads the difference sees every entry that was added,      *)
(* removed or changed, not only that something was.                          *)
EveryChangeIsNamed ==
    Checked({0, 1}) =>
        LET now == TrustEntries(tree)
            was == TrustEntries(accepted.targets)
        IN  /\ \A e \in now \ was : \E l \in diff : l.key = e.key /\ l.value = e.value /\ l.what # "removed"
            /\ \A e \in was \ now : \E l \in diff : l.key = e.key /\ (l.what = "changed" \/ (l.what = "removed" /\ l.value = e.value))
=============================================================================
