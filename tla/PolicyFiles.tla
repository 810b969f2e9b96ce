---------------------------- MODULE PolicyFiles ----------------------------
(***************************************************************************)
(* The commands that write a committed file: `cfgaudit policy apply` and   *)
(* `cfgaudit policy generate` (cmd/cfgaudit/policy.go), each a process     *)
(* that reads both deny lists and replaces one file with writeFileAtomic   *)
(* (cmd/cfgaudit/atomicwrite.go).  Processes run at the same time, fail at *)
(* any step, are killed, or go down with the machine.                      *)
(***************************************************************************)
CONSTANTS
    Procs,    \* the invocations of cfgaudit
    Command,  \* Command[p]: "apply" or "generate"
    Entries,  \* deny entries
    None,     \* no file under a name
    Torn      \* the content of a file that was not written out

Files == {"settings", "config"}

\* A file under a name is the one committed, or the temporary file of a process
\* that has been renamed over it.
Inodes == Files \cup Procs

\* 0o600 is the mode of a file that writeFileAtomic creates.
Modes == {"0600", "0644"}
NewFileMode == "0600"

ASSUME PolicyFilesAssumption ==
    /\ Command \in [Procs -> {"apply", "generate"}]
    /\ Files \cap Procs = {} /\ None \notin Inodes \cup Modes
    /\ \A list \in SUBSET Entries : Torn # list

VARIABLES
    entry,    \* entry[f]: the file under the name f
    durable,  \* durable[f]: the files the name may lead to after a power loss
    data,     \* data[i]: the deny list in the file i
    synced,   \* synced[i]: its content is on the disk
    mode,     \* mode[i]: its permission bits, None before there is a file i
    temps,    \* the processes whose temporary file is there
    pc,       \* the step each process is at
    wanted,   \* the entries it read to be merged
    base,     \* the list it read to merge them into
    keeps     \* the mode it keeps

vars == <<entry, durable, data, synced, mode, temps, pc, wanted, base, keeps>>

Source(p) == IF Command[p] = "apply" THEN "config" ELSE "settings"
Target(p) == IF Command[p] = "apply" THEN "settings" ELSE "config"

Running == {"target", "create", "write", "chmod", "sync", "rename"}
PCs == {"start", "ok", "error", "killed"} \cup Running

Init ==
    /\ entry \in {e \in [Files -> Files \cup {None}] : \A f \in Files : e[f] \in {f, None}}
    /\ durable = [f \in Files |-> {entry[f]}]
    /\ data \in {d \in [Inodes -> {Torn} \cup SUBSET Entries] :
                   \A i \in Inodes : d[i] = Torn <=> i \in Procs \/ entry[i] = None}
    /\ synced = [i \in Inodes |-> i \in Files]
    /\ mode \in {m \in [Inodes -> Modes \cup {None}] :
                   \A i \in Inodes : m[i] = None <=> i \in Procs \/ entry[i] = None}
    /\ temps = {}
    /\ pc = [p \in Procs |-> "start"]
    /\ wanted = [p \in Procs |-> {}]
    /\ base = [p \in Procs |-> {}]
    /\ keeps = [p \in Procs |-> NewFileMode]

At(p, step) == pc[p] = step
GoTo(p, step) == pc' = [pc EXCEPT ![p] = step]
Content(i) == IF i = None THEN {} ELSE data[i]
-----------------------------------------------------------------------------
(* The two reads of policyApply and policyGenerate.                        *)

\* The list to merge.  Without settings.json generate ends with an error, and
\* with nothing to merge both commands end well.
ReadRequired(p) ==
    /\ At(p, "start")
    /\ LET i == entry[Source(p)] IN
       IF Content(i) = Torn \/ (i = None /\ Command[p] = "generate")
       THEN GoTo(p, "error") /\ UNCHANGED wanted
       ELSE /\ wanted' = [wanted EXCEPT ![p] = Content(i)]
            /\ GoTo(p, IF Content(i) = {} THEN "ok" ELSE "target")
    /\ UNCHANGED <<entry, durable, data, synced, mode, temps, base, keeps>>

\* Mutant: the list is replaced, not added to.
ReadNoBase(p) ==
    /\ At(p, "target")
    /\ GoTo(p, IF wanted[p] \subseteq Content(entry[Target(p)]) THEN "ok" ELSE "create")
    /\ UNCHANGED <<entry, durable, data, synced, mode, temps, wanted, base, keeps>>

\* The list to merge into: nothing is written when it has every entry.
ReadTarget(p) ==
    /\ At(p, "target")
    /\ LET list == Content(entry[Target(p)]) IN
       IF list = Torn
       THEN GoTo(p, "error") /\ UNCHANGED base
       ELSE /\ base' = [base EXCEPT ![p] = list]
            /\ GoTo(p, IF wanted[p] \subseteq list THEN "ok" ELSE "create")
    /\ UNCHANGED <<entry, durable, data, synced, mode, temps, wanted, keeps>>
-----------------------------------------------------------------------------
(* writeFileAtomic.                                                        *)

\* Stat of the file to replace, and a temporary file beside it.
CreateTemp(p) ==
    /\ At(p, "create")
    /\ LET i == entry[Target(p)] IN
       keeps' = [keeps EXCEPT ![p] = IF i = None THEN NewFileMode ELSE mode[i]]
    /\ temps' = temps \cup {p}
    /\ mode' = [mode EXCEPT ![p] = NewFileMode]
    /\ GoTo(p, "write")
    /\ UNCHANGED <<entry, durable, data, synced, wanted, base>>

Write(p) ==
    /\ At(p, "write")
    /\ data' = [data EXCEPT ![p] = base[p] \cup wanted[p]]
    /\ GoTo(p, "chmod")
    /\ UNCHANGED <<entry, durable, synced, mode, temps, wanted, base, keeps>>

\* Mutant: the temporary file's own mode stays.
ChmodNothing(p) ==
    /\ At(p, "chmod")
    /\ GoTo(p, "sync")
    /\ UNCHANGED <<entry, durable, data, synced, mode, temps, wanted, base, keeps>>

Chmod(p) ==
    /\ At(p, "chmod")
    /\ mode' = [mode EXCEPT ![p] = keeps[p]]
    /\ GoTo(p, "sync")
    /\ UNCHANGED <<entry, durable, data, synced, temps, wanted, base, keeps>>

\* Mutant: the file is renamed before its content is on the disk.
SyncNothing(p) ==
    /\ At(p, "sync")
    /\ GoTo(p, "rename")
    /\ UNCHANGED <<entry, durable, data, synced, mode, temps, wanted, base, keeps>>

Sync(p) ==
    /\ At(p, "sync")
    /\ synced' = [synced EXCEPT ![p] = TRUE]
    /\ GoTo(p, "rename")
    /\ UNCHANGED <<entry, durable, data, mode, temps, wanted, base, keeps>>

\* The directory is not synced, so a power loss may undo the rename.
Rename(p) ==
    /\ At(p, "rename")
    /\ entry' = [entry EXCEPT ![Target(p)] = p]
    /\ durable' = [durable EXCEPT ![Target(p)] = @ \cup {p}]
    /\ temps' = temps \ {p}
    /\ GoTo(p, "ok")
    /\ UNCHANGED <<data, synced, mode, wanted, base, keeps>>
-----------------------------------------------------------------------------
(* Failures.                                                               *)

\* Mutant: the error of a step is not handed up.
IgnoreFailure(p) ==
    /\ pc[p] \in {"start"} \cup Running
    /\ temps' = temps \ {p}
    /\ GoTo(p, "ok")
    /\ UNCHANGED <<entry, durable, data, synced, mode, wanted, base, keeps>>

\* A read, or a step of the write: no such directory, no space left, not
\* permitted.  The deferred function removes the temporary file.
StepFails(p) ==
    /\ pc[p] \in {"start"} \cup Running
    /\ temps' = temps \ {p}
    /\ GoTo(p, "error")
    /\ UNCHANGED <<entry, durable, data, synced, mode, wanted, base, keeps>>

Kill(p) ==
    /\ pc[p] \in Running
    /\ GoTo(p, "killed")
    /\ UNCHANGED <<entry, durable, data, synced, mode, temps, wanted, base, keeps>>

\* Names may lead to an earlier file again, and content that was not synced may
\* be gone.  Processes are started again after it, with nothing known.
PowerLoss ==
    /\ entry' \in {e \in [Files -> Inodes \cup {None}] : \A f \in Files : e[f] \in durable[f]}
    /\ durable' = [f \in Files |-> {entry'[f]}]
    /\ \E lost \in SUBSET {i \in Inodes : ~ synced[i]} :
          data' = [i \in Inodes |-> IF i \in lost THEN Torn ELSE data[i]]
    /\ pc' = [p \in Procs |-> IF At(p, "start") THEN "start" ELSE "killed"]
    /\ UNCHANGED <<synced, mode, temps, wanted, base, keeps>>

Ended == (\A p \in Procs : pc[p] \in {"ok", "error", "killed"}) /\ UNCHANGED vars

Next ==
    \/ \E p \in Procs :
        \/ ReadRequired(p) \/ ReadTarget(p)
        \/ CreateTemp(p) \/ Write(p) \/ Chmod(p) \/ Sync(p) \/ Rename(p)
        \/ StepFails(p) \/ Kill(p)
    \/ PowerLoss \/ Ended

Spec == Init /\ [][Next]_vars
-----------------------------------------------------------------------------
TypeOK ==
    /\ entry \in [Files -> Inodes \cup {None}]
    /\ durable \in [Files -> SUBSET (Inodes \cup {None})]
    /\ data \in [Inodes -> {Torn} \cup SUBSET Entries]
    /\ synced \in [Inodes -> BOOLEAN]
    /\ mode \in [Inodes -> Modes \cup {None}]
    /\ temps \subseteq Procs
    /\ pc \in [Procs -> PCs]
    /\ wanted \in [Procs -> SUBSET Entries] /\ base \in [Procs -> SUBSET Entries]
    /\ keeps \in [Procs -> Modes]

\* "A reader sees either the old file or the new one, never a truncated mix"
\* (writeFileAtomic, #1052): not between any two steps of any process, and not
\* after a kill or a power loss.
WholeFiles == \A f \in Files : Content(entry[f]) # Torn

\* "A replaced file keeps its permission bits; a new one is 0o600", whoever
\* replaced it last and however many replaced it before.
ModeKept ==
    \A f \in Files : entry[f] # None =>
        mode[entry[f]] = IF mode[f] = None THEN NewFileMode ELSE mode[f]

\* A command that reported success has its entries in the file, whatever the
\* commands beside it write after it.
SuccessLasts == \A p \in Procs : At(p, "ok") => wanted[p] \subseteq Content(entry[Target(p)])

\* Together the processes do what PolicySync allows: although each reads first
\* and replaces the whole file later, every step a reader of the two lists sees
\* is a merge, and no entry is ever lost to a process that read too early.
Merging == INSTANCE PolicySync WITH
    settings <- Content(entry["settings"]),
    config   <- Content(entry["config"]),
    versions <- [f \in Files |-> {Content(i) : i \in durable[f]}]

ImplementsPolicySync == Merging!Spec
=============================================================================
