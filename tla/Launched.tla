------------------------------ MODULE Launched ------------------------------
(* attachLaunchedScripts (cmd/cfgaudit/launched.go) gives every script that  *)
(* a command or a Cline hook starts to one target, and follows the scripts   *)
(* one step to files beside them; skillHelperTargets (skillhelpers.go) then  *)
(* gives the files that ship with a skill to its target.                     *)
EXTENDS Naturals, Sequences, SequencesExt

CONSTANTS Paths,        \* files of the repository
          Dir,          \* Dir[p]: the names of the directories above p
          Ext,          \* Ext[p]: "shell", "code", "md", "SKILL" (SKILL.md itself) or "none"
          Trees,        \* what the files may hold, see Text
          TargetLists,  \* what buildTargets may have made
          PackageLists, \* the targets buildPluginTargets and rootSkillTargets may add
          None

Absent == [is |-> "absent"]                   \* missing, not readable or not text
Text == [size : {"small", "long", "large"},   \* up to 1 MiB, up to 4 MB, more: its two ends
         runs : BOOLEAN,                      \* it starts another process
         names : Seq(Paths),                  \* the files of its directory it names
         foreign : BOOLEAN]                   \* its first line names an interpreter other than a shell
Command == [file : Paths, path : Paths]       \* a configuration file, and a script its command starts
Target == [commands : Seq(Command), hooks : Seq(Paths), instruction : Paths \cup {None}]
Stages == {"commands", "hooks", "siblings", "skills", "done"}

ASSUME LaunchedAssumption ==
    /\ None \notin Paths
    /\ Absent \notin Text
    /\ Trees \subseteq [Paths -> Text \cup {Absent}]
    /\ TargetLists \subseteq Seq(Target) /\ PackageLists \subseteq Seq(Target)

VARIABLES content, targets, packages,   \* the repository; they never change
          stage, at,                    \* the loop that runs, and its counters
          byPath,                       \* the scripts: owner, launchers, via
          order,                        \* their paths as they were added
          direct,                       \* how many there were before the siblings
          shipped,                      \* <<t, p>>: target t got the script p of its skill
          helpers                       \* Markdown files that became targets
vars == <<content, targets, packages, stage, at, byPath, order, direct, shipped, helpers>>
repository == <<content, targets, packages>>

Init ==
    /\ content \in Trees /\ targets \in TargetLists /\ packages \in PackageLists
    /\ stage = "commands" /\ at = <<1, 1>>
    /\ byPath = << >> /\ order = << >> /\ direct = 0
    /\ shipped = {} /\ helpers = {}
-----------------------------------------------------------------------------
Readable(p) == content[p] # Absent
Entry(owner, launchers, via) == [owner |-> owner, launchers |-> launchers, via |-> via]

\* Mutant: a script that is known already keeps the launcher it came with.
addFirstLauncher(owner, p, launchers, via) ==
    [q \in DOMAIN byPath \cup {r \in {p} : Readable(r)} |->
        IF q \in DOMAIN byPath THEN byPath[q] ELSE Entry(owner, launchers, via)]

(* A new script is read; one that is known gets one more launcher.           *)
add(owner, p, launchers, via) ==
    [q \in DOMAIN byPath \cup {r \in {p} : Readable(r)} |->
        IF q \notin DOMAIN byPath THEN Entry(owner, launchers, via)
        ELSE IF q = p THEN [byPath[q] EXCEPT !.launchers = @ \cup launchers]
        ELSE byPath[q]]

Appended(p) == IF p \notin DOMAIN byPath /\ Readable(p) THEN Append(order, p) ELSE order

\* Mutant: the loop runs over order itself, which grows while it does.
RoundsGrowing == IF stage = "siblings" THEN Len(order) ELSE Len(targets)

(* Loops over the targets, and over a copy of order.                         *)
Rounds == IF stage = "siblings" THEN direct ELSE Len(targets)

(* The items of the loop's current round.                                    *)
Round == CASE stage = "commands" -> targets[at[1]].commands
           [] stage = "hooks" -> targets[at[1]].hooks
           [] stage = "siblings" -> IF content[order[at[1]]].runs THEN content[order[at[1]]].names ELSE << >>
Item == Round[at[2]]
HasItem == at[1] <= Rounds /\ at[2] \in DOMAIN Round
NextItem == at' = <<at[1], at[2] + 1>>

StartCommand ==
    /\ stage = "commands" /\ HasItem
    /\ byPath' = add(at[1], Item.path, {Item.file}, None)
    /\ order' = Appended(Item.path)
    /\ NextItem
    /\ UNCHANGED <<repository, stage, direct, shipped, helpers>>

\* Mutant: the hook's own target takes over a script that is known already.
StartHookOver ==
    /\ stage = "hooks" /\ HasItem
    /\ byPath' = LET b == add(at[1], Item, {Item}, None) IN
                 IF Item \in DOMAIN b THEN [b EXCEPT ![Item].owner = at[1]] ELSE b
    /\ order' = Appended(Item)
    /\ NextItem
    /\ UNCHANGED <<repository, stage, direct, shipped, helpers>>

(* A hook of Cline is started by being there: it is its own launcher.        *)
StartHook ==
    /\ stage = "hooks" /\ HasItem
    /\ byPath' = add(at[1], Item, {Item}, None)
    /\ order' = Appended(Item)
    /\ NextItem
    /\ UNCHANGED <<repository, stage, direct, shipped, helpers>>

(* A sibling has the launchers of the script that was the first to name it.  *)
FollowSibling ==
    /\ stage = "siblings" /\ HasItem
    /\ LET rel == order[at[1]]
           b == add(byPath[rel].owner, Item, {}, rel) IN
       /\ byPath' = IF Item # rel /\ Item \in DOMAIN b /\ b[Item].via = rel
                    THEN [b EXCEPT ![Item].launchers = @ \cup byPath[rel].launchers]
                    ELSE IF Item = rel THEN byPath ELSE b
       /\ order' = IF Item = rel THEN order ELSE Appended(Item)
    /\ NextItem
    /\ UNCHANGED <<repository, stage, direct, shipped, helpers>>

NextRound ==
    /\ stage \in {"commands", "hooks", "siblings"}
    /\ at[1] <= Rounds /\ ~ HasItem
    /\ at' = <<at[1] + 1, 1>>
    /\ UNCHANGED <<repository, stage, byPath, order, direct, shipped, helpers>>

HooksNext ==
    /\ stage = "commands" /\ at[1] > Rounds
    /\ stage' = "hooks" /\ at' = <<1, 1>>
    /\ UNCHANGED <<repository, byPath, order, direct, shipped, helpers>>

SiblingsNext ==
    /\ stage = "hooks" /\ at[1] > Rounds
    /\ stage' = "siblings" /\ at' = <<1, 1>>
    /\ direct' = Len(order)
    /\ UNCHANGED <<repository, byPath, order, shipped, helpers>>

SkillsNext ==
    /\ stage = "siblings" /\ at[1] > Rounds
    /\ stage' = "skills" /\ at' = <<1, 1>>
    /\ UNCHANGED <<repository, byPath, order, direct, shipped, helpers>>
-----------------------------------------------------------------------------
(* Package targets come after all that; one that only carries an instruction *)
(* file that is read already is dropped.                                     *)
AllTargets == targets \o packages
InstructionsOf(ts) == {ts[k].instruction : k \in DOMAIN ts} \ {None}
InstructionFiles == InstructionsOf(AllTargets)
Dropped(k) ==
    k > Len(targets) /\ AllTargets[k].commands = << >> /\ AllTargets[k].instruction \in InstructionsOf(targets)
SkillTarget(t) == t.instruction # None /\ Ext[t.instruction] = "SKILL"

(* The walk below a skill's directory leaves out other skills; a SKILL.md    *)
(* that Stat finds but that cannot be read counts as absent here.            *)
HasSkill(dir) == \E p \in Paths : Ext[p] = "SKILL" /\ Dir[p] = dir /\ Readable(p)
InSkill(p, dir) ==
    /\ IsPrefix(dir, Dir[p])
    /\ \A n \in Len(dir) + 1..Len(Dir[p]) :
          Dir[p][n] \notin {".git", "node_modules"} /\ ~ HasSkill(SubSeq(Dir[p], 1, n))
Ships(t, p) ==
    /\ SkillTarget(t) /\ InSkill(p, Dir[t.instruction])
    /\ Ext[p] \in {"md", "shell", "code"}
    /\ Readable(p) /\ content[p].size = "small"

\* Mutant: what the commands start is not known here.
KnownFiles == InstructionFiles \cup {s[2] : s \in shipped} \cup helpers

(* What is read already, or was given by this walk.                          *)
Known == InstructionFiles \cup DOMAIN byPath \cup {s[2] : s \in shipped} \cup helpers

Found(k) == {p \in Paths : ~ Dropped(k) /\ Ships(AllTargets[k], p) /\ p \notin Known}

ShipSkill ==
    /\ stage = "skills" /\ at[1] <= Len(AllTargets)
    /\ LET found == Found(at[1])
           md == {p \in found : Ext[p] = "md"} IN
       /\ helpers' = helpers \cup md
       /\ shipped' = shipped \cup {<<at[1], p>> : p \in found \ md}
    /\ at' = <<at[1] + 1, 1>>
    /\ UNCHANGED <<repository, stage, byPath, order, direct>>

Finish ==
    /\ stage = "skills" /\ at[1] > Len(AllTargets)
    /\ stage' = "done" /\ at' = <<1, 1>>
    /\ UNCHANGED <<repository, byPath, order, direct, shipped, helpers>>

Done == stage = "done" /\ UNCHANGED vars

Next == \/ StartCommand \/ StartHook \/ FollowSibling \/ NextRound
        \/ HooksNext \/ SiblingsNext \/ SkillsNext
        \/ ShipSkill \/ Finish \/ Done

Spec == Init /\ [][Next]_vars
-----------------------------------------------------------------------------
(* Who starts a script, whatever the order of the loops.                     *)
Starters(p) == {t \in DOMAIN targets : \E j \in DOMAIN targets[t].commands : targets[t].commands[j].path = p}
Hookers(p) == {t \in DOMAIN targets : \E j \in DOMAIN targets[t].hooks : targets[t].hooks[j] = p}
First(T) == {t \in T : \A u \in T : t <= u}
Started(p) == Readable(p) /\ Starters(p) \cup Hookers(p) # {}
StartFiles(p) ==
    {f \in Paths : \E t \in DOMAIN targets : \E j \in DOMAIN targets[t].commands : targets[t].commands[j] = [file |-> f, path |-> p]}
    \cup (IF Hookers(p) # {} THEN {p} ELSE {})
Names(q, p) == Started(q) /\ content[q].runs /\ (\E j \in DOMAIN content[q].names : content[q].names[j] = p) /\ p # q

(* What the rules make of a script.                                          *)
Shell(p) ==
    \/ Ext[p] = "shell"
    \/ Ext[p] = "none" /\ ~ content[p].foreign /\ Hookers(p) # {}
LinesRead(p) ==                \* by the rules for commands, at full severity
    p \in DOMAIN byPath /\ byPath[p].via = None /\ content[p].size # "large" /\ Shell(p)
Capped(p) == \E s \in shipped : s[2] = p   \* at most a warning
-----------------------------------------------------------------------------
TypeOK ==
    /\ content \in Trees /\ targets \in TargetLists /\ packages \in PackageLists
    /\ stage \in Stages /\ at \in (Nat \ {0}) \X (Nat \ {0})
    /\ DOMAIN byPath \subseteq Paths
    /\ \A p \in DOMAIN byPath :
          byPath[p] \in [owner : DOMAIN targets, launchers : SUBSET Paths, via : Paths \cup {None}]
    /\ order \in Seq(DOMAIN byPath) /\ direct \in 0..Len(order)
    /\ shipped \subseteq (Nat \ {0}) \X Paths /\ helpers \subseteq Paths

(* The first target with a command that starts a script owns it, or else the *)
(* first with the hook; no launcher beside it that also names it, and no     *)
(* skill that ships it, takes its lines from the rules or caps a finding.    *)
StartedScriptsReadInFull ==
    stage = "done" => \A p \in Paths : Started(p) =>
        /\ p \in DOMAIN byPath
        /\ byPath[p].owner \in First(IF Starters(p) # {} THEN Starters(p) ELSE Hookers(p))
        /\ ~ Capped(p)
        /\ Shell(p) /\ content[p].size # "large" => LinesRead(p)

(* CFG119 counts the tools that start a script: each configuration file whose*)
(* commands do is a launcher, in whatever order the targets are, and a file  *)
(* a script runs has those of that script.                                   *)
LaunchersAreStarters ==
    stage = "done" => \A p \in DOMAIN byPath :
        byPath[p].launchers = StartFiles(IF byPath[p].via = None THEN p ELSE byPath[p].via)

(* A file beside a started script that runs it is read as well, and nothing  *)
(* is followed further: no chain of scripts makes the scan read on.          *)
OneStepFurther ==
    stage = "done" => \A p \in Paths :
        /\ p \in DOMAIN byPath <=> Readable(p) /\ (Started(p) \/ \E q \in Paths : Names(q, p))
        /\ p \in DOMAIN byPath /\ byPath[p].via # None => Names(byPath[p].via, p)

(* A file that ships with a skill, and that is not read already, is given to *)
(* one target, however many skills or packages lead to it.                   *)
GivenTo(p) == {s \in shipped : s[2] = p} \cup {<<"helper", q>> : q \in helpers \cap {p}}
EverySkillFileReadOnce ==
    stage = "done" => \A k \in DOMAIN AllTargets : \A p \in Paths :
        ~ Dropped(k) /\ Ships(AllTargets[k], p) =>
            IF p \in DOMAIN byPath \cup InstructionFiles THEN GivenTo(p) = {}
            ELSE \E g \in GivenTo(p) : GivenTo(p) = {g}
=============================================================================
