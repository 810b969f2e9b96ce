---------------------------- MODULE ScanPipeline ----------------------------
(***************************************************************************)
(* run() in cmd/cfgaudit/main.go: the stages of a scan in the order they   *)
(* run, the records their reads leave behind (ScanRoot, and the list of    *)
(* files that did not parse), the two stages that turn those records into  *)
(* targets, and the end of the run, which reads what is left of them.      *)
(***************************************************************************)
EXTENDS ScanRoot

CONSTANTS
    OwnConfig,   \* the path of .cfgaudit.yml
    Reads        \* Reads[s]: the reads of stage s, as <<loader, path>>

\* What a caller of scanroot does with a file it cannot use.  "text" takes any
\* content, "optional" hands a file that does not parse to skipUnreadable, and
\* "parsed" returns the error.  "plugin" and "listed" read a file because a
\* directory lists it, so it is there: the first makes a target of one that
\* cannot be read or does not parse, the second returns the read's error.
Loaders == {"text", "optional", "parsed", "plugin", "listed"}

Stages == <<"config", "build", "unreadable", "policy", "packages", "escapes", "rules", "end", "over">>

ReadingStages == {"build", "policy", "packages", "rules"}

ASSUME ScanPipelineAssumption ==
    /\ OwnConfig \in Paths
    /\ Reads \in [ReadingStages -> Seq(Loaders \X Paths)]

VARIABLES
    malformed,   \* the files whose content does not parse
    stage,       \* index into Stages
    next,        \* index into the reads of the stage
    unreadable,  \* the files skipUnreadable collected
    targets,     \* the targets built so far: <<kind, path>>
    reported,    \* the paths the report names, by target or on stderr
    exit,        \* the exit code, "running" before there is one
    output       \* "none", "report" or "baseline"

runVars == <<tree, malformed, recorded, stage, next, unreadable, targets, reported, exit, output>>

Stage == Stages[stage]

RunInit ==
    /\ tree \in Trees
    /\ malformed \in SUBSET {p \in Paths : tree[p] \in {"file", "inside"}}
    /\ RecordsInit
    /\ stage = 1
    /\ next = 1
    /\ unreadable = {}
    /\ targets = {}
    /\ reported = {}
    /\ exit = "running"
    /\ output = "none"

NextStage == stage' = stage + 1 /\ next' = 1

\* run() returns 2 before anything is reported.
Stop ==
    /\ exit' = "2"
    /\ stage' = Len(Stages)
    /\ UNCHANGED <<next, output, reported>>

\* loadConfig: an unusable .cfgaudit.yml ends the run, an absent one does not.
LoadConfig ==
    /\ Stage = "config"
    /\ ReadOwnFile(OwnConfig)
    /\ IF \/ OwnFileAnswer(OwnConfig) = "error"
          \/ OwnFileAnswer(OwnConfig) = "data" /\ OwnConfig \in malformed
       THEN Stop
       ELSE NextStage /\ UNCHANGED <<reported, exit, output>>
    /\ UNCHANGED <<tree, malformed, unreadable, targets>>
-----------------------------------------------------------------------------
(* The stages that read.                                                   *)

\* Mutant: a file that does not parse reads like one that is not there.
SkipQuietly(p) == UNCHANGED unreadable

\* skipUnreadable.
SkipUnreadable(p) == unreadable' = IF IsDanglingLink(p) THEN unreadable ELSE unreadable \cup {p}

\* A directory that a loader lists shows the file.
Found(p) == tree[p] \notin {"none"} \cup Directories /\ \A d \in Ancestors(p) : tree[d] = "dir"

\* Two kinds of loader only ask for a file that a directory shows.
AsksFor(read) == read[1] \in {"plugin", "listed"} => Found(read[2])

\* What the loader made of the file at p.
Loaded(p) == Answer("ReadFile", CaseResolve(p)) = "data"
Parses(p) == CaseResolve(p) \notin malformed

\* The loader hands the error up to run(), which ends.
Fatal(loader, p) ==
    \/ loader = "listed" /\ ~ Loaded(p)
    \/ loader = "parsed" /\ Loaded(p) /\ ~ Parses(p)

\* unreadablePluginTarget: the target is made on the spot.
UnreadableNow(loader, p) ==
    loader = "plugin" /\ ~ (Loaded(p) /\ Parses(p)) /\ ~ IsDanglingLink(p)

\* What the loader leaves behind.
Load(loader, p) ==
    IF loader = "optional" /\ Loaded(p) /\ ~ Parses(p)
    THEN SkipUnreadable(p) /\ UNCHANGED targets
    ELSE /\ targets' = targets \cup
                (IF UnreadableNow(loader, p) THEN {<<"unreadable", p>>}
                 ELSE IF Loaded(p) THEN {<<"content", p>>} ELSE {})
         /\ UNCHANGED unreadable

\* The next read of the stage.
ReadNext ==
    /\ Stage \in ReadingStages
    /\ next <= Len(Reads[Stage])
    /\ LET loader == Reads[Stage][next][1]
           p      == Reads[Stage][next][2]
           asked  == AsksFor(Reads[Stage][next])
       IN  /\ IF asked THEN Call("ReadFile", p) ELSE UNCHANGED recorded
           /\ IF asked /\ Fatal(loader, p)
              THEN Stop /\ UNCHANGED <<unreadable, targets>>
              ELSE /\ IF asked THEN Load(loader, p) ELSE UNCHANGED <<unreadable, targets>>
                   /\ next' = next + 1
                   /\ UNCHANGED <<stage, reported, exit, output>>
    /\ UNCHANGED <<tree, malformed>>

\* gitTargets walks the repository for links at the end of buildTargets.
EndBuild ==
    /\ Stage = "build"
    /\ next > Len(Reads[Stage])
    /\ Walk(Tracked)
    /\ NextStage
    /\ UNCHANGED <<tree, malformed, unreadable, targets, reported, exit, output>>

EndReads ==
    /\ Stage \in {"policy", "packages", "rules"}
    /\ next > Len(Reads[Stage])
    /\ NextStage
    /\ UNCHANGED <<tree, malformed, recorded, unreadable, targets, reported, exit, output>>
-----------------------------------------------------------------------------
(* The stages that turn records into targets.                              *)

\* unreadableTargets, the last step of buildTargets: one for CFG109 per file.
UnreadableTargets ==
    /\ Stage = "unreadable"
    /\ targets' = targets \cup {<<"unreadable", p>> : p \in unreadable}
    /\ NextStage
    /\ UNCHANGED <<tree, malformed, recorded, unreadable, reported, exit, output>>

\* Mutant: any recorded link below covers, and any record is covered.
CoveredByAny(e) == \E f \in escapes : Below(e.path, f.path) \/ Below(f.path, e.path) \/ ~ e.walked

\* A link the walk found needs no target when a read went through it, since
\* the target of the file read names the link.
Covered(e) == e.walked /\ \E f \in escapes : ~ f.walked /\ Below(e.path, f.path)

\* escapedLinkTargets: one for CFG115 per recorded link.
EscapedLinkTargets ==
    /\ Stage = "escapes"
    /\ targets' = targets \cup {<<"escaped", e.path>> : e \in {f \in escapes : ~ Covered(f)}}
    /\ NextStage
    /\ UNCHANGED <<tree, malformed, recorded, unreadable, reported, exit, output>>
-----------------------------------------------------------------------------
(* The end of run().                                                       *)

\* cfg.ExitCode: whether a finding remains that fails the run is up to the
\* content; no-exit-codes forces 0.
ExitCodes == {"0", "1"}

\* Unreadable paths leave the result incomplete, whatever the config says.
ExitAfterReport == exit' \in IF failed # {} THEN {"2"} ELSE ExitCodes

Report ==
    /\ Stage = "end"
    /\ output' = "report"
    /\ reported' = {t[2] : t \in targets} \cup dangling \cup failed
    /\ ExitAfterReport
    /\ NextStage
    /\ UNCHANGED <<tree, malformed, recorded, unreadable, targets>>

\* Mutant: the baseline is written and the unreadable paths named after it.
WriteBaselineAnyway ==
    /\ Stage = "end"
    /\ output' = "baseline"
    /\ exit' = IF failed # {} THEN "2" ELSE "0"
    /\ reported' = failed
    /\ NextStage
    /\ UNCHANGED <<tree, malformed, recorded, unreadable, targets>>

\* --write-baseline writes nothing when a path could not be read.
WriteBaseline ==
    /\ Stage = "end"
    /\ IF failed # {}
       THEN output' = "none" /\ exit' = "2" /\ reported' = failed
       ELSE output' = "baseline" /\ exit' = "0" /\ UNCHANGED reported
    /\ NextStage
    /\ UNCHANGED <<tree, malformed, recorded, unreadable, targets>>

Over == Stage = "over" /\ UNCHANGED runVars

RunNext ==
    \/ LoadConfig \/ ReadNext \/ EndBuild \/ EndReads
    \/ UnreadableTargets \/ EscapedLinkTargets
    \/ Report \/ WriteBaseline \/ Over

RunSpec == RunInit /\ [][RunNext]_runVars
-----------------------------------------------------------------------------
\* The paths the stages look for.
Requested ==
    UNION {{Reads[s][i][2] : i \in {j \in DOMAIN Reads[s] : AsksFor(Reads[s][j])}} : s \in ReadingStages}

\* The report has what the repository holds at p, under either spelling.  A
\* file through a linked directory may be named by the link.
Named(p) ==
    Committed(CaseResolve(p)) =>
        \E q \in {p, CaseResolve(p)} \cup Ancestors(CaseResolve(p)) : q \in reported

\* "The file itself is still reported, by CFG109, so nothing goes quiet"
\* (skipUnreadable): a report covers every committed file the scan looked for,
\* with the content as a target, a target of its own, or by name on stderr.
NothingGoesQuiet == output = "report" => \A p \in Requested : Named(p)

\* The paths asked for early enough for their records to become targets: a
\* file that may not parse before unreadableTargets, any other one before
\* escapedLinkTargets.
InTime ==
    UNION {{Reads[s][i][2] : i \in {j \in DOMAIN Reads[s] :
                                      /\ AsksFor(Reads[s][j])
                                      /\ Reads[s][j][1] = "optional" => s = "build"}} :
           s \in {"build", "policy", "packages"}}

\* What is only asked for later, as attachPolicy asks for Kilo Code's files.
Late == {p \in Requested \ InTime : Committed(CaseResolve(p))}

\* An exit code of 0 or 1 and a written baseline both say the scan was
\* complete (#1043): no file it looked for exists and was not readable.
CompleteOrExit2 ==
    exit \in {"0", "1"} \/ output = "baseline" =>
        \A p \in Requested :
            /\ tree[CaseResolve(p)] \notin {"locked", "loop"}
            /\ \A d \in Ancestors(p) : tree[d] \notin {"closed", "loop"}

\* The paths that are asked for, under the spelling they are read by.
AskedItself == {OwnConfig} \cup {CaseResolve(p) : p \in Requested}

LinkReported(p) ==
    /\ \E t \in targets : t[1] = "escaped" /\ (t[2] = p \/ Below(p, t[2]))
    /\ p \notin AskedItself =>
          ~ (<<"escaped", p>> \in targets /\ \E t \in targets : t[1] = "escaped" /\ Below(p, t[2]))

\* Every committed link that leaves the repository is reported by CFG115
\* (#1417), itself or by a path read through it, and not both ways unless it
\* was also read as a file itself.
EveryLeavingLinkReported ==
    output = "report" => \A p \in Walked \cap Tracked : LinkLeaves(p) => LinkReported(p)
=============================================================================
