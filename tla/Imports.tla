------------------------------ MODULE Imports ------------------------------
(***************************************************************************)
(* importTargets (cmd/cfgaudit/imports.go): the breadth-first walk over    *)
(* the @path imports of the project's Claude Code instruction files, which *)
(* gives every file Claude Code would load a target of its own.            *)
(***************************************************************************)
EXTENDS Naturals, Sequences, FiniteSets, SequencesExt

CONSTANTS
    Files,          \* paths inside the scanned directory
    Instructions,   \* the instruction files that already are targets
    Roots,          \* those of them whose imports Claude Code expands, in order
    Elsewhere,      \* an import path outside the scanned directory
    ImportsAt,      \* ImportsAt[f]: bound on the import lists of f
    MaxImportHops

ASSUME ImportsAssumption ==
    /\ Instructions \subseteq Files
    /\ Roots \in Seq(Instructions)
    /\ Elsewhere \notin Files
    /\ \A f \in Files : ImportsAt[f] \subseteq Seq(Files \cup {Elsewhere})
    /\ MaxImportHops \in Nat

VARIABLES
    imports,   \* imports[f]: the imports written in f, in order
    readable,  \* the files that exist and hold text
    seen,      \* files that are a target
    queue,     \* files whose imports are still to be followed: [file, chain]
    pos,       \* the import of the first file in queue that is next
    out,       \* the new targets: [file, chain]
    external   \* ExternalImports: <<file, position of the import in it>>

vars == <<imports, readable, seen, queue, pos, out, external>>

\* chain names the files from a root down, so it also counts the hops.
Item(chain) == [file |-> Last(chain), chain |-> chain]
Hops(item) == Len(item.chain) - 1

Init ==
    /\ imports \in {i \in [Files -> UNION {ImportsAt[f] : f \in Files}] :
                      \A f \in Files : i[f] \in ImportsAt[f]}
    /\ readable \in {r \in SUBSET Files : Instructions \subseteq r}
    /\ seen = Instructions
    /\ queue = [k \in 1..Len(Roots) |-> Item(<<Roots[k]>>)]
    /\ pos = 1
    /\ out = <<>>
    /\ external = {}
-----------------------------------------------------------------------------
Current == Head(queue)
AtImport == queue # <<>> /\ pos \in DOMAIN imports[Current.file]
Import == imports[Current.file][pos]

\* Mutant: the last hop that Claude Code follows is left out.
ExhaustedEarly(item) == Hops(item) + 1 >= MaxImportHops

Exhausted(item) == Hops(item) >= MaxImportHops

\* The head of the queue has no import left to follow.
Dequeue ==
    /\ queue # <<>>
    /\ Exhausted(Current) \/ ~ AtImport
    /\ queue' = Tail(queue)
    /\ pos' = 1
    /\ UNCHANGED <<imports, readable, seen, out, external>>

\* Mutant: only the project's own files get their external imports recorded.
RecordExternalOfRoot ==
    /\ AtImport /\ ~ Exhausted(Current)
    /\ Import = Elsewhere
    /\ external' = IF Current.file \in ToSet(Roots) THEN external \cup {<<Current.file, pos>>} ELSE external
    /\ pos' = pos + 1
    /\ UNCHANGED <<imports, readable, seen, queue, out>>

\* An import that resolves outside the directory is recorded, not read.
RecordExternal ==
    /\ AtImport /\ ~ Exhausted(Current)
    /\ Import = Elsewhere
    /\ external' = external \cup {<<Current.file, pos>>}
    /\ pos' = pos + 1
    /\ UNCHANGED <<imports, readable, seen, queue, out>>

\* A file that already is a target, is not there or is not text.
SkipImport ==
    /\ AtImport /\ ~ Exhausted(Current)
    /\ Import \in Files
    /\ Import \in seen \/ Import \notin readable
    /\ pos' = pos + 1
    /\ UNCHANGED <<imports, readable, seen, queue, out, external>>

\* Mutant: the file found last is followed first.
FollowDepthFirst ==
    /\ AtImport /\ ~ Exhausted(Current)
    /\ Import \in readable \ seen
    /\ LET item == Item(Append(Current.chain, Import))
       IN  queue' = <<Current, item>> \o Tail(queue) /\ out' = Append(out, item)
    /\ seen' = seen \cup {Import}
    /\ pos' = pos + 1
    /\ UNCHANGED <<imports, readable, external>>

\* Mutant: a file found twice becomes two targets.
FollowAgain ==
    /\ AtImport /\ ~ Exhausted(Current)
    /\ Import \in readable \ seen
    /\ LET item == Item(Append(Current.chain, Import))
       IN  queue' = Append(queue, item) /\ out' = Append(out, item)
    /\ pos' = pos + 1
    /\ UNCHANGED <<imports, readable, seen, external>>

\* Any other file becomes a target, and its own imports are queued.
Follow ==
    /\ AtImport /\ ~ Exhausted(Current)
    /\ Import \in readable \ seen
    /\ LET item == Item(Append(Current.chain, Import))
       IN  queue' = Append(queue, item) /\ out' = Append(out, item)
    /\ seen' = seen \cup {Import}
    /\ pos' = pos + 1
    /\ UNCHANGED <<imports, readable, external>>

Done == queue = <<>> /\ UNCHANGED vars

Next == Dequeue \/ RecordExternal \/ SkipImport \/ Follow \/ Done

Spec == Init /\ [][Next]_vars
-----------------------------------------------------------------------------
(* What Claude Code loads, level by level.                                 *)

Imported(f) == ToSet(imports[f])

\* The files of the set and, of the files they import, those that can be
\* loaded; only the files in through are expanded.
Hop(written, text, through, files) ==
    files \cup (text \cap UNION {ToSet(written[f]) : f \in files \cap through})

\* Levels(written, text, through)[n]: the files at most n hops from a root.
Levels(written, text, through) ==
    LET level[n \in 0..MaxImportHops] ==
          IF n = 0 THEN ToSet(Roots) ELSE Hop(written, text, through, level[n - 1])
    IN  level

Reach(through) == Levels(imports, readable, through)

\* A file that is a target for another reason is not expanded as an import.
Expanded == ToSet(Roots) \cup (Files \ Instructions)
Loaded == Reach(Expanded)[MaxImportHops]

Targets == Instructions \cup {item.file : item \in ToSet(out)}

Items == [file : Files, chain : Seq(Files) \ {<<>>}]

TypeOK ==
    /\ imports \in [Files -> Seq(Files \cup {Elsewhere})]
    /\ readable \subseteq Files
    /\ seen \subseteq Files
    /\ queue \in Seq(Items) /\ out \in Seq(Items)
    /\ pos \in Nat \ {0}
    /\ external \subseteq Files \X Nat

\* Cycles, diamonds and files imported from several roots end in one target
\* each, and never in a second target of an instruction file.
OneTargetPerFile ==
    /\ \A i, j \in DOMAIN out : out[i].file = out[j].file => i = j
    /\ \A i \in DOMAIN out : out[i].file \notin Instructions

\* "A file reachable by several chains is reported with the shortest one": no
\* target is found later, in hops, than Claude Code could load it.
ShortestChain ==
    \A item \in ToSet(out) :
        /\ Head(item.chain) \in ToSet(Roots)
        /\ \A k \in 1..Hops(item) : item.chain[k + 1] \in Imported(item.chain[k])
        /\ item.file \in Reach(Expanded)[Hops(item)]
        /\ item.file \notin Reach(Expanded)[Hops(item) - 1]

\* When the walk ends, exactly the files within the hops have a target.
NothingMissed == queue = <<>> => Targets = Instructions \cup Loaded

\* When it ends, CFG116 has every import that leaves the directory, of every
\* file whose imports Claude Code expands, and no other.
ExternalImportsComplete ==
    queue = <<>> =>
        external = UNION {{<<f, k>> : k \in {j \in DOMAIN imports[f] : imports[f][j] = Elsewhere}} :
                             f \in IF MaxImportHops = 0 THEN {}
                                   ELSE Expanded \cap Reach(Expanded)[MaxImportHops - 1]}
=============================================================================
