------------------------------ MODULE ScanRoot ------------------------------
(***************************************************************************)
(* internal/scanroot: every read of repository content, and the records it *)
(* keeps of what it would not or could not read.  A path is a sequence of  *)
(* names below the scanned directory; the committed tree gives each path a *)
(* kind of entry and does not change during a scan.                        *)
(***************************************************************************)
EXTENDS Naturals, Sequences, FiniteSets, SequencesExt

CONSTANTS
    Paths,    \* the paths that can be committed or looked for
    Fold,     \* Fold[n]: the case-insensitive form of the name n
    LinkText, \* LinkText[p]: the text of a link committed at p
    Tracked,  \* the paths in the git index, all of them without one
    KindsAt   \* KindsAt[p]: bound on the entries that are committed at p

VARIABLES
    tree,      \* tree[p]: the kind of entry committed at p
    escapes,   \* links recorded as leading outside: [path, link, walked]
    failed,    \* paths that exist but could not be read
    dangling,  \* links whose target does not exist
    aliases    \* <<asked for, committed>> for paths found in another spelling

recorded == <<escapes, failed, dangling, aliases>>

\* Entries: a directory without read permission can be entered, a closed one
\* not even that.  Links lead to a file inside, to something outside that
\* exists, to something missing named by a text that stays inside ("missing")
\* or leaves ("gone"), or to themselves.
Directories == {"dir", "unlistable", "closed"}
Links == {"inside", "outside", "missing", "gone", "loop"}
Kinds == {"none", "file", "locked"} \cup Directories \cup Links

Ancestors(p) == {SubSeq(p, 1, i) : i \in 1..(Len(p) - 1)}
Below(d, p) == d \in Ancestors(p)

ASSUME ScanRootAssumption ==
    /\ IsFiniteSet(Paths)
    /\ \A p \in Paths : p \in Seq(STRING) /\ p # <<>> /\ Ancestors(p) \subseteq Paths
    /\ Tracked \subseteq Paths
    /\ KindsAt \in [Paths -> SUBSET Kinds]

\* A tree has entries below directories only; what an outside link leads to
\* is not part of it.
TreeOK(t) == \A p \in Paths : t[p] # "none" => \A d \in Ancestors(p) : t[d] \in Directories

Trees == {t \in [Paths -> Kinds] : TreeOK(t) /\ \A p \in Paths : t[p] \in KindsAt[p]}

\* The repository has something to read at p: a file, or a link at p or on the
\* way to it.  Below a link to nothing there is nothing, and a directory is
\* not a file.
Committed(p) ==
    \/ tree[p] \in {"file", "locked"} \cup Links
    \/ \E d \in Ancestors(p) : tree[d] \in {"outside", "loop"}
-----------------------------------------------------------------------------
(* What the operating system answers.                                      *)

\* The first component on the way to p that cannot be walked through.
Obstacles(p) == {d \in Ancestors(p) : tree[d] \notin {"dir", "unlistable"}}
Obstacle(p) == CHOOSE d \in Obstacles(p) : \A e \in Obstacles(p) : Len(d) <= Len(e)

\* The entry os.Stat ends at, or why it fails.
Resolve(p) ==
    IF Obstacles(p) = {}
    THEN CASE tree[p] = "inside" -> "file"
           [] tree[p] \in {"missing", "gone", "none"} -> "absent"
           [] OTHER -> tree[p]
    ELSE LET kind == tree[Obstacle(p)] IN
         CASE kind = "closed" -> "denied"
           [] kind \in {"file", "locked", "inside"} -> "notdir"
           [] kind \in {"outside", "loop"} -> kind
           [] OTHER -> "absent"

\* os.Lstat succeeds: everything before p can be walked and p is there.
Lstat(p) ==
    \/ Obstacles(p) = {} /\ tree[p] # "none"
    \/ Obstacles(p) # {} /\ tree[Obstacle(p)] = "outside"

LstatAbsent(p) == ~ Lstat(p) /\ Resolve(p) = "absent"

\* blocker: what a failed read of p is recorded against.
Blocker(p) ==
    IF Lstat(p) THEN p
    ELSE CHOOSE d \in Ancestors(p) :
            Lstat(d) /\ \A e \in Ancestors(p) : Lstat(e) => Len(e) <= Len(d)

IsDanglingLink(p) == Lstat(p) /\ tree[p] \in Links /\ Resolve(p) = "absent"

\* The first link on the way, by whose text CFG115 names the escape.
FirstLink(p) ==
    LET links == {d \in Ancestors(p) \cup {p} : tree[d] \in Links}
    IN  LinkText[CHOOSE d \in links : \A e \in links : Len(d) <= Len(e)]

\* The names a directory lists; one that cannot be read lists none.
Listed(d) ==
    IF d = <<>> \/ Resolve(d) = "dir"
    THEN {p \in Paths : Len(p) = Len(d) + 1 /\ SubSeq(p, 1, Len(d)) = d /\ tree[p] # "none"}
    ELSE {}
-----------------------------------------------------------------------------
(* caseResolve.                                                            *)

NoPath == <<"">>

\* Mutant: the first of several other spellings is taken.
RespellAny(d, name) ==
    LET same == {p \in Listed(d) : Fold[Last(p)] = Fold[name]}
    IN  IF Append(d, name) \in Paths /\ Lstat(Append(d, name)) THEN Append(d, name)
        ELSE IF same # {} THEN CHOOSE p \in same : TRUE
        ELSE NoPath

\* One component: itself when it is there, else its one other spelling.
Respell(d, name) ==
    LET same == {p \in Listed(d) : Fold[Last(p)] = Fold[name]}
    IN  IF Append(d, name) \in Paths /\ Lstat(Append(d, name)) THEN Append(d, name)
        ELSE IF Cardinality(same) = 1 THEN CHOOSE p \in same : TRUE
        ELSE NoPath

ResolveComponents(p) ==
    LET upto[i \in 0..Len(p)] ==
          IF i = 0 THEN <<>>
          ELSE IF upto[i - 1] = NoPath THEN NoPath
          ELSE Respell(upto[i - 1], p[i])
    IN  upto[Len(p)]

CaseResolve(p) ==
    IF LstatAbsent(p) /\ ResolveComponents(p) # NoPath THEN ResolveComponents(p) ELSE p

RecordAlias(p) ==
    aliases' = aliases \cup (IF CaseResolve(p) # p THEN {<<p, CaseResolve(p)>>} ELSE {})

\* Mutant: only the first look at a link counts, and the walk may have been it.
CheckOnce(q) ==
    escapes' = IF /\ Resolve(q) = "outside"
                  /\ \A e \in escapes : e.path # q
               THEN escapes \cup {[path |-> q, link |-> FirstLink(q), walked |-> FALSE]}
               ELSE escapes

\* check: a path whose real location is outside is recorded; one the walk has
\* recorded before becomes a path a read was refused for.
Check(q) ==
    escapes' = IF Resolve(q) = "outside"
               THEN IF \E e \in escapes : e.path = q
                    THEN {IF e.path = q THEN [e EXCEPT !.walked = FALSE] ELSE e : e \in escapes}
                    ELSE escapes \cup {[path |-> q, link |-> FirstLink(q), walked |-> FALSE]}
               ELSE escapes

\* RecordLink, for a link whose text leaves (LinkLeaves).
LinkLeaves(p) == tree[p] \in {"outside", "gone"}

WalkedLinks(ps) ==
    {[path |-> p, link |-> LinkText[p], walked |-> TRUE] :
        p \in {q \in ps : LinkLeaves(q) /\ \A e \in escapes : e.path # q}}

\* absentOrRecorded, for an error other than absence.
RecordFailure(q) == failed' = failed \cup {Blocker(q)}

\* Mutant: a link to itself passes as a missing file.
NotReadButLoop(op, q) ==
    \/ Resolve(q) = "denied"
    \/ op \in {"ReadFile", "Open"} /\ Resolve(q) = "locked"
    \/ op = "ReadDir" /\ Resolve(q) \in {"locked", "unlistable", "closed"}

\* The system call fails with an error other than absence.
NotRead(op, q) ==
    \/ Resolve(q) \in {"denied", "loop"}
    \/ op \in {"ReadFile", "Open"} /\ Resolve(q) = "locked"
    \/ op = "ReadDir" /\ Resolve(q) \in {"locked", "unlistable", "closed"}

\* What the caller is handed: the content, or an error that means "absent".
Answer(op, q) ==
    IF \/ op \in {"ReadFile", "Open"} /\ Resolve(q) = "file"
       \/ op = "ReadDir" /\ Resolve(q) \in {"dir", "outside"}
       \/ op = "Stat" /\ Resolve(q) \in {"file", "locked", "outside"} \cup Directories
    THEN "data" ELSE "absent"

\* One call, from the path asked for to the answer.  ReadFile and Open check
\* the real location and treat a directory as absent before they open; only
\* ReadFile records a dangling link.
Call(op, p) ==
    LET q == CaseResolve(p) IN
    /\ RecordAlias(p)
    /\ IF op \in {"ReadFile", "Open"} THEN Check(q) ELSE UNCHANGED escapes
    /\ IF NotRead(op, q) THEN RecordFailure(q) ELSE UNCHANGED failed
    /\ dangling' = IF op = "ReadFile" /\ IsDanglingLink(q) THEN dangling \cup {q} ELSE dangling

\* ReadOwnFile: no other spelling, and an error comes back instead of being
\* recorded.
OwnFileAnswer(p) ==
    IF Resolve(p) = "file" THEN "data"
    ELSE IF NotRead("ReadFile", p) THEN "error" ELSE "absent"

ReadOwnFile(p) == Check(p) /\ UNCHANGED <<failed, dangling, aliases>>

\* WalkDir from the scanned directory, as gitTargets uses it: directories it
\* cannot list are recorded and skipped, and links are recorded by their text.
\* With a git index only the tracked ones are.
Walked == {p \in Paths : \A d \in Ancestors(p) : tree[d] = "dir"}

Walk(tracked) ==
    /\ failed' = failed \cup {p \in Walked : tree[p] \in {"unlistable", "closed"}}
    /\ escapes' = escapes \cup WalkedLinks(Walked \cap tracked)
    /\ UNCHANGED <<dangling, aliases>>

RecordsInit == escapes = {} /\ failed = {} /\ dangling = {} /\ aliases = {}
=============================================================================
