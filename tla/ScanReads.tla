----------------------------- MODULE ScanReads ------------------------------
(***************************************************************************)
(* Any caller of internal/scanroot: the reads of a scan in any order, over *)
(* any committed tree, up to a number of calls.                            *)
(***************************************************************************)
EXTENDS ScanRoot

CONSTANTS
    Asked,     \* the paths the callers look for
    MaxCalls   \* bound on the calls of a behaviour

ASSUME ScanReadsAssumption ==
    Asked \subseteq Paths /\ MaxCalls \in Nat

VARIABLES
    answers,  \* what each call came back with: <<operation, path, answer>>
    calls     \* number of calls so far

vars == <<tree, recorded, answers, calls>>

Operations == {"ReadFile", "Open", "ReadDir", "Stat"}

Init ==
    /\ tree \in Trees
    /\ RecordsInit
    /\ answers = {}
    /\ calls = 0

Read(op, p) ==
    /\ calls < MaxCalls
    /\ Call(op, p)
    /\ answers' = answers \cup {<<op, p, Answer(op, CaseResolve(p))>>}
    /\ calls' = calls + 1
    /\ UNCHANGED tree

WalkTree ==
    /\ calls < MaxCalls
    /\ Walk(Tracked)
    /\ calls' = calls + 1
    /\ UNCHANGED <<tree, answers>>

Next == WalkTree \/ \E op \in Operations, p \in Asked : Read(op, p)

Spec == Init /\ [][Next]_vars
-----------------------------------------------------------------------------
\* A file read as absent is explained in the report (package comment of
\* scanroot, #1043, #1363): what the repository has there was refused and is
\* recorded as escaping, could not be read and is recorded as failed, or is
\* recorded as a link to nothing.  The read found it under either spelling.
AbsenceExplained ==
    \A p \in Asked : <<"ReadFile", p, "absent">> \in answers /\ Committed(CaseResolve(p)) =>
        LET q == CaseResolve(p) IN
        \/ \E e \in escapes : e.path = q /\ ~ e.walked
        \/ \E f \in failed : f = q \/ Below(f, q)
        \/ q \in dangling

\* The records do not depend on whether the walk or a read came first: each
\* link is recorded once, and as a config path exactly if a read was refused
\* (check and RecordLink).
OrderIndependentEscapes ==
    /\ \A e, f \in escapes : e.path = f.path => e = f
    /\ \A e \in escapes :
          ~ e.walked <=> \E a \in answers :
                            /\ a[1] \in {"ReadFile", "Open"} /\ CaseResolve(a[2]) = e.path
                            /\ \E d \in Ancestors(e.path) \cup {e.path} : tree[d] = "outside"

\* A path is read under another spelling only if it is not there itself, and
\* no component had two spellings to choose from (caseResolve, #990).
AliasesUnambiguous ==
    \A a \in aliases :
        LET asked == a[1] found == a[2] IN
        /\ ~ Lstat(asked) /\ Lstat(found) /\ Len(asked) = Len(found)
        /\ \A i \in 1..Len(asked) : asked[i] # found[i] =>
              {p \in Paths : /\ tree[p] # "none" /\ Len(p) = i
                             /\ SubSeq(p, 1, i - 1) = SubSeq(found, 1, i - 1)
                             /\ Fold[p[i]] = Fold[asked[i]]}
                = {SubSeq(found, 1, i)}
=============================================================================
