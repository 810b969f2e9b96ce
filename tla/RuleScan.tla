------------------------------ MODULE RuleScan ------------------------------
(***************************************************************************)
(* What runRules and the --shellcheck check after it promise together: the *)
(* run either reports exactly the findings a sequential run over the       *)
(* targets would produce, in target order, or it reports nothing and ends  *)
(* with an error.  Nothing in between is ever visible.                     *)
(***************************************************************************)
EXTENDS Naturals, Sequences, SequencesExt

CONSTANTS
    NumTargets,  \* targets of the scan, numbered in the order they were built
    Work         \* Work[t][k]: step k of rules.Run on target t, "rule" or "site"

VARIABLES exit, report

TargetIds == 1..NumTargets

\* What the analysis of one target adds when every step of it succeeds.
TargetFindings(t) == [k \in 1..Len(Work[t]) |-> <<t, k>>]

SequentialFindings == FlattenSeq([t \in TargetIds |-> TargetFindings(t)])

Init == exit = "running" /\ report = <<>>

Report ==
    /\ exit = "running"
    /\ exit' = "reported"
    /\ report' = SequentialFindings

\* Only a shellcheck call can fail, so a scan without command sites cannot.
Fail ==
    /\ exit = "running"
    /\ \E t \in TargetIds : \E k \in DOMAIN Work[t] : Work[t][k] = "site"
    /\ exit' = "failed"
    /\ UNCHANGED report

Next == Report \/ Fail

Spec == Init /\ [][Next]_<<exit, report>>
=============================================================================
