--------------------------- MODULE RunRulesProofs ---------------------------
(***************************************************************************)
(* Proofs about runRules for any number of targets, any work and any       *)
(* GOMAXPROCS: the inductive invariant IInv and what follows from it.      *)
(***************************************************************************)
EXTENDS RunRules, FiniteSetTheorems, TLAPS

\* The goroutines that count in the WaitGroup.
Live == {t \in Targets : worker[t] \notin {"idle", "gone"}}

\* Those that wait for a shellcheck process.
Calling == {t \in Targets : worker[t] = "call"}

\* The channel holds one token per holder, plus the one the loop just sent.
TokensCounted ==
    sem = Cardinality(Holding) + (IF main = "spawn" THEN 1 ELSE 0)

\* The loop has started exactly the goroutines below next, and is past the
\* last target, with every goroutine gone, once it has collected the slots.
LoopProgress ==
    /\ main = "spawn" => next \in Targets
    /\ \A t \in Targets : worker[t] = "idle" <=> t >= next
    /\ wg = Cardinality(Live)
    /\ main \in {"check", "done"} => next = NumTargets + 1 /\ Live = {}

\* As long as nothing failed, every goroutine has the findings of all the
\* steps it has passed, and a stored slot is complete.
NothingSkipped ==
    /\ \A t \in Targets :
          /\ pos[t] <= Len(Work[t]) + 1
          /\ worker[t] \in {"call", "record"} => AtStep(t, "site")
          /\ failure = NoError => out[t] = [k \in 1..(pos[t] - 1) |-> <<t, k>>]
          /\ failure = NoError /\ worker[t] \in {"release", "signal", "gone"}
                => per[t] = [k \in 1..Len(Work[t]) |-> <<t, k>>]
    /\ failure # NoError
          => \E t \in Targets : \E k \in DOMAIN Work[t] : Work[t][k] = "site"

Reporting ==
    /\ main \in {"check", "done"} => all = FlattenSeq(per)
    /\ exit = "running" <=> main # "done"
    /\ exit = "reported" => failure = NoError
    /\ exit = "failed" => failure # NoError

\* After the first failure the calls still under way only get fewer.
LateBudget ==
    /\ IsFiniteSet(late)
    /\ failure = NoError => late = {}
    /\ failure # NoError => Cardinality(late) + Cardinality(Calling) <= GOMAXPROCS - 1

IInv ==
    /\ TypeOK
    /\ TokensCounted
    /\ LoopProgress
    /\ NothingSkipped
    /\ Reporting
    /\ LateBudget
-----------------------------------------------------------------------------
\* The sets of targets that the invariant counts are finite.
LEMMA TargetsFinite == ASSUME RunRulesAssumption PROVE IsFiniteSet(Targets)
BY FS_Interval DEF Targets, RunRulesAssumption

\* The length of the work of a target is a number.
LEMMA WorkLength ==
    ASSUME RunRulesAssumption, NEW t \in Targets
    PROVE  Len(Work[t]) \in Nat /\ DOMAIN Work[t] = 1..Len(Work[t])
BY DEF RunRulesAssumption, Targets

\* The sets counted above are sets of targets, hence finite.
LEMMA CountedSetsFinite ==
    ASSUME RunRulesAssumption
    PROVE  /\ IsFiniteSet(Holding) /\ Cardinality(Holding) \in Nat
           /\ IsFiniteSet(Live) /\ Cardinality(Live) \in Nat
           /\ IsFiniteSet(Calling) /\ Cardinality(Calling) \in Nat
<1>1. /\ Holding \subseteq Targets
      /\ Live \subseteq Targets
      /\ Calling \subseteq Targets
  BY DEF Holding, Live, Calling
<1> QED
  BY <1>1, TargetsFinite, FS_Subset, FS_CardinalityType

\* What the loop counter has passed, with n the last target.
LEMMA NextAbove ==
    ASSUME NEW m \in Nat, NEW n \in Nat, m > n, m <= n + 1
    PROVE  m - 1 = n
OBVIOUS

\* Adding an element to a finite set adds at most one to its size.
LEMMA AddAtMostOne ==
    ASSUME NEW S, IsFiniteSet(S), NEW x
    PROVE  /\ IsFiniteSet(S \cup {x})
           /\ Cardinality(S \cup {x}) \in Nat
           /\ Cardinality(S \cup {x}) <= Cardinality(S) + 1
<1>1. Cardinality(S) \in Nat
  BY FS_CardinalityType
<1>2. CASE x \in S
  <2>1. S \cup {x} = S
    BY <1>2
  <2>2. IsFiniteSet(S \cup {x}) /\ Cardinality(S \cup {x}) = Cardinality(S)
    BY <2>1, Zenon
  <2> QED
    BY <1>1, <2>2
<1>3. CASE x \notin S
  BY <1>1, <1>3, FS_AddElement
<1> QED
  BY <1>2, <1>3

\* Appending the next finding to the findings of all steps so far.
LEMMA PrefixGrows ==
    ASSUME NEW t, NEW n \in Nat \ {0}
    PROVE  Append([k \in 1..(n - 1) |-> <<t, k>>], <<t, n>>) = [k \in 1..n |-> <<t, k>>]
<1> DEFINE s == [k \in 1..(n - 1) |-> <<t, k>>]
           r == [k \in 1..n |-> <<t, k>>]
<1>1. s \in Seq({t} \X Nat) /\ Len(s) = n - 1
  OBVIOUS
<1>2. r \in Seq({t} \X Nat) /\ Len(r) = n
  OBVIOUS
<1>3. Append(s, <<t, n>>) \in Seq({t} \X Nat) /\ Len(Append(s, <<t, n>>)) = n
  BY <1>1
<1>4. \A i \in 1..n : Append(s, <<t, n>>)[i] = r[i]
  BY <1>1
<1> QED
  BY <1>2, <1>3, <1>4

\* The invariant holds before the loop of runRules starts.
LEMMA InitInv == ASSUME RunRulesAssumption, Init PROVE IInv
<1>1. Holding = {} /\ Live = {} /\ Calling = {}
  BY DEF Init, Holding, Live, Calling, Targets
<1>2. Cardinality({}) = 0 /\ IsFiniteSet({})
  BY FS_EmptySet
<1>3. TypeOK
  BY DEF Init, TypeOK, RunRulesAssumption, WorkerStates, Targets, Step
<1>4. TokensCounted /\ LateBudget
  BY <1>1, <1>2 DEF Init, TokensCounted, LateBudget
<1>5. LoopProgress
  BY <1>1, <1>2 DEF Init, LoopProgress, Targets
<1>6. NothingSkipped
  BY DEF Init, NothingSkipped, RunRulesAssumption, Targets
<1>7. Reporting
  BY DEF Init, Reporting
<1> QED
  BY <1>3, <1>4, <1>5, <1>6, <1>7 DEF IInv
-----------------------------------------------------------------------------
(* The steps of the loop.                                                  *)

\* Taking a token: one more is taken than goroutines hold.
LEMMA AcquireInv == ASSUME RunRulesAssumption, IInv, Acquire PROVE IInv'
<1>1. Holding' = Holding /\ Live' = Live /\ Calling' = Calling
  BY DEF Acquire, Holding, Live, Calling
<1>2. TypeOK'
  BY DEF Acquire, IInv, TypeOK, RunRulesAssumption
<1>3. TokensCounted'
  BY <1>1, CountedSetsFinite DEF Acquire, IInv, TokensCounted, TypeOK
<1>4. LoopProgress'
  BY <1>1 DEF Acquire, IInv, LoopProgress
<1>5. NothingSkipped'
  BY DEF Acquire, IInv, NothingSkipped, AtStep
<1>6. Reporting' /\ LateBudget'
  BY <1>1 DEF Acquire, IInv, Reporting, LateBudget
<1> QED
  BY <1>2, <1>3, <1>4, <1>5, <1>6 DEF IInv

\* Starting a goroutine: it holds the token the loop took.
LEMMA SpawnInv == ASSUME RunRulesAssumption, IInv, Spawn PROVE IInv'
<1>1. next \in Targets /\ worker[next] = "idle"
  BY DEF Spawn, IInv, LoopProgress, TypeOK, Targets
<1>2. /\ Holding' = Holding \cup {next} /\ next \notin Holding
      /\ Live' = Live \cup {next} /\ next \notin Live
      /\ Calling' = Calling
  BY <1>1 DEF Spawn, IInv, TypeOK, Holding, Live, Calling
<1>3. /\ Cardinality(Holding') = Cardinality(Holding) + 1
      /\ Cardinality(Live') = Cardinality(Live) + 1
  BY <1>2, CountedSetsFinite, FS_AddElement
<1>4. TypeOK'
  BY <1>1 DEF Spawn, IInv, TypeOK, RunRulesAssumption, WorkerStates, Targets
<1>5. TokensCounted'
  BY <1>3, CountedSetsFinite DEF Spawn, IInv, TokensCounted, TypeOK
<1>6. LoopProgress'
  BY <1>1, <1>3 DEF Spawn, IInv, LoopProgress, TypeOK, Targets
<1>7. NothingSkipped'
  BY <1>1 DEF Spawn, IInv, NothingSkipped, AtStep, TypeOK
<1>8. Reporting' /\ LateBudget'
  BY <1>2 DEF Spawn, IInv, Reporting, LateBudget
<1> QED
  BY <1>4, <1>5, <1>6, <1>7, <1>8 DEF IInv

\* Concatenating the slots, once no goroutine is left.
LEMMA CollectInv == ASSUME RunRulesAssumption, IInv, Collect PROVE IInv'
<1>1. Holding' = Holding /\ Live' = Live /\ Calling' = Calling
  BY DEF Collect, Holding, Live, Calling
<1>2. Live = {}
  BY CountedSetsFinite, FS_EmptySet DEF Collect, IInv, LoopProgress
<1>3. TypeOK'
  BY DEF Collect, IInv, TypeOK
<1>4. TokensCounted' /\ LateBudget'
  BY <1>1 DEF Collect, IInv, TokensCounted, LateBudget
<1>5. next = NumTargets + 1
  BY DEF Collect, IInv, TypeOK, Targets, RunRulesAssumption
<1>6. LoopProgress'
  BY <1>1, <1>2, <1>5 DEF Collect, IInv, LoopProgress
<1>7. NothingSkipped'
  BY DEF Collect, IInv, NothingSkipped, AtStep
<1>8. Reporting'
  BY DEF Collect, IInv, Reporting
<1> QED
  BY <1>3, <1>4, <1>6, <1>7, <1>8 DEF IInv

\* Ending the run by what the shared failure says.
LEMMA CheckFailureInv == ASSUME RunRulesAssumption, IInv, CheckFailure PROVE IInv'
<1>1. Holding' = Holding /\ Live' = Live /\ Calling' = Calling
  BY DEF CheckFailure, Holding, Live, Calling
<1>2. TypeOK'
  BY DEF CheckFailure, IInv, TypeOK
<1>3. TokensCounted' /\ LateBudget' /\ LoopProgress'
  BY <1>1 DEF CheckFailure, IInv, TokensCounted, LateBudget, LoopProgress
<1>4. NothingSkipped'
  BY DEF CheckFailure, IInv, NothingSkipped, AtStep
<1>5. Reporting'
  BY DEF CheckFailure, IInv, Reporting
<1> QED
  BY <1>2, <1>3, <1>4, <1>5 DEF IInv
-----------------------------------------------------------------------------
(* The steps of one goroutine.                                             *)

\* A rule appends its finding to those of all steps so far.
LEMMA RunRuleInv ==
    ASSUME RunRulesAssumption, IInv, NEW t \in Targets, RunRule(t) PROVE IInv'
<1>1. Holding' = Holding /\ Live' = Live /\ Calling' = Calling
  BY DEF RunRule, Holding, Live, Calling
<1>2. <<t, pos[t]>> \in Step /\ pos[t] \in DOMAIN Work[t]
  BY DEF RunRule, IInv, TypeOK, Step, AtStep
<1>3. TypeOK'
  BY <1>2 DEF RunRule, IInv, TypeOK
<1>4. TokensCounted' /\ LateBudget' /\ LoopProgress' /\ Reporting'
  BY <1>1 DEF RunRule, IInv, TokensCounted, LateBudget, LoopProgress, Reporting
<1>5. NothingSkipped'
  <2>1. ASSUME NEW u \in Targets
        PROVE  /\ pos'[u] <= Len(Work[u]) + 1
               /\ worker'[u] \in {"call", "record"} => AtStep(u, "site")'
               /\ failure' = NoError => out'[u] = [k \in 1..(pos'[u] - 1) |-> <<u, k>>]
               /\ failure' = NoError /\ worker'[u] \in {"release", "signal", "gone"}
                     => per'[u] = [k \in 1..Len(Work[u]) |-> <<u, k>>]
    <3>1. CASE u # t
      BY <3>1 DEF RunRule, IInv, NothingSkipped, AtStep, TypeOK
    <3>2. CASE u = t
      <4>1. pos[t] \in Nat \ {0} /\ pos'[t] = pos[t] + 1 /\ pos[t] <= Len(Work[t])
        BY <1>2 DEF RunRule, IInv, TypeOK, RunRulesAssumption, Targets
      <4>2. failure = NoError => out'[t] = [k \in 1..pos[t] |-> <<t, k>>]
        <5>1. failure = NoError => out[t] = [k \in 1..(pos[t] - 1) |-> <<t, k>>]
          BY DEF IInv, NothingSkipped
        <5>2. out'[t] = Append(out[t], <<t, pos[t]>>)
          BY DEF RunRule, IInv, TypeOK
        <5>3. Append([k \in 1..(pos[t] - 1) |-> <<t, k>>], <<t, pos[t]>>)
                = [k \in 1..pos[t] |-> <<t, k>>]
          BY <4>1, PrefixGrows
        <5> QED
          BY <5>1, <5>2, <5>3, Zenon
      <4>3. pos'[t] - 1 = pos[t] /\ pos'[t] <= Len(Work[t]) + 1
        BY <4>1 DEF RunRulesAssumption, Targets
      <4> QED
        BY <3>2, <4>2, <4>3 DEF RunRule, IInv, TypeOK
    <3> QED
      BY <3>1, <3>2
  <2> QED
    BY <2>1 DEF RunRule, IInv, NothingSkipped
<1> QED
  BY <1>3, <1>4, <1>5 DEF IInv

\* CFG045 either starts a call or skips its sites, with a failure on record.
LEMMA ProbeSiteInv ==
    ASSUME RunRulesAssumption, IInv, NEW t \in Targets, ProbeSite(t) PROVE IInv'
<1>1. CASE failure = NoError
  <2>1. Holding' = Holding /\ Live' = Live
    BY <1>1 DEF ProbeSite, IInv, TypeOK, Holding, Live
  <2>2. TypeOK'
    BY <1>1 DEF ProbeSite, IInv, TypeOK, WorkerStates
  <2>3. TokensCounted' /\ LoopProgress' /\ Reporting'
    BY <1>1, <2>1 DEF ProbeSite, IInv, TokensCounted, LoopProgress, Reporting, TypeOK
  <2>4. LateBudget'
    BY <1>1 DEF ProbeSite, IInv, LateBudget
  <2>5. NothingSkipped'
    BY <1>1 DEF ProbeSite, IInv, NothingSkipped, AtStep, TypeOK
  <2> QED
    BY <2>2, <2>3, <2>4, <2>5 DEF IInv
<1>2. CASE failure # NoError
  <2>1. PICK k \in pos[t]..(Len(Work[t]) + 1) : pos' = [pos EXCEPT ![t] = k]
    BY <1>2 DEF ProbeSite
  <2>2. worker' = worker
    BY <1>2 DEF ProbeSite
  <2>3. Holding' = Holding /\ Live' = Live /\ Calling' = Calling
    BY <2>2 DEF Holding, Live, Calling
  <2>4. k \in Nat \ {0} /\ k <= Len(Work[t]) + 1
    BY <2>1 DEF IInv, TypeOK, RunRulesAssumption, Targets
  <2>5. TypeOK'
    BY <2>1, <2>2, <2>4 DEF ProbeSite, IInv, TypeOK
  <2>6. TokensCounted' /\ LoopProgress' /\ Reporting' /\ LateBudget'
    BY <2>2, <2>3 DEF ProbeSite, IInv, TokensCounted, LoopProgress, Reporting, LateBudget
  <2>7. NothingSkipped'
    BY <1>2, <2>1, <2>2, <2>4 DEF ProbeSite, IInv, NothingSkipped, AtStep, TypeOK
  <2> QED
    BY <2>5, <2>6, <2>7 DEF IInv
<1> QED
  BY <1>1, <1>2

\* A call that ends leaves Calling and can only join late by doing so.
LEMMA CallEnds ==
    ASSUME RunRulesAssumption, IInv, NEW t \in Targets, worker[t] = "call",
           worker' = [worker EXCEPT ![t] = "run"]
              \/ worker' = [worker EXCEPT ![t] = "record"],
           late' = IF failure = NoError THEN late ELSE late \cup {<<t, pos[t]>>},
           failure' = failure
    PROVE  Holding' = Holding /\ Live' = Live /\ LateBudget'
<1>1. Holding' = Holding /\ Live' = Live
  BY DEF IInv, TypeOK, Holding, Live
<1>2. Calling' = Calling \ {t} /\ t \in Calling
  BY DEF IInv, TypeOK, Calling
<1>3. Cardinality(Calling') = Cardinality(Calling) - 1
  BY <1>2, CountedSetsFinite, FS_RemoveElement
<1>4. IsFiniteSet(late) /\ Cardinality(late) \in Nat
  BY FS_CardinalityType DEF IInv, LateBudget
<1>5. /\ IsFiniteSet(late \cup {<<t, pos[t]>>})
      /\ Cardinality(late \cup {<<t, pos[t]>>}) \in Nat
      /\ Cardinality(late \cup {<<t, pos[t]>>}) <= Cardinality(late) + 1
  BY <1>4, AddAtMostOne
<1>6. LateBudget'
  BY <1>3, <1>4, <1>5, CountedSetsFinite DEF IInv, LateBudget, RunRulesAssumption
<1> QED
  BY <1>1, <1>6

\* A call that succeeds appends the finding of its site.
LEMMA CallSucceedsInv ==
    ASSUME RunRulesAssumption, IInv, NEW t \in Targets, CallSucceeds(t) PROVE IInv'
<1>1. Holding' = Holding /\ Live' = Live /\ LateBudget'
  BY CallEnds DEF CallSucceeds
<1>2. <<t, pos[t]>> \in Step /\ pos[t] \in DOMAIN Work[t]
  BY DEF CallSucceeds, IInv, NothingSkipped, TypeOK, Step, AtStep
<1>3. TypeOK'
  BY <1>2 DEF CallSucceeds, IInv, TypeOK, WorkerStates
<1>4. TokensCounted' /\ LoopProgress' /\ Reporting'
  BY <1>1 DEF CallSucceeds, IInv, TokensCounted, LoopProgress, Reporting, TypeOK
<1>5. NothingSkipped'
  <2>1. ASSUME NEW u \in Targets
        PROVE  /\ pos'[u] <= Len(Work[u]) + 1
               /\ worker'[u] \in {"call", "record"} => AtStep(u, "site")'
               /\ failure' = NoError => out'[u] = [k \in 1..(pos'[u] - 1) |-> <<u, k>>]
               /\ failure' = NoError /\ worker'[u] \in {"release", "signal", "gone"}
                     => per'[u] = [k \in 1..Len(Work[u]) |-> <<u, k>>]
    <3>1. CASE u # t
      BY <3>1 DEF CallSucceeds, IInv, NothingSkipped, AtStep, TypeOK
    <3>2. CASE u = t
      <4>1. pos[t] \in Nat \ {0} /\ pos'[t] = pos[t] + 1 /\ pos[t] <= Len(Work[t])
        BY <1>2 DEF CallSucceeds, IInv, TypeOK, RunRulesAssumption, Targets
      <4>2. failure = NoError => out'[t] = [k \in 1..pos[t] |-> <<t, k>>]
        <5>1. failure = NoError => out[t] = [k \in 1..(pos[t] - 1) |-> <<t, k>>]
          BY DEF IInv, NothingSkipped
        <5>2. out'[t] = Append(out[t], <<t, pos[t]>>)
          BY DEF CallSucceeds, IInv, TypeOK
        <5>3. Append([k \in 1..(pos[t] - 1) |-> <<t, k>>], <<t, pos[t]>>)
                = [k \in 1..pos[t] |-> <<t, k>>]
          BY <4>1, PrefixGrows
        <5> QED
          BY <5>1, <5>2, <5>3, Zenon
      <4>3. pos'[t] - 1 = pos[t] /\ pos'[t] <= Len(Work[t]) + 1
        BY <4>1 DEF RunRulesAssumption, Targets
      <4> QED
        BY <3>2, <4>2, <4>3 DEF CallSucceeds, IInv, TypeOK
    <3> QED
      BY <3>1, <3>2
  <2> QED
    BY <2>1 DEF CallSucceeds, IInv, NothingSkipped
<1> QED
  BY <1>1, <1>3, <1>4, <1>5 DEF IInv

\* A call that fails leaves the finding out and goes on to record.
LEMMA CallFailsInv ==
    ASSUME RunRulesAssumption, IInv, NEW t \in Targets, CallFails(t) PROVE IInv'
<1>1. Holding' = Holding /\ Live' = Live /\ LateBudget'
  BY CallEnds DEF CallFails
<1>2. TypeOK'
  BY DEF CallFails, IInv, TypeOK, WorkerStates
<1>3. TokensCounted' /\ LoopProgress' /\ Reporting'
  BY <1>1 DEF CallFails, IInv, TokensCounted, LoopProgress, Reporting, TypeOK
<1>4. NothingSkipped'
  BY DEF CallFails, IInv, NothingSkipped, AtStep, TypeOK
<1> QED
  BY <1>1, <1>2, <1>3, <1>4 DEF IInv

\* Recording: no call that started without a failure starts after it.
LEMMA RecordFailureInv ==
    ASSUME RunRulesAssumption, IInv, NEW t \in Targets, RecordFailure(t) PROVE IInv'
<1>1. Holding' = Holding /\ Live' = Live /\ Calling' = Calling
  BY DEF RecordFailure, IInv, TypeOK, Holding, Live, Calling
<1>2. AtStep(t, "site") /\ <<t, pos[t]>> \in Step /\ <<t, pos[t]>> # NoError
  <2>1. AtStep(t, "site")
    BY DEF RecordFailure, IInv, NothingSkipped
  <2>2. <<t, pos[t]>> \in (1..NumTargets) \X Nat
    BY DEF IInv, TypeOK, Targets
  <2> QED
    BY <2>1, <2>2 DEF Step, Targets, RunRulesAssumption
<1>3. TypeOK'
  BY <1>2 DEF RecordFailure, IInv, TypeOK, WorkerStates
<1>4. TokensCounted' /\ LoopProgress'
  BY <1>1 DEF RecordFailure, IInv, TokensCounted, LoopProgress, TypeOK
<1>5. main \notin {"check", "done"}
  <2>1. t \in Live
    BY DEF RecordFailure, Live
  <2> QED
    BY <2>1 DEF IInv, LoopProgress
<1>6. Reporting'
  BY <1>5 DEF RecordFailure, IInv, Reporting, TypeOK
<1>7. failure' # NoError
  BY <1>2 DEF RecordFailure
<1>8. NothingSkipped'
  <2>1. pos[t] + 1 <= Len(Work[t]) + 1 /\ pos[t] \in Nat
    BY <1>2, WorkLength DEF AtStep, IInv, TypeOK
  <2>2. \A u \in Targets :
           /\ pos'[u] <= Len(Work[u]) + 1
           /\ worker'[u] \in {"call", "record"} => AtStep(u, "site")'
    BY <2>1 DEF RecordFailure, IInv, NothingSkipped, AtStep, TypeOK
  <2>3. \E u \in Targets : \E k \in DOMAIN Work[u] : Work[u][k] = "site"
    BY <1>2 DEF AtStep
  <2> QED
    BY <1>7, <2>2, <2>3 DEF NothingSkipped
<1>9. LateBudget'
  <2>1. CASE failure # NoError
    BY <1>1, <2>1 DEF RecordFailure, IInv, LateBudget
  <2>2. CASE failure = NoError
    <3>1. Calling \subseteq Holding \ {t} /\ t \in Holding
      BY DEF RecordFailure, Calling, Holding
    <3>2. Cardinality(Holding \ {t}) = Cardinality(Holding) - 1 /\ IsFiniteSet(Holding \ {t})
      BY <3>1, CountedSetsFinite, FS_RemoveElement
    <3>3. Cardinality(Calling) <= Cardinality(Holding) - 1
      BY <3>1, <3>2, FS_Subset
    <3>4. Cardinality(Holding) <= GOMAXPROCS
      BY CountedSetsFinite DEF IInv, TokensCounted, TypeOK, RunRulesAssumption
    <3>5. late' = {} /\ Cardinality({}) = 0
      BY <2>2, FS_EmptySet DEF RecordFailure, IInv, LateBudget
    <3> QED
      BY <1>1, <1>7, <3>3, <3>4, <3>5, CountedSetsFinite, FS_EmptySet
         DEF LateBudget, RunRulesAssumption
  <2> QED
    BY <2>1, <2>2
<1> QED
  BY <1>3, <1>4, <1>6, <1>8, <1>9 DEF IInv

\* The slot holds what rules.Run has appended.
LEMMA StoreResultInv ==
    ASSUME RunRulesAssumption, IInv, NEW t \in Targets, StoreResult(t) PROVE IInv'
<1>1. Holding' = Holding /\ Live' = Live /\ Calling' = Calling
  BY DEF StoreResult, IInv, TypeOK, Holding, Live, Calling
<1>2. TypeOK'
  BY DEF StoreResult, IInv, TypeOK, WorkerStates
<1>3. TokensCounted' /\ LoopProgress' /\ LateBudget'
  BY <1>1 DEF StoreResult, IInv, TokensCounted, LoopProgress, LateBudget, TypeOK
<1>4. main \notin {"check", "done"}
  <2>1. t \in Live
    BY DEF StoreResult, Live
  <2> QED
    BY <2>1 DEF IInv, LoopProgress
<1>5. Reporting'
  BY <1>4 DEF StoreResult, IInv, Reporting
<1>6. pos[t] - 1 = Len(Work[t])
  <2>1. pos[t] \in Nat /\ pos[t] <= Len(Work[t]) + 1
    BY DEF IInv, NothingSkipped, TypeOK
  <2>2. Len(Work[t]) \in Nat
    BY WorkLength
  <2>3. pos[t] > Len(Work[t])
    BY DEF StoreResult
  <2> QED
    BY <2>1, <2>2, <2>3, NextAbove
<1>7. failure = NoError => out[t] = [k \in 1..Len(Work[t]) |-> <<t, k>>]
  BY <1>6 DEF IInv, NothingSkipped
<1>8. NothingSkipped'
  BY <1>7 DEF StoreResult, IInv, NothingSkipped, AtStep, TypeOK
<1> QED
  BY <1>2, <1>3, <1>5, <1>8 DEF IInv

\* Giving the token back: the goroutine no longer counts as holding it.
LEMMA ReleaseSlotInv ==
    ASSUME RunRulesAssumption, IInv, NEW t \in Targets, ReleaseSlot(t) PROVE IInv'
<1>1. Holding' = Holding \ {t} /\ t \in Holding /\ Live' = Live /\ Calling' = Calling
  BY DEF ReleaseSlot, IInv, TypeOK, Holding, Live, Calling
<1>2. Cardinality(Holding') = Cardinality(Holding) - 1
  BY <1>1, CountedSetsFinite, FS_RemoveElement
<1>3. Cardinality(Holding) >= 1
  BY <1>1, <1>2, CountedSetsFinite, FS_RemoveElement, FS_CardinalityType
<1>a. sem \in Nat /\ sem >= 1 /\ sem <= GOMAXPROCS /\ GOMAXPROCS \in Nat
  BY <1>3, CountedSetsFinite DEF IInv, TypeOK, TokensCounted, RunRulesAssumption
<1>b. sem' \in 0..GOMAXPROCS
  BY <1>a DEF ReleaseSlot
<1>4. TypeOK'
  BY <1>b DEF ReleaseSlot, IInv, TypeOK, WorkerStates
<1>5. TokensCounted'
  <2>1. sem = Cardinality(Holding) + (IF main = "spawn" THEN 1 ELSE 0)
    BY DEF IInv, TokensCounted
  <2>2. sem' = sem - 1 /\ main' = main
    BY DEF ReleaseSlot
  <2>3. Cardinality(Holding) \in Nat
    BY CountedSetsFinite
  <2> QED
    BY <1>2, <2>1, <2>2, <2>3 DEF TokensCounted
<1>6. LoopProgress' /\ LateBudget' /\ Reporting'
  BY <1>1 DEF ReleaseSlot, IInv, LoopProgress, LateBudget, Reporting, TypeOK
<1>7. NothingSkipped'
  BY DEF ReleaseSlot, IInv, NothingSkipped, AtStep, TypeOK
<1> QED
  BY <1>4, <1>5, <1>6, <1>7 DEF IInv

\* The WaitGroup counts the goroutines that are left.
LEMMA SignalDoneInv ==
    ASSUME RunRulesAssumption, IInv, NEW t \in Targets, SignalDone(t) PROVE IInv'
<1>1. Live' = Live \ {t} /\ t \in Live /\ Holding' = Holding /\ Calling' = Calling
  BY DEF SignalDone, IInv, TypeOK, Holding, Live, Calling
<1>2. Cardinality(Live') = Cardinality(Live) - 1 /\ Cardinality(Live') \in Nat
  BY <1>1, CountedSetsFinite, FS_RemoveElement, FS_CardinalityType
<1>3. TypeOK'
  BY <1>2, CountedSetsFinite DEF SignalDone, IInv, TypeOK, LoopProgress, WorkerStates
<1>4. TokensCounted' /\ LateBudget' /\ Reporting'
  BY <1>1 DEF SignalDone, IInv, TokensCounted, LateBudget, Reporting
<1>5. LoopProgress'
  BY <1>1, <1>2, CountedSetsFinite DEF SignalDone, IInv, LoopProgress, TypeOK
<1>6. NothingSkipped'
  BY DEF SignalDone, IInv, NothingSkipped, AtStep, TypeOK
<1> QED
  BY <1>3, <1>4, <1>5, <1>6 DEF IInv
-----------------------------------------------------------------------------
\* Every step of the loop or of a goroutine preserves the invariant.
LEMMA NextInv == ASSUME RunRulesAssumption, IInv, [Next]_vars PROVE IInv'
<1>1. CASE Acquire
  BY <1>1, AcquireInv
<1>2. CASE Spawn
  BY <1>2, SpawnInv
<1>3. CASE Collect
  BY <1>3, CollectInv
<1>4. CASE CheckFailure
  BY <1>4, CheckFailureInv
<1>5. ASSUME NEW t \in Targets, WorkerStep(t) PROVE IInv'
  BY <1>5, RunRuleInv, ProbeSiteInv, CallSucceedsInv, CallFailsInv, RecordFailureInv,
     StoreResultInv, ReleaseSlotInv, SignalDoneInv DEF WorkerStep
<1>6. CASE UNCHANGED vars
  BY <1>6 DEF vars, IInv, TypeOK, TokensCounted, LoopProgress, NothingSkipped, Reporting,
     LateBudget, Holding, Live, Calling, AtStep
<1> QED
  BY <1>1, <1>2, <1>3, <1>4, <1>5, <1>6 DEF Next, MainStep, Terminated

\* The tokens, the WaitGroup, the findings and the shared failure stay
\* consistent with where each goroutine is (runRules, main.go).
THEOREM InductiveInvariant == ASSUME RunRulesAssumption PROVE Spec => []IInv
<1>1. Init => IInv
  BY InitInv
<1>2. IInv /\ [Next]_vars => IInv'
  BY NextInv
<1> QED
  BY <1>1, <1>2, PTL DEF Spec
-----------------------------------------------------------------------------
\* Every variable of runRules keeps its type; a token count within the
\* channel's capacity and a WaitGroup counter that is never negative among them.
THEOREM TypeCorrect == ASSUME RunRulesAssumption PROVE Spec => []TypeOK
<1>1. ASSUME IInv PROVE TypeOK
  BY <1>1 DEF IInv
<1> QED
  BY <1>1, InductiveInvariant, PTL

\* No schedule analyses more targets at once than the channel has room for
\* (runRules, main.go).
THEOREM OnePerCPU == ASSUME RunRulesAssumption PROVE Spec => []AtMostOnePerCPU
<1>1. IInv => AtMostOnePerCPU
  BY CountedSetsFinite
     DEF IInv, TokensCounted, TypeOK, AtMostOnePerCPU, RunRulesAssumption
<1> QED
  BY <1>1, InductiveInvariant, PTL

\* After the first shellcheck failure a scan waits for at most one more call
\* per remaining slot (CFG045.Check, rules/cfg045.go).
THEOREM LateCallsBounded == ASSUME RunRulesAssumption PROVE Spec => []FewLateCalls
<1>1. IInv => FewLateCalls
  <2> SUFFICES ASSUME IInv PROVE FewLateCalls
    OBVIOUS
  <2>1. CASE failure = NoError
    BY <2>1, FS_EmptySet DEF IInv, LateBudget, FewLateCalls, RunRulesAssumption
  <2>2. CASE failure # NoError
    <3>1. Cardinality(late) \in Nat
      BY FS_CardinalityType DEF IInv, LateBudget
    <3> QED
      BY <2>2, <3>1, CountedSetsFinite
         DEF IInv, LateBudget, FewLateCalls, RunRulesAssumption
  <2> QED
    BY <2>1, <2>2
<1> QED
  BY <1>1, InductiveInvariant, PTL

\* A complete set of slots holds what a sequential run finds.
LEMMA SlotsAreSequential ==
    ASSUME RunRulesAssumption, IInv, main = "check", failure = NoError
    PROVE  all = Sequential!SequentialFindings
<1>1. Live = {} /\ next = NumTargets + 1
  BY DEF IInv, LoopProgress
<1>2. \A t \in Targets : worker[t] = "gone"
  <2>1. \A t \in Targets : worker[t] # "idle"
    BY <1>1 DEF IInv, LoopProgress, Targets, RunRulesAssumption
  <2> QED
    BY <1>1, <2>1 DEF Live
<1>3. \A t \in Targets : per[t] = Sequential!TargetFindings(t)
  BY <1>2 DEF IInv, NothingSkipped, Sequential!TargetFindings
<1>4. per = [t \in Targets |-> Sequential!TargetFindings(t)]
  BY <1>3 DEF IInv, TypeOK
<1> QED
  <2>1. all = FlattenSeq(per)
    BY DEF IInv, Reporting
  <2>2. Sequential!SequentialFindings
          = FlattenSeq([t \in Targets |-> Sequential!TargetFindings(t)])
    BY DEF Sequential!SequentialFindings, Sequential!TargetIds, Targets,
           FlattenSeq, Sequential!FlattenSeq
  <2> QED
    BY <1>4, <2>1, <2>2, Zenon

\* Every behaviour of the goroutines shows a reader of the output a behaviour
\* of RuleScan: the sequential report, or an error and no report.
THEOREM RefinesSequentialScan ==
    ASSUME RunRulesAssumption PROVE Spec => ImplementsSequentialScan
<1>1. Init => Sequential!Init
  BY DEF Init, Sequential!Init
<1>2. ASSUME IInv, [Next]_vars
      PROVE  [Sequential!Next]_<<exit, IF exit = "reported" THEN all ELSE <<>> >>
  <2>1. CASE CheckFailure
    <3>1. CASE failure = NoError
      <4>1. all' = Sequential!SequentialFindings
        BY <1>2, <2>1, <3>1, SlotsAreSequential DEF CheckFailure
      <4>2. exit = "running" /\ exit' = "reported"
        BY <1>2, <2>1, <3>1 DEF CheckFailure, IInv, Reporting
      <4> QED
        BY <4>1, <4>2 DEF Sequential!Next, Sequential!Report
    <3>2. CASE failure # NoError
      <4>1. \E t \in Targets : \E k \in DOMAIN Work[t] : Work[t][k] = "site"
        BY <1>2, <3>2 DEF IInv, NothingSkipped
      <4> QED
        BY <1>2, <2>1, <3>2, <4>1
           DEF CheckFailure, IInv, Reporting, Sequential!Next, Sequential!Fail,
               Sequential!TargetIds, Targets
    <3> QED
      BY <3>1, <3>2
  <2>2. CASE Acquire \/ Spawn
    BY <2>2 DEF Acquire, Spawn
  <2>3. CASE Collect
    BY <1>2, <2>3 DEF Collect, IInv, Reporting
  <2>4. ASSUME NEW t \in Targets, WorkerStep(t) PROVE exit' = exit /\ all' = all
    BY <2>4 DEF WorkerStep, RunRule, ProbeSite, CallSucceeds, CallFails, RecordFailure,
       StoreResult, ReleaseSlot, SignalDone
  <2>5. CASE UNCHANGED vars
    BY <2>5 DEF vars
  <2> QED
    BY <1>2, <2>1, <2>2, <2>3, <2>4, <2>5 DEF Next, MainStep, Terminated
<1> QED
  BY <1>1, <1>2, InductiveInvariant, PTL
     DEF Spec, ImplementsSequentialScan, Sequential!Spec
=============================================================================
