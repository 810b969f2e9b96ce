------------------------------ MODULE RunRules ------------------------------
(***************************************************************************)
(* runRules (cmd/cfgaudit/main.go), the goroutines it starts, and the one  *)
(* piece of state those goroutines share: the first shellcheck failure     *)
(* (rules/cfg045.go).  A rule other than CFG045 is one step that appends   *)
(* its findings; CFG045 is one step per command site, each of which reads  *)
(* the failure, starts shellcheck, and records a failure of its own.       *)
(***************************************************************************)
EXTENDS Naturals, Sequences, FiniteSets, SequencesExt

CONSTANTS
    NumTargets,  \* number of targets
    Work,        \* Work[t][k]: step k of rules.Run on target t, "rule" or "site"
    GOMAXPROCS,  \* capacity of the semaphore channel
    NoError      \* the nil error

ASSUME RunRulesAssumption ==
    /\ NumTargets \in Nat
    /\ Work \in [1..NumTargets -> Seq({"rule", "site"})]
    /\ GOMAXPROCS \in Nat \ {0}
    /\ NoError \notin (1..NumTargets) \X Nat

VARIABLES
    main,     \* where the goroutine of run() is
    next,     \* the target the loop of runRules is at
    sem,      \* tokens in the semaphore channel
    wg,       \* the WaitGroup counter
    worker,   \* where the goroutine of each target is
    pos,      \* the step of rules.Run each goroutine is at
    out,      \* findings each rules.Run has appended so far
    per,      \* the result slots
    failure,  \* shellcheckFailure.err
    all,      \* what runRules returned
    exit,     \* how the run ended
    late      \* history: shellcheck calls waited out after a failure was recorded

vars == <<main, next, sem, wg, worker, pos, out, per, failure, all, exit, late>>

Targets == 1..NumTargets

WorkerStates == {"idle", "run", "call", "record", "release", "signal", "gone"}

\* A finding is identified by the step that produced it.
Step == Targets \X Nat

Init ==
    /\ main = "acquire"
    /\ next = 1
    /\ sem = 0
    /\ wg = 0
    /\ worker = [t \in Targets |-> "idle"]
    /\ pos = [t \in Targets |-> 1]
    /\ out = [t \in Targets |-> <<>>]
    /\ per = [t \in Targets |-> <<>>]
    /\ failure = NoError
    /\ all = <<>>
    /\ exit = "running"
    /\ late = {}
-----------------------------------------------------------------------------
(* The loop of runRules takes a token before it starts a goroutine.        *)

\* Mutant: the channel takes one token more than its capacity.
AcquireOneMore ==
    /\ main = "acquire"
    /\ next \in Targets
    /\ sem <= GOMAXPROCS
    /\ sem' = sem + 1
    /\ main' = "spawn"
    /\ UNCHANGED <<next, wg, worker, pos, out, per, failure, all, exit, late>>

Acquire ==
    /\ main = "acquire"
    /\ next \in Targets
    /\ sem < GOMAXPROCS
    /\ sem' = sem + 1
    /\ main' = "spawn"
    /\ UNCHANGED <<next, wg, worker, pos, out, per, failure, all, exit, late>>

Spawn ==
    /\ main = "spawn"
    /\ wg' = wg + 1
    /\ worker' = [worker EXCEPT ![next] = "run"]
    /\ next' = next + 1
    /\ main' = "acquire"
    /\ UNCHANGED <<sem, pos, out, per, failure, all, exit, late>>

\* Mutant: the slots are read without waiting for the goroutines.
CollectWithoutWait ==
    /\ main = "acquire"
    /\ next \notin Targets
    /\ all' = FlattenSeq(per)
    /\ main' = "check"
    /\ UNCHANGED <<next, sem, wg, worker, pos, out, per, failure, exit, late>>

\* wg.Wait, and the concatenation of the slots in target order after it.
Collect ==
    /\ main = "acquire"
    /\ next \notin Targets
    /\ wg = 0
    /\ all' = FlattenSeq(per)
    /\ main' = "check"
    /\ UNCHANGED <<next, sem, wg, worker, pos, out, per, failure, exit, late>>

\* Mutant: the failure is not looked at after the rules ran.
CheckNothing ==
    /\ main = "check"
    /\ exit' = "reported"
    /\ main' = "done"
    /\ UNCHANGED <<next, sem, wg, worker, pos, out, per, failure, all, late>>

\* run() reads ShellcheckError after runRules and reports only without one.
CheckFailure ==
    /\ main = "check"
    /\ exit' = IF failure = NoError THEN "reported" ELSE "failed"
    /\ main' = "done"
    /\ UNCHANGED <<next, sem, wg, worker, pos, out, per, failure, all, late>>
-----------------------------------------------------------------------------
(* rules.Run on one target.                                                *)

AtStep(t, kind) == pos[t] \in DOMAIN Work[t] /\ Work[t][pos[t]] = kind

\* The step behind the sites CFG045 has left, where an early return goes on.
PastSites(t, k) ==
    /\ \A j \in pos[t]..(k - 1) : Work[t][j] = "site"
    /\ k \in DOMAIN Work[t] => Work[t][k] = "rule"

RunRule(t) ==
    /\ worker[t] = "run"
    /\ AtStep(t, "rule")
    /\ out' = [out EXCEPT ![t] = Append(@, <<t, pos[t]>>)]
    /\ pos' = [pos EXCEPT ![t] = @ + 1]
    /\ UNCHANGED <<main, next, sem, wg, worker, per, failure, all, exit, late>>

\* Mutant: CFG045 starts shellcheck for every site, failure or not.
ProbeNothing(t) ==
    /\ worker[t] = "run"
    /\ AtStep(t, "site")
    /\ worker' = [worker EXCEPT ![t] = "call"]
    /\ UNCHANGED <<main, next, sem, wg, pos, out, per, failure, all, exit, late>>

\* Mutant: CFG045 waits at a site instead of returning after a failure.
ProbeForever(t) ==
    /\ worker[t] = "run"
    /\ AtStep(t, "site")
    /\ failure = NoError
    /\ worker' = [worker EXCEPT ![t] = "call"]
    /\ UNCHANGED <<main, next, sem, wg, pos, out, per, failure, all, exit, late>>

\* CFG045 asks for a failure before each site and gives up after the first.
ProbeSite(t) ==
    /\ worker[t] = "run"
    /\ AtStep(t, "site")
    /\ IF failure = NoError
       THEN /\ worker' = [worker EXCEPT ![t] = "call"]
            /\ UNCHANGED pos
       ELSE /\ \E k \in pos[t]..(Len(Work[t]) + 1) :
                  PastSites(t, k) /\ pos' = [pos EXCEPT ![t] = k]
            /\ UNCHANGED worker
    /\ UNCHANGED <<main, next, sem, wg, out, per, failure, all, exit, late>>

\* The process answers in time with its JSON: its comments become findings.
CallSucceeds(t) ==
    /\ worker[t] = "call"
    /\ out' = [out EXCEPT ![t] = Append(@, <<t, pos[t]>>)]
    /\ pos' = [pos EXCEPT ![t] = @ + 1]
    /\ worker' = [worker EXCEPT ![t] = "run"]
    /\ late' = IF failure = NoError THEN late ELSE late \cup {<<t, pos[t]>>}
    /\ UNCHANGED <<main, next, sem, wg, per, failure, all, exit>>

\* It times out, exits with 2 or more, or prints something else.
CallFails(t) ==
    /\ worker[t] = "call"
    /\ worker' = [worker EXCEPT ![t] = "record"]
    /\ late' = IF failure = NoError THEN late ELSE late \cup {<<t, pos[t]>>}
    /\ UNCHANGED <<main, next, sem, wg, pos, out, per, failure, all, exit>>

\* recordShellcheckError: the first failure stays.
RecordFailure(t) ==
    /\ worker[t] = "record"
    /\ failure' = IF failure = NoError THEN <<t, pos[t]>> ELSE failure
    /\ pos' = [pos EXCEPT ![t] = @ + 1]
    /\ worker' = [worker EXCEPT ![t] = "run"]
    /\ UNCHANGED <<main, next, sem, wg, out, per, all, exit, late>>

\* per[i] = the value rules.Run returned.
StoreResult(t) ==
    /\ worker[t] = "run"
    /\ pos[t] > Len(Work[t])
    /\ per' = [per EXCEPT ![t] = out[t]]
    /\ worker' = [worker EXCEPT ![t] = "release"]
    /\ UNCHANGED <<main, next, sem, wg, pos, out, failure, all, exit, late>>

\* The deferred receive from the channel runs before wg.Go's own Done.
ReleaseSlot(t) ==
    /\ worker[t] = "release"
    /\ sem' = sem - 1
    /\ worker' = [worker EXCEPT ![t] = "signal"]
    /\ UNCHANGED <<main, next, wg, pos, out, per, failure, all, exit, late>>

SignalDone(t) ==
    /\ worker[t] = "signal"
    /\ wg' = wg - 1
    /\ worker' = [worker EXCEPT ![t] = "gone"]
    /\ UNCHANGED <<main, next, sem, pos, out, per, failure, all, exit, late>>
-----------------------------------------------------------------------------
MainStep == Acquire \/ Spawn \/ Collect \/ CheckFailure

WorkerStep(t) ==
    \/ RunRule(t) \/ ProbeSite(t) \/ CallSucceeds(t) \/ CallFails(t)
    \/ RecordFailure(t) \/ StoreResult(t) \/ ReleaseSlot(t) \/ SignalDone(t)

Terminated == main = "done" /\ UNCHANGED vars

Next == MainStep \/ (\E t \in Targets : WorkerStep(t)) \/ Terminated

Spec == Init /\ [][Next]_vars

\* The Go scheduler runs every runnable goroutine, and a shellcheck call ends
\* within its timeout, so neither run() nor a goroutine stops for good.
FairSpec == Spec /\ WF_vars(MainStep) /\ \A t \in Targets : WF_vars(WorkerStep(t))
-----------------------------------------------------------------------------
TypeOK ==
    /\ main \in {"acquire", "spawn", "check", "done"}
    /\ next \in 1..(NumTargets + 1)
    /\ sem \in 0..GOMAXPROCS
    /\ wg \in Nat
    /\ worker \in [Targets -> WorkerStates]
    /\ pos \in [Targets -> Nat \ {0}]
    /\ out \in [Targets -> Seq(Step)]
    /\ per \in [Targets -> Seq(Step)]
    /\ failure \in Step \cup {NoError}
    /\ exit \in {"running", "reported", "failed"}

\* At most one target per available CPU is analysed at a time: the goroutines
\* between the loop's send and their own receive never exceed the capacity of
\* the channel.
Holding == {t \in Targets : worker[t] \in {"run", "call", "record", "release"}}

AtMostOnePerCPU == Cardinality(Holding) <= GOMAXPROCS

\* "One failure is enough; don't wait out a timeout per site": after the first
\* recorded failure a scan waits only for the calls other goroutines had
\* already passed the check for, one per remaining slot.
FewLateCalls == Cardinality(late) <= GOMAXPROCS - 1

\* The report is the sequential one or there is none (runRules' comment and
\* the comment of shellcheckFailure): every schedule of the goroutines shows
\* a reader of the output one of the two outcomes RuleScan allows.
Sequential ==
    INSTANCE RuleScan WITH report <- IF exit = "reported" THEN all ELSE <<>>

ImplementsSequentialScan == Sequential!Spec

\* Every scan ends: no schedule leaves run() waiting for a slot or for a
\* goroutine.
EveryScanEnds == <>(exit # "running")

\* A failed shellcheck call is never absorbed, whatever else finishes in
\* between: the run ends with the error.
FailureEndsTheRun == failure # NoError ~> exit = "failed"
=============================================================================
