----------------------------- MODULE LockProofs -----------------------------
(* Proofs about Lock for any settings, texts and bounds: the three            *)
(* properties of a check that the run verifies.                               *)
EXTENDS Lock, FiniteSetTheorems, TLAPS

(* What buildTargets and buildLock make of the contents they read.            *)
TargetsOf(t) == [entries |-> TrustEntries(t), files |-> targetFiles(t)]
Hashes(fs, t) == {<<f, t[f]>> : f \in {g \in fs : t[g] \notin {Absent, Unreadable}}}
LockOf(s) == [whole |-> TRUE, entries |-> TrustEntries(s.targets), hashes |-> Hashes(targetFiles(s.targets), s.hashes)]
Now == [targets |-> tree, hashes |-> tree]

TypesOK ==
    /\ tree \in Trees
    /\ seen \in [targets : Trees, hashes : Trees]
    /\ accepted \in [targets : Trees, hashes : Trees]
    /\ pc \in {"idle", "build", "hash", "truncate", "write", "compare"}
    /\ quiet \in BOOLEAN

(* The lock is what was accepted, or cannot be loaded.                        *)
LockOK == lock = Nothing \/ lock = LockOf(accepted)

(* A command works on what it has read, and that is what is there as long as  *)
(* nobody edits it.                                                           *)
CommandOK ==
    /\ pc = "hash" => targets = TargetsOf(seen.targets)
    /\ pc \in {"truncate", "write", "compare"} => current = LockOf(seen)
    /\ pc \in {"truncate", "write"} => command = "lock"
    /\ quiet /\ pc \in {"hash", "truncate", "write", "compare"} => seen.targets = tree
    /\ quiet /\ pc \in {"truncate", "write", "compare"} => seen.hashes = tree

(* The result of a check is the difference between what was accepted and what *)
(* is there.                                                                  *)
ResultOK ==
    Checked({0, 1}) =>
        /\ diff = lockDiff(LockOf(accepted), LockOf(Now), command = "strict")
        /\ exit = IF diff = {} THEN 0 ELSE 1

IInv == TypesOK /\ LockOK /\ CommandOK /\ ResultOK
-----------------------------------------------------------------------------
LEMMA InitInv == Init => IInv
<1> SUFFICES ASSUME Init PROVE IInv
  OBVIOUS
<1>1. tree \in Trees
  BY DEF Init
<1>2. QED
  BY <1>1 DEF Init, IInv, TypesOK, LockOK, CommandOK, ResultOK, Checked

LEMMA StepInv == IInv /\ [Next]_vars => IInv'
<1> SUFFICES ASSUME IInv, [Next]_vars PROVE IInv'
  OBVIOUS
<1> USE DEF TypesOK, LockOK, CommandOK, ResultOK, Checked
<1>1. ASSUME NEW c \in Commands, Start(c) PROVE IInv'
  BY <1>1 DEF Start, IInv
<1>2. CASE BuildTargets
  BY <1>2 DEF BuildTargets, End, IInv, TargetsOf
<1>3. CASE BuildLock
  <2>1. current' = LockOf(seen')
    <3>1. seen'.targets = seen.targets /\ seen'.hashes = tree
      BY <1>3 DEF BuildLock, IInv
    <3>2. targets.entries = TrustEntries(seen.targets) /\ targets.files = targetFiles(seen.targets)
      BY <1>3 DEF BuildLock, IInv, TargetsOf
    <3>3. current' = [whole |-> TRUE, entries |-> targets.entries, hashes |-> Hashes(targets.files, tree)]
      BY <1>3 DEF BuildLock, Hashes
    <3>4. QED
      BY <3>1, <3>2, <3>3 DEF LockOf
  <2>2. QED
    BY <1>3, <2>1 DEF BuildLock, IInv
<1>4. CASE Truncate
  BY <1>4 DEF Truncate, IInv, Nothing
<1>5. CASE WriteLock
  BY <1>5 DEF WriteLock, End, IInv
<1>6. CASE Compare
  <2>1. CASE lock = Nothing
    BY <1>6, <2>1 DEF Compare, End, IInv, Loads, Nothing
  <2>2. CASE lock = LockOf(accepted)
    <3>1. quiet => current = LockOf(Now)
      BY <1>6 DEF Compare, IInv, LockOf, Now
    <3>2. /\ pc' = "idle" /\ seen' = accepted
          /\ diff' = lockDiff(lock, current, command = "strict") /\ exit' = IF diff' = {} THEN 0 ELSE 1
          /\ UNCHANGED <<tree, lock, command, quiet, accepted>>
      BY <1>6, <2>2 DEF Compare, End, Loads, LockOf
    <3>3. LockOf(Now)' = LockOf(Now) /\ LockOf(accepted)' = LockOf(accepted)
      BY <3>2 DEF Now, LockOf, Hashes, TrustEntries, targetFiles, Launches
    <3>4. ResultOK'
      BY <2>2, <3>1, <3>2, <3>3
    <3>5. QED
      BY <2>2, <3>2, <3>3, <3>4 DEF IInv
  <2>3. QED
    BY <2>1, <2>2 DEF IInv
<1>7. CASE Kill
  BY <1>7 DEF Kill, End, IInv
<1>8. CASE Edit
  BY <1>8 DEF Edit, IInv
<1>9. CASE UNCHANGED vars
  BY <1>9 DEF vars, IInv, Now
<1>10. QED
  BY <1>1, <1>2, <1>3, <1>4, <1>5, <1>6, <1>7, <1>8, <1>9 DEF Next

LEMMA Inductive == Spec => []IInv
BY InitInv, StepInv, PTL DEF Spec
-----------------------------------------------------------------------------
(* An entry is its key and its value, which is an approval of the settings    *)
(* file, a script, a text or nothing.                                         *)
Allowed(t) == IF t.settings \in Special THEN {} ELSE t.settings.allow
LEMMA EntryForm ==
    ASSUME NEW t, NEW e \in TrustEntries(t)
    PROVE  /\ e = [key |-> e.key, value |-> e.value]
           /\ e.value \in Allowed(t) \cup (({"script"} \cup {t.script.text}) \cup {""})
<1>1. \/ e \in {Entry("setting", "settings", "permissions.allow", a) : a \in Allowed(t)}
      \/ e = Entry("command", "settings", "hook", "script")
      \/ e = Entry("script", "script", "started by the hook", t.script.text)
      \/ e = Entry("instructions", "claude", "instructions", "")
  BY DEF TrustEntries, Allowed
<1>2. CASE e \in {Entry("setting", "settings", "permissions.allow", a) : a \in Allowed(t)}
  <2>1. PICK a \in Allowed(t) : e = Entry("setting", "settings", "permissions.allow", a)
    BY <1>2
  <2>2. QED
    BY <2>1 DEF Entry
<1>3. CASE e = Entry("command", "settings", "hook", "script")
  BY <1>3 DEF Entry
<1>4. CASE e = Entry("script", "script", "started by the hook", t.script.text)
  BY <1>4 DEF Entry
<1>5. CASE e = Entry("instructions", "claude", "instructions", "")
  BY <1>5 DEF Entry
<1>6. QED
  BY <1>1, <1>2, <1>3, <1>4, <1>5

(* The values under one key are finitely many.                                *)
LEMMA FiniteValues ==
    ASSUME LockAssumption, NEW t \in Trees, NEW k
    PROVE  IsFiniteSet(Values(TrustEntries(t), k))
<1>1. IsFiniteSet(Allowed(t))
  BY FS_EmptySet DEF LockAssumption, Trees, Allowed
<1>2. IsFiniteSet({"script"}) /\ IsFiniteSet({t.script.text}) /\ IsFiniteSet({""})
  BY FS_Singleton
<1>3. IsFiniteSet({"script"} \cup {t.script.text})
  BY <1>2, FS_Union
<1>4. IsFiniteSet(({"script"} \cup {t.script.text}) \cup {""})
  BY <1>2, <1>3, FS_Union
<1>5. IsFiniteSet(Allowed(t) \cup (({"script"} \cup {t.script.text}) \cup {""}))
  BY <1>1, <1>4, FS_Union
<1>6. Values(TrustEntries(t), k) \subseteq Allowed(t) \cup (({"script"} \cup {t.script.text}) \cup {""})
  BY EntryForm DEF Values
<1>7. QED
  BY <1>5, <1>6, FS_Subset

LEMMA SameValuesSameEntries ==
    ASSUME NEW s, NEW t,
           \A k \in {e.key : e \in TrustEntries(s) \cup TrustEntries(t)} : Values(TrustEntries(s), k) = Values(TrustEntries(t), k)
    PROVE  TrustEntries(s) = TrustEntries(t)
<1>1. ASSUME NEW u, NEW v, NEW e \in TrustEntries(u), e.value \in Values(TrustEntries(v), e.key)
      PROVE  e \in TrustEntries(v)
  <2>1. PICK d \in TrustEntries(v) : d.key = e.key /\ d.value = e.value
    BY <1>1 DEF Values
  <2>2. d = [key |-> d.key, value |-> d.value] /\ e = [key |-> e.key, value |-> e.value]
    BY <1>1, <2>1, EntryForm
  <2>3. d = e
    BY <2>1, <2>2
  <2>4. QED
    BY <2>1, <2>3
<1>2. ASSUME NEW e \in TrustEntries(s) PROVE e \in TrustEntries(t)
  BY <1>1, <1>2 DEF Values
<1>3. ASSUME NEW e \in TrustEntries(t) PROVE e \in TrustEntries(s)
  BY <1>1, <1>3 DEF Values
<1>4. QED
  BY <1>2, <1>3

(* No line for a key means the same values on both sides.                     *)
LEMMA NoLineNoChange ==
    ASSUME NEW before, NEW after, NEW k, IsFiniteSet(before), IsFiniteSet(after), KeyDiff(before, after, k) = {}
    PROVE  before = after
<1>1. CASE Cardinality(before) = 1 /\ Cardinality(after) = 1
  <2>1. after \ before = {}
    BY <1>1 DEF KeyDiff
  <2>2. (\E x : before = {x}) /\ (\E x : after = {x})
    BY <1>1, FS_Singleton
  <2>3. QED
    BY <2>1, <2>2
<1>2. CASE ~ (Cardinality(before) = 1 /\ Cardinality(after) = 1)
  <2>1. after \ before = {} /\ before \ after = {}
    BY <1>2 DEF KeyDiff
  <2>2. QED
    BY <2>1
<1>3. QED
  BY <1>1, <1>2

(* A value that came, and one that went, has a line.                          *)
LEMMA ChangesHaveLines ==
    ASSUME NEW before, NEW after, NEW k, IsFiniteSet(before), IsFiniteSet(after)
    PROVE  /\ \A v \in after \ before : \E l \in KeyDiff(before, after, k) : l.key = k /\ l.value = v /\ l.what # "removed"
           /\ \A v \in before \ after : \E l \in KeyDiff(before, after, k) :
                  l.key = k /\ (l.what = "changed" \/ (l.what = "removed" /\ l.value = v))
<1>1. \A w, v : Line(w, k, v).key = k /\ Line(w, k, v).value = v /\ Line(w, k, v).what = w
  BY DEF Line
<1>2. CASE Cardinality(before) = 1 /\ Cardinality(after) = 1
  <2>1. KeyDiff(before, after, k) = {Line("changed", k, v) : v \in after \ before}
    BY <1>2 DEF KeyDiff
  <2>2. ASSUME NEW v \in after \ before
        PROVE  \E l \in KeyDiff(before, after, k) : l.key = k /\ l.value = v /\ l.what = "changed"
    <3>1. Line("changed", k, v) \in KeyDiff(before, after, k)
      BY <2>1
    <3>2. QED
      BY <3>1, <1>1
  <2>3. ASSUME NEW v \in before \ after
        PROVE  \E l \in KeyDiff(before, after, k) : l.key = k /\ l.what = "changed"
    <3>1. \E x : after = {x}
      BY <1>2, FS_Singleton
    <3>2. PICK x \in after : x \notin before \/ x = v
      <4>1. \E y : before = {y}
        BY <1>2, FS_Singleton
      <4>2. QED
        BY <3>1, <4>1
    <3>3. QED
      BY <3>2, <2>2
  <2>4. QED
    BY <2>2, <2>3
<1>3. CASE ~ (Cardinality(before) = 1 /\ Cardinality(after) = 1)
  <2>1. KeyDiff(before, after, k) = {Line("new", k, v) : v \in after \ before} \cup {Line("removed", k, v) : v \in before \ after}
    BY <1>3 DEF KeyDiff
  <2>2. ASSUME NEW v \in after \ before
        PROVE  \E l \in KeyDiff(before, after, k) : l.key = k /\ l.value = v /\ l.what = "new"
    <3>1. Line("new", k, v) \in KeyDiff(before, after, k)
      BY <2>1
    <3>2. QED
      BY <3>1, <1>1
  <2>3. ASSUME NEW v \in before \ after
        PROVE  \E l \in KeyDiff(before, after, k) : l.key = k /\ l.value = v /\ l.what = "removed"
    <3>1. Line("removed", k, v) \in KeyDiff(before, after, k)
      BY <2>1
    <3>2. QED
      BY <3>1, <1>1
  <2>4. QED
    BY <2>2, <2>3
<1>4. QED
  BY <1>2, <1>3

(* --strict-hash adds the lines of the files to those of the entries.         *)
LEMMA StrictHasFiles ==
    ASSUME NEW a, NEW b
    PROVE  FileDiff(a.hashes, b.hashes) \subseteq lockDiff(a, b, TRUE)
BY DEF lockDiff
-----------------------------------------------------------------------------
(* CI passes only on what was accepted with the lock, for any settings, texts *)
(* and edits between and during the commands.                                 *)
THEOREM PassIsAcceptance == LockAssumption => (Spec => []PassMeansAccepted)
<1> SUFFICES ASSUME LockAssumption PROVE Spec => []PassMeansAccepted
  OBVIOUS
<1>1. IInv => PassMeansAccepted
  <2> SUFFICES ASSUME IInv, Checked({0})
               PROVE  /\ TrustEntries(tree) = TrustEntries(accepted.targets)
                      /\ command = "strict" => \A f \in targetFiles(tree) : tree[f] = accepted.hashes[f]
    BY DEF PassMeansAccepted
  <2>1. lockDiff(LockOf(accepted), LockOf(Now), command = "strict") = {}
    BY DEF IInv, ResultOK, Checked
  <2>2. tree \in Trees /\ accepted.targets \in Trees
    BY DEF IInv, TypesOK
  <2>3. TrustEntries(accepted.targets) = TrustEntries(tree)
    <3>1. ASSUME NEW k \in {e.key : e \in TrustEntries(accepted.targets) \cup TrustEntries(tree)}
          PROVE  Values(TrustEntries(accepted.targets), k) = Values(TrustEntries(tree), k)
      <4>1. KeyDiff(Values(TrustEntries(accepted.targets), k), Values(TrustEntries(tree), k), k) = {}
        BY <2>1, <3>1 DEF lockDiff, EntryDiff, LockOf, Now
      <4>2. QED
        BY <4>1, <2>2, FiniteValues, NoLineNoChange
    <3>2. QED
      BY <3>1, SameValuesSameEntries
  <2>4. ASSUME command = "strict", NEW f \in targetFiles(tree) PROVE tree[f] = accepted.hashes[f]
    <3>1. FileDiff(LockOf(accepted).hashes, LockOf(Now).hashes) = {}
      <4>1. lockDiff(LockOf(accepted), LockOf(Now), TRUE) = {}
        BY <2>1, <2>4
      <4>2. QED
        BY <4>1, StrictHasFiles
    <3>2. tree[f] \notin {Absent, Unreadable}
      BY <2>2, <2>4 DEF targetFiles, LockAssumption, Special
    <3>3. <<f, tree[f]>> \in LockOf(Now).hashes
      BY <2>4, <3>2 DEF LockOf, Now, Hashes
    <3>4. \E y \in LockOf(accepted).hashes : y[1] = f /\ y[2] = tree[f]
      <4> DEFINE h == <<f, tree[f]>>
                 before == LockOf(accepted).hashes
                 after == LockOf(Now).hashes
      <4>1. h \in after /\ h[1] = f /\ h[2] = tree[f]
        BY <3>3
      <4> HIDE DEF h, before, after
      <4>2. FileDiff(before, after) = {}
        BY <3>1 DEF before, after
      <4>3. ASSUME \A y \in before : y[1] # h[1] PROVE FALSE
        <5>1. Line("file", <<h[1]>>, "new") \in FileDiff(before, after)
          BY <4>1, <4>3 DEF FileDiff
        <5>2. QED
          BY <5>1, <4>2
      <4>4. ASSUME NEW y \in before, y[1] = h[1], y[2] # h[2] PROVE FALSE
        <5>1. Line("file", <<h[1]>>, "changed") \in FileDiff(before, after)
          BY <4>1, <4>4 DEF FileDiff
        <5>2. QED
          BY <5>1, <4>2
      <4>5. QED
        BY <4>1, <4>3, <4>4 DEF before
    <3>5. QED
      BY <3>4 DEF LockOf, Hashes
  <2>5. QED
    BY <2>3, <2>4
<1>2. QED
  BY <1>1, Inductive, PTL

(* A check without --strict-hash fails on nothing but a change of the trust   *)
(* entries.                                                                   *)
THEOREM OnlyTrustChangesFail == Spec => []ProseIsFree
<1>1. IInv => ProseIsFree
  <2> SUFFICES ASSUME IInv, Checked({1}), command = "check", TrustEntries(tree) = TrustEntries(accepted.targets) PROVE FALSE
    BY DEF ProseIsFree
  <2>1. \A v, k : KeyDiff(v, v, k) = {}
    BY DEF KeyDiff
  <2>2. lockDiff(LockOf(accepted), LockOf(Now), FALSE) = {}
    BY <2>1 DEF lockDiff, EntryDiff, LockOf, Now
  <2>3. (command = "strict") = FALSE /\ exit = 1
    BY DEF Checked
  <2>4. diff = lockDiff(LockOf(accepted), LockOf(Now), command = "strict") /\ exit = IF diff = {} THEN 0 ELSE 1
    BY DEF IInv, ResultOK, Checked
  <2>5. diff = {}
    BY <2>2, <2>3, <2>4
  <2>6. QED
    BY <2>3, <2>4, <2>5
<1>2. QED
  BY <1>1, Inductive, PTL

(* Each entry that came, went or changed has a line of its own in the         *)
(* difference a check prints.                                                 *)
THEOREM EveryChangeHasALine == LockAssumption => (Spec => []EveryChangeIsNamed)
<1> SUFFICES ASSUME LockAssumption PROVE Spec => []EveryChangeIsNamed
  OBVIOUS
<1>1. IInv => EveryChangeIsNamed
  <2> DEFINE was == TrustEntries(accepted.targets)
             now == TrustEntries(tree)
  <2> SUFFICES ASSUME IInv, Checked({0, 1})
               PROVE  /\ \A e \in now \ was : \E l \in diff : l.key = e.key /\ l.value = e.value /\ l.what # "removed"
                      /\ \A e \in was \ now : \E l \in diff : l.key = e.key /\ (l.what = "changed" \/ (l.what = "removed" /\ l.value = e.value))
    BY DEF EveryChangeIsNamed
  <2>1. tree \in Trees /\ accepted.targets \in Trees
    BY DEF IInv, TypesOK
  <2>2. ASSUME NEW e \in now \cup was PROVE KeyDiff(Values(was, e.key), Values(now, e.key), e.key) \subseteq diff
    BY <2>2 DEF IInv, ResultOK, lockDiff, EntryDiff, LockOf, Now
  <2>3. ASSUME NEW u, NEW v, NEW e \in TrustEntries(u), e \notin TrustEntries(v)
        PROVE  e.value \in Values(TrustEntries(u), e.key) \ Values(TrustEntries(v), e.key)
    <3>1. ASSUME NEW d \in TrustEntries(v), d.key = e.key, d.value = e.value PROVE FALSE
      <4>1. d = [key |-> d.key, value |-> d.value] /\ e = [key |-> e.key, value |-> e.value]
        BY <2>3, <3>1, EntryForm
      <4>2. d = e
        BY <3>1, <4>1
      <4>3. QED
        BY <2>3, <4>2
    <3>2. QED
      BY <3>1 DEF Values
  <2>4. \A k : IsFiniteSet(Values(was, k)) /\ IsFiniteSet(Values(now, k))
    BY <2>1, FiniteValues
  <2>5. ASSUME NEW e \in now \ was
        PROVE  \E l \in diff : l.key = e.key /\ l.value = e.value /\ l.what # "removed"
    BY <2>2, <2>3, <2>4, <2>5, ChangesHaveLines
  <2>6. ASSUME NEW e \in was \ now
        PROVE  \E l \in diff : l.key = e.key /\ (l.what = "changed" \/ (l.what = "removed" /\ l.value = e.value))
    BY <2>2, <2>3, <2>4, <2>6, ChangesHaveLines
  <2>7. QED
    BY <2>5, <2>6
<1>2. QED
  BY <1>1, Inductive, PTL
=============================================================================
