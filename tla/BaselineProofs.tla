--------------------------- MODULE BaselineProofs ---------------------------
(***************************************************************************)
(* Proofs about the baseline for any fingerprints, configurations, counts  *)
(* and file of entries.                                                    *)
(***************************************************************************)
EXTENDS Baseline, FiniteSetTheorems, TLAPS

Entries == [fp : Fingerprints, count : Nat]

TypeOK ==
    /\ found \in Counts /\ config \in Configs
    /\ file \in Seq(Entries)
    /\ accepted \in [Fingerprints -> Nat]

\* The file lists what it was told to accept, entry by entry.
ListsAccepted ==
    \A f \in Fingerprints : IsFiniteSet(Slots(file, f)) /\ Listed(file, f) = accepted[f]

\* What a scan of this state answers.
Scanned ==
    LET findings == PostProcess(config, found)
        kept == [f \in Fingerprints |-> findings[f] - Suppressed(file, findings)[f]]
    IN  [of |-> findings, kept |-> kept, stale |-> Stale(file, findings), exit |-> ExitCode(config, kept)]

ResultIsCurrent == result = NoScan \/ result = Scanned

IInv == TypeOK /\ ListsAccepted /\ ResultIsCurrent
-----------------------------------------------------------------------------
(* What a file lists                                                       *)

\* An entry is recorded for one finding at least, and reads back as written.
LEMMA CountOfEntry ==
    ASSUME NEW n \in Nat \ {0}
    PROVE  /\ StoredCount(n) \in Nat
           /\ \A e : e.count = StoredCount(n) => EntryCount(e) = n
           /\ \A e : e.count = 0 => EntryCount(e) = 1
BY DEF StoredCount, EntryCount

\* An entry that is added has one slot.
LEMMA SlotsOfAppend ==
    ASSUME NEW entries \in Seq(Entries), NEW f \in Fingerprints, NEW g \in Fingerprints,
           IsFiniteSet(Slots(entries, g))
    PROVE  LET more == Append(entries, [fp |-> f, count |-> 0]) IN
           /\ IsFiniteSet(Slots(more, g))
           /\ Listed(more, g) = Listed(entries, g) + IF g = f THEN 1 ELSE 0
<1> DEFINE e == [fp |-> f, count |-> 0]
           more == Append(entries, e)
           last == Len(entries) + 1
<1>1. /\ DOMAIN more = DOMAIN entries \cup {last} /\ last \notin DOMAIN entries
      /\ \A i \in DOMAIN entries : more[i] = entries[i]
      /\ more[last] = e
  BY DEF Entries
<1>2. EntryCount(e) = 1 /\ e.fp = f
  BY DEF EntryCount
<1> HIDE DEF e, more, last
<1>3. CASE g = f
  <2>1. Slots(more, g) = Slots(entries, g) \cup {<<last, 1>>}
    BY <1>1, <1>2, <1>3 DEF Slots
  <2>2. <<last, 1>> \notin Slots(entries, g)
    BY <1>1 DEF Slots
  <2> QED
    BY <1>3, <2>1, <2>2, FS_AddElement DEF Listed, more, e
<1>4. CASE g # f
  <2>1. Slots(more, g) = Slots(entries, g)
    BY <1>1, <1>2, <1>4 DEF Slots
  <2>2. Cardinality(Slots(entries, g)) \in Nat
    BY FS_CardinalityType
  <2> QED
    BY <1>4, <2>1, <2>2 DEF Listed, more, e
<1> QED
  BY <1>3, <1>4

\* A finite set of entries can be listed one by one.
LEMMA SetToSeqBijective ==
    ASSUME NEW S, IsFiniteSet(S)
    PROVE  /\ SetToSeq(S) \in Seq(S)
           /\ \A i, j \in DOMAIN SetToSeq(S) : SetToSeq(S)[i] = SetToSeq(S)[j] => i = j
           /\ \A x \in S : \E i \in DOMAIN SetToSeq(S) : SetToSeq(S)[i] = x
<1> DEFINE n == Cardinality(S)
           q == SetToSeq(S)
<1>1. n \in Nat /\ ExistsBijection(1..n, S)
  BY FS_CardinalityType
<1>2. \E b \in [1..n -> S] : IsInjective(b)
  BY <1>1 DEF ExistsBijection, Bijection, Injection
<1>3. q \in [1..n -> S] /\ IsInjective(q)
  BY <1>2 DEF SetToSeq
<1> HIDE DEF q
<1>4. q \in Injection(1..n, S)
  BY <1>3 DEF Injection
<1>5. Cardinality(1..n) = n
  BY <1>1, FS_Interval
<1>6. q \in Surjection(1..n, S)
  BY <1>4, <1>5, FS_Injection
<1> HIDE DEF n
<1>7. q \in Seq(S) /\ DOMAIN q = 1..n
  BY <1>1, <1>3
<1> QED
  BY <1>3, <1>6, <1>7 DEF q, IsInjective, Surjection

SlotsAt(i, n) == {i} \X (1..n)

\* One entry for n findings has n slots.
LEMMA SlotsOfOne ==
    ASSUME NEW i, NEW n \in Nat
    PROVE  IsFiniteSet(SlotsAt(i, n)) /\ Cardinality(SlotsAt(i, n)) = n
<1> DEFINE ones == {i}
           slots == 1..n
<1>1. IsFiniteSet(ones) /\ Cardinality(ones) = 1
  BY FS_Singleton
<1>2. IsFiniteSet(slots) /\ Cardinality(slots) = n
  BY FS_Interval
<1> HIDE DEF ones, slots
<1>3. IsFiniteSet(ones \X slots) /\ Cardinality(ones \X slots) = Cardinality(ones) * Cardinality(slots)
  BY <1>1, <1>2, FS_Product
<1>4. Cardinality(ones \X slots) = n
  BY <1>1, <1>2, <1>3
<1>5. SlotsAt(i, n) = ones \X slots
  BY DEF SlotsAt, ones, slots
<1> QED
  BY <1>3, <1>4, <1>5

\* The baseline of some findings lists each that is no secret, as often as it
\* was found, and no other.
LEMMA SlotsOfBaseline ==
    ASSUME BaselineAssumption, NEW counts \in Counts
    PROVE  /\ BuildBaseline(counts) \in Seq(Entries)
           /\ \A f \in Fingerprints :
                /\ IsFiniteSet(Slots(BuildBaseline(counts), f))
                /\ Listed(BuildBaseline(counts), f) = IF f \in Secrets THEN 0 ELSE counts[f]
<1> DEFINE listed == {g \in Fingerprints \ Secrets : counts[g] > 0}
           E(f) == [fp |-> f, count |-> StoredCount(counts[f])]
           S == {E(f) : f \in listed}
           q == BuildBaseline(counts)
<1>1. \A f \in Fingerprints : counts[f] \in Nat
  BY DEF Counts, BaselineAssumption
<1>2. S \subseteq Entries /\ \A e \in S : e.fp \in listed /\ e = E(e.fp)
  BY <1>1, CountOfEntry DEF Entries
<1>3. IsFiniteSet(S)
  <2> DEFINE m == [e \in S |-> e.fp]
  <2>1. m \in [S -> Fingerprints]
    BY <1>2
  <2>2. \A x, y \in S : x.fp = y.fp => x = y
    BY <1>2
  <2>3. m \in Injection(S, Fingerprints)
    BY <2>1, <2>2 DEF Injection, IsInjective
  <2> HIDE DEF m
  <2> QED
    BY <2>3, FS_Injection DEF BaselineAssumption
<1>4. /\ q \in Seq(S)
      /\ \A i, j \in DOMAIN q : q[i] = q[j] => i = j
      /\ \A x \in S : \E i \in DOMAIN q : q[i] = x
  <2>1. q = SetToSeq(S)
    BY DEF BuildBaseline
  <2> HIDE DEF q, S
  <2> QED
    BY <1>3, <2>1, SetToSeqBijective
<1>5. q \in Seq(Entries)
  <2> HIDE DEF q, S
  <2> QED
    BY <1>2, <1>4
<1> HIDE DEF q
<1>6. ASSUME NEW f \in Fingerprints
      PROVE  /\ IsFiniteSet(Slots(q, f))
             /\ Listed(q, f) = IF f \in Secrets THEN 0 ELSE counts[f]
  <2>1. \A i \in DOMAIN q : q[i] \in S
    <3> HIDE DEF S
    <3> QED
      BY <1>4
  <2>2. CASE f \notin listed
    <3>1. \A i \in DOMAIN q : q[i].fp # f
      <4> HIDE DEF listed, S
      <4> QED
        BY <1>2, <2>1, <2>2
    <3>2. Slots(q, f) = {}
      BY <3>1 DEF Slots
    <3>3. f \notin Secrets => counts[f] = 0
      BY <1>1, <2>2
    <3> QED
      BY <3>2, <3>3, FS_EmptySet DEF Listed
  <2>3. CASE f \in listed
    <3>1. E(f) \in S
      BY <2>3
    <3>2. PICK i \in DOMAIN q : q[i] = E(f)
      <4> HIDE DEF S, E
      <4> QED
        BY <1>4, <3>1
    <3>3. ASSUME NEW j \in DOMAIN q, q[j].fp = f PROVE j = i
      <4>1. q[j] = E(f)
        <5> HIDE DEF S, E
        <5> QED
          BY <1>2, <2>1, <3>3
      <4> HIDE DEF E
      <4> QED
        BY <1>4, <3>2, <4>1
    <3>4. q[i].fp = f /\ EntryCount(q[i]) = counts[f] /\ counts[f] \in Nat \ {0}
      BY <1>1, <2>3, <3>2, CountOfEntry
    <3>5. {j \in DOMAIN q : q[j].fp = f} = {i}
      BY <3>3, <3>4
    <3>6. Slots(q, f) = SlotsAt(i, counts[f])
      BY <3>4, <3>5 DEF Slots, SlotsAt
    <3>7. IsFiniteSet(Slots(q, f)) /\ Cardinality(Slots(q, f)) = counts[f]
      BY <3>4, <3>6, SlotsOfOne
    <3> QED
      BY <2>3, <3>7 DEF Listed
  <2> QED
    BY <2>2, <2>3
<1> QED
  BY <1>5, <1>6 DEF q
-----------------------------------------------------------------------------
(* The steps                                                               *)

\* The configuration drops findings and adds none.
LEMMA PostProcessType ==
    ASSUME BaselineAssumption, NEW c, NEW counts \in Counts
    PROVE  PostProcess(c, counts) \in Counts
BY DEF BaselineAssumption, Counts, PostProcess

\* Nothing is accepted before the first baseline is written.
LEMMA InitInv == ASSUME BaselineAssumption, Init PROVE IInv
<1>1. \A f \in Fingerprints : Slots(file, f) = {}
  BY DEF Init, Slots
<1>2. ListsAccepted
  BY <1>1, FS_EmptySet DEF Init, ListsAccepted, Listed, None
<1>3. TypeOK
  BY DEF Init, TypeOK, None
<1> QED
  BY <1>2, <1>3 DEF Init, IInv, ResultIsCurrent

\* What the repository or the user changes leaves the file alone.
LEMMA ChangeInv == ASSUME BaselineAssumption, IInv, Edit \/ Reconfigure PROVE IInv'
<1>1. TypeOK'
  BY DEF IInv, TypeOK, Edit, Reconfigure
<1>2. ListsAccepted'
  BY DEF IInv, ListsAccepted, Slots, Listed, Edit, Reconfigure
<1>3. ResultIsCurrent'
  BY DEF ResultIsCurrent, Edit, Reconfigure
<1> QED
  BY <1>1, <1>2, <1>3 DEF IInv

\* A written baseline accepts what the scan reports, but for secrets.
LEMMA WriteBaselineInv == ASSUME BaselineAssumption, IInv, WriteBaseline PROVE IInv'
<1> DEFINE findings == PostProcess(config, found)
<1>1. findings \in Counts
  BY PostProcessType DEF IInv, TypeOK
<1>2. /\ file' = BuildBaseline(findings)
      /\ accepted' = [f \in Fingerprints |-> IF f \in Secrets THEN 0 ELSE findings[f]]
      /\ result' = NoScan /\ UNCHANGED <<found, config>>
  BY DEF WriteBaseline
<1> HIDE DEF findings
<1>3. TypeOK'
  BY <1>1, <1>2, SlotsOfBaseline DEF IInv, TypeOK, Counts, BaselineAssumption
<1>4. ListsAccepted'
  <2>1. \A f \in Fingerprints :
          /\ IsFiniteSet(Slots(file', f))
          /\ Listed(file', f) = accepted'[f]
    BY <1>1, <1>2, SlotsOfBaseline
  <2> QED
    BY <2>1 DEF ListsAccepted, Listed, Slots
<1>5. ResultIsCurrent'
  BY <1>2 DEF ResultIsCurrent
<1> QED
  BY <1>3, <1>4, <1>5 DEF IInv

\* An entry that a merge adds accepts one finding more.
LEMMA MergeEntryInv == ASSUME BaselineAssumption, IInv, MergeEntry PROVE IInv'
<1>1. PICK f \in Fingerprints :
        /\ file' = Append(file, [fp |-> f, count |-> 0])
        /\ accepted' = [accepted EXCEPT ![f] = @ + 1]
        /\ result' = NoScan /\ UNCHANGED <<found, config>>
  BY DEF MergeEntry
<1>2. file \in Seq(Entries) /\ accepted \in [Fingerprints -> Nat]
  BY DEF IInv, TypeOK
<1>3. [fp |-> f, count |-> 0] \in Entries
  BY DEF Entries
<1>4. TypeOK'
  BY <1>1, <1>2, <1>3 DEF IInv, TypeOK
<1>5. ListsAccepted'
  <2>1. ASSUME NEW g \in Fingerprints
        PROVE  IsFiniteSet(Slots(file', g)) /\ Listed(file', g) = accepted'[g]
    <3>1. IsFiniteSet(Slots(file, g)) /\ Listed(file, g) = accepted[g]
      BY DEF IInv, ListsAccepted
    <3>2. /\ IsFiniteSet(Slots(file', g))
          /\ Listed(file', g) = Listed(file, g) + IF g = f THEN 1 ELSE 0
      BY <1>1, <1>2, <3>1, SlotsOfAppend
    <3>3. accepted'[g] = accepted[g] + IF g = f THEN 1 ELSE 0
      BY <1>1, <1>2
    <3> QED
      BY <3>1, <3>2, <3>3
  <2> QED
    BY <2>1 DEF ListsAccepted, Listed, Slots
<1>6. ResultIsCurrent'
  BY <1>1 DEF ResultIsCurrent
<1> QED
  BY <1>4, <1>5, <1>6 DEF IInv

\* A scan answers for the file and the configuration it finds.
LEMMA ScanInv == ASSUME BaselineAssumption, IInv, Scan PROVE IInv'
<1>1. UNCHANGED <<found, config, file, accepted>> /\ result' = Scanned
  BY DEF Scan, Scanned
<1>2. Scanned' = Scanned
  BY <1>1 DEF Scanned, PostProcess, Suppressed, Stale, ExitCode, SeverityOf, Fails, Listed, Slots
<1>3. TypeOK' /\ ListsAccepted'
  BY <1>1 DEF IInv, TypeOK, ListsAccepted, Slots, Listed
<1> QED
  BY <1>1, <1>2, <1>3 DEF IInv, ResultIsCurrent

\* However the repository, its configuration and its baseline change, the file
\* lists what was accepted and a scan answers for it (baseline.go).
THEOREM InductiveInvariant == ASSUME BaselineAssumption PROVE Spec => []IInv
<1>1. Init => IInv
  BY InitInv
<1>2. ASSUME IInv, [Next]_vars PROVE IInv'
  <2>1. CASE UNCHANGED vars
    <3>1. UNCHANGED <<found, config, file, accepted, result>>
      BY <2>1 DEF vars
    <3>2. Scanned' = Scanned
      BY <3>1 DEF Scanned, PostProcess, Suppressed, Stale, ExitCode, SeverityOf, Fails, Listed, Slots
    <3>3. TypeOK'
      BY <1>2, <3>1 DEF IInv, TypeOK
    <3>4. ListsAccepted'
      BY <1>2, <3>1 DEF IInv, ListsAccepted, Slots, Listed
    <3> QED
      BY <1>2, <3>1, <3>2, <3>3, <3>4 DEF IInv, ResultIsCurrent
  <2> QED
    BY <1>2, <2>1, ChangeInv, WriteBaselineInv, MergeEntryInv, ScanInv DEF Next
<1> QED
  BY <1>1, <1>2, PTL DEF Spec

\* The findings, the file and what it accepts keep their types.
THEOREM TypeCorrect == ASSUME BaselineAssumption PROVE Spec => []TypeOK
<1>1. IInv => TypeOK
  BY DEF IInv
<1> QED
  BY <1>1, InductiveInvariant, PTL
-----------------------------------------------------------------------------
(* What a scan drops                                                       *)

\* A scan drops, of each kind, what was found or what the file lists of it,
\* whichever is less, and nothing of a secret.
LEMMA Dropped ==
    ASSUME BaselineAssumption, IInv, result # NoScan, NEW f \in Fingerprints
    PROVE  /\ result.of = PostProcess(config, found)
           /\ result.stale = Stale(file, result.of)
           /\ result.exit = ExitCode(config, result.kept)
           /\ result.of[f] \in Nat /\ result.kept[f] \in Nat /\ accepted[f] \in Nat
           /\ Listed(file, f) = accepted[f]
           /\ result.kept[f] = result.of[f] - Suppressed(file, result.of)[f]
           /\ Suppressed(file, result.of)[f] =
                IF f \in Secrets THEN 0
                ELSE IF accepted[f] < result.of[f] THEN accepted[f] ELSE result.of[f]
<1> DEFINE findings == PostProcess(config, found)
           kept == [g \in Fingerprints |-> findings[g] - Suppressed(file, findings)[g]]
<1>1. result = [of |-> findings, kept |-> kept, stale |-> Stale(file, findings), exit |-> ExitCode(config, kept)]
  BY DEF IInv, ResultIsCurrent, Scanned
<1>2. findings \in Counts
  BY PostProcessType DEF IInv, TypeOK
<1>3. findings[f] \in Nat
  BY <1>2 DEF Counts, BaselineAssumption
<1> HIDE DEF findings
<1>4. Listed(file, f) = accepted[f] /\ accepted[f] \in Nat
  BY DEF IInv, ListsAccepted, TypeOK
<1>5. Suppressed(file, findings)[f] =
        IF f \in Secrets THEN 0
        ELSE IF accepted[f] < findings[f] THEN accepted[f] ELSE findings[f]
  BY <1>4 DEF Suppressed
<1>6. kept[f] = findings[f] - Suppressed(file, findings)[f]
  OBVIOUS
<1> HIDE DEF kept
<1>7. /\ result.of = findings /\ result.kept = kept
      /\ result.stale = Stale(file, findings) /\ result.exit = ExitCode(config, kept)
  BY <1>1
<1> QED
  BY <1>3, <1>4, <1>5, <1>6, <1>7 DEF findings

\* A scan drops no more of a kind than was accepted (applyBaseline).
THEOREM NeverDropsMore == ASSUME BaselineAssumption PROVE Spec => []OnlyAcceptedDropped
<1>1. ASSUME IInv, NEW f \in Fingerprints PROVE result.of[f] - result.kept[f] <= accepted[f]
  <2>1. CASE result = NoScan
    BY <1>1, <2>1 DEF NoScan, None, IInv, TypeOK
  <2>2. CASE result # NoScan
    BY <1>1, <2>2, Dropped
  <2> QED
    BY <2>1, <2>2
<1>2. IInv => OnlyAcceptedDropped
  BY <1>1 DEF OnlyAcceptedDropped
<1> QED
  BY <1>2, InductiveInvariant, PTL

\* A scan with a baseline passes only if every finding that fails a run was
\* accepted, and none is a secret (neverBaselined).
THEOREM NothingNewPasses == ASSUME BaselineAssumption PROVE Spec => []PassMeansNothingNew
<1>1. ASSUME IInv, result.exit = 0, ~ config.noExitCodes, NEW f \in Fingerprints, Fails(config, f)
      PROVE  result.of[f] <= IF f \in Secrets THEN 0 ELSE accepted[f]
  <2>1. result # NoScan
    BY <1>1 DEF NoScan
  <2>2. ~ (result.kept[f] > 0)
    BY <1>1, <2>1, Dropped DEF ExitCode
  <2> QED
    BY <1>1, <2>1, <2>2, Dropped
<1>2. IInv => PassMeansNothingNew
  BY <1>1 DEF PassMeansNothingNew
<1> QED
  BY <1>2, InductiveInvariant, PTL

\* What a scan calls stale can go without a change, and nothing else is left
\* that dropped no finding (applyBaseline).
THEOREM StaleCanGo == ASSUME BaselineAssumption PROVE Spec => []StaleEntriesAreUnused
<1> DEFINE rest == [i \in {j \in DOMAIN file : file[j].fp \notin result.stale} |-> file[i]]
<1>1. ASSUME IInv, result # NoScan, NEW f \in Fingerprints
      PROVE  Suppressed(rest, result.of)[f] = result.of[f] - result.kept[f]
  <2>1. CASE f \in Secrets
    BY <1>1, <2>1, Dropped DEF Suppressed
  <2>2. CASE f \notin Secrets /\ f \in result.stale
    <3>1. result.of[f] = 0
      BY <1>1, <2>2, Dropped DEF Stale
    <3>2. Slots(rest, f) = {}
      BY <2>2 DEF Slots
    <3>3. Suppressed(rest, result.of)[f] = 0
      BY <3>1, <3>2, FS_EmptySet DEF Suppressed, Listed
    <3> QED
      BY <1>1, <3>1, <3>3, Dropped
  <2>3. CASE f \notin Secrets /\ f \notin result.stale
    <3>1. {j \in DOMAIN rest : rest[j].fp = f} = {j \in DOMAIN file : file[j].fp = f}
      BY <2>3
    <3>2. \A i \in DOMAIN rest : rest[i] = file[i]
      OBVIOUS
    <3> HIDE DEF rest
    <3>3. Slots(rest, f) = Slots(file, f)
      BY <3>1, <3>2 DEF Slots
    <3>4. Suppressed(rest, result.of)[f] = Suppressed(file, result.of)[f]
      BY <3>3 DEF Suppressed, Listed
    <3> QED
      BY <1>1, <3>4, Dropped
  <2> QED
    BY <2>1, <2>2, <2>3
<1>2. ASSUME IInv, result # NoScan, NEW i \in DOMAIN file, file[i].fp \notin result.stale,
             file[i].fp \notin Secrets
      PROVE  result.kept[file[i].fp] < result.of[file[i].fp]
  <2> DEFINE f == file[i].fp
  <2>1. f \in Fingerprints /\ file[i] \in Entries
    <3>1. file[i] \in Entries
      BY <1>2 DEF IInv, TypeOK
    <3> QED
      BY <3>1 DEF Entries
  <2>2. result.of[f] # 0
    BY <1>2, <2>1, Dropped DEF Stale, ToSet
  <2>3. <<i, 1>> \in Slots(file, f)
    <3>1. 1 \in 1..EntryCount(file[i])
      BY <2>1 DEF Entries, EntryCount
    <3> QED
      BY <3>1 DEF Slots
  <2>4. Listed(file, f) # 0
    BY <1>2, <2>1, <2>3, FS_EmptySet DEF Listed, IInv, ListsAccepted
  <2> HIDE DEF f
  <2>5. result.kept[f] < result.of[f]
    BY <1>2, <2>1, <2>2, <2>4, Dropped DEF f
  <2> QED
    BY <2>5 DEF f
<1>3. IInv => StaleEntriesAreUnused
  BY <1>1, <1>2 DEF StaleEntriesAreUnused, ToSet
<1> QED
  BY <1>3, InductiveInvariant, PTL
=============================================================================
