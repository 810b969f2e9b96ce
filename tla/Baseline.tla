------------------------------ MODULE Baseline ------------------------------
(***************************************************************************)
(* A baseline over the life of a repository (cmd/cfgaudit/baseline.go):    *)
(* it is written once, committed, merged and edited like any file, and     *)
(* every scan after that drops the findings it lists, after PostProcess    *)
(* (internal/config) has applied the configuration of the day.  Findings   *)
(* that share a fingerprint are told apart by their number only.           *)
(***************************************************************************)
EXTENDS Naturals, Sequences, FiniteSets, SequencesExt

CONSTANTS
    Fingerprints,  \* rule, file, key and message of a finding
    Secrets,       \* those of the rules in neverBaselined
    Severity,      \* Severity[f]: the rule's own, 0 info, 1 warn, 2 error
    Configs,       \* configurations: [override, min, excluded, strict, noExitCodes]
    MaxCount,      \* bound on the findings that share a fingerprint
    MaxEntries     \* bound on the entries of a baseline file

ASSUME BaselineAssumption ==
    /\ IsFiniteSet(Fingerprints) /\ Secrets \subseteq Fingerprints
    /\ Severity \in [Fingerprints -> 0..2]
    /\ \A c \in Configs : /\ DOMAIN c.override \subseteq Fingerprints
                          /\ \A f \in DOMAIN c.override : c.override[f] \in 0..2
                          /\ c.min \in 0..2 /\ c.excluded \subseteq Fingerprints
                          /\ c.strict \in BOOLEAN /\ c.noExitCodes \in BOOLEAN
    /\ MaxCount \in Nat /\ MaxEntries \in Nat

VARIABLES
    found,     \* found[f]: how many findings the rules return with fingerprint f
    config,    \* the configuration in force
    file,      \* the entries of the baseline file, [fp, count]
    accepted,  \* history: the findings a written baseline has listed
    result     \* the scan of this state: its findings before and after the baseline

vars == <<found, config, file, accepted, result>>

Counts == [Fingerprints -> 0..MaxCount]
None == [f \in Fingerprints |-> 0]
NoScan == [of |-> None, kept |-> None, stale |-> {}, exit |-> 1]

Init ==
    /\ found \in Counts
    /\ config \in Configs
    /\ file = <<>>
    /\ accepted = None
    /\ result = NoScan
-----------------------------------------------------------------------------
(* PostProcess and ExitCode.                                               *)

SeverityOf(c, f) == IF f \in DOMAIN c.override THEN c.override[f] ELSE Severity[f]

PostProcess(c, counts) ==
    [f \in Fingerprints |->
        IF SeverityOf(c, f) < c.min \/ f \in c.excluded THEN 0 ELSE counts[f]]

Fails(c, f) == SeverityOf(c, f) = 2 \/ (c.strict /\ SeverityOf(c, f) = 1)

ExitCode(c, counts) ==
    IF ~ c.noExitCodes /\ \E f \in Fingerprints : counts[f] > 0 /\ Fails(c, f) THEN 1 ELSE 0
-----------------------------------------------------------------------------
(* buildBaseline and applyBaseline.                                        *)

\* A fingerprint found once has no count in the file.
StoredCount(n) == IF n = 1 THEN 0 ELSE n

EntryCount(e) == IF e.count > 1 THEN e.count ELSE 1

BuildBaseline(counts) ==
    SetToSeq({[fp |-> f, count |-> StoredCount(counts[f])] :
                 f \in {g \in Fingerprints \ Secrets : counts[g] > 0}})

\* Each entry of f has a slot for every finding it was recorded for; the slots
\* of two entries add up.
Slots(entries, f) ==
    UNION {{<<i, n>> : n \in 1..EntryCount(entries[i])} :
              i \in {j \in DOMAIN entries : entries[j].fp = f}}

\* How often the file lists f.
Listed(entries, f) == Cardinality(Slots(entries, f))

\* Mutant: every finding with a listed fingerprint is dropped.
SuppressAll(entries, counts) ==
    [f \in Fingerprints |->
        IF f \notin Secrets /\ Listed(entries, f) > 0 THEN counts[f] ELSE 0]

\* Mutant: what the file lists is dropped whatever the rule.
SuppressSecrets(entries, counts) ==
    [f \in Fingerprints |->
        IF Listed(entries, f) < counts[f] THEN Listed(entries, f) ELSE counts[f]]

\* Each listed fingerprint drops as many findings as it was recorded for.
Suppressed(entries, counts) ==
    [f \in Fingerprints |->
        IF f \in Secrets THEN 0
        ELSE IF Listed(entries, f) < counts[f] THEN Listed(entries, f) ELSE counts[f]]

\* Mutant: an entry is stale when it did not use up its count.
StalePartly(entries, counts) ==
    {e.fp : e \in {x \in ToSet(entries) : x.fp \notin Secrets /\ counts[x.fp] < EntryCount(x)}}

\* The entries that matched nothing.
Stale(entries, counts) ==
    {e.fp : e \in {x \in ToSet(entries) : x.fp \notin Secrets /\ counts[x.fp] = 0}}
-----------------------------------------------------------------------------
\* The repository changes: a finding more or less of some fingerprint.
Edit ==
    /\ found' \in Counts
    /\ \E f \in Fingerprints : \A g \in Fingerprints \ {f} : found'[g] = found[g]
    /\ result' = NoScan
    /\ UNCHANGED <<config, file, accepted>>

Reconfigure ==
    /\ config' \in Configs
    /\ result' = NoScan
    /\ UNCHANGED <<found, file, accepted>>

\* `cfgaudit baseline`.
WriteBaseline ==
    LET findings == PostProcess(config, found) IN
    /\ file' = BuildBaseline(findings)
    /\ accepted' = [f \in Fingerprints |-> IF f \in Secrets THEN 0 ELSE findings[f]]
    /\ result' = NoScan
    /\ UNCHANGED <<found, config>>

\* A merge of two branches, or a hand, adds an entry: also one for a secret.
MergeEntry ==
    /\ Len(file) < MaxEntries
    /\ \E f \in Fingerprints :
          /\ file' = Append(file, [fp |-> f, count |-> 0])
          /\ accepted' = [accepted EXCEPT ![f] = @ + 1]
    /\ result' = NoScan
    /\ UNCHANGED <<found, config>>

\* `cfgaudit --baseline`.
Scan ==
    LET findings == PostProcess(config, found)
        dropped  == Suppressed(file, findings)
        kept     == [f \in Fingerprints |-> findings[f] - dropped[f]]
    IN  /\ result' = [of |-> findings, kept |-> kept,
                      stale |-> Stale(file, findings), exit |-> ExitCode(config, kept)]
        /\ UNCHANGED <<found, config, file, accepted>>

Next == Edit \/ Reconfigure \/ WriteBaseline \/ MergeEntry \/ Scan

Spec == Init /\ [][Next]_vars
-----------------------------------------------------------------------------
\* A scan drops no more findings of a kind than the file was told to accept,
\* however often it was rewritten, merged and edited.
OnlyAcceptedDropped ==
    \A f \in Fingerprints : result.of[f] - result.kept[f] <= accepted[f]

\* "CI fails only on new ones", and on all of those: a scan passes only if each
\* finding that fails a run was accepted, and no secret is among them, whatever
\* the file lists (neverBaselined).
PassMeansNothingNew ==
    result.exit = 0 /\ ~ config.noExitCodes =>
        \A f \in Fingerprints : Fails(config, f) =>
            result.of[f] <= IF f \in Secrets THEN 0 ELSE accepted[f]

\* The entries a scan calls stale can go, and only those: the file without them
\* drops the same findings, and every entry it keeps has dropped one.
StaleEntriesAreUnused ==
    result # NoScan =>
        LET rest == [i \in {j \in DOMAIN file : file[j].fp \notin result.stale} |-> file[i]] IN
        /\ \A f \in Fingerprints : Suppressed(rest, result.of)[f] = result.of[f] - result.kept[f]
        /\ \A e \in ToSet(rest) : e.fp \notin Secrets => result.kept[e.fp] < result.of[e.fp]
=============================================================================
