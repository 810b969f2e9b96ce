--------------------------- MODULE PolicyProofs ---------------------------
(***************************************************************************)
(* Proofs about the policy commands, for any number of processes, commands *)
(* and entries (PolicyFiles): the invariants that the run checks and the   *)
(* refinement of PolicySync.                                               *)
(* Proofs about the policy check, for every policy, file and request       *)
(* (PolicyCheck): what the comparison of patterns concludes is what the    *)
(* agent does, and the advice is recognised.                               *)
(***************************************************************************)
EXTENDS PolicyFiles, PolicyCheck, NaturalsInduction, WellFoundedInduction, SequenceTheorems, TLAPS

\* The steps from the two reads to the rename, and the last ones of them.
Merged  == {"create", "write", "chmod", "sync", "rename"}
Writing == {"write", "chmod", "sync", "rename"}

Union == Content(entry["settings"]) \cup Content(entry["config"])
KeptMode(f) == IF mode[f] = None THEN NewFileMode ELSE mode[f]

\* A name leads, now or after a power loss, to nothing, to the file committed
\* under it or to one that a process wrote out and renamed to it.
NamesOK ==
    \A f \in Files :
        /\ entry[f] \in durable[f]
        /\ \A i \in durable[f] : i # None =>
              /\ synced[i] /\ data[i] # Torn
              /\ i = f \/ (i \in Procs /\ pc[i] \in {"ok", "killed"} /\ Target(i) = f)

NameModesOK ==
    \A f \in Files : \A i \in durable[f] :
        IF i = None THEN mode[f] = None ELSE mode[i] = KeptMode(f)

\* What a process writes is the union of both lists as they are now, although
\* it read them earlier: every step that changes one leaves the union as it was.
MergeOK(p) ==
    /\ pc[p] = "target" => wanted[p] \cup Content(entry[Target(p)]) = Union
    /\ pc[p] \in Merged => base[p] \cup wanted[p] = Union
    /\ pc[p] \in {"chmod", "sync", "rename"} => data[p] = base[p] \cup wanted[p]
    /\ pc[p] = "rename" => synced[p]

ModeOK(p) ==
    /\ pc[p] \in Writing => keeps[p] = KeptMode(Target(p))
    /\ pc[p] \in {"sync", "rename"} => mode[p] = keeps[p]

LastsOK(p) == pc[p] = "ok" => wanted[p] \subseteq Content(entry[Target(p)])

ProcessOK(p) == MergeOK(p) /\ ModeOK(p) /\ LastsOK(p)

IInv == TypeOK /\ NamesOK /\ NameModesOK /\ \A p \in Procs : ProcessOK(p)
-----------------------------------------------------------------------------
LEMMA Targets == ASSUME NEW p \in Procs
                 PROVE  Source(p) \in Files /\ Target(p) \in Files /\ {Source(p), Target(p)} = Files
BY PolicyFilesAssumption DEF Source, Target, Files

\* What a name leads to is a list of entries, and with it the union.
LEMMA Lists == ASSUME TypeOK, NamesOK
               PROVE  /\ \A f \in Files : \A i \in durable[f] : Content(i) \in SUBSET Entries
                      /\ \A f \in Files : Content(entry[f]) \in SUBSET Entries
                      /\ Union \in SUBSET Entries
<1>1. \A f \in Files : \A i \in durable[f] : Content(i) \in SUBSET Entries
  BY DEF TypeOK, NamesOK, Content
<1>2. \A f \in Files : Content(entry[f]) \in SUBSET Entries
  BY <1>1 DEF NamesOK
<1>3. QED
  BY <1>1, <1>2 DEF Union, Files

\* The temporary file of a running process is under no name.
LEMMA Unnamed == ASSUME IInv, NEW p \in Procs, pc[p] \notin {"ok", "killed"}
                 PROVE  \A f \in Files : p \notin durable[f] /\ entry[f] # p
<1>1. p # None /\ \A f \in Files : p # f
  BY PolicyFilesAssumption DEF Inodes
<1>2. ASSUME NEW f \in Files PROVE p \notin durable[f] /\ entry[f] \in durable[f]
  BY <1>1 DEF IInv, NamesOK
<1>3. QED
  BY <1>2

LEMMA TypeInit == Init => TypeOK
BY PolicyFilesAssumption DEF Init, TypeOK, Files, Inodes, Modes, NewFileMode, PCs, Running

LEMMA TypeStep == ASSUME IInv, [Next]_vars PROVE TypeOK'
<1> USE PolicyFilesAssumption
<1> SUFFICES ASSUME Next PROVE TypeOK'
  BY DEF IInv, TypeOK, vars
<1>1. ASSUME NEW p \in Procs, ReadRequired(p) PROVE TypeOK'
  <2>1. Content(entry[Source(p)]) \in SUBSET Entries
    BY Lists, Targets DEF IInv
  <2>2. QED
    BY <1>1, <2>1 DEF ReadRequired, GoTo, At, IInv, TypeOK, PCs, Running
<1>2. ASSUME NEW p \in Procs, ReadTarget(p) PROVE TypeOK'
  <2>1. Content(entry[Target(p)]) \in SUBSET Entries
    BY Lists, Targets DEF IInv
  <2>2. QED
    BY <1>2, <2>1 DEF ReadTarget, GoTo, At, IInv, TypeOK, PCs, Running
<1>3. ASSUME NEW p \in Procs, CreateTemp(p) PROVE TypeOK'
  <2>1. entry[Target(p)] # None => mode[entry[Target(p)]] \in Modes
    BY Targets DEF IInv, TypeOK, NamesOK, NameModesOK, KeptMode, Modes, NewFileMode, Inodes
  <2>2. QED
    BY <1>3, <2>1 DEF CreateTemp, GoTo, At, IInv, TypeOK, PCs, Running, Inodes, Modes, NewFileMode
<1>4. ASSUME NEW p \in Procs, Write(p) PROVE TypeOK'
  BY <1>4 DEF Write, GoTo, At, IInv, TypeOK, PCs, Running, Inodes
<1>5. ASSUME NEW p \in Procs, Chmod(p) PROVE TypeOK'
  BY <1>5 DEF Chmod, GoTo, At, IInv, TypeOK, PCs, Running, Inodes
<1>6. ASSUME NEW p \in Procs, Sync(p) PROVE TypeOK'
  BY <1>6 DEF Sync, GoTo, At, IInv, TypeOK, PCs, Running, Inodes
<1>7. ASSUME NEW p \in Procs, Rename(p) PROVE TypeOK'
  BY <1>7, Targets DEF Rename, GoTo, At, IInv, TypeOK, PCs, Running, Inodes
<1>8. ASSUME NEW p \in Procs, StepFails(p) PROVE TypeOK'
  BY <1>8 DEF StepFails, GoTo, IInv, TypeOK, PCs, Running
<1>9. ASSUME NEW p \in Procs, Kill(p) PROVE TypeOK'
  BY <1>9 DEF Kill, GoTo, IInv, TypeOK, PCs, Running
<1>10. ASSUME PowerLoss PROVE TypeOK'
  BY <1>10 DEF PowerLoss, At, IInv, TypeOK, PCs, Running
<1>11. CASE Ended
  BY <1>11 DEF Ended, vars, IInv, TypeOK
<1>12. QED
  BY <1>1, <1>2, <1>3, <1>4, <1>5, <1>6, <1>7, <1>8, <1>9, <1>10, <1>11 DEF Next
-----------------------------------------------------------------------------
LEMMA InitInv == Init => IInv
<1> SUFFICES ASSUME Init PROVE IInv
  OBVIOUS
<1>1. TypeOK
  BY TypeInit
<1>2. NamesOK
  <2>1. ASSUME NEW f \in Files, NEW i \in durable[f], i # None PROVE i = f /\ synced[i] /\ data[i] # Torn
    <3>1. i = f /\ entry[f] # None /\ f \in Inodes /\ f \notin Procs
      BY <2>1, PolicyFilesAssumption DEF Init, Inodes
    <3>2. QED
      BY <3>1 DEF Init
  <2>2. QED
    BY <2>1 DEF Init, NamesOK
<1>3. NameModesOK
  BY PolicyFilesAssumption DEF Init, NameModesOK, KeptMode, Inodes, Modes
<1>4. \A p \in Procs : ProcessOK(p)
  BY DEF Init, ProcessOK, MergeOK, ModeOK, LastsOK, Merged, Writing
<1>5. QED
  BY <1>1, <1>2, <1>3, <1>4 DEF IInv

\* A step that changes nothing but one running process, and its temporary file,
\* leaves the names, the union and every other process as they are.
LEMMA Elsewhere ==
    ASSUME IInv, NEW p \in Procs, pc[p] \notin {"ok", "killed"},
           entry' = entry, durable' = durable,
           \A i \in Inodes \ {p} : data'[i] = data[i] /\ synced'[i] = synced[i] /\ mode'[i] = mode[i],
           \A q \in Procs \ {p} : pc'[q] = pc[q] /\ wanted'[q] = wanted[q] /\ base'[q] = base[q] /\ keeps'[q] = keeps[q]
    PROVE  /\ NamesOK' /\ NameModesOK'
           /\ \A f \in Files : Content(entry[f])' = Content(entry[f]) /\ KeptMode(f)' = KeptMode(f)
           /\ Union' = Union
           /\ \A q \in Procs \ {p} : ProcessOK(q)'
<1>1. \A f \in Files : durable[f] \subseteq (Inodes \ {p}) \cup {None} /\ entry[f] \in durable[f]
  BY Unnamed DEF IInv, TypeOK, NamesOK
<1>2. \A f \in Files : Content(entry[f])' = Content(entry[f])
  BY <1>1 DEF Content
<1>3. \A f \in Files : KeptMode(f)' = KeptMode(f)
  BY PolicyFilesAssumption DEF KeptMode, Inodes
<1>4. Union' = Union
  BY <1>2 DEF Union, Files
<1>5. NamesOK'
  BY <1>1, Unnamed DEF IInv, NamesOK, Target
<1>6. NameModesOK'
  BY <1>1, <1>3, PolicyFilesAssumption DEF IInv, NameModesOK, Inodes
<1>7. ASSUME NEW q \in Procs \ {p} PROVE ProcessOK(q)'
  <2>1. Target(q) \in Files /\ Target(q)' = Target(q) /\ q \in Inodes \ {p} /\ ProcessOK(q)
    BY Targets DEF Target, Inodes, IInv
  <2>2. MergeOK(q)'
    BY <2>1, <1>2, <1>4 DEF ProcessOK, MergeOK
  <2>3. ModeOK(q)'
    BY <2>1, <1>3 DEF ProcessOK, ModeOK
  <2>4. LastsOK(q)'
    BY <2>1, <1>2 DEF ProcessOK, LastsOK
  <2>5. QED
    BY <2>2, <2>3, <2>4 DEF ProcessOK
<1>8. QED
  BY <1>2, <1>3, <1>4, <1>5, <1>6, <1>7

LEMMA ReadsStep == ASSUME IInv, NEW p \in Procs, ReadRequired(p) \/ ReadTarget(p) PROVE IInv'
<1>1. TypeOK'
  BY TypeStep DEF Next
<1>2. pc[p] \in {"start", "target"} /\ Source(p) \in Files /\ Target(p) \in Files /\ {Source(p), Target(p)} = Files
  BY Targets DEF ReadRequired, ReadTarget, At
<1>3. /\ entry' = entry /\ durable' = durable /\ data' = data /\ synced' = synced /\ mode' = mode /\ keeps' = keeps
      /\ \A q \in Procs \ {p} : pc'[q] = pc[q] /\ wanted'[q] = wanted[q] /\ base'[q] = base[q]
  BY DEF ReadRequired, ReadTarget, GoTo, IInv, TypeOK
<1>4. /\ NamesOK' /\ NameModesOK' /\ Union' = Union /\ \A q \in Procs \ {p} : ProcessOK(q)'
      /\ \A f \in Files : Content(entry[f])' = Content(entry[f])
  BY <1>2, <1>3, Elsewhere
<1>5. Union = Content(entry[Source(p)]) \cup Content(entry[Target(p)])
  BY <1>2 DEF Union, Files
<1>6. Content(entry[Source(p)]) \in SUBSET Entries /\ Content(entry[Target(p)]) \in SUBSET Entries
  BY <1>2, Lists DEF IInv
<1>7. Target(p)' = Target(p)
  BY DEF Target
<1>8. ProcessOK(p)'
  <2>1. CASE ReadRequired(p)
    <3>1. \/ pc'[p] = "error"
          \/ pc'[p] = "ok" /\ wanted'[p] = {}
          \/ pc'[p] = "target" /\ wanted'[p] = Content(entry[Source(p)])
      BY <2>1 DEF ReadRequired, GoTo, IInv, TypeOK
    <3>2. QED
      BY <3>1, <1>2, <1>4, <1>5, <1>7 DEF ProcessOK, MergeOK, ModeOK, LastsOK, Merged, Writing
  <2>2. CASE ReadTarget(p)
    <3>1. \/ pc'[p] = "error"
          \/ pc'[p] = "ok" /\ wanted[p] \subseteq Content(entry[Target(p)])
          \/ pc'[p] = "create" /\ base'[p] = Content(entry[Target(p)])
      BY <2>2 DEF ReadTarget, GoTo, IInv, TypeOK
    <3>2. wanted' = wanted /\ wanted[p] \cup Content(entry[Target(p)]) = Union
      BY <2>2 DEF ReadTarget, At, IInv, ProcessOK, MergeOK
    <3>3. QED
      BY <3>1, <3>2, <1>2, <1>4, <1>7 DEF ProcessOK, MergeOK, ModeOK, LastsOK, Merged, Writing
  <2>3. QED
    BY <2>1, <2>2
<1>9. QED
  BY <1>1, <1>4, <1>8 DEF IInv

\* The steps of writeFileAtomic before the rename, and the ends of a process.
LEMMA WriteStep ==
    ASSUME IInv, NEW p \in Procs,
           CreateTemp(p) \/ Write(p) \/ Chmod(p) \/ Sync(p) \/ StepFails(p) \/ Kill(p)
    PROVE  IInv' /\ Content(entry["settings"])' = Content(entry["settings"])
                 /\ Content(entry["config"])' = Content(entry["config"])
                 /\ entry' = entry /\ durable' = durable
                 /\ \A f \in Files : \A i \in durable[f] : Content(i)' = Content(i)
<1>1. TypeOK'
  BY TypeStep DEF Next
<1>2. pc[p] \notin {"ok", "killed"} /\ Target(p) \in Files /\ p \in Inodes /\ Target(p)' = Target(p)
  BY Targets DEF CreateTemp, Write, Chmod, Sync, StepFails, Kill, At, Running, Inodes, Target
<1>3. /\ entry' = entry /\ durable' = durable /\ wanted' = wanted /\ base' = base
      /\ \A i \in Inodes \ {p} : data'[i] = data[i] /\ synced'[i] = synced[i] /\ mode'[i] = mode[i]
      /\ \A q \in Procs \ {p} : pc'[q] = pc[q] /\ keeps'[q] = keeps[q]
  BY DEF CreateTemp, Write, Chmod, Sync, StepFails, Kill, GoTo, IInv, TypeOK
<1>4. /\ NamesOK' /\ NameModesOK' /\ Union' = Union /\ \A q \in Procs \ {p} : ProcessOK(q)'
      /\ \A f \in Files : Content(entry[f])' = Content(entry[f]) /\ KeptMode(f)' = KeptMode(f)
  BY <1>2, <1>3, Elsewhere
<1>5. ProcessOK(p)
  BY DEF IInv
<1>6. ProcessOK(p)'
  <2>1. CASE CreateTemp(p)
    <3>1. pc[p] = "create" /\ pc'[p] = "write"
          /\ keeps'[p] = IF entry[Target(p)] = None THEN NewFileMode ELSE mode[entry[Target(p)]]
      BY <2>1 DEF CreateTemp, At, GoTo, IInv, TypeOK
    <3>2. entry[Target(p)] \in durable[Target(p)]
      BY <1>2 DEF IInv, NamesOK
    <3>3. keeps'[p] = KeptMode(Target(p))
      BY <3>1, <3>2, <1>2 DEF IInv, NameModesOK, KeptMode
    <3>4. QED
      BY <3>1, <3>3, <1>2, <1>3, <1>4, <1>5 DEF ProcessOK, MergeOK, ModeOK, LastsOK, Merged, Writing
  <2>2. CASE Write(p)
    <3>1. pc[p] = "write" /\ pc'[p] = "chmod" /\ data'[p] = base[p] \cup wanted[p] /\ keeps' = keeps
      BY <2>2, <1>2 DEF Write, At, GoTo, IInv, TypeOK
    <3>2. QED
      BY <3>1, <1>2, <1>3, <1>4, <1>5 DEF ProcessOK, MergeOK, ModeOK, LastsOK, Merged, Writing
  <2>3. CASE Chmod(p)
    <3>1. pc[p] = "chmod" /\ pc'[p] = "sync" /\ mode'[p] = keeps[p] /\ keeps' = keeps /\ data' = data
      BY <2>3, <1>2 DEF Chmod, At, GoTo, IInv, TypeOK
    <3>2. QED
      BY <3>1, <1>2, <1>3, <1>4, <1>5 DEF ProcessOK, MergeOK, ModeOK, LastsOK, Merged, Writing
  <2>4. CASE Sync(p)
    <3>1. pc[p] = "sync" /\ pc'[p] = "rename" /\ synced'[p] /\ keeps' = keeps /\ data' = data /\ mode' = mode
      BY <2>4, <1>2 DEF Sync, At, GoTo, IInv, TypeOK
    <3>2. QED
      BY <3>1, <1>2, <1>3, <1>4, <1>5 DEF ProcessOK, MergeOK, ModeOK, LastsOK, Merged, Writing
  <2>5. CASE StepFails(p) \/ Kill(p)
    <3>1. pc'[p] \in {"error", "killed"}
      BY <2>5 DEF StepFails, Kill, GoTo, IInv, TypeOK
    <3>2. QED
      BY <3>1 DEF ProcessOK, MergeOK, ModeOK, LastsOK, Merged, Writing
  <2>6. QED
    BY <2>1, <2>2, <2>3, <2>4, <2>5
<1>7. IInv'
  BY <1>1, <1>4, <1>6 DEF IInv
<1>8. \A f \in Files : \A i \in durable[f] : Content(i)' = Content(i)
  BY <1>2, <1>3, Unnamed DEF Content, IInv, TypeOK
<1>9. QED
  BY <1>3, <1>4, <1>7, <1>8 DEF Files

\* The rename gives one name the union of both lists.
LEMMA RenameStep ==
    ASSUME IInv, NEW p \in Procs, Rename(p)
    PROVE  /\ IInv' /\ Union' = Union
           /\ Content(entry[Target(p)])' = Union
           /\ \A f \in Files : f # Target(p) => Content(entry[f])' = Content(entry[f])
<1>1. TypeOK'
  BY TypeStep DEF Next
<1>2. /\ pc[p] = "rename" /\ Target(p) \in Files /\ p \in Inodes /\ p # None /\ synced[p] /\ ProcessOK(p)
      /\ {Source(p), Target(p)} = Files /\ Source(p) \in Files
  BY Targets, PolicyFilesAssumption DEF Rename, At, Inodes, IInv, ProcessOK, MergeOK
<1>3. /\ data' = data /\ synced' = synced /\ mode' = mode /\ wanted' = wanted /\ base' = base /\ keeps' = keeps
      /\ entry' = [entry EXCEPT ![Target(p)] = p] /\ durable' = [durable EXCEPT ![Target(p)] = @ \cup {p}]
      /\ pc' = [pc EXCEPT ![p] = "ok"]
  BY DEF Rename, GoTo
<1>4. data[p] = Union /\ base[p] \cup wanted[p] = Union /\ mode[p] = KeptMode(Target(p))
  BY <1>2 DEF ProcessOK, MergeOK, ModeOK, Merged, Writing
<1>5. Union \in SUBSET Entries /\ \A f \in Files : Content(entry[f]) \in SUBSET Entries
  BY Lists DEF IInv
<1>6. /\ Content(entry[Target(p)])' = Union
      /\ \A f \in Files : f # Target(p) => Content(entry[f])' = Content(entry[f])
  BY <1>2, <1>3, <1>4 DEF Content, IInv, TypeOK
<1>7. \A f \in Files : Content(entry[f]) \subseteq Content(entry[f])' /\ Content(entry[f])' \subseteq Union
  BY <1>6 DEF Union, Files
<1>8. Union' = Union
  BY <1>2, <1>6, <1>7 DEF Union, Files
<1>9. NamesOK'
  <2>1. data[p] # Torn
    BY <1>4, <1>5, PolicyFilesAssumption
  <2>2. \A f \in Files : entry'[f] \in durable'[f]
    BY <1>2, <1>3 DEF IInv, TypeOK, NamesOK
  <2>3. ASSUME NEW f \in Files, NEW i \in durable'[f], i # None
        PROVE  synced[i] /\ data[i] # Torn /\ (i = f \/ (i \in Procs /\ pc'[i] \in {"ok", "killed"} /\ Target(i) = f))
    <3>1. CASE i = p
      BY <3>1, <2>3, <2>1, <1>2, <1>3, Unnamed DEF IInv, TypeOK
    <3>2. CASE i # p
      BY <3>2, <2>3, <1>2, <1>3 DEF IInv, TypeOK, NamesOK
    <3>3. QED
      BY <3>1, <3>2
  <2>4. QED
    BY <2>2, <2>3, <1>3 DEF NamesOK, Target
<1>10. NameModesOK'
  BY <1>2, <1>3, <1>4 DEF IInv, TypeOK, NameModesOK, KeptMode
<1>11. ASSUME NEW q \in Procs PROVE ProcessOK(q)'
  <2>1. ProcessOK(q) /\ Target(q) \in Files /\ Target(q)' = Target(q) /\ KeptMode(Target(q))' = KeptMode(Target(q))
    BY <1>3, Targets DEF IInv, Target, KeptMode
  <2>2. CASE q = p
    BY <2>1, <2>2, <1>3, <1>4, <1>6 DEF ProcessOK, MergeOK, ModeOK, LastsOK, Merged, Writing, IInv, TypeOK
  <2>3. CASE q # p
    <3>1. pc'[q] = pc[q]
      BY <2>3, <1>3 DEF IInv, TypeOK
    <3>2. pc[q] = "target" => wanted[q] \cup Content(entry[Target(q)])' = Union
      BY <2>1, <1>7 DEF ProcessOK, MergeOK
    <3>3. LastsOK(q)'
      BY <3>1, <2>1, <1>3, <1>7 DEF ProcessOK, LastsOK
    <3>4. QED
      BY <3>1, <3>2, <3>3, <2>1, <1>3, <1>8 DEF ProcessOK, MergeOK, ModeOK
  <2>4. QED
    BY <2>2, <2>3
<1>12. QED
  BY <1>1, <1>6, <1>8, <1>9, <1>10, <1>11 DEF IInv

LEMMA PowerLossStep ==
    ASSUME IInv, PowerLoss
    PROVE  /\ IInv' /\ \A f \in Files : entry'[f] \in durable[f] /\ durable'[f] = {entry'[f]}
           /\ \A f \in Files : \A i \in durable[f] : Content(i)' = Content(i)
<1>1. TypeOK'
  BY TypeStep DEF Next
<1>2. \A f \in Files : entry'[f] \in durable[f] /\ durable'[f] = {entry'[f]}
  BY DEF PowerLoss
<1>3. \A i \in Inodes : synced[i] => data'[i] = data[i]
  BY DEF PowerLoss
<1>4. \A f \in Files : durable[f] \subseteq Inodes \cup {None}
  BY DEF IInv, TypeOK
<1>5. \A f \in Files : \A i \in durable[f] : Content(i)' = Content(i)
  BY <1>3, <1>4 DEF Content, IInv, NamesOK
<1>6. synced' = synced /\ mode' = mode /\ \A p \in Procs : pc'[p] \in {"start", "killed"} /\ (pc'[p] = "start" => pc[p] = "start")
  BY DEF PowerLoss, At
<1>7. NamesOK'
  <2>1. ASSUME NEW f \in Files, NEW i \in durable'[f], i # None
        PROVE  synced[i] /\ data'[i] # Torn /\ (i = f \/ (i \in Procs /\ pc'[i] \in {"ok", "killed"} /\ Target(i) = f))
    <3>1. i \in durable[f] /\ i \in Inodes
      BY <2>1, <1>2, <1>4
    <3>2. synced[i] /\ data[i] # Torn /\ (i = f \/ (i \in Procs /\ pc[i] \in {"ok", "killed"} /\ Target(i) = f))
      BY <3>1, <2>1 DEF IInv, NamesOK
    <3>3. QED
      BY <3>1, <3>2, <1>3, <1>6
  <2>2. QED
    BY <2>1, <1>2, <1>6 DEF NamesOK, Target
<1>8. NameModesOK'
  BY <1>2, <1>6 DEF IInv, NameModesOK, KeptMode
<1>9. \A p \in Procs : ProcessOK(p)'
  BY <1>6 DEF ProcessOK, MergeOK, ModeOK, LastsOK, Merged, Writing
<1>10. QED
  BY <1>1, <1>2, <1>5, <1>7, <1>8, <1>9 DEF IInv

LEMMA StepInv == IInv /\ [Next]_vars => IInv'
<1> SUFFICES ASSUME IInv, [Next]_vars PROVE IInv'
  OBVIOUS
<1>1. ASSUME NEW p \in Procs, ReadRequired(p) \/ ReadTarget(p) PROVE IInv'
  BY <1>1, ReadsStep
<1>2. ASSUME NEW p \in Procs, CreateTemp(p) \/ Write(p) \/ Chmod(p) \/ Sync(p) \/ StepFails(p) \/ Kill(p) PROVE IInv'
  BY <1>2, WriteStep
<1>3. ASSUME NEW p \in Procs, Rename(p) PROVE IInv'
  BY <1>3, RenameStep
<1>4. CASE PowerLoss
  BY <1>4, PowerLossStep
<1>5. CASE UNCHANGED vars
  BY <1>5 DEF vars, IInv, TypeOK, NamesOK, NameModesOK, KeptMode, ProcessOK, MergeOK, ModeOK, LastsOK, Union, Content, Target
<1>6. QED
  BY <1>1, <1>2, <1>3, <1>4, <1>5 DEF Next, Ended

LEMMA Inductive == Spec => []IInv
BY InitInv, StepInv, PTL DEF Spec
-----------------------------------------------------------------------------
\* Every variable of the model has its type, for any processes, commands and
\* deny lists of policy apply and generate.
THEOREM TypeCorrect == Spec => []TypeOK
<1>1. IInv => TypeOK
  BY DEF IInv
<1>2. QED
  BY <1>1, Inductive, PTL

\* A reader of either file never meets one that is not whole, however many
\* commands replace it, fail, are killed or go down with the machine.
THEOREM FilesAlwaysWhole == Spec => []WholeFiles
<1>1. IInv => WholeFiles
  BY PolicyFilesAssumption DEF IInv, NamesOK, WholeFiles, Content
<1>2. QED
  BY <1>1, Inductive, PTL

\* The permission bits of the committed file survive any number of
\* replacements by writeFileAtomic.
THEOREM ModeAlwaysKept == Spec => []ModeKept
<1>1. IInv => ModeKept
  BY DEF IInv, NamesOK, NameModesOK, KeptMode, ModeKept
<1>2. QED
  BY <1>1, Inductive, PTL

\* The entries a command has reported as merged stay in the file.
THEOREM SuccessIsLasting == Spec => []SuccessLasts
<1>1. IInv => SuccessLasts
  BY DEF IInv, ProcessOK, LastsOK, SuccessLasts, At
<1>2. QED
  BY <1>1, Inductive, PTL
-----------------------------------------------------------------------------
\* The variables of PolicySync.
Versions == [f \in Files |-> {Content(i) : i \in durable[f]}]
ListsSeen == <<Content(entry["settings"]), Content(entry["config"]), Versions>>

\* The rename is the merge.
LEMMA RenameMerges ==
    ASSUME IInv, NEW p \in Procs, Rename(p)
    PROVE  Merging!Apply \/ Merging!Generate
<1>1. /\ Content(entry[Target(p)])' = Union
      /\ \A f \in Files : f # Target(p) => Content(entry[f])' = Content(entry[f])
  BY RenameStep
<1>2. Target(p) \in Files
  BY Targets
<1>3. /\ durable' = [durable EXCEPT ![Target(p)] = @ \cup {p}] /\ entry' = [entry EXCEPT ![Target(p)] = p]
      /\ \A i : Content(i)' = Content(i)
  BY DEF Rename, Content
<1>4. Content(p)' = Union
  BY <1>1, <1>2, <1>3 DEF IInv, TypeOK
<1>5. Versions' = [Versions EXCEPT ![Target(p)] = @ \cup {Union}]
  <2>1. ASSUME NEW f \in Files
        PROVE  {Content(i) : i \in durable[f]}' = IF f = Target(p) THEN {Content(i) : i \in durable[f]} \cup {Union}
                                                  ELSE {Content(i) : i \in durable[f]}
    <3>1. durable'[f] = IF f = Target(p) THEN durable[f] \cup {p} ELSE durable[f]
      BY <1>3 DEF IInv, TypeOK
    <3>2. QED
      BY <3>1, <1>3, <1>4
  <2>2. QED
    BY <2>1 DEF Versions
<1>6. CASE Target(p) = "settings"
  <2>1. Merging!Apply
    BY <1>1, <1>5, <1>6 DEF Merging!Apply, Union, Files, Versions
  <2>2. QED
    BY <2>1
<1>7. CASE Target(p) = "config"
  <2>1. Union = Content(entry["config"]) \cup Content(entry["settings"])
    BY DEF Union
  <2>2. Merging!Generate
    BY <1>1, <1>5, <1>7, <2>1 DEF Merging!Generate, Files, Versions
  <2>3. QED
    BY <2>2
<1>8. QED
  BY <1>2, <1>6, <1>7 DEF Files

LEMMA PowerLossRestores == ASSUME IInv, PowerLoss PROVE Merging!PowerLoss
<1>1. \A f \in Files : entry'[f] \in durable[f] /\ durable'[f] = {entry'[f]}
  BY PowerLossStep
<1>2. \A f \in Files : \A i \in durable[f] : Content(i)' = Content(i)
  BY PowerLossStep
<1>3. \A f \in Files : Content(entry[f])' \in Versions[f]
  BY <1>1, <1>2 DEF Versions
<1>4. \A f \in Files : Versions'[f] = {Content(entry[f])'}
  BY <1>1 DEF Versions
<1>5. Versions' = [settings |-> {Content(entry["settings"])'}, config |-> {Content(entry["config"])'}]
  BY <1>4 DEF Versions, Files
<1>6. QED
  BY <1>3, <1>5 DEF Merging!PowerLoss, Versions, Files

\* Every other step leaves what a reader of the lists sees.
LEMMA Stutter ==
    ASSUME IInv, entry' = entry, durable' = durable,
           \A f \in Files : \A i \in durable[f] : Content(i)' = Content(i)
    PROVE  UNCHANGED ListsSeen
<1>1. \A f \in Files : Content(entry[f])' = Content(entry[f])
  BY DEF IInv, NamesOK
<1>2. Versions' = Versions
  BY DEF Versions
<1>3. QED
  BY <1>1, <1>2 DEF ListsSeen, Files

\* The commands together, however their reads and renames interleave, do what
\* PolicySync says of them: merges in one step, and after a power loss an
\* earlier version of either list.
THEOREM RefinesPolicySync == Spec => ImplementsPolicySync
<1>1. Init => Merging!Init
  <2> SUFFICES ASSUME Init PROVE Merging!Init
    OBVIOUS
  <2>1. \A f \in Files : Content(entry[f]) \in SUBSET Entries
    BY InitInv, Lists DEF IInv
  <2>2. \A f \in Files : Versions[f] = {Content(entry[f])}
    BY DEF Init, Versions
  <2>3. Versions = [settings |-> {Content(entry["settings"])}, config |-> {Content(entry["config"])}]
    BY <2>2 DEF Versions, Files
  <2>4. QED
    BY <2>1, <2>3 DEF Merging!Init, Versions, Files
<1>2. IInv /\ [Next]_vars => [Merging!Next]_ListsSeen
  <2> SUFFICES ASSUME IInv, [Next]_vars PROVE [Merging!Next]_ListsSeen
    OBVIOUS
  <2>1. ASSUME NEW p \in Procs, ReadRequired(p) \/ ReadTarget(p) PROVE UNCHANGED ListsSeen
    BY <2>1, Stutter DEF ReadRequired, ReadTarget, Content
  <2>2. ASSUME NEW p \in Procs, CreateTemp(p) \/ Write(p) \/ Chmod(p) \/ Sync(p) \/ StepFails(p) \/ Kill(p)
        PROVE  UNCHANGED ListsSeen
    BY <2>2, WriteStep, Stutter
  <2>3. ASSUME NEW p \in Procs, Rename(p) PROVE Merging!Next
    BY <2>3, RenameMerges DEF Merging!Next
  <2>4. CASE PowerLoss
    BY <2>4, PowerLossRestores DEF Merging!Next
  <2>5. CASE UNCHANGED vars
    BY <2>5 DEF vars, ListsSeen, Versions, Content
  <2>6. QED
    BY <2>1, <2>2, <2>3, <2>4, <2>5 DEF Next, Ended
<1>3. QED
  BY <1>1, <1>2, Inductive, PTL DEF Spec, ImplementsPolicySync, Merging!Spec, ListsSeen, Versions
-----------------------------------------------------------------------------
(* Texts: sequences of parts, their fronts and tails, prefixes and         *)
(* suffixes.                                                               *)

\* Two texts with the same parts are one.
LEMMA SameText ==
    ASSUME NEW s \in Text, NEW t \in Text, Len(s) = Len(t), \A i \in 1..Len(s) : s[i] = t[i]
    PROVE  s = t
BY SeqEqual DEF Text

\* A text without its last part.
LEMMA FrontText ==
    ASSUME NEW s \in Text, s # <<>>
    PROVE  /\ Len(s) \in Nat \ {0} /\ Last(s) \in Parts
           /\ Front(s) \in Text /\ Len(Front(s)) = Len(s) - 1
           /\ \A i \in 1..(Len(s) - 1) : Front(s)[i] = s[i]
<1>1. Len(s) \in Nat \ {0} /\ \A i \in 1..Len(s) : s[i] \in Parts
  BY LenProperties, EmptySeq DEF Text
<1>2. SubSeq(s, 1, Len(s) - 1) \in Text /\ Len(SubSeq(s, 1, Len(s) - 1)) = Len(s) - 1
      /\ \A i \in 1..(Len(s) - 1) : SubSeq(s, 1, Len(s) - 1)[i] = s[i]
  <2>1. \A i \in 1..(Len(s) - 1) : s[i] \in Parts
    BY <1>1
  <2> DEFINE n == Len(s) - 1
  <2>3. n \in Nat /\ 1 \in Int /\ n \in Int /\ \A i \in 1..n : s[i] \in Parts
    BY <1>1, <2>1
  <2> HIDE DEF n
  <2>4. /\ SubSeq(s, 1, n) \in Seq(Parts)
        /\ Len(SubSeq(s, 1, n)) = IF 1 <= n THEN n - 1 + 1 ELSE 0
        /\ \A i \in 1..(n - 1 + 1) : SubSeq(s, 1, n)[i] = s[1 + i - 1]
    BY <2>3, SubSeqProperties
  <2>5. Len(SubSeq(s, 1, n)) = n /\ \A i \in 1..n : SubSeq(s, 1, n)[i] = s[i]
    BY <2>3, <2>4
  <2> QED
    BY <2>4, <2>5 DEF Text, n
<1> QED
  BY <1>1, <1>2 DEF Front, Last

\* A text without its first part.
LEMMA TailText ==
    ASSUME NEW s \in Text, s # <<>>
    PROVE  /\ Head(s) = s[1] /\ Head(s) \in Parts /\ Len(s) \in Nat \ {0}
           /\ Tail(s) \in Text /\ Len(Tail(s)) = Len(s) - 1
           /\ \A i \in 1..(Len(s) - 1) : Tail(s)[i] = s[i + 1]
BY DEF Text

\* A text with a part after it.
LEMMA AppendText ==
    ASSUME NEW s \in Text, NEW x \in Parts
    PROVE  /\ s \o <<x>> \in Text /\ Len(s \o <<x>>) = Len(s) + 1 /\ s \o <<x>> # <<>>
           /\ (s \o <<x>>)[Len(s) + 1] = x
           /\ \A i \in 1..Len(s) : (s \o <<x>>)[i] = s[i]
<1>1. s \o <<x>> \in Text /\ Len(s \o <<x>>) = Len(s) + 1
  BY DEF Text
<1>2. (s \o <<x>>)[Len(s) + 1] = x
  BY DEF Text
<1>3. \A i \in 1..Len(s) : (s \o <<x>>)[i] = s[i]
  BY DEF Text
<1>4. s \o <<x>> # <<>>
  BY DEF Text
<1> QED
  BY <1>1, <1>2, <1>3, <1>4

\* A text with a part before it.
LEMMA ConsText ==
    ASSUME NEW s \in Text, NEW x \in Parts
    PROVE  /\ <<x>> \o s \in Text /\ Len(<<x>> \o s) = Len(s) + 1 /\ <<x>> \o s # <<>>
           /\ (<<x>> \o s)[1] = x /\ Head(<<x>> \o s) = x /\ Tail(<<x>> \o s) = s
           /\ \A i \in 1..Len(s) : (<<x>> \o s)[i + 1] = s[i]
<1>1. <<x>> \o s \in Text /\ Len(<<x>> \o s) = Len(s) + 1
  BY DEF Text
<1>2. (<<x>> \o s)[1] = x /\ Head(<<x>> \o s) = x
  BY DEF Text
<1>3. Tail(<<x>> \o s) = s /\ <<x>> \o s # <<>>
  BY DEF Text
<1>4. \A i \in 1..Len(s) : (<<x>> \o s)[i + 1] = s[i]
  BY DEF Text
<1> QED
  BY <1>1, <1>2, <1>3, <1>4

\* What the prefixes of a text are.
LEMMA PrefixText ==
    ASSUME NEW s \in Text, NEW t \in Text
    PROVE  /\ IsPrefix(s, t) <=> Len(s) <= Len(t) /\ \A i \in 1..Len(s) : s[i] = t[i]
           /\ IsStrictPrefix(s, t) <=> Len(s) < Len(t) /\ \A i \in 1..Len(s) : s[i] = t[i]
<1>1. Len(s) \in Nat /\ Len(t) \in Nat
  BY DEF Text
<1>2. IsPrefix(s, t) <=> Len(s) <= Len(t) /\ \A i \in 1..Len(s) : s[i] = t[i]
  <2>1. CASE Len(s) <= Len(t)
    <3>1. SubSeq(s, 1, Len(s)) = s
      BY SubSeqFull DEF Text
    <3>2. SubSeq(t, 1, Len(s)) \in Text /\ Len(SubSeq(t, 1, Len(s))) = Len(s)
          /\ \A i \in 1..Len(s) : SubSeq(t, 1, Len(s))[i] = t[i]
      BY <1>1, <2>1 DEF Text
    <3> QED
      BY <2>1, <3>1, <3>2, SameText DEF IsPrefix
  <2> QED
    BY <2>1 DEF IsPrefix
<1>3. s = t <=> Len(s) = Len(t) /\ \A i \in 1..Len(s) : s[i] = t[i]
  BY SameText
<1> QED
  BY <1>1, <1>2, <1>3 DEF IsStrictPrefix

\* What the suffixes of a text are.
LEMMA SuffixText ==
    ASSUME NEW s \in Text, NEW t \in Text
    PROVE  /\ IsSuffix(s, t) <=> Len(s) <= Len(t) /\ \A i \in 1..Len(s) : s[i] = t[(Len(t) - Len(s)) + i]
           /\ IsStrictSuffix(s, t) <=> Len(s) < Len(t) /\ \A i \in 1..Len(s) : s[i] = t[(Len(t) - Len(s)) + i]
<1>1. Len(s) \in Nat /\ Len(t) \in Nat
  BY DEF Text
<1>2. ASSUME NEW u \in Text
      PROVE  /\ Reverse(u) \in Text /\ Len(Reverse(u)) = Len(u)
             /\ \A i \in 1..Len(u) : Reverse(u)[i] = u[(Len(u) - i) + 1]
  BY DEF Text, Reverse
<1>3. IsSuffix(s, t) <=> Len(s) <= Len(t) /\ \A i \in 1..Len(s) : s[(Len(s) - i) + 1] = t[(Len(t) - i) + 1]
  <2>1. IsSuffix(s, t) <=> Len(s) <= Len(t) /\ \A i \in 1..Len(s) : Reverse(s)[i] = Reverse(t)[i]
    BY <1>2, PrefixText DEF IsSuffix
  <2> QED
    BY <1>1, <1>2, <2>1
<1>4. ASSUME Len(s) <= Len(t)
      PROVE  (\A i \in 1..Len(s) : s[(Len(s) - i) + 1] = t[(Len(t) - i) + 1])
             <=> \A i \in 1..Len(s) : s[i] = t[(Len(t) - Len(s)) + i]
  <2>1. ASSUME \A i \in 1..Len(s) : s[(Len(s) - i) + 1] = t[(Len(t) - i) + 1], NEW i \in 1..Len(s)
        PROVE  s[i] = t[(Len(t) - Len(s)) + i]
    <3>1. (Len(s) - i) + 1 \in 1..Len(s)
      BY <1>1
    <3>2. s[(Len(s) - ((Len(s) - i) + 1)) + 1] = t[(Len(t) - ((Len(s) - i) + 1)) + 1]
      BY <2>1, <3>1
    <3>3. (Len(s) - ((Len(s) - i) + 1)) + 1 = i /\ (Len(t) - ((Len(s) - i) + 1)) + 1 = (Len(t) - Len(s)) + i
      BY <1>1
    <3> QED
      BY <3>2, <3>3
  <2>2. ASSUME \A i \in 1..Len(s) : s[i] = t[(Len(t) - Len(s)) + i], NEW i \in 1..Len(s)
        PROVE  s[(Len(s) - i) + 1] = t[(Len(t) - i) + 1]
    <3>1. (Len(s) - i) + 1 \in 1..Len(s) /\ (Len(t) - Len(s)) + ((Len(s) - i) + 1) = (Len(t) - i) + 1
      BY <1>1
    <3>2. s[(Len(s) - i) + 1] = t[(Len(t) - Len(s)) + ((Len(s) - i) + 1)]
      BY <2>2, <3>1
    <3> QED
      BY <3>1, <3>2
  <2> QED
    BY <2>1, <2>2
<1>5. IsSuffix(s, t) <=> Len(s) <= Len(t) /\ \A i \in 1..Len(s) : s[i] = t[(Len(t) - Len(s)) + i]
  BY <1>3, <1>4
<1>6. s = t <=> Len(s) = Len(t) /\ \A i \in 1..Len(s) : s[i] = t[i]
  BY SameText
<1> QED
  BY <1>1, <1>5, <1>6 DEF IsStrictSuffix

-----------------------------------------------------------------------------
(* starGlob: a pattern matches a text when the text can be cut into pieces *)
(* that the parts of the pattern stand for.  Matching is transitive, so    *)
(* what covers a pattern matches all that the pattern matches.             *)

\* Induction over the naturals, with a set in place of a predicate.
Before == {pair \in Nat \X Nat : pair[1] < pair[2]}

\* The order of the naturals is well founded.
LEMMA BeforeWellFounded == IsWellFoundedOn(Before, Nat)
BY NatLessThanWellFounded, Zenon DEF OpToRel, Before

\* Induction over the naturals, for a set in place of a predicate.
LEMMA SetInduction ==
    ASSUME NEW T, 0 \in T, \A n \in Nat : n \in T => n + 1 \in T
    PROVE  Nat \subseteq T
<1> SUFFICES ASSUME Nat \ T # {} PROVE FALSE
  OBVIOUS
<1>1. \A x, y \in Nat : <<y, x>> \in Before <=> y < x
  BY DEF Before
<1>2. PICK x \in Nat \ T : \A y \in Nat \ T : ~ (<<y, x>> \in Before)
  BY BeforeWellFounded, WFMin
<1>3. x # 0 /\ x - 1 \in Nat /\ x - 1 < x
  BY <1>2
<1>4. x - 1 \in T
  BY <1>1, <1>2, <1>3
<1> QED
  BY <1>2, <1>3, <1>4

\* Part x of a pattern stands for the parts of s after a, up to b.
Stands(x, s, a, b) ==
    CASE x \in Stars -> a < b
      [] x = "..."   -> a <= b
      [] OTHER       -> b = a + 1 /\ s[b] = x

\* f[i] is where the first i parts of p end in s.
Cut(p, s, f) ==
    /\ f \in [0..Len(p) -> 0..Len(s)] /\ f[0] = 0 /\ f[Len(p)] = Len(s)
    /\ \A i \in 1..Len(p) : Stands(p[i], s, f[i - 1], f[i])

\* Where a part may end, given where the part before it may.
LEMMA EndsStand ==
    ASSUME NEW s \in Text, NEW x, NEW B \in SUBSET (0..Len(s)), NEW j
    PROVE  j \in EndsAfter(x, s, B) <=> j \in 0..Len(s) /\ \E k \in B : Stands(x, s, k, j)
<1>1. Len(s) \in Nat
  BY DEF Text
<1>2. CASE x \in Stars
  BY <1>1, <1>2 DEF EndsAfter, Stands
<1>3. CASE x = "..."
  <2>1. x \notin Stars
    BY <1>3 DEF Stars
  <2> QED
    BY <1>1, <1>3, <2>1 DEF EndsAfter, Stands
<1>4. CASE x \notin Stars /\ x # "..."
  <2>1. EndsAfter(x, s, B) = {k \in 1..Len(s) : s[k] = x /\ k - 1 \in B}
    BY <1>4 DEF EndsAfter
  <2>2. \A k : Stands(x, s, k, j) <=> j = k + 1 /\ s[j] = x
    BY <1>4 DEF Stands
  <2> QED
    BY <1>1, <2>1, <2>2
<1> QED
  BY <1>2, <1>3, <1>4

\* The recursive function of starGlob, by what it satisfies.
Ends(p, s, L) ==
    /\ L \in [0..Len(p) -> SUBSET (0..Len(s))] /\ L[0] = {0}
    /\ \A i \in 1..Len(p) : L[i] = EndsAfter(p[i], s, L[i - 1])

\* There is such a function.
LEMMA EndsExist == ASSUME NEW p \in Text, NEW s \in Text PROVE \E L : Ends(p, s, L)
<1> DEFINE Ok(m, g) == g[0] = {0} /\ \A i \in 1..m : g[i] = EndsAfter(p[i], s, g[i - 1])
           Places == SUBSET (0..Len(s))
           T == {m \in Nat : m <= Len(p) => \E g \in [0..m -> Places] : Ok(m, g)}
<1>1. Len(p) \in Nat /\ Len(s) \in Nat /\ {0} \in Places
  BY DEF Text
<1>2. \A x : \A B \in Places : EndsAfter(x, s, B) \in Places
  BY EndsStand
<1> HIDE DEF Places
<1>3. 0 \in T
  <2>1. [n \in 0..0 |-> {0}] \in [0..0 -> Places] /\ Ok(0, [n \in 0..0 |-> {0}])
    BY <1>1
  <2> QED
    BY <2>1
<1>4. ASSUME NEW m \in Nat, m \in T PROVE m + 1 \in T
  <2> SUFFICES ASSUME m + 1 <= Len(p) PROVE \E g \in [0..(m + 1) -> Places] : Ok(m + 1, g)
    OBVIOUS
  <2>1. PICK g \in [0..m -> Places] : Ok(m, g)
    BY <1>1, <1>4
  <2> DEFINE next == EndsAfter(p[m + 1], s, g[m])
             h == [n \in 0..(m + 1) |-> IF n = m + 1 THEN next ELSE g[n]]
  <2>2. next \in Places
    BY <1>2, <2>1
  <2> HIDE DEF next
  <2>3. h \in [0..(m + 1) -> Places] /\ (\A n \in 0..m : h[n] = g[n]) /\ h[m + 1] = next
    BY <2>1, <2>2
  <2> HIDE DEF h
  <2>4. Ok(m + 1, h)
    <3>1. h[0] = {0}
      BY <2>1, <2>3
    <3>2. ASSUME NEW n \in 1..(m + 1) PROVE h[n] = EndsAfter(p[n], s, h[n - 1])
      <4>1. CASE n = m + 1
        BY <4>1, <2>3 DEF next
      <4>2. CASE n # m + 1
        <5>1. n \in 1..m /\ n \in 0..m /\ n - 1 \in 0..m
          BY <4>2
        <5> QED
          BY <5>1, <2>1, <2>3
      <4> QED
        BY <4>1, <4>2
    <3> QED
      BY <3>1, <3>2
  <2> QED
    BY <2>3, <2>4
<1> HIDE DEF T
<1>5. Len(p) \in T
  BY <1>1, <1>3, <1>4, SetInduction
<1> QED
  BY <1>5 DEF T, Ends, Places, Ok

\* The recursive function in starGlob satisfies the equation it is defined by.
LEMMA GlobEnds ==
    ASSUME NEW p \in Text, NEW s \in Text
    PROVE  \E L : Ends(p, s, L) /\ (starGlob(p, s) <=> Len(s) \in L[Len(p)])
<1> DEFINE Body(g) == [i \in 0..Len(p) |-> IF i = 0 THEN {0} ELSE EndsAfter(p[i], s, g[i - 1])]
           L == CHOOSE g : g = Body(g)
<1>1. starGlob(p, s) <=> Len(s) \in L[Len(p)]
  BY DEF starGlob
<1>2. PICK g : Ends(p, s, g)
  BY EndsExist
<1>3. g = Body(g)
  BY <1>2 DEF Ends
<1>4. L = Body(L)
  BY <1>3
<1> HIDE DEF L
<1>5. Len(p) \in Nat
  BY DEF Text
<1>6. L[0] = {0} /\ DOMAIN L = 0..Len(p) /\ L = [i \in 0..Len(p) |-> L[i]]
  BY <1>4, <1>5
<1>7. ASSUME NEW i \in 1..Len(p) PROVE L[i] = EndsAfter(p[i], s, L[i - 1])
  <2>1. i \in 0..Len(p) /\ i # 0
    BY <1>5
  <2>2. L[i] = Body(L)[i]
    BY <1>4
  <2>3. Body(L)[i] = EndsAfter(p[i], s, L[i - 1])
    BY <2>1
  <2> QED
    BY <2>2, <2>3
<1> HIDE DEF Body
<1>8. \A i \in 0..Len(p) : L[i] = g[i]
  <2> DEFINE T == {n \in Nat : n <= Len(p) => L[n] = g[n]}
  <2>1. 0 \in T
    BY <1>2, <1>6 DEF Ends
  <2>2. ASSUME NEW n \in Nat, n \in T PROVE n + 1 \in T
    <3> SUFFICES ASSUME n + 1 <= Len(p) PROVE L[n + 1] = g[n + 1]
      OBVIOUS
    <3>1. L[n] = g[n] /\ n + 1 \in 1..Len(p) /\ (n + 1) - 1 = n
      BY <1>5, <2>2
    <3>2. g[n + 1] = EndsAfter(p[n + 1], s, g[n])
      BY <1>2, <3>1 DEF Ends
    <3>3. L[n + 1] = EndsAfter(p[n + 1], s, L[n])
      BY <1>7, <3>1
    <3> QED
      BY <3>1, <3>2, <3>3
  <2> HIDE DEF T
  <2>3. Nat \subseteq T
    BY <2>1, <2>2, SetInduction
  <2> QED
    BY <1>5, <2>3 DEF T
<1>9. L[Len(p)] = g[Len(p)]
  BY <1>5, <1>8
<1> QED
  BY <1>1, <1>2, <1>9

\* A pattern matches a text just when the text can be cut among its parts.
LEMMA GlobCuts ==
    ASSUME NEW p \in Text, NEW s \in Text
    PROVE  starGlob(p, s) <=> \E f : Cut(p, s, f)
<1>1. PICK L : Ends(p, s, L) /\ (starGlob(p, s) <=> Len(s) \in L[Len(p)])
  BY GlobEnds
<1>2. Len(p) \in Nat /\ Len(s) \in Nat
  BY DEF Text
<1>3. ASSUME NEW i \in 1..Len(p), NEW j
      PROVE  j \in L[i] <=> j \in 0..Len(s) /\ \E k \in L[i - 1] : Stands(p[i], s, k, j)
  <2>1. L[i - 1] \in SUBSET (0..Len(s)) /\ L[i] = EndsAfter(p[i], s, L[i - 1])
    BY <1>1, <1>2 DEF Ends
  <2> QED
    BY <2>1, EndsStand
<1>4. ASSUME NEW f, Cut(p, s, f) PROVE Len(s) \in L[Len(p)]
  <2> DEFINE T == {n \in Nat : n <= Len(p) => f[n] \in L[n]}
  <2>1. 0 \in T
    BY <1>1, <1>4 DEF Ends, Cut
  <2>2. ASSUME NEW n \in Nat, n \in T PROVE n + 1 \in T
    <3> SUFFICES ASSUME n + 1 <= Len(p) PROVE f[n + 1] \in L[n + 1]
      OBVIOUS
    <3>1. n + 1 \in 1..Len(p) /\ (n + 1) - 1 = n /\ f[n] \in L[n] /\ f[n + 1] \in 0..Len(s)
      BY <1>2, <1>4, <2>2 DEF Cut
    <3>2. Stands(p[n + 1], s, f[n], f[n + 1])
      BY <1>4, <3>1 DEF Cut
    <3> QED
      BY <1>3, <3>1, <3>2
  <2> HIDE DEF T
  <2>3. Len(p) \in T
    BY <1>2, <2>1, <2>2, SetInduction
  <2>4. f[Len(p)] \in L[Len(p)]
    BY <1>2, <2>3 DEF T
  <2> QED
    BY <1>4, <2>4 DEF Cut
<1>5. ASSUME Len(s) \in L[Len(p)] PROVE \E f : Cut(p, s, f)
  <2> DEFINE Partial(m, j, f) == /\ f \in [0..m -> 0..Len(s)] /\ f[0] = 0 /\ f[m] = j
                                 /\ \A i \in 1..m : Stands(p[i], s, f[i - 1], f[i])
             T == {n \in Nat : n <= Len(p) => \A j \in L[n] : \E f : Partial(n, j, f)}
  <2>1. 0 \in T
    <3>1. Partial(0, 0, [i \in 0..0 |-> 0])
      BY <1>2
    <3> QED
      BY <1>1, <3>1 DEF Ends
  <2>2. ASSUME NEW n \in Nat, n \in T PROVE n + 1 \in T
    <3> SUFFICES ASSUME n + 1 <= Len(p), NEW j \in L[n + 1] PROVE \E f : Partial(n + 1, j, f)
      OBVIOUS
    <3>1. n + 1 \in 1..Len(p) /\ (n + 1) - 1 = n
      BY <1>2
    <3>2. PICK k \in L[n] : j \in 0..Len(s) /\ Stands(p[n + 1], s, k, j)
      BY <1>3, <3>1
    <3>3. PICK f : Partial(n, k, f)
      BY <1>2, <2>2, <3>2
    <3> DEFINE h == [i \in 0..(n + 1) |-> IF i = n + 1 THEN j ELSE f[i]]
    <3>4. h \in [0..(n + 1) -> 0..Len(s)] /\ (\A i \in 0..n : h[i] = f[i]) /\ h[n + 1] = j
      BY <3>2, <3>3
    <3> HIDE DEF h
    <3>5. h[0] = 0
      BY <3>3, <3>4
    <3>6. ASSUME NEW i \in 1..(n + 1) PROVE Stands(p[i], s, h[i - 1], h[i])
      <4>1. CASE i = n + 1
        <5>1. h[i - 1] = k /\ h[i] = j
          BY <4>1, <3>3, <3>4
        <5> QED
          BY <4>1, <5>1, <3>2
      <4>2. CASE i # n + 1
        <5>1. i \in 1..n /\ h[i - 1] = f[i - 1] /\ h[i] = f[i]
          BY <4>2, <3>4
        <5> QED
          BY <5>1, <3>3
      <4> QED
        BY <4>1, <4>2
    <3> QED
      BY <3>4, <3>5, <3>6
  <2> HIDE DEF T
  <2>3. Len(p) \in T
    BY <1>2, <2>1, <2>2, SetInduction
  <2>4. \A j \in L[Len(p)] : \E f : Partial(Len(p), j, f)
    <3> HIDE DEF Partial
    <3> QED
      BY <1>2, <2>3 DEF T
  <2>5. PICK f : Partial(Len(p), Len(s), f)
    BY <1>5, <2>4
  <2> QED
    BY <2>5 DEF Cut
<1> QED
  BY <1>1, <1>4, <1>5

\* What each kind of part stands for.
LEMMA StandsAs ==
    ASSUME NEW x, NEW s, NEW a, NEW b
    PROVE  /\ x \in Stars => (Stands(x, s, a, b) <=> a < b)
           /\ x = "..." => (Stands(x, s, a, b) <=> a <= b)
           /\ x \notin Stars /\ x # "..." => (Stands(x, s, a, b) <=> b = a + 1 /\ s[b] = x)
<1>1. x = "..." => x \notin Stars
  BY DEF Stars
<1> QED
  BY <1>1 DEF Stands

\* The pieces follow one another.
LEMMA CutTypes ==
    ASSUME NEW p \in Text, NEW s \in Text, NEW f, Cut(p, s, f)
    PROVE  /\ Len(p) \in Nat /\ Len(s) \in Nat
           /\ \A i \in 0..Len(p) : f[i] \in 0..Len(s)
           /\ \A i \in 1..Len(p) : /\ i - 1 \in 0..Len(p) /\ i \in 0..Len(p)
                                   /\ f[i - 1] <= f[i] /\ (p[i] # "..." => f[i - 1] < f[i])
<1>1. Len(p) \in Nat /\ Len(s) \in Nat
  BY DEF Text
<1>2. \A i \in 0..Len(p) : f[i] \in 0..Len(s)
  BY DEF Cut
<1>3. ASSUME NEW i \in 1..Len(p)
      PROVE  f[i - 1] <= f[i] /\ (p[i] # "..." => f[i - 1] < f[i])
  <2>1. f[i - 1] \in Nat /\ f[i] \in Nat /\ Stands(p[i], s, f[i - 1], f[i])
    BY <1>1, <1>2 DEF Cut
  <2>2. CASE p[i] \in Stars
    BY <2>1, <2>2 DEF Stands
  <2>3. CASE p[i] = "..."
    <3>1. p[i] \notin Stars
      BY <2>3 DEF Stars
    <3> QED
      BY <2>1, <2>3, <3>1 DEF Stands
  <2>4. CASE p[i] \notin Stars /\ p[i] # "..."
    BY <2>1, <2>4 DEF Stands
  <2> QED
    BY <2>2, <2>3, <2>4
<1> QED
  BY <1>1, <1>2, <1>3

\* The places where the parts end never go back.
LEMMA CutGrows ==
    ASSUME NEW p \in Text, NEW s \in Text, NEW f, Cut(p, s, f), NEW a \in 0..Len(p)
    PROVE  /\ \A b \in 0..Len(p) : a <= b => f[a] <= f[b]
           /\ \A b \in 0..Len(p) : a < b /\ p[a + 1] # "..." => f[a] < f[b]
<1>1. Len(p) \in Nat /\ \A i \in 0..Len(p) : f[i] \in Nat
  BY CutTypes
<1>2. ASSUME NEW c \in 0..Len(p) PROVE \A b \in 0..Len(p) : c <= b => f[c] <= f[b]
  <2> DEFINE T == {n \in Nat : c + n <= Len(p) => f[c] <= f[c + n]}
  <2>1. 0 \in T
    BY <1>1
  <2>2. ASSUME NEW n \in Nat, n \in T PROVE n + 1 \in T
    <3> SUFFICES ASSUME c + (n + 1) <= Len(p) PROVE f[c] <= f[c + (n + 1)]
      OBVIOUS
    <3>1. f[c] <= f[c + n] /\ c + (n + 1) \in 1..Len(p) /\ (c + (n + 1)) - 1 = c + n /\ c + n \in 0..Len(p)
      BY <1>1, <2>2
    <3>2. f[c + n] <= f[c + (n + 1)]
      BY <3>1, CutTypes
    <3>3. f[c] \in Nat /\ f[c + n] \in Nat /\ f[c + (n + 1)] \in Nat
      BY <1>1, <3>1
    <3> QED
      BY <3>1, <3>2, <3>3
  <2> HIDE DEF T
  <2>3. Nat \subseteq T
    BY <2>1, <2>2, SetInduction
  <2> TAKE b \in 0..Len(p)
  <2> HAVE c <= b
  <2>4. b - c \in T /\ c + (b - c) = b
    BY <1>1, <2>3
  <2> QED
    BY <1>1, <2>4 DEF T
<1>3. ASSUME NEW b \in 0..Len(p), a < b, p[a + 1] # "..." PROVE f[a] < f[b]
  <2>1. a + 1 \in 1..Len(p) /\ (a + 1) - 1 = a /\ a + 1 \in 0..Len(p) /\ a + 1 <= b
    BY <1>1, <1>3
  <2>2. f[a] < f[a + 1]
    BY <1>3, <2>1, CutTypes
  <2>3. f[a + 1] <= f[b]
    BY <1>2, <2>1
  <2>4. f[a] \in Nat /\ f[a + 1] \in Nat /\ f[b] \in Nat
    BY <1>1, <2>1
  <2> QED
    BY <2>2, <2>3, <2>4
<1> QED
  BY <1>2, <1>3

\* A pattern that matches another matches all that the other one does.
LEMMA GlobTrans ==
    ASSUME NEW p \in Text, NEW q \in Text, NEW s \in Text, Dotless(q),
           starGlob(p, q), starGlob(q, s)
    PROVE  starGlob(p, s)
<1>1. PICK f : Cut(p, q, f)
  BY GlobCuts
<1>2. PICK g : Cut(q, s, g)
  BY GlobCuts
<1>3. /\ Len(p) \in Nat /\ Len(q) \in Nat /\ Len(s) \in Nat
      /\ \A i \in 0..Len(p) : f[i] \in 0..Len(q)
      /\ \A j \in 0..Len(q) : g[j] \in 0..Len(s)
  BY <1>1, <1>2, CutTypes
<1>4. \A a, b \in 0..Len(q) : (a <= b => g[a] <= g[b]) /\ (a < b => g[a] < g[b])
  <2> TAKE a, b \in 0..Len(q)
  <2>1. a < b => a + 1 \in 1..Len(q)
    BY <1>3
  <2>2. a < b => q[a + 1] # "..."
    BY <2>1 DEF Dotless
  <2> QED
    BY <1>2, <2>2, CutGrows
<1> DEFINE h == [i \in 0..Len(p) |-> g[f[i]]]
<1>5. h \in [0..Len(p) -> 0..Len(s)]
  BY <1>3
<1>6. h[0] = 0 /\ h[Len(p)] = Len(s)
  BY <1>1, <1>2, <1>3 DEF Cut
<1>7. ASSUME NEW i \in 1..Len(p) PROVE Stands(p[i], s, h[i - 1], h[i])
  <2>1. i - 1 \in 0..Len(p) /\ i \in 0..Len(p)
    BY <1>3
  <2> DEFINE a == f[i - 1]  b == f[i]
  <2>2. a \in 0..Len(q) /\ b \in 0..Len(q) /\ Stands(p[i], q, a, b)
    BY <1>1, <1>3, <2>1 DEF Cut
  <2>3. h[i - 1] = g[a] /\ h[i] = g[b]
    BY <2>1
  <2> HIDE DEF a, b, h
  <2>4. CASE p[i] \in Stars
    <3>1. a < b
      BY <2>2, <2>4, StandsAs
    <3> QED
      BY <1>4, <2>2, <2>3, <2>4, <3>1, StandsAs
  <2>5. CASE p[i] = "..."
    <3>1. p[i] \notin Stars
      BY <2>5 DEF Stars
    <3>2. a <= b
      BY <2>2, <2>5, StandsAs
    <3> QED
      BY <1>4, <2>2, <2>3, <2>5, <3>2, StandsAs
  <2>6. CASE p[i] \notin Stars /\ p[i] # "..."
    <3>1. b = a + 1 /\ q[b] = p[i]
      BY <2>2, <2>6 DEF Stands
    <3>2. b \in 1..Len(q) /\ b - 1 = a
      BY <1>3, <2>2, <3>1
    <3>3. Stands(q[b], s, g[a], g[b])
      BY <1>2, <3>2 DEF Cut
    <3>4. g[b] = g[a] + 1 /\ s[g[b]] = p[i]
      BY <2>6, <3>1, <3>3 DEF Stands
    <3> QED
      BY <2>3, <2>6, <3>4 DEF Stands
  <2> QED
    BY <2>4, <2>5, <2>6
<1> HIDE DEF h
<1>8. Cut(p, s, h)
  BY <1>5, <1>6, <1>7 DEF Cut
<1> QED
  BY <1>8, GlobCuts

\* A text matches itself as a pattern.
LEMMA GlobSame == ASSUME NEW p \in Text PROVE starGlob(p, p)
<1>1. Len(p) \in Nat
  BY DEF Text
<1> DEFINE h == [i \in 0..Len(p) |-> i]
<1>2. h \in [0..Len(p) -> 0..Len(p)] /\ h[0] = 0 /\ h[Len(p)] = Len(p)
  BY <1>1
<1>3. ASSUME NEW i \in 1..Len(p) PROVE Stands(p[i], p, h[i - 1], h[i])
  <2>1. h[i - 1] = i - 1 /\ h[i] = i
    BY <1>1
  <2> HIDE DEF h
  <2> QED
    BY <1>1, <2>1 DEF Stands
<1> HIDE DEF h
<1>4. Cut(p, p, h)
  BY <1>2, <1>3 DEF Cut
<1> QED
  BY <1>4, GlobCuts

\* The parts of a pattern before its first wildcard are those of the text.
LEMMA CutPlain ==
    ASSUME NEW p \in Text, NEW s \in Text, NEW f, Cut(p, s, f), NEW n \in 0..Len(p),
           \A i \in 1..n : p[i] \notin Stars /\ p[i] # "..."
    PROVE  f[n] = n /\ n <= Len(s) /\ \A i \in 1..n : s[i] = p[i]
<1>1. Len(p) \in Nat /\ Len(s) \in Nat /\ \A i \in 0..Len(p) : f[i] \in 0..Len(s)
  BY CutTypes
<1>2. \A i \in 1..n : f[i] = f[i - 1] + 1 /\ s[f[i]] = p[i]
  <2> TAKE i \in 1..n
  <2>1. Stands(p[i], s, f[i - 1], f[i])
    BY <1>1 DEF Cut
  <2> QED
    BY <2>1 DEF Stands
<1> DEFINE T == {m \in Nat : m <= n => f[m] = m}
<1>3. 0 \in T
  BY DEF Cut
<1>4. ASSUME NEW m \in Nat, m \in T PROVE m + 1 \in T
  <2> SUFFICES ASSUME m + 1 <= n PROVE f[m + 1] = m + 1
    OBVIOUS
  <2>1. f[m] = m /\ m + 1 \in 1..n /\ (m + 1) - 1 = m
    BY <1>1, <1>4
  <2> QED
    BY <1>2, <2>1
<1> HIDE DEF T
<1>5. Nat \subseteq T
  BY <1>3, <1>4, SetInduction
<1>6. \A m \in 0..n : f[m] = m
  BY <1>1, <1>5 DEF T
<1> QED
  BY <1>1, <1>2, <1>6

\* Without a wildcard a pattern matches itself.
LEMMA GlobPlain ==
    ASSUME NEW p \in Text, NEW s \in Text, Plain(p), starGlob(p, s)
    PROVE  p = s
<1>1. PICK f : Cut(p, s, f)
  BY GlobCuts
<1>2. Len(p) \in Nat /\ Len(p) \in 0..Len(p)
  BY DEF Text
<1>3. \A i \in 1..Len(p) : p[i] \notin Stars /\ p[i] # "..."
  BY DEF Plain, Wildcards
<1>4. f[Len(p)] = Len(p) /\ \A i \in 1..Len(p) : s[i] = p[i]
  BY <1>1, <1>2, <1>3, CutPlain
<1>5. Len(p) = Len(s)
  BY <1>1, <1>4 DEF Cut
<1> QED
  BY <1>4, <1>5, SameText

\* With one at the end, it matches what goes on after the rest.
LEMMA GlobOpen ==
    ASSUME NEW v \in Text, NEW s \in Text, Plain(v), NEW x \in Stars
    PROVE  starGlob(v \o <<x>>, s) <=> IsStrictPrefix(v, s)
<1> DEFINE p == v \o <<x>>
<1>1. x \in Parts
  BY PartsAssumption DEF Stars
<1>2. p \in Text /\ Len(p) = Len(v) + 1 /\ p[Len(v) + 1] = x /\ \A i \in 1..Len(v) : p[i] = v[i]
  BY <1>1, AppendText
<1>3. Len(v) \in Nat /\ Len(s) \in Nat
  BY DEF Text
<1>4. IsStrictPrefix(v, s) <=> Len(v) < Len(s) /\ \A i \in 1..Len(v) : v[i] = s[i]
  BY PrefixText
<1> HIDE DEF p
<1>5. ASSUME starGlob(p, s) PROVE IsStrictPrefix(v, s)
  <2>1. PICK f : Cut(p, s, f)
    BY <1>2, <1>5, GlobCuts
  <2>2. Len(v) \in 0..Len(p) /\ \A i \in 1..Len(v) : p[i] \notin Stars /\ p[i] # "..."
    BY <1>2, <1>3 DEF Plain, Wildcards
  <2>3. f[Len(v)] = Len(v) /\ \A i \in 1..Len(v) : s[i] = p[i]
    BY <1>2, <2>1, <2>2, CutPlain
  <2>4. Stands(p[Len(v) + 1], s, f[Len(v)], f[Len(v) + 1])
    <3>1. Len(v) + 1 \in 1..Len(p) /\ (Len(v) + 1) - 1 = Len(v)
      BY <1>2, <1>3
    <3> QED
      BY <2>1, <3>1 DEF Cut
  <2>5. Len(v) < Len(s)
    BY <1>2, <2>1, <2>3, <2>4 DEF Cut, Stands
  <2> QED
    BY <1>2, <1>4, <2>3, <2>5
<1>6. ASSUME IsStrictPrefix(v, s) PROVE starGlob(p, s)
  <2> DEFINE h == [i \in 0..Len(p) |-> IF i = Len(p) THEN Len(s) ELSE i]
  <2>1. h \in [0..Len(p) -> 0..Len(s)] /\ h[0] = 0 /\ h[Len(p)] = Len(s)
    BY <1>2, <1>3, <1>4, <1>6
  <2>2. \A i \in 0..Len(v) : h[i] = i
    BY <1>2, <1>3
  <2> HIDE DEF h
  <2>3. ASSUME NEW i \in 1..Len(p) PROVE Stands(p[i], s, h[i - 1], h[i])
    <3>1. CASE i = Len(p)
      <4>1. h[i - 1] = Len(v) /\ h[i] = Len(s) /\ p[i] \in Stars
        BY <1>2, <1>3, <2>1, <2>2, <3>1
      <4> QED
        BY <1>4, <1>6, <4>1 DEF Stands
    <3>2. CASE i # Len(p)
      <4>1. i \in 1..Len(v) /\ h[i - 1] = i - 1 /\ h[i] = i
        BY <1>2, <1>3, <2>2, <3>2
      <4>2. p[i] = s[i] /\ p[i] \notin Stars /\ p[i] # "..."
        BY <1>2, <1>4, <1>6, <4>1 DEF Plain, Wildcards
      <4> QED
        BY <1>3, <4>1, <4>2 DEF Stands
    <3> QED
      BY <3>1, <3>2
  <2>4. Cut(p, s, h)
    BY <2>1, <2>3 DEF Cut
  <2> QED
    BY <1>2, <2>4, GlobCuts
<1> QED
  BY <1>5, <1>6 DEF p

\* Texts that match one after the other match together.
LEMMA GlobJoin ==
    ASSUME NEW p \in Text, NEW s \in Text, NEW q \in Text, NEW t \in Text, starGlob(p, s), starGlob(q, t)
    PROVE  p \o q \in Text /\ s \o t \in Text /\ starGlob(p \o q, s \o t)
<1>1. PICK f : Cut(p, s, f)
  BY GlobCuts
<1>2. PICK g : Cut(q, t, g)
  BY GlobCuts
<1> DEFINE m == Len(p)
           n == Len(s)
           pq == p \o q
           st == s \o t
           h == [i \in 0..(m + Len(q)) |-> IF i <= m THEN f[i] ELSE n + g[i - m]]
<1>3. /\ m \in Nat /\ n \in Nat /\ Len(q) \in Nat /\ Len(t) \in Nat /\ pq \in Text /\ st \in Text
      /\ Len(pq) = m + Len(q) /\ Len(st) = n + Len(t)
      /\ (\A i \in 1..m : pq[i] = p[i]) /\ (\A i \in 1..Len(q) : pq[m + i] = q[i])
      /\ (\A i \in 1..n : st[i] = s[i]) /\ (\A i \in 1..Len(t) : st[n + i] = t[i])
  BY DEF Text
<1>4. /\ f \in [0..m -> 0..n] /\ f[0] = 0 /\ f[m] = n
      /\ \A i \in 1..m : Stands(p[i], s, f[i - 1], f[i])
  BY <1>1 DEF Cut
<1>5. /\ g \in [0..Len(q) -> 0..Len(t)] /\ g[0] = 0 /\ g[Len(q)] = Len(t)
      /\ \A i \in 1..Len(q) : Stands(q[i], t, g[i - 1], g[i])
  BY <1>2 DEF Cut
<1> HIDE DEF m, n, pq, st
<1>6. /\ \A i \in 0..m : h[i] = f[i] /\ f[i] \in 0..n
      /\ \A i \in 0..Len(q) : h[m + i] = n + g[i] /\ g[i] \in 0..Len(t)
  <2>1. \A i \in 0..m : h[i] = f[i] /\ f[i] \in 0..n
    BY <1>3, <1>4
  <2>2. ASSUME NEW i \in 0..Len(q) PROVE h[m + i] = n + g[i] /\ g[i] \in 0..Len(t)
    <3>1. CASE i = 0
      BY <1>3, <1>4, <1>5, <2>1, <3>1
    <3>2. CASE i # 0
      <4>1. m + i \in 0..(m + Len(q)) /\ ~ (m + i <= m) /\ (m + i) - m = i
        BY <1>3, <3>2
      <4> QED
        BY <1>5, <4>1
    <3> QED
      BY <3>1, <3>2
  <2> QED
    BY <2>1, <2>2
<1>7. h \in [0..(m + Len(q)) -> 0..(n + Len(t))]
  <2>1. ASSUME NEW i \in 0..(m + Len(q)) PROVE h[i] \in 0..(n + Len(t))
    <3>1. CASE i <= m
      <4>1. i \in 0..m
        BY <1>3, <3>1
      <4>2. h[i] = f[i] /\ f[i] \in 0..n
        BY <1>6, <4>1
      <4>3. 0..n \subseteq 0..(n + Len(t))
        BY <1>3
      <4> QED
        BY <4>2, <4>3
    <3>2. CASE ~ (i <= m)
      <4>1. i - m \in 0..Len(q) /\ m + (i - m) = i
        BY <1>3, <3>2
      <4>2. h[i] = n + g[i - m] /\ g[i - m] \in 0..Len(t)
        BY <1>6, <4>1
      <4> QED
        BY <1>3, <4>2
    <3> QED
      BY <3>1, <3>2
  <2> QED
    BY <2>1
<1> HIDE DEF h
<1>8. ASSUME NEW i \in 1..(m + Len(q)) PROVE Stands(pq[i], st, h[i - 1], h[i])
  <2>1. CASE i <= m
    <3>1. i \in 1..m /\ i - 1 \in 0..m /\ i \in 0..m
      BY <1>3, <2>1
    <3>2. pq[i] = p[i] /\ h[i - 1] = f[i - 1] /\ h[i] = f[i] /\ f[i] \in 0..n /\ f[i - 1] \in 0..n
      BY <1>3, <1>6, <3>1
    <3>3. Stands(p[i], s, f[i - 1], f[i])
      BY <1>4, <3>1
    <3>4. f[i] = f[i - 1] + 1 => f[i] \in 1..n /\ st[f[i]] = s[f[i]]
      BY <1>3, <3>2
    <3> QED
      BY <3>2, <3>3, <3>4, StandsAs
  <2>2. CASE ~ (i <= m)
    <3> DEFINE j == i - m
    <3>1. j \in 1..Len(q) /\ m + j = i /\ j - 1 \in 0..Len(q) /\ j \in 0..Len(q) /\ m + (j - 1) = i - 1
      BY <1>3, <2>2
    <3> HIDE DEF j
    <3>2. /\ pq[i] = q[j] /\ h[i - 1] = n + g[j - 1] /\ h[i] = n + g[j]
          /\ g[j] \in 0..Len(t) /\ g[j - 1] \in 0..Len(t)
      BY <1>3, <1>6, <3>1
    <3>3. Stands(q[j], t, g[j - 1], g[j])
      BY <1>5, <3>1
    <3> DEFINE y == g[j - 1]
               z == g[j]
    <3>a. y \in Nat /\ z \in Nat /\ z \in 0..Len(t) /\ h[i - 1] = n + y /\ h[i] = n + z
      BY <1>3, <3>2
    <3> HIDE DEF y, z
    <3>4. z = y + 1 => z \in 1..Len(t) /\ st[n + z] = t[z]
      BY <1>3, <3>a
    <3>5. /\ (h[i - 1] < h[i]) <=> (y < z)
          /\ (h[i - 1] <= h[i]) <=> (y <= z)
          /\ (h[i] = h[i - 1] + 1) <=> (z = y + 1)
      BY <1>3, <3>a
    <3>b. pq[i] = q[j] /\ Stands(q[j], t, y, z)
      BY <3>2, <3>3 DEF y, z
    <3>6. CASE q[j] \in Stars
      BY <3>b, <3>5, <3>6, StandsAs
    <3>7. CASE q[j] = "..."
      BY <3>b, <3>5, <3>7, StandsAs
    <3>8. CASE q[j] \notin Stars /\ q[j] # "..."
      BY <3>a, <3>b, <3>4, <3>5, <3>8, StandsAs
    <3> QED
      BY <3>6, <3>7, <3>8
  <2> QED
    BY <2>1, <2>2
<1>9. h[0] = 0 /\ h[m + Len(q)] = n + Len(t)
  <2>1. 0 \in 0..m /\ Len(q) \in 0..Len(q)
    BY <1>3
  <2> QED
    BY <1>4, <1>5, <1>6, <2>1
<1>10. Cut(pq, st, h)
  BY <1>3, <1>7, <1>8, <1>9 DEF Cut
<1> QED
  BY <1>3, <1>10, GlobCuts DEF pq, st

\* A text with other parts in the places of the wildcards.
LEMMA GlobFilled ==
    ASSUME NEW p \in Text, NEW s \in Text, Len(s) = Len(p),
           \A i \in 1..Len(p) : p[i] \in Stars \cup {"..."} \/ s[i] = p[i]
    PROVE  starGlob(p, s)
<1>1. Len(p) \in Nat
  BY DEF Text
<1> DEFINE f == [i \in 0..Len(p) |-> i]
<1>2. f \in [0..Len(p) -> 0..Len(s)] /\ f[0] = 0 /\ f[Len(p)] = Len(s)
  BY <1>1
<1>3. ASSUME NEW i \in 1..Len(p) PROVE Stands(p[i], s, f[i - 1], f[i])
  <2>1. f[i] = i /\ f[i - 1] = i - 1
    BY <1>1
  <2> HIDE DEF f
  <2>2. CASE p[i] \in Stars
    BY <1>1, <2>1, <2>2, StandsAs
  <2>3. CASE p[i] = "..."
    BY <1>1, <2>1, <2>3, StandsAs
  <2>4. CASE p[i] \notin Stars /\ p[i] # "..."
    BY <1>1, <2>1, <2>4, StandsAs
  <2> QED
    BY <2>2, <2>3, <2>4
<1> HIDE DEF f
<1>4. Cut(p, s, f)
  BY <1>2, <1>3 DEF Cut
<1> QED
  BY <1>4, GlobCuts

\* A wildcard stands for a text that is not empty, "..." for any.
LEMMA GlobWild ==
    ASSUME NEW s \in Text
    PROVE  /\ s # <<>> => starGlob(<<"*">>, s) /\ starGlob(<<"**">>, s)
           /\ starGlob(<<"...">>, s)
<1>1. ASSUME NEW x \in {"*", "**", "..."}, x = "..." \/ s # <<>> PROVE starGlob(<<x>>, s)
  <2>1. <<x>> \in Text /\ Len(<<x>>) = 1 /\ <<x>>[1] = x
    BY PartsAssumption DEF Text
  <2>2. Len(s) \in Nat /\ (s # <<>> => Len(s) > 0)
    BY DEF Text
  <2> DEFINE p == <<x>>
             f == [i \in 0..1 |-> IF i = 0 THEN 0 ELSE Len(s)]
  <2> HIDE DEF p
  <2>3. f \in [0..1 -> 0..Len(s)] /\ f[0] = 0 /\ f[1] = Len(s)
    BY <2>2
  <2> HIDE DEF f
  <2>4. Stands(x, s, f[0], f[1])
    <3>1. CASE x = "..."
      BY <2>2, <2>3, <3>1, StandsAs
    <3>2. CASE x # "..."
      <4>1. x \in Stars /\ 0 < Len(s)
        BY <1>1, <2>2, <3>2 DEF Stars
      <4> QED
        BY <2>3, <4>1, StandsAs
    <3> QED
      BY <3>1, <3>2
  <2>5. Cut(p, s, f)
    <3>1. \A i \in 1..1 : i = 1 /\ i - 1 = 0
      OBVIOUS
    <3> QED
      BY <2>1, <2>3, <2>4, <3>1 DEF Cut, p
  <2> QED
    BY <2>1, <2>5, GlobCuts DEF p
<1> QED
  BY <1>1

-----------------------------------------------------------------------------
(* Paths: globCovers is right about every path the entry stands for.       *)

\* The pattern pathGlob compares with.
Deep(p) == IF Head(p) = "**" THEN <<"...">> \o Tail(p) ELSE p

\* It differs from the path in its first part only.
LEMMA DeepText ==
    ASSUME NEW p \in Text, p # <<>>
    PROVE  /\ Deep(p) \in Text /\ Len(Deep(p)) = Len(p) /\ Len(p) \in Nat \ {0}
           /\ Deep(p)[1] = IF p[1] = "**" THEN "..." ELSE p[1]
           /\ \A i \in 2..Len(p) : Deep(p)[i] = p[i]
<1>1. Len(p) \in Nat \ {0} /\ Head(p) = p[1] /\ Tail(p) \in Text /\ Len(Tail(p)) = Len(p) - 1
      /\ \A i \in 1..(Len(p) - 1) : Tail(p)[i] = p[i + 1]
  BY TailText
<1>2. CASE Head(p) = "**"
  <2>1. /\ <<"...">> \o Tail(p) \in Text /\ Len(<<"...">> \o Tail(p)) = Len(p)
        /\ (<<"...">> \o Tail(p))[1] = "..."
        /\ \A i \in 1..(Len(p) - 1) : (<<"...">> \o Tail(p))[i + 1] = Tail(p)[i]
    BY <1>1, ConsText, PartsAssumption
  <2>2. ASSUME NEW i \in 2..Len(p) PROVE (<<"...">> \o Tail(p))[i] = p[i]
    <3>1. i - 1 \in 1..(Len(p) - 1) /\ (i - 1) + 1 = i
      BY <1>1
    <3> QED
      BY <1>1, <2>1, <3>1
  <2> QED
    BY <1>1, <1>2, <2>1, <2>2 DEF Deep
<1>3. CASE Head(p) # "**"
  BY <1>1, <1>3 DEF Deep
<1> QED
  BY <1>2, <1>3

\* A path entry that covers another one matches every path the other matches.
LEMMA PathCovered ==
    ASSUME NEW e \in Text, NEW v \in Text, NEW r \in Text, v # <<>>, r # <<>>, Dotless(v),
           globCovers(e, v), pathGlob(v, r)
    PROVE  e # <<>> /\ pathGlob(e, r)
<1>1. starGlob(Deep(v), r)
  BY DEF pathGlob, Deep
<1>2. Len(r) \in Nat \ {0} /\ Len(v) \in Nat \ {0} /\ Len(e) \in Nat
  BY DeepText DEF Text
<1> SUFFICES e # <<>> /\ starGlob(Deep(e), r)
  BY DEF pathGlob, Deep
<1>3. CASE e = v
  BY <1>1, <1>3
<1>4. CASE e = <<"**">>
  <2>1. /\ e # <<>> /\ Len(e) = 1 /\ e[1] = "**"
    BY <1>4
  <2>2. Deep(e) \in Text /\ Len(Deep(e)) = 1 /\ Deep(e)[1] = "..."
    BY <2>1, DeepText
  <2> DEFINE h == [i \in 0..1 |-> IF i = 0 THEN 0 ELSE Len(r)]
  <2>3. h \in [0..1 -> 0..Len(r)] /\ h[0] = 0 /\ h[1] = Len(r)
    BY <1>2
  <2> HIDE DEF h
  <2>4. \A i \in 1..1 : Stands(Deep(e)[i], r, h[i - 1], h[i])
    <3> TAKE i \in 1..1
    <3>1. i = 1 /\ i - 1 = 0 /\ h[i - 1] <= h[i]
      BY <1>2, <2>3
    <3> QED
      BY <2>2, <3>1, StandsAs
  <2>5. Cut(Deep(e), r, h)
    BY <2>2, <2>3, <2>4 DEF Cut
  <2> QED
    BY <2>1, <2>2, <2>5, GlobCuts
<1>5. CASE e = <<"**", "*">>
  <2>1. /\ e # <<>> /\ Len(e) = 2 /\ e[1] = "**" /\ e[2] = "*"
    BY <1>5
  <2>2. Deep(e) \in Text /\ Len(Deep(e)) = 2 /\ Deep(e)[1] = "..." /\ Deep(e)[2] = "*"
    BY <2>1, DeepText
  <2> DEFINE h == [i \in 0..2 |-> IF i = 2 THEN Len(r) ELSE 0]
  <2>3. h \in [0..2 -> 0..Len(r)] /\ h[0] = 0 /\ h[1] = 0 /\ h[2] = Len(r)
    BY <1>2
  <2> HIDE DEF h
  <2>4. \A i \in 1..2 : Stands(Deep(e)[i], r, h[i - 1], h[i])
    <3>1. Stands(Deep(e)[1], r, h[0], h[1])
      BY <2>2, <2>3, StandsAs
    <3>2. Deep(e)[2] \in Stars /\ h[1] < h[2]
      BY <1>2, <2>2, <2>3 DEF Stars
    <3>3. Stands(Deep(e)[2], r, h[1], h[2])
      BY <3>2, StandsAs
    <3> TAKE i \in 1..2
    <3>4. (i = 1 /\ i - 1 = 0) \/ (i = 2 /\ i - 1 = 1)
      OBVIOUS
    <3> QED
      BY <3>1, <3>3, <3>4
  <2>5. Cut(Deep(e), r, h)
    BY <2>2, <2>3, <2>4 DEF Cut
  <2> QED
    BY <2>1, <2>2, <2>5, GlobCuts
<1>6. CASE Len(e) > 1 /\ Last(e) = "**" /\ IsStrictPrefix(Front(e), v)
  <2>1. e # <<>>
    BY <1>6
  <2> DEFINE n == Len(e) - 1
  <2>2. /\ n \in Nat \ {0} /\ Len(e) = n + 1 /\ e[n + 1] = "**"
        /\ Front(e) \in Text /\ Len(Front(e)) = n /\ \A i \in 1..n : Front(e)[i] = e[i]
    BY <1>2, <1>6, <2>1, FrontText DEF Last
  <2> HIDE DEF n
  <2>3. n < Len(v) /\ \A i \in 1..n : e[i] = v[i]
    BY <1>6, <2>2, PrefixText
  <2>4. /\ Deep(v) \in Text /\ Len(Deep(v)) = Len(v) /\ Deep(v)[1] = (IF v[1] = "**" THEN "..." ELSE v[1])
        /\ \A i \in 2..Len(v) : Deep(v)[i] = v[i]
    BY DeepText
  <2>5. /\ Deep(e) \in Text /\ Len(Deep(e)) = n + 1 /\ Deep(e)[1] = (IF e[1] = "**" THEN "..." ELSE e[1])
        /\ \A i \in 2..(n + 1) : Deep(e)[i] = e[i]
    BY <2>1, <2>2, DeepText
  <2>6. \A i \in 1..n : Deep(e)[i] = Deep(v)[i]
    <3> TAKE i \in 1..n
    <3>1. CASE i = 1
      BY <2>2, <2>3, <2>4, <2>5, <3>1
    <3>2. CASE i # 1
      <4>1. i \in 2..Len(v) /\ i \in 2..(n + 1)
        BY <1>2, <2>2, <2>3, <3>2
      <4> QED
        BY <2>3, <2>4, <2>5, <4>1
    <3> QED
      BY <3>1, <3>2
  <2>7. PICK f : Cut(Deep(v), r, f)
    BY <1>1, <2>4, GlobCuts
  <2>8. n + 1 \in 2..Len(v) /\ n \in 0..Len(v) /\ Len(v) \in 0..Len(v)
    BY <1>2, <2>2, <2>3
  <2>9. f[n] < f[Len(v)] /\ f[Len(v)] = Len(r) /\ \A i \in 0..Len(v) : f[i] \in 0..Len(r)
    <3>1. Deep(v)[n + 1] # "..."
      BY <2>4, <2>8 DEF Dotless
    <3> QED
      BY <2>3, <2>4, <2>7, <2>8, <3>1, CutGrows, CutTypes DEF Cut
  <2> DEFINE h == [i \in 0..(n + 1) |-> IF i = n + 1 THEN Len(r) ELSE f[i]]
  <2>10. /\ h \in [0..(n + 1) -> 0..Len(r)] /\ h[n + 1] = Len(r)
         /\ \A i \in 0..n : h[i] = f[i]
    BY <1>2, <2>2, <2>8, <2>9
  <2> HIDE DEF h
  <2>11. h[0] = 0
    BY <2>2, <2>7, <2>10 DEF Cut
  <2>12. ASSUME NEW i \in 1..(n + 1) PROVE Stands(Deep(e)[i], r, h[i - 1], h[i])
    <3>1. CASE i = n + 1
      <4>1. h[i - 1] = f[n] /\ h[i] = Len(r)
        BY <2>2, <2>10, <3>1
      <4>2. Deep(e)[i] \in Stars
        BY <2>2, <2>5, <3>1 DEF Stars
      <4> QED
        BY <2>9, <4>1, <4>2, StandsAs
    <3>2. CASE i # n + 1
      <4>1. i \in 1..n /\ h[i - 1] = f[i - 1] /\ h[i] = f[i] /\ i \in 1..Len(v)
        BY <1>2, <2>2, <2>3, <2>10, <3>2
      <4>2. Stands(Deep(v)[i], r, f[i - 1], f[i])
        BY <2>4, <2>7, <4>1 DEF Cut
      <4> QED
        BY <2>6, <4>1, <4>2
    <3> QED
      BY <3>1, <3>2
  <2>13. Cut(Deep(e), r, h)
    BY <2>5, <2>10, <2>11, <2>12 DEF Cut
  <2> QED
    BY <2>1, <2>5, <2>13, GlobCuts
<1> QED
  BY <1>3, <1>4, <1>5, <1>6 DEF globCovers

\* What covers a path in the home directory is in the home directory, and the reverse.
LEMMA CoversHome ==
    ASSUME NEW e \in Text, NEW v \in Text, v # <<>>, globCovers(e, v)
    PROVE  Home(e) <=> Home(v)
<1>1. CASE e = v
  BY <1>1
<1>3. CASE e \in {<<"**">>, <<"**", "*">>} /\ Head(v) # "~"
  <2>1. Head(e) = "**"
    BY <1>3
  <2> QED
    BY <1>3, <2>1 DEF Home
<1>2. CASE Len(e) > 1 /\ Last(e) = "**" /\ IsStrictPrefix(Front(e), v)
  <2>1. e # <<>>
    BY <1>2
  <2>5. Len(e) \in Nat /\ Len(e) > 1
    BY <1>2 DEF Text
  <2> DEFINE n == Len(e) - 1
  <2>6. n \in Nat /\ 1 \in 1..n
    BY <2>5
  <2>4. Len(Front(e)) = n /\ Front(e) \in Text /\ \A i \in 1..n : Front(e)[i] = e[i]
    BY <2>1, FrontText
  <2> HIDE DEF n
  <2>2. Front(e)[1] = v[1]
    BY <1>2, <2>4, <2>6, PrefixText
  <2>3. e[1] = v[1]
    BY <2>2, <2>4, <2>6
  <2> QED
    BY <2>1, <2>3, TailText DEF Home
<1> QED
  BY <1>1, <1>2, <1>3 DEF globCovers

\* What a path entry stands for.
PathMeans(v, r) == Home(v) = Home(r) /\ pathGlob(v, r)

\* A pattern that starts with a plain part matches what starts with it.
LEMMA FirstPart ==
    ASSUME NEW p \in Text, NEW r \in Text, p # <<>>, starGlob(p, r), p[1] \notin Stars, p[1] # "..."
    PROVE  r[1] = p[1] /\ (Len(p) = 1 => Len(r) = 1)
<1>1. PICK f : Cut(p, r, f)
  BY GlobCuts
<1>2. Len(p) \in Nat \ {0}
  BY TailText
<1>3. \A i \in 1..1 : p[i] \notin Stars /\ p[i] # "..."
  OBVIOUS
<1>4. f[1] = 1 /\ r[1] = p[1]
  BY <1>1, <1>2, <1>3, CutPlain
<1> QED
  BY <1>1, <1>4 DEF Cut

\* A part for any number of parts may stand for none.
LEMMA GlobAnyDepth ==
    ASSUME NEW p \in Text, NEW r \in Text, starGlob(p, r)
    PROVE  starGlob(<<"...">> \o p, r)
<1>1. PICK f : Cut(p, r, f)
  BY GlobCuts
<1> DEFINE q == <<"...">> \o p
<1>2. q \in Text /\ Len(q) = Len(p) + 1 /\ q[1] = "..." /\ \A i \in 1..Len(p) : q[i + 1] = p[i]
  BY ConsText, PartsAssumption
<1>3. Len(p) \in Nat /\ Len(r) \in Nat /\ \A i \in 0..Len(p) : f[i] \in 0..Len(r)
  BY <1>1, CutTypes
<1> DEFINE h == [i \in 0..(Len(p) + 1) |-> IF i = 0 THEN 0 ELSE f[i - 1]]
<1>4. h \in [0..(Len(p) + 1) -> 0..Len(r)] /\ h[0] = 0 /\ \A i \in 0..Len(p) : h[i + 1] = f[i]
  BY <1>3
<1> HIDE DEF h, q
<1>5. h[1] = 0 /\ h[Len(p) + 1] = Len(r)
  <2>1. 0 \in 0..Len(p) /\ 0 + 1 = 1 /\ Len(p) \in 0..Len(p)
    BY <1>3
  <2> QED
    BY <1>1, <1>4, <2>1 DEF Cut
<1>6. ASSUME NEW i \in 1..(Len(p) + 1) PROVE Stands(q[i], r, h[i - 1], h[i])
  <2>1. CASE i = 1
    <3>1. h[i - 1] = 0 /\ h[i] = 0
      BY <1>4, <1>5, <2>1
    <3> QED
      BY <1>2, <2>1, <3>1, StandsAs
  <2>2. CASE i # 1
    <3>1. PICK j \in 1..Len(p) : i = j + 1
      BY <1>3, <2>2
    <3>2. h[i] = f[j] /\ h[i - 1] = f[j - 1] /\ q[i] = p[j]
      <4>1. j \in 0..Len(p) /\ j - 1 \in 0..Len(p) /\ i - 1 = (j - 1) + 1
        BY <1>3, <3>1
      <4> QED
        BY <1>2, <1>4, <3>1, <4>1
    <3> QED
      BY <1>1, <3>1, <3>2 DEF Cut
  <2> QED
    BY <2>1, <2>2
<1>7. Cut(q, r, h)
  BY <1>2, <1>4, <1>5, <1>6 DEF Cut
<1> QED
  BY <1>2, <1>7, GlobCuts DEF q

\* One wildcard matches everything that has a part.
LEMMA GlobAll ==
    ASSUME NEW r \in Text, r # <<>>, NEW x \in Stars
    PROVE  starGlob(<<x>>, r)
<1>1. Len(r) \in Nat \ {0} /\ x \in Parts
  BY TailText, PartsAssumption DEF Stars
<1>2. <<x>> \in Text /\ Len(<<x>>) = 1 /\ <<x>>[1] = x
  BY <1>1 DEF Text
<1> DEFINE h == [i \in 0..1 |-> IF i = 0 THEN 0 ELSE Len(r)]
<1>3. h \in [0..1 -> 0..Len(r)] /\ h[0] = 0 /\ h[1] = Len(r)
  BY <1>1
<1> HIDE DEF h
<1>4. \A i \in 1..1 : Stands(<<x>>[i], r, h[i - 1], h[i])
  <2> TAKE i \in 1..1
  <2>1. i = 1 /\ i - 1 = 0 /\ h[i - 1] < h[i]
    BY <1>1, <1>3
  <2> QED
    BY <1>2, <2>1, StandsAs
<1>5. Cut(<<x>>, r, h)
  BY <1>2, <1>3, <1>4 DEF Cut
<1> QED
  BY <1>2, <1>5, GlobCuts

\* No request starts with a dot or a slash, so no entry that matches one does.
LEMMA DeepFirst ==
    ASSUME NEW v, PathEntry(v), NEW r, PathRequest(r), pathGlob(v, r)
    PROVE  /\ Head(v) \notin {".", "/"}
           /\ Head(v) = "~" => Head(r) = "~" /\ Len(v) > 1
           /\ Head(v) = v[1] /\ Head(r) = r[1] /\ Len(v) \in Nat \ {0} /\ Len(r) \in Nat \ {0}
<1>1. v \in Text /\ r \in Text /\ Head(v) = v[1] /\ Head(r) = r[1] /\ Len(v) \in Nat \ {0} /\ Len(r) \in Nat \ {0}
  BY TailText DEF PathEntry, PathRequest
<1>2. Head(v) # "**" => starGlob(v, r)
  BY DEF pathGlob
<1>3. Head(v) \in {".", "/", "~"} => r[1] = v[1] /\ (Len(v) = 1 => Len(r) = 1)
  <2> HAVE Head(v) \in {".", "/", "~"}
  <2>1. v[1] \notin Stars /\ v[1] # "..." /\ Head(v) # "**"
    BY <1>1 DEF Stars
  <2> QED
    BY <1>1, <1>2, <2>1, FirstPart DEF PathEntry
<1>4. Head(v) \notin {".", "/"}
  BY <1>1, <1>3 DEF PathRequest
<1>5. ASSUME Head(v) = "~" PROVE Head(r) = "~" /\ Len(v) > 1
  <2>1. Head(r) = "~" /\ (Len(v) = 1 => Len(r) = 1)
    BY <1>1, <1>3, <1>5
  <2>2. Len(r) > 1
    BY <2>1 DEF PathRequest
  <2> DEFINE n == Len(v)
  <2>5. n # 1
    BY <2>1, <2>2
  <2>3. n \in Nat \ {0}
    BY <1>1
  <2> HIDE DEF n
  <2>4. n > 1
    BY <2>3, <2>5
  <2> QED
    BY <2>1, <2>4 DEF n
<1> QED
  BY <1>1, <1>4, <1>5

\* Claude Code's reading of a path, which stands for the same requests.
LEMMA ClaudeText ==
    ASSUME NEW e \in Text, e # <<>>
    PROVE  claudeGlob(e) \in Text
<1>1. Tail(e) \in Text
  BY TailText
<1>2. \A t \in Text : <<"**">> \o t \in Text
  BY ConsText, PartsAssumption
<1> QED
  BY <1>1, <1>2 DEF claudeGlob, relativePath

\* Claude Code's reading of a path matches what the path stands for.
LEMMA ClaudeMeans ==
    ASSUME NEW v, PathEntry(v), NEW r, PathRequest(r), PathMeans(v, r)
    PROVE  PathEntry(claudeGlob(v)) /\ PathMeans(claudeGlob(v), r)
<1>1. v \in Text /\ v # <<>> /\ r \in Text /\ r # <<>> /\ Dotless(v) /\ pathGlob(v, r) /\ Home(v) = Home(r)
  BY DEF PathEntry, PathRequest, PathMeans
<1>2. /\ Head(v) # "." /\ (Head(v) = "~" => Len(v) > 1) /\ Head(v) = v[1]
      /\ Len(v) \in Nat \ {0}
  BY <1>1, DeepFirst
<1>3. CASE Len(v) # 1
  BY <1>2, <1>3 DEF claudeGlob, relativePath
<1>4. CASE Len(v) = 1
  <2> DEFINE q == <<"**">> \o v
  <2>1. claudeGlob(v) = q
    BY <1>2, <1>4 DEF claudeGlob, relativePath
  <2>2. q \in Text /\ q # <<>> /\ Len(q) = 2 /\ Head(q) = "**" /\ Tail(q) = v /\ q[1] = "**" /\ q[2] = v[1]
    <3>1. /\ q \in Text /\ q # <<>> /\ Len(q) = Len(v) + 1 /\ Head(q) = "**" /\ Tail(q) = v /\ q[1] = "**"
          /\ \A i \in 1..Len(v) : q[i + 1] = v[i]
      BY <1>1, ConsText, PartsAssumption
    <3> HIDE DEF q
    <3>2. 1 \in 1..Len(v) /\ 1 + 1 = 2
      BY <1>4
    <3> QED
      BY <1>4, <3>1, <3>2
  <2> HIDE DEF q
  <2>3. Dotless(q)
    <3>1. v[1] # "..."
      BY <1>1, <1>4 DEF Dotless
    <3> QED
      BY <2>2, <3>1 DEF Dotless
  <2>4. Home(q) = Home(r)
    BY <1>1, <1>2, <1>4, <2>2 DEF Home
  <2>5. starGlob(v, r)
    <3>1. CASE Head(v) = "**"
      <4>1. v = <<"**">>
        BY <1>1, <1>2, <1>4, <3>1 DEF Text
      <4>2. "**" \in Stars
        BY DEF Stars
      <4> QED
        BY <1>1, <4>1, <4>2, GlobAll
    <3>2. CASE Head(v) # "**"
      BY <1>1, <3>2 DEF pathGlob
    <3> QED
      BY <3>1, <3>2
  <2>6. starGlob(<<"...">> \o v, r)
    BY <1>1, <2>5, GlobAnyDepth
  <2>7. pathGlob(q, r)
    BY <2>2, <2>6 DEF pathGlob
  <2> QED
    BY <2>1, <2>2, <2>3, <2>4, <2>7 DEF PathEntry, PathMeans
<1> QED
  BY <1>3, <1>4, <1>1, <1>2 DEF PathEntry, PathMeans

\* What covers an entry matches what the entry means.
LEMMA PathSound ==
    ASSUME NEW e \in Text, NEW v, PathEntry(v), NEW r, PathRequest(r), PathMeans(v, r), globCovers(e, v)
    PROVE  e # <<>> /\ PathMeans(e, r)
<1>1. v \in Text /\ v # <<>> /\ r \in Text /\ r # <<>> /\ Dotless(v) /\ pathGlob(v, r) /\ Home(v) = Home(r)
  BY DEF PathEntry, PathRequest, PathMeans
<1>2. e # <<>> /\ pathGlob(e, r)
  BY <1>1, PathCovered
<1>3. Home(e) <=> Home(v)
  BY <1>1, CoversHome
<1> QED
  BY <1>1, <1>2, <1>3 DEF PathMeans, Home

-----------------------------------------------------------------------------
(* Commands: a pattern that matches a command, with and without arguments, *)
(* matches every longer one.                                               *)

\* Prefixes of prefixes, and two prefixes of one text.
LEMMA PrefixTrans ==
    ASSUME NEW a \in Text, NEW b \in Text, NEW c \in Text
    PROVE  /\ IsPrefix(a, b) /\ IsPrefix(b, c) => IsPrefix(a, c)
           /\ IsStrictPrefix(a, b) /\ IsPrefix(b, c) => IsStrictPrefix(a, c)
           /\ IsPrefix(a, b) /\ IsStrictPrefix(b, c) => IsStrictPrefix(a, c)
           /\ IsPrefix(a, c) /\ IsPrefix(b, c) => IsPrefix(a, b) \/ IsStrictPrefix(b, a)
           /\ IsPrefix(a, b) <=> a = b \/ IsStrictPrefix(a, b)
<1>1. Len(a) \in Nat /\ Len(b) \in Nat /\ Len(c) \in Nat
  BY DEF Text
<1>2. IsPrefix(a, b) /\ IsPrefix(b, c) => IsPrefix(a, c)
  BY <1>1, PrefixText
<1>3. IsStrictPrefix(a, b) /\ IsPrefix(b, c) => IsStrictPrefix(a, c)
  BY <1>1, PrefixText
<1>4. IsPrefix(a, b) /\ IsStrictPrefix(b, c) => IsStrictPrefix(a, c)
  BY <1>1, PrefixText
<1>5. IsPrefix(a, c) /\ IsPrefix(b, c) => IsPrefix(a, b) \/ IsStrictPrefix(b, a)
  BY <1>1, PrefixText
<1>6. IsPrefix(a, a)
  BY <1>1, PrefixText
<1>7. IsPrefix(a, b) <=> a = b \/ IsStrictPrefix(a, b)
  BY <1>6 DEF IsStrictPrefix
<1> QED
  BY <1>2, <1>3, <1>4, <1>5, <1>7

\* The text without its last wildcard.
LEMMA LiteralText ==
    ASSUME NEW p \in Text
    PROVE  Literal(p) \in Text /\ IsPrefix(Literal(p), p)
<1>0. IsPrefix(p, p)
  BY PrefixTrans
<1>1. CASE Starred(p)
  <2>1. p # <<>> /\ Len(p) \in Nat
    BY <1>1 DEF Starred, Text
  <2>2. Front(p) \in Text /\ Len(Front(p)) = Len(p) - 1 /\ \A i \in 1..(Len(p) - 1) : Front(p)[i] = p[i]
    BY <2>1, FrontText
  <2>3. IsPrefix(Front(p), p)
    BY <2>1, <2>2, PrefixText
  <2> QED
    BY <1>1, <2>2, <2>3 DEF Literal
<1>2. CASE ~Starred(p)
  BY <1>0, <1>2 DEF Literal
<1> QED
  BY <1>1, <1>2

\* Strict prefixes are prefixes of the front.
LEMMA FrontPrefix ==
    ASSUME NEW p \in Text, p # <<>>, NEW s \in Text
    PROVE  /\ Front(p) \in Text /\ p = Front(p) \o <<Last(p)>> /\ Last(p) \in Parts
           /\ IsStrictPrefix(Front(p), p)
           /\ IsStrictPrefix(s, p) => IsPrefix(s, Front(p))
<1> DEFINE n == Len(p) - 1
<1>1. Len(p) \in Nat \ {0} /\ Front(p) \in Text /\ Len(Front(p)) = n
      /\ (\A i \in 1..n : Front(p)[i] = p[i]) /\ Last(p) \in Parts /\ Last(p) = p[Len(p)]
  BY FrontText DEF Last
<1>2. n \in Nat /\ Len(p) = n + 1 /\ Len(s) \in Nat
  BY <1>1 DEF Text
<1> HIDE DEF n
<1>3. IsStrictPrefix(Front(p), p)
  BY <1>1, <1>2, PrefixText
<1>4. ASSUME IsStrictPrefix(s, p) PROVE IsPrefix(s, Front(p))
  <2>1. Len(s) < Len(p) /\ \A i \in 1..Len(s) : s[i] = p[i]
    BY <1>4, PrefixText
  <2>2. Len(s) <= n /\ \A i \in 1..Len(s) : s[i] = Front(p)[i]
    BY <1>1, <1>2, <2>1
  <2> QED
    BY <1>1, <2>2, PrefixText
<1> DEFINE q == Front(p) \o <<Last(p)>>
<1>5. q \in Text /\ Len(q) = n + 1 /\ q[n + 1] = Last(p) /\ \A i \in 1..n : q[i] = Front(p)[i]
  BY <1>1, AppendText
<1> HIDE DEF q
<1>6. p = q
  <2>1. \A i \in 1..Len(p) : p[i] = q[i]
    <3> TAKE i \in 1..Len(p)
    <3>1. CASE i = n + 1
      BY <1>1, <1>2, <1>5, <3>1
    <3>2. CASE i # n + 1
      <4>1. i \in 1..n
        BY <1>2, <3>2
      <4> QED
        BY <1>1, <1>5, <4>1
    <3> QED
      BY <3>1, <3>2
  <2> QED
    BY <1>2, <1>5, <2>1, SameText
<1> QED
  BY <1>1, <1>3, <1>4, <1>6 DEF q

\* A plain text with a wildcard after it.
LEMMA OpenText ==
    ASSUME NEW v \in Text, Plain(v)
    PROVE  /\ v \o <<"*">> \in Text /\ Dotless(v \o <<"*">>) /\ IsStrictPrefix(v, v \o <<"*">>)
           /\ v # <<>> => Head(v \o <<"*">>) = Head(v)
<1> DEFINE q == v \o <<"*">>
<1>1. q \in Text /\ Len(q) = Len(v) + 1 /\ q # <<>> /\ q[Len(v) + 1] = "*" /\ \A i \in 1..Len(v) : q[i] = v[i]
  BY AppendText, PartsAssumption
<1>2. Len(v) \in Nat
  BY DEF Text
<1> HIDE DEF q
<1>3. Dotless(q)
  <2> SUFFICES ASSUME NEW i \in 1..Len(q) PROVE q[i] # "..."
    BY DEF Dotless
  <2>1. CASE i = Len(v) + 1
    BY <1>1, <2>1
  <2>2. CASE i # Len(v) + 1
    <3>1. i \in 1..Len(v) /\ q[i] = v[i]
      BY <1>1, <1>2, <2>2
    <3> QED
      BY <3>1 DEF Plain, Wildcards
  <2> QED
    BY <2>1, <2>2
<1>4. IsStrictPrefix(v, q)
  BY <1>1, <1>2, PrefixText
<1>5. v # <<>> => Head(q) = Head(v)
  <2> HAVE v # <<>>
  <2>1. Head(v) = v[1] /\ Len(v) \in Nat \ {0} /\ Head(q) = q[1]
    BY <1>1, TailText
  <2>2. 1 \in 1..Len(v)
    BY <2>1
  <2> QED
    BY <1>1, <2>1, <2>2
<1> QED
  BY <1>1, <1>3, <1>4, <1>5 DEF q

\* What matches a command with arguments left open matches each with arguments.
LEMMA GlobFurther ==
    ASSUME NEW p \in Text, NEW v \in Text, Plain(v), NEW r \in Text, IsStrictPrefix(v, r),
           starGlob(p, v \o <<"*">>)
    PROVE  starGlob(p, r)
<1>1. v \o <<"*">> \in Text /\ Dotless(v \o <<"*">>)
  BY OpenText
<1>2. starGlob(v \o <<"*">>, r)
  BY GlobOpen DEF Stars
<1> QED
  BY <1>1, <1>2, GlobTrans


\* A prefix that is not empty has the same first part.
LEMMA SameHead ==
    ASSUME NEW v \in Text, v # <<>>, NEW r \in Text, IsPrefix(v, r)
    PROVE  r # <<>> /\ Head(v) = Head(r) /\ <<Head(v)>> \in Text
<1>1. Head(v) = v[1] /\ Len(v) \in Nat \ {0} /\ Head(v) \in Parts
  BY TailText
<1>2. 1 \in 1..Len(v) /\ Len(v) <= Len(r) /\ v[1] = r[1]
  BY <1>1, PrefixText
<1>3. r # <<>>
  BY <1>1, <1>2
<1>4. Head(r) = r[1]
  BY <1>3, TailText
<1> QED
  BY <1>1, <1>2, <1>3, <1>4 DEF Text

\* matchesShell, for a command that starts with the entry.
LEMMA CursorCommand ==
    ASSUME NEW p \in Text, NEW v, PlainEntry(v), NEW r, PlainEntry(r), IsPrefix(v, r), p # <<>>,
           cursorShellMatches(p, v), cursorShellMatches(p, v \o <<"*">>)
    PROVE  cursorShellMatches(p, r)
<1>1. v \in Text /\ r \in Text /\ v # <<>> /\ Plain(v)
  BY DEF PlainEntry
<1>2. CASE r = v
  BY <1>2
<1>3. CASE r # v
  <2>1. IsStrictPrefix(v, r)
    BY <1>3 DEF IsStrictPrefix
  <2>2. Head(v \o <<"*">>) = Head(r)
    BY <1>1, OpenText, SameHead
  <2>3. Front(p) \in Text
    BY FrontText
  <2>4. \A q \in Text : starGlob(q, v \o <<"*">>) => starGlob(q, r)
    BY <1>1, <2>1, GlobFurther
  <2>5. IsStrictPrefix(p, v \o <<"*">>) => IsStrictPrefix(p, r)
    <3> HAVE IsStrictPrefix(p, v \o <<"*">>)
    <3>1. v \o <<"*">> \in Text /\ IsPrefix(v, v \o <<"*">>) /\ IsPrefix(p, v \o <<"*">>)
      BY <1>1, OpenText DEF IsStrictPrefix
    <3>2. IsPrefix(p, v)
      <4>1. Len(p) \in Nat /\ Len(v) \in Nat /\ Len(v \o <<"*">>) = Len(v) + 1
        BY <1>1, AppendText, PartsAssumption DEF Text
      <4>2. Len(p) < Len(v \o <<"*">>)
        BY <3>1, PrefixText
      <4>3. ~ IsStrictPrefix(v, p)
        BY <1>1, <4>1, <4>2, PrefixText
      <4> QED
        BY <1>1, <3>1, <4>3, PrefixTrans
    <3> QED
      BY <1>1, <2>1, <3>2, PrefixTrans
  <2> QED
    BY <2>2, <2>3, <2>4, <2>5 DEF cursorShellMatches
<1> QED
  BY <1>2, <1>3

\* An open pattern that a command's open form begins with.
LEMMA GrokCommand ==
    ASSUME NEW p \in Text, NEW v, PlainEntry(v), NEW r, PlainEntry(r), IsPrefix(v, r),
           grokCommandMatches(p, v), grokCommandMatches(p, v \o <<"*">>)
    PROVE  grokCommandMatches(p, r)
<1>1. v \in Text /\ r \in Text /\ v # <<>> /\ Plain(v)
  BY DEF PlainEntry
<1> DEFINE q == GrokPattern(p)
           w == v \o <<"*">>
<1>2. q \in Text
  BY FrontText DEF GrokPattern
<1>3. CASE r = v
  BY <1>3
<1>4. CASE r # v
  <2>1. IsStrictPrefix(v, r)
    BY <1>4 DEF IsStrictPrefix
  <2>2. CASE starGlob(q, w)
    BY <1>1, <1>2, <2>1, <2>2, GlobFurther DEF grokCommandMatches
  <2>3. CASE IsPrefix(q, w)
    <3>1. w \in Text /\ IsStrictPrefix(v, w) /\ Len(w) = Len(v) + 1 /\ Len(v) \in Nat /\ Len(q) \in Nat
      BY <1>1, <1>2, OpenText, AppendText, PartsAssumption DEF Text
    <3>2. CASE q = w
      <4>1. starGlob(w, r)
        BY <1>1, <2>1, GlobOpen DEF Stars
      <4> QED
        BY <3>2, <4>1 DEF grokCommandMatches
    <3>3. CASE q # w
      <4> HIDE DEF q, w
      <4>1. IsStrictPrefix(q, w) /\ IsPrefix(v, w)
        BY <2>3, <3>1, <3>3 DEF IsStrictPrefix
      <4>2. Len(q) < Len(w)
        BY <1>2, <3>1, <4>1, PrefixText
      <4>3. ~ IsStrictPrefix(v, q)
        BY <1>1, <1>2, <3>1, <4>2, PrefixText
      <4>4. IsPrefix(q, v)
        BY <1>1, <1>2, <2>3, <3>1, <4>1, <4>3, PrefixTrans
      <4>5. IsPrefix(q, r)
        BY <1>1, <1>2, <4>4, PrefixTrans
      <4> QED
        BY <4>5 DEF grokCommandMatches, hasCmdPrefix, q
    <3> QED
      BY <3>2, <3>3
  <2> QED
    BY <2>2, <2>3 DEF grokCommandMatches, hasCmdPrefix
<1> QED
  BY <1>3, <1>4

\* Qwen Code's reading of a command, and a command that starts with the entry.
LEMMA QwenArg ==
    ASSUME NEW p \in Text
    PROVE  qwenCommandArg(p) \in Text
BY PartsAssumption DEF Text, qwenCommandArg

\* A pattern of Qwen Code that matches a command with and without arguments matches
\* every longer one.
LEMMA QwenCommand ==
    ASSUME NEW p \in Text, NEW v, PlainEntry(v), NEW r, PlainEntry(r), IsPrefix(v, r),
           qwenCommandMatches(p, v), qwenCommandMatches(p, v \o <<"*">>)
    PROVE  qwenCommandMatches(p, r)
<1>1. v \in Text /\ r \in Text /\ Plain(v) /\ qwenCommandArg(p) \in Text
  BY QwenArg DEF PlainEntry
<1>2. CASE ~ Plain(p)
  <2>1. starGlob(qwenCommandArg(p), v) /\ starGlob(qwenCommandArg(p), v \o <<"*">>)
    BY <1>2 DEF qwenCommandMatches
  <2>2. r = v \/ IsStrictPrefix(v, r)
    BY DEF IsStrictPrefix
  <2>3. starGlob(qwenCommandArg(p), r)
    BY <1>1, <2>1, <2>2, GlobFurther
  <2> QED
    BY <1>2, <2>3 DEF qwenCommandMatches
<1>3. CASE Plain(p)
  <2>1. IsPrefix(p, r)
    BY <1>1, <1>3, PrefixTrans DEF qwenCommandMatches, hasCmdPrefix
  <2> QED
    BY <1>3, <2>1 DEF qwenCommandMatches, hasCmdPrefix
<1> QED
  BY <1>2, <1>3

\* The empty pattern.
LEMMA EmptyPrefix ==
    ASSUME NEW r \in Text
    PROVE  /\ <<>> \in Text /\ IsPrefix(<<>>, r) /\ Literal(<<>>) = <<>> /\ ~ Starred(<<>>)
           /\ GrokPattern(<<>>) = <<>> /\ GrokPattern(<<"*">>) = <<"*">>
<1>1. <<>> \in Text /\ Len(<<>>) = 0 /\ Len(r) \in Nat
  BY DEF Text
<1>2. IsPrefix(<<>>, r)
  BY <1>1, PrefixText
<1>3. Literal(<<>>) = <<>> /\ ~ Starred(<<>>) /\ GrokPattern(<<>>) = <<>>
  BY DEF Literal, Starred, GrokPattern
<1>4. Last(<<"*">>) = "*"
  BY DEF Last
<1>5. GrokPattern(<<"*">>) = <<"*">>
  BY <1>4 DEF GrokPattern
<1> QED
  BY <1>1, <1>2, <1>3, <1>5


\* A deny entry that covers a command covers it with any arguments (claudeCovers,
\* devinCovers, cursorCovers, qwenCovers, grokCovers).
THEOREM CommandsCovered ==
    ASSUME NEW a \in ListAgents, NEW e, PermissionRule(a, e), NEW v, PlainEntry(v), NEW r, PlainEntry(r),
           Covers(a, "commands", e, v), Means("commands", v, r)
    PROVE  Matches(a, "commands", e, r)
<1>1. v \in Text /\ r \in Text /\ e.arg \in Text /\ IsPrefix(v, r) /\ r # <<>>
  BY DEF PermissionRule, PlainEntry, Means
<1>2. Matches(a, "commands", e, r) <=> e.tool \in ToolsOf(a, "commands") /\ CommandMatches(a, e.arg, r)
  BY DEF Matches
<1>3. CASE a = "claude-code"
  <2>1. e.tool = "Bash" /\ (e.arg = <<>> \/ (Starred(e.arg) /\ IsPrefix(Literal(e.arg), v)))
    BY <1>3 DEF Covers, claudeCovers, hasCmdPrefix
  <2>2. e.tool \in ToolsOf(a, "commands")
    BY <1>3, <2>1 DEF ToolsOf
  <2>3. IsPrefix(Literal(e.arg), r)
    BY <1>1, <2>1, LiteralText, EmptyPrefix, PrefixTrans
  <2>4. CommandMatches(a, e.arg, r)
    BY <1>3, <2>1, <2>3 DEF CommandMatches
  <2> QED
    BY <1>2, <2>2, <2>4
<1>4. CASE a = "devin"
  <2>1. e.tool \in {"exec", "Exec"} /\ (e.arg = <<>> \/ IsPrefix(e.arg, v))
    BY <1>4 DEF Covers, devinCovers, hasCmdPrefix, PermissionRule
  <2>2. e.tool \in ToolsOf(a, "commands")
    BY <1>4, <2>1 DEF ToolsOf
  <2>3. IsPrefix(e.arg, r)
    BY <1>1, <2>1, EmptyPrefix, PrefixTrans
  <2>4. CommandMatches(a, e.arg, r)
    BY <1>4, <2>3 DEF CommandMatches, hasCmdPrefix
  <2> QED
    BY <1>2, <2>2, <2>4
<1>5. CASE a = "cursor-cli"
  <2>1. /\ e.tool \in {"Shell", "Bash"} /\ e.arg # <<>>
        /\ cursorShellMatches(e.arg, v) /\ cursorShellMatches(e.arg, v \o <<"*">>)
    BY <1>5 DEF Covers, cursorCovers
  <2>2. e.tool \in ToolsOf(a, "commands")
    BY <1>5, <2>1 DEF ToolsOf
  <2>3. cursorShellMatches(e.arg, r)
    BY <1>1, <2>1, CursorCommand
  <2>4. CommandMatches(a, e.arg, r)
    BY <1>5, <2>1, <2>3 DEF CommandMatches
  <2> QED
    BY <1>2, <2>2, <2>4
<1>6. CASE a = "qwen-code"
  <2>1. /\ e.tool \in qwenShellTools
        /\ qwenCommandMatches(e.arg, v) /\ qwenCommandMatches(e.arg, v \o <<"*">>)
    BY <1>6 DEF Covers, qwenCovers
  <2>2. e.tool \in ToolsOf(a, "commands")
    BY <1>6, <2>1 DEF ToolsOf
  <2>3. qwenCommandMatches(e.arg, r)
    BY <1>1, <2>1, QwenCommand
  <2>4. CommandMatches(a, e.arg, r)
    BY <1>6, <2>3 DEF CommandMatches
  <2> QED
    BY <1>2, <2>2, <2>4
<1>7. CASE a = "grok"
  <2>1. /\ e.tool = "Bash"
        /\ \/ e.arg \in {<<>>, <<"*">>}
           \/ grokCommandMatches(e.arg, v) /\ grokCommandMatches(e.arg, v \o <<"*">>)
    BY <1>7 DEF Covers, grokCovers
  <2>2. e.tool \in ToolsOf(a, "commands")
    BY <1>7, <2>1 DEF ToolsOf
  <2>3. grokCommandMatches(e.arg, r)
    <3>1. CASE e.arg \in {<<>>, <<"*">>}
      BY <1>1, <3>1, EmptyPrefix, GlobAll DEF grokCommandMatches, hasCmdPrefix, Stars
    <3>2. CASE grokCommandMatches(e.arg, v) /\ grokCommandMatches(e.arg, v \o <<"*">>)
      BY <1>1, <3>2, GrokCommand
    <3> QED
      BY <2>1, <3>1, <3>2
  <2>4. CommandMatches(a, e.arg, r)
    BY <1>7, <2>3 DEF CommandMatches
  <2> QED
    BY <1>2, <2>2, <2>4
<1> QED
  BY <1>3, <1>4, <1>5, <1>6, <1>7 DEF ListAgents

-----------------------------------------------------------------------------
(* An entry that covers a neutral one matches every request the neutral    *)
(* one stands for, for each agent with a deny list: paths, hosts, tools.   *)

\* A part in front of a text is one more for a wildcard in front.
LEMMA GlobShift ==
    ASSUME NEW p \in Text, NEW r \in Text, starGlob(p, r), NEW y \in Parts
    PROVE  starGlob(<<"**">> \o p, <<y>> \o r)
<1> DEFINE q == <<"**">> \o p
           s == <<y>> \o r
<1>1. PICK f : Cut(p, r, f)
  BY GlobCuts
<1>2. /\ q \in Text /\ Len(q) = Len(p) + 1 /\ q[1] = "**" /\ \A i \in 1..Len(p) : q[i + 1] = p[i]
      /\ s \in Text /\ Len(s) = Len(r) + 1 /\ \A i \in 1..Len(r) : s[i + 1] = r[i]
  BY ConsText, PartsAssumption
<1>3. Len(p) \in Nat /\ Len(r) \in Nat /\ \A i \in 0..Len(p) : f[i] \in 0..Len(r)
  BY <1>1, CutTypes
<1> DEFINE g == [i \in 0..Len(q) |-> IF i = 0 THEN 0 ELSE f[i - 1] + 1]
<1> HIDE DEF q, s
<1>4. g \in [0..Len(q) -> 0..Len(s)]
  <2>1. ASSUME NEW i \in 0..Len(q), i # 0 PROVE f[i - 1] + 1 \in 0..Len(s)
    <3>1. i - 1 \in 0..Len(p)
      BY <1>2, <1>3, <2>1
    <3>2. f[i - 1] \in 0..Len(r)
      BY <1>3, <3>1
    <3> QED
      BY <1>2, <1>3, <3>2
  <2>2. 0 \in 0..Len(s)
    BY <1>2, <1>3
  <2> QED
    BY <2>1, <2>2
<1>5. g[0] = 0 /\ g[Len(q)] = Len(s)
  BY <1>1, <1>2, <1>3 DEF Cut
<1>6. ASSUME NEW i \in 1..Len(q) PROVE Stands(q[i], s, g[i - 1], g[i])
  <2>1. CASE i = 1
    <3>1. g[i - 1] = 0 /\ g[i] = 1
      BY <1>1, <1>2, <1>3, <2>1 DEF Cut
    <3>2. q[i] \in Stars
      BY <1>2, <2>1 DEF Stars
    <3> QED
      BY <3>1, <3>2, StandsAs
  <2>2. CASE i # 1
    <3> DEFINE j == i - 1
    <3>1. j \in 1..Len(p) /\ q[i] = p[j] /\ g[i - 1] = f[j - 1] + 1 /\ g[i] = f[j] + 1
      BY <1>2, <1>3, <2>2
    <3>2. f[j - 1] \in 0..Len(r) /\ f[j] \in 0..Len(r) /\ Stands(p[j], r, f[j - 1], f[j])
      BY <1>1, <1>3, <3>1 DEF Cut
    <3> HIDE DEF j, g
    <3>3. CASE p[j] \in Stars
      BY <3>1, <3>2, <3>3, StandsAs
    <3>4. CASE p[j] = "..."
      BY <3>1, <3>2, <3>4, StandsAs
    <3>5. CASE p[j] \notin Stars /\ p[j] # "..."
      <4>1. f[j] = f[j - 1] + 1 /\ r[f[j]] = p[j]
        BY <3>2, <3>5, StandsAs
      <4>2. f[j] \in 1..Len(r)
        BY <3>2, <4>1
      <4>3. s[f[j] + 1] = p[j]
        BY <1>2, <4>1, <4>2
      <4>4. g[i] = g[i - 1] + 1 /\ s[g[i]] = q[i]
        BY <3>1, <3>2, <4>1, <4>3
      <4> QED
        BY <3>1, <3>5, <4>4, StandsAs
    <3> QED
      BY <3>3, <3>4, <3>5
  <2> QED
    BY <2>1, <2>2
<1>7. Cut(q, s, g)
  BY <1>4, <1>5, <1>6 DEF Cut
<1>8. starGlob(q, s)
  BY <1>2, <1>7, GlobCuts
<1> QED
  BY <1>8 DEF q, s

\* With more for its first part to stand for, a pattern for every depth matches.
LEMMA GlobDeeper ==
    ASSUME NEW t \in Text, NEW r \in Text, starGlob(<<"...">> \o t, r), NEW y \in Parts
    PROVE  starGlob(<<"**">> \o t, <<y>> \o r)
<1> DEFINE p == <<"...">> \o t
           q == <<"**">> \o t
           s == <<y>> \o r
<1>1. /\ p \in Text /\ Len(p) = Len(t) + 1 /\ p[1] = "..." /\ \A i \in 1..Len(t) : p[i + 1] = t[i]
      /\ q \in Text /\ Len(q) = Len(t) + 1 /\ q[1] = "**" /\ \A i \in 1..Len(t) : q[i + 1] = t[i]
      /\ s \in Text /\ Len(s) = Len(r) + 1 /\ \A i \in 1..Len(r) : s[i + 1] = r[i]
  BY ConsText, PartsAssumption
<1>2. PICK f : Cut(p, r, f)
  BY <1>1, GlobCuts
<1> HIDE DEF p, q, s
<1>3. Len(t) \in Nat /\ Len(r) \in Nat /\ \A i \in 0..Len(p) : f[i] \in 0..Len(r)
  BY <1>1, <1>2, CutTypes DEF Text
<1> DEFINE g == [i \in 0..Len(q) |-> IF i = 0 THEN 0 ELSE f[i] + 1]
<1>4. g \in [0..Len(q) -> 0..Len(s)]
  BY <1>1, <1>3
<1>5. g[0] = 0 /\ g[Len(q)] = Len(s)
  BY <1>1, <1>2, <1>3 DEF Cut
<1>6. ASSUME NEW i \in 1..Len(q) PROVE Stands(q[i], s, g[i - 1], g[i])
  <2>1. CASE i = 1
    <3>1. g[i - 1] = 0 /\ g[i] > 0
      BY <1>1, <1>3, <2>1
    <3>2. q[i] \in Stars
      BY <1>1, <2>1 DEF Stars
    <3> QED
      BY <3>1, <3>2, StandsAs
  <2>2. CASE i # 1
    <3>1. q[i] = p[i] /\ g[i - 1] = f[i - 1] + 1 /\ g[i] = f[i] + 1
      <4>1. i - 1 \in 1..Len(t)
        BY <1>1, <1>3, <2>2
      <4>2. q[i] = t[i - 1] /\ p[i] = t[i - 1]
        BY <1>1, <4>1
      <4>3. g[i - 1] = f[i - 1] + 1 /\ g[i] = f[i] + 1
        BY <1>1, <1>3, <2>2
      <4> QED
        BY <4>2, <4>3
    <3>2. f[i - 1] \in 0..Len(r) /\ f[i] \in 0..Len(r) /\ Stands(p[i], r, f[i - 1], f[i])
      BY <1>1, <1>2, <1>3 DEF Cut
    <3> HIDE DEF g
    <3>3. CASE p[i] \in Stars
      BY <3>1, <3>2, <3>3, StandsAs
    <3>4. CASE p[i] = "..."
      BY <3>1, <3>2, <3>4, StandsAs
    <3>5. CASE p[i] \notin Stars /\ p[i] # "..."
      <4>1. f[i] = f[i - 1] + 1 /\ r[f[i]] = p[i]
        BY <3>2, <3>5, StandsAs
      <4>2. f[i] \in 1..Len(r)
        BY <3>2, <4>1
      <4>3. s[f[i] + 1] = p[i]
        BY <1>1, <4>1, <4>2
      <4>4. g[i] = g[i - 1] + 1 /\ s[g[i]] = q[i]
        BY <3>1, <3>2, <4>1, <4>3
      <4> QED
        BY <3>1, <3>5, <4>4, StandsAs
    <3> QED
      BY <3>3, <3>4, <3>5
  <2> QED
    BY <2>1, <2>2
<1>7. Cut(q, s, g)
  BY <1>4, <1>5, <1>6 DEF Cut
<1>8. starGlob(q, s)
  BY <1>1, <1>7, GlobCuts
<1> QED
  BY <1>8 DEF q, s

\* A pattern whose first part may be anything matches what the pattern matches.
LEMMA GlobWiden ==
    ASSUME NEW p \in Text, NEW r \in Text, p # <<>>, starGlob(p, r)
    PROVE  starGlob(<<"...">> \o Tail(p), r)
<1> DEFINE t == Tail(p)
           q == <<"...">> \o t
<1>1. /\ t \in Text /\ Len(t) = Len(p) - 1 /\ Len(p) \in Nat \ {0}
      /\ \A i \in 1..(Len(p) - 1) : t[i] = p[i + 1]
  BY TailText
<1>2. q \in Text /\ Len(q) = Len(t) + 1 /\ q[1] = "..." /\ \A i \in 1..Len(t) : q[i + 1] = t[i]
  BY <1>1, ConsText, PartsAssumption
<1>3. PICK f : Cut(p, r, f)
  BY GlobCuts
<1> HIDE DEF q, t
<1>4. Len(q) = Len(p)
  BY <1>1, <1>2
<1>5. \A i \in 2..Len(p) : q[i] = p[i]
  <2>1. ASSUME NEW i \in 2..Len(p) PROVE i - 1 \in 1..(Len(p) - 1) /\ (i - 1) + 1 = i
    BY <1>1
  <2>2. ASSUME NEW i \in 2..Len(p) PROVE q[i] = p[i]
    BY <1>1, <1>2, <2>1
  <2> QED
    BY <2>2
<1>6. ASSUME NEW i \in 1..Len(q) PROVE Stands(q[i], r, f[i - 1], f[i])
  <2>1. CASE i = 1
    <3>1. f[i - 1] <= f[i]
      BY <1>3, <1>4, CutTypes
    <3> QED
      BY <1>2, <2>1, <3>1, StandsAs
  <2>2. CASE i # 1
    <3>1. i \in 2..Len(p) /\ i \in 1..Len(p)
      BY <1>1, <1>4, <2>2
    <3> QED
      BY <1>3, <1>5, <3>1 DEF Cut
  <2> QED
    BY <2>1, <2>2
<1>7. Cut(q, r, f)
  BY <1>3, <1>4, <1>6 DEF Cut
<1>8. starGlob(q, r)
  BY <1>2, <1>7, GlobCuts
<1> QED
  BY <1>8 DEF q, t

\* The patterns Cursor and Grok make of a path have no "...".
LEMMA TailDotless ==
    ASSUME NEW v, PathEntry(v)
    PROVE  /\ <<"**">> \o v \in Text /\ Dotless(<<"**">> \o v)
           /\ <<"**">> \o Tail(v) \in Text /\ Dotless(<<"**">> \o Tail(v))
<1>1. ASSUME NEW t \in Text, Dotless(t) PROVE <<"**">> \o t \in Text /\ Dotless(<<"**">> \o t)
  <2> DEFINE q == <<"**">> \o t
  <2>1. q \in Text /\ Len(q) = Len(t) + 1 /\ q[1] = "**" /\ \A i \in 1..Len(t) : q[i + 1] = t[i]
    BY ConsText, PartsAssumption
  <2>2. Len(t) \in Nat
    BY DEF Text
  <2> HIDE DEF q
  <2>3. ASSUME NEW i \in 1..Len(q) PROVE q[i] # "..."
    <3>1. i = 1 \/ (i - 1 \in 1..Len(t) /\ (i - 1) + 1 = i)
      BY <2>1, <2>2
    <3>2. i # 1 => q[i] = t[i - 1] /\ t[i - 1] # "..."
      BY <1>1, <2>1, <3>1 DEF Dotless
    <3> QED
      BY <2>1, <3>2
  <2>4. q \in Text /\ Dotless(q)
    BY <2>1, <2>3 DEF Dotless
  <2> QED
    BY <2>4 DEF q
<1>2. /\ Tail(v) \in Text /\ Len(Tail(v)) = Len(v) - 1 /\ Len(v) \in Nat \ {0}
      /\ \A i \in 1..(Len(v) - 1) : Tail(v)[i] = v[i + 1]
  BY TailText DEF PathEntry
<1>3. Dotless(Tail(v))
  <2>1. ASSUME NEW i \in 1..Len(Tail(v)) PROVE Tail(v)[i] # "..."
    <3>1. i + 1 \in 1..Len(v) /\ Tail(v)[i] = v[i + 1]
      BY <1>2
    <3> QED
      BY <3>1 DEF PathEntry, Dotless
  <2> QED
    BY <2>1 DEF Dotless
<1> QED
  BY <1>1, <1>2, <1>3 DEF PathEntry

\* The absolute path of a request is one that Cursor's target names.
LEMMA CursorTarget ==
    ASSUME NEW v, PathEntry(v), NEW r, PathRequest(r), PathMeans(v, r)
    PROVE  /\ cursorPathTarget(v) \in Text /\ Dotless(cursorPathTarget(v)) /\ absolute(r) \in Text
           /\ starGlob(cursorPathTarget(v), absolute(r))
<1>1. v \in Text /\ v # <<>> /\ Dotless(v) /\ r \in Text /\ r # <<>> /\ pathGlob(v, r) /\ (Home(v) <=> Home(r))
  BY DEF PathEntry, PathRequest, PathMeans
<1>2. /\ <<"**">> \o v \in Text /\ Dotless(<<"**">> \o v) /\ "work" \in Parts
      /\ <<"work">> \o r \in Text
  BY <1>1, TailDotless, ConsText, PartsAssumption
<1>3. absolute(r) \in Text
  BY <1>1, <1>2 DEF absolute
<1>4. Head(v) = "~" => Len(v) > 1
  BY <1>1, DeepFirst
<1>5. cursorPathTarget(v) \in Text /\ Dotless(cursorPathTarget(v))
  BY <1>1, <1>2 DEF cursorPathTarget
<1>6. CASE Head(v) = "~"
  <2>1. cursorPathTarget(v) = v /\ absolute(r) = r /\ starGlob(v, r)
    BY <1>1, <1>4, <1>6 DEF cursorPathTarget, absolute, Home, pathGlob
  <2> QED
    BY <1>3, <1>5, <2>1
<1>7. CASE Head(v) # "~"
  <2>1. absolute(r) = <<"work">> \o r
    BY <1>1, <1>7 DEF absolute, Home
  <2>2. CASE Head(v) = "**" /\ Len(v) > 1
    <3>1. v = <<"**">> \o Tail(v) /\ Tail(v) \in Text
      BY <1>1, <2>2 DEF Text
    <3>2. starGlob(<<"...">> \o Tail(v), r)
      BY <1>1, <2>2 DEF pathGlob
    <3>3. starGlob(v, <<"work">> \o r)
      BY <1>1, <1>2, <3>1, <3>2, GlobDeeper
    <3> QED
      BY <1>3, <1>5, <2>1, <2>2, <3>3 DEF cursorPathTarget
  <2>3. CASE ~ (Head(v) = "**" /\ Len(v) > 1)
    <3>1. starGlob(v, r)
      <4>1. CASE Head(v) # "**"
        BY <1>1, <4>1 DEF pathGlob
      <4>2. CASE Head(v) = "**"
        <5> DEFINE n == Len(v)
        <5>0. n \in Nat \ {0} /\ ~ (n > 1)
          BY <1>1, <2>3, <4>2, TailText
        <5> HIDE DEF n
        <5>9. n = 1
          BY <5>0
        <5>1. Len(v) = 1
          BY <5>9 DEF n
        <5>2. v = <<"**">>
          BY <1>1, <4>2, <5>1 DEF Text
        <5> QED
          BY <1>1, <5>2, GlobAll DEF Stars
      <4> QED
        BY <4>1, <4>2
    <3>2. starGlob(<<"**">> \o v, <<"work">> \o r)
      BY <1>1, <1>2, <3>1, GlobShift
    <3> QED
      BY <1>3, <1>5, <1>7, <2>1, <2>3, <3>2 DEF cursorPathTarget
  <2> QED
    BY <2>2, <2>3
<1> QED
  BY <1>3, <1>5, <1>6, <1>7

\* What a path entry names is named by Grok's target for it.
LEMMA GrokTarget ==
    ASSUME NEW v, PathEntry(v), NEW r, PathRequest(r), PathMeans(v, r)
    PROVE  PathEntry(grokPathTarget(v)) /\ pathGlob(grokPathTarget(v), r)
<1>1. v \in Text /\ v # <<>> /\ Dotless(v) /\ r \in Text /\ r # <<>> /\ pathGlob(v, r)
  BY DEF PathEntry, PathRequest, PathMeans
<1>2. CASE Head(v) # "~"
  BY <1>1, <1>2 DEF grokPathTarget, PathEntry
<1>3. CASE Head(v) = "~"
  <2> DEFINE T == <<"**">> \o Tail(v)
  <2>1. T \in Text /\ Dotless(T) /\ T # <<>> /\ Head(T) = "**" /\ Tail(T) = Tail(v)
    BY <1>1, TailDotless, TailText, ConsText, PartsAssumption
  <2>2. starGlob(<<"...">> \o Tail(v), r)
    BY <1>1, <1>3, GlobWiden DEF pathGlob
  <2>3. pathGlob(T, r)
    BY <2>1, <2>2 DEF pathGlob
  <2>4. grokPathTarget(v) = T
    BY <1>3 DEF grokPathTarget
  <2> QED
    BY <2>1, <2>3, <2>4 DEF PathEntry
<1> QED
  BY <1>2, <1>3

\* A trimmed part leaves a text.
LEMMA TrimText ==
    ASSUME NEW s \in Text, s # <<>>
    PROVE  /\ Tail(s) \in Text /\ (Len(s) > 1 => Tail(s) # <<>>)
           /\ relativePath(s) \in Text /\ relativePath(s) # <<>>
           /\ withoutWWW(s) \in Text /\ withoutWWW(s) # <<>>
<1> DEFINE n == Len(s)
           t == Tail(s)
<1>1. t \in Text /\ Len(t) = n - 1 /\ n \in Nat
  BY TailText
<1> HIDE DEF n, t
<1>2. n > 1 => Len(t) # 0
  BY <1>1
<1>3. Len(t) # 0 => t # <<>>
  OBVIOUS
<1>4. t \in Text /\ (Len(s) > 1 => t # <<>>)
  BY <1>1, <1>2, <1>3 DEF n
<1> QED
  BY <1>4 DEF relativePath, withoutWWW, t

\* A deny entry that covers a path entry refuses every path the entry stands for.
THEOREM PathsCovered ==
    ASSUME NEW a \in ListAgents, NEW e, PermissionRule(a, e), NEW c \in {"read", "write"},
           NEW v, PathEntry(v), NEW r, PathRequest(r), Covers(a, c, e, v), Means(c, v, r)
    PROVE  Matches(a, c, e, r)
<1>1. v \in Text /\ v # <<>> /\ Dotless(v) /\ r \in Text /\ r # <<>> /\ e.arg \in Text
  BY DEF PermissionRule, PathEntry, PathRequest
<1>2. PathMeans(v, r) /\ pathGlob(v, r)
  BY DEF Means, PathMeans
<1>3. Matches(a, c, e, r) <=> e.tool \in ToolsOf(a, c) /\ PathMatches(a, e.arg, r)
  BY DEF Matches
<1>4. a # "cursor-cli" /\ e.arg = <<>> => PathMatches(a, e.arg, r)
  BY DEF PathMatches
<1>5. CASE a = "claude-code"
  <2>1. /\ e.tool \in ToolsOf(a, c)
        /\ e.arg = <<>> \/ globCovers(claudeGlob(e.arg), claudeGlob(v))
    BY <1>5 DEF Covers, claudeCovers, ToolsOf
  <2>2. CASE e.arg # <<>>
    <3>1. claudeGlob(e.arg) \in Text
      BY <1>1, <2>2, ClaudeText
    <3>2. PathEntry(claudeGlob(v)) /\ PathMeans(claudeGlob(v), r)
      BY <1>2, ClaudeMeans
    <3>3. PathMeans(claudeGlob(e.arg), r)
      BY <2>1, <2>2, <3>1, <3>2, PathSound
    <3>4. PathMatches(a, e.arg, r)
      BY <1>5, <2>2, <3>3 DEF PathMatches, PathMeans
    <3> QED
      BY <1>3, <2>1, <3>4
  <2> QED
    BY <1>3, <1>4, <1>5, <2>1, <2>2
<1>6. CASE a = "devin"
  <2>1. e.tool \in ToolsOf(a, c) /\ (e.arg = <<>> \/ globCovers(e.arg, v))
    BY <1>6 DEF Covers, devinCovers, ToolsOf, PermissionRule
  <2>2. CASE e.arg # <<>>
    <3>1. PathMeans(e.arg, r)
      BY <1>1, <1>2, <2>1, <2>2, PathSound
    <3>2. Head(e.arg) \notin {".", "/"}
      <4>1. SUFFICES ASSUME Head(e.arg) \in {".", "/"} PROVE FALSE
        OBVIOUS
      <4>2. e.arg[1] = Head(e.arg) /\ r[1] = Head(r)
        BY <1>1, <2>2, TailText
      <4>3. starGlob(e.arg, r) /\ e.arg[1] \notin Stars /\ e.arg[1] # "..."
        BY <3>1, <4>1, <4>2 DEF PathMeans, pathGlob, Stars
      <4>4. r[1] = e.arg[1]
        BY <1>1, <2>2, <4>3, FirstPart
      <4> QED
        BY <4>1, <4>2, <4>4 DEF PathRequest
    <3>3. PathMatches(a, e.arg, r)
      BY <1>6, <2>2, <3>1, <3>2 DEF PathMatches, PathMeans, qwenPath
    <3> QED
      BY <1>3, <2>1, <3>3
  <2> QED
    BY <1>3, <1>4, <1>6, <2>1, <2>2
<1>7. CASE a = "cursor-cli"
  <2>1. e.tool \in ToolsOf(a, c) /\ e.arg # <<>> /\ starGlob(e.arg, cursorPathTarget(v))
    BY <1>7 DEF Covers, cursorCovers, ToolsOf
  <2>2. starGlob(e.arg, absolute(r))
    BY <1>1, <1>2, <2>1, CursorTarget, GlobTrans
  <2>3. PathMatches(a, e.arg, r)
    BY <1>7, <2>1, <2>2 DEF PathMatches
  <2> QED
    BY <1>3, <2>1, <2>3
<1>8. CASE a = "qwen-code"
  <2>1. e.tool \in ToolsOf(a, c) /\ (e.arg = <<>> \/ globCovers(qwenPath(e.arg), v))
    BY <1>8 DEF Covers, qwenCovers, ToolsOf
  <2>2. CASE e.arg # <<>>
    <3>1. qwenPath(e.arg) \in Text
      BY <1>1, <2>2, TailText DEF qwenPath
    <3>2. PathMeans(qwenPath(e.arg), r)
      BY <1>2, <2>1, <2>2, <3>1, PathSound
    <3>3. PathMatches(a, e.arg, r)
      BY <1>8, <2>2, <3>2 DEF PathMatches, PathMeans
    <3> QED
      BY <1>3, <2>1, <3>3
  <2> QED
    BY <1>3, <1>4, <1>8, <2>1, <2>2
<1>9. CASE a = "grok"
  <2> DEFINE q == relativePath(e.arg)
             t == grokPathTarget(v)
  <2>1. e.tool \in ToolsOf(a, c) /\ (e.arg \in {<<>>, <<"*">>} \/ globCovers(q, t))
    BY <1>9 DEF Covers, grokCovers, ToolsOf
  <2>2. CASE e.arg \notin {<<>>, <<"*">>}
    <3>1. q \in Text /\ q # <<>>
      BY <1>1, <2>2, TrimText
    <3>2. t \in Text /\ t # <<>> /\ Dotless(t) /\ pathGlob(t, r) /\ ~ Home(t)
      <4>1. PathEntry(t) /\ pathGlob(t, r)
        BY <1>2, GrokTarget
      <4>2. Head(t) # "~"
        <5>1. CASE Head(v) = "~"
          <6>1. Tail(v) \in Text /\ "**" \in Parts
            BY <1>1, TailText, PartsAssumption
          <6>2. Head(<<"**">> \o Tail(v)) = "**"
            BY <6>1, ConsText
          <6> QED
            BY <5>1, <6>2 DEF grokPathTarget
        <5>2. CASE Head(v) # "~"
          BY <5>2 DEF grokPathTarget
        <5> QED
          BY <5>1, <5>2
      <4> QED
        BY <4>1, <4>2 DEF PathEntry, Home
    <3> HIDE DEF q, t
    <3>3. pathGlob(q, r) /\ ~ Home(q)
      BY <1>1, <2>1, <2>2, <3>1, <3>2, PathCovered, CoversHome
    <3>4. PathMatches(a, e.arg, r)
      BY <1>9, <2>2, <3>1, <3>3 DEF PathMatches, Home, q
    <3> QED
      BY <1>3, <2>1, <3>4
  <2>3. CASE e.arg = <<"*">>
    <3>1. PathMatches(a, e.arg, r)
      BY <1>9, <2>3 DEF PathMatches
    <3> QED
      BY <1>3, <2>1, <3>1
  <2> QED
    BY <1>3, <1>4, <1>9, <2>1, <2>2, <2>3
<1> QED
  BY <1>5, <1>6, <1>7, <1>8, <1>9 DEF ListAgents

\* The domain of an entry, and suffixes of suffixes.
LEMMA DomainText ==
    ASSUME NEW v \in Text, v # <<>>
    PROVE  Domain(v) \in Text
BY TailText DEF Domain

\* Suffixes of suffixes.
LEMMA SuffixTrans ==
    ASSUME NEW a \in Text, NEW b \in Text, NEW c \in Text, IsSuffix(b, c)
    PROVE  /\ IsStrictSuffix(a, b) => IsStrictSuffix(a, c)
           /\ IsSuffix(a, b) => IsSuffix(a, c)
<1>1. Len(a) \in Nat /\ Len(b) \in Nat /\ Len(c) \in Nat
  BY DEF Text
<1>2. Len(b) <= Len(c) /\ \A i \in 1..Len(b) : b[i] = c[(Len(c) - Len(b)) + i]
  BY SuffixText
<1>3. ASSUME Len(a) <= Len(b), \A i \in 1..Len(a) : a[i] = b[(Len(b) - Len(a)) + i],
             NEW i \in 1..Len(a)
      PROVE  a[i] = c[(Len(c) - Len(a)) + i]
  <2> DEFINE k == (Len(b) - Len(a)) + i
  <2>1. k \in 1..Len(b) /\ (Len(c) - Len(b)) + k = (Len(c) - Len(a)) + i
    BY <1>1, <1>2, <1>3
  <2>2. b[k] = c[(Len(c) - Len(b)) + k]
    BY <1>2, <2>1
  <2> QED
    BY <1>3, <2>1, <2>2
<1>4. IsStrictSuffix(a, b) => IsStrictSuffix(a, c)
  BY <1>1, <1>2, <1>3, SuffixText
<1>5. IsSuffix(a, b) => IsSuffix(a, c)
  BY <1>1, <1>2, <1>3, SuffixText
<1> QED
  BY <1>4, <1>5

\* A host an entry stands for ends in the entry's domain.
LEMMA DomainEnds ==
    ASSUME NEW v, DomainEntry(v), NEW r, PlainEntry(r), Means("fetch", v, r)
    PROVE  IsSuffix(Domain(v), r) /\ (Head(v) = "*" => IsStrictSuffix(Tail(v), r))
<1>1. v \in Text /\ v # <<>> /\ r \in Text /\ r # <<>> /\ Plain(r)
  BY DEF DomainEntry, PlainEntry
<1>2. r = v \/ (Head(v) = "*" /\ IsStrictSuffix(Tail(v), r))
  BY DEF Means
<1>3. Head(r) # "*"
  <2>1. Head(r) = r[1] /\ 1 \in 1..Len(r)
    BY <1>1, TailText
  <2> QED
    BY <1>1, <2>1 DEF Plain, Wildcards, Stars
<1>4. IsSuffix(r, r)
  BY <1>1, SuffixText DEF Text
<1>5. CASE Head(v) = "*"
  <2>1. IsStrictSuffix(Tail(v), r)
    BY <1>2, <1>3, <1>5
  <2>2. Tail(v) \in Text /\ Domain(v) = Tail(v)
    BY <1>1, <1>5, TailText DEF Domain
  <2>3. IsSuffix(Tail(v), r)
    BY <2>1 DEF IsStrictSuffix
  <2> QED
    BY <2>1, <2>2, <2>3
<1>6. CASE Head(v) # "*"
  BY <1>2, <1>4, <1>6 DEF Domain
<1> QED
  BY <1>5, <1>6

\* Neither side's www. changes what Grok's domain entry stands for.
LEMMA GrokHost ==
    ASSUME NEW e \in Text, NEW v, DomainEntry(v), NEW r, PlainEntry(r), Means("fetch", v, r),
           hostCovers(withoutWWW(e), withoutWWW(v))
    PROVE  "*" \notin ToSet(e) /\ IsSuffix(withoutWWW(e), withoutWWW(r))
<1>1. v \in Text /\ v # <<>> /\ r \in Text /\ r # <<>> /\ Plain(r)
  BY DEF DomainEntry, PlainEntry
<1> DEFINE q == withoutWWW(e)
<1>2. q \in Text /\ withoutWWW(v) \in Text /\ withoutWWW(r) \in Text /\ withoutWWW(v) # <<>> /\ withoutWWW(r) # <<>>
  <2>1. e # <<>>
    BY DEF hostCovers, withoutWWW
  <2> QED
    BY <1>1, <2>1, TrimText
<1>3. q # <<>> /\ "*" \notin ToSet(q) /\ IsSuffix(q, Domain(withoutWWW(v)))
  BY DEF hostCovers
<1>4. "*" \notin ToSet(e)
  <2>1. CASE q = e
    BY <1>3, <2>1
  <2>2. CASE Len(e) > 1 /\ Head(e) = "www" /\ q = Tail(e)
    <3>1. e # <<>> /\ Head(e) = e[1] /\ Len(q) = Len(e) - 1 /\ \A i \in 1..(Len(e) - 1) : q[i] = e[i + 1]
      BY <2>2, TailText
    <3>2. Len(e) \in Nat
      BY DEF Text
    <3>3. ASSUME NEW i \in 1..Len(e) PROVE e[i] # "*"
      <4>1. CASE i = 1
        BY <2>2, <3>1, <4>1
      <4>2. CASE i # 1
        <5>1. i - 1 \in 1..(Len(e) - 1) /\ (i - 1) + 1 = i
          BY <3>2, <4>2
        <5>2. q[i - 1] \in ToSet(q)
          BY <3>1, <5>1 DEF ToSet
        <5> QED
          BY <1>3, <3>1, <5>1, <5>2
      <4> QED
        BY <4>1, <4>2
    <3> QED
      BY <3>3 DEF ToSet
  <2> QED
    BY <2>1, <2>2 DEF withoutWWW
<1> HIDE DEF q
<1>5. CASE r = v
  <2>1. Head(withoutWWW(r)) # "*"
    <3>1. ASSUME NEW s \in Text, s # <<>>, Plain(s), NEW t \in Text, t # <<>>, t = s \/ t = Tail(s)
          PROVE  Head(t) # "*"
      <4>1. /\ Head(t) = t[1] /\ Len(t) \in Nat \ {0} /\ Len(s) \in Nat \ {0} /\ Len(Tail(s)) = Len(s) - 1
            /\ \A i \in 1..(Len(s) - 1) : Tail(s)[i] = s[i + 1]
        BY <3>1, TailText
      <4>2. CASE t = s
        <5>1. 1 \in 1..Len(s)
          BY <4>1
        <5> QED
          BY <3>1, <4>1, <4>2, <5>1 DEF Plain, Wildcards, Stars
      <4>3. CASE t = Tail(s)
        <5>1. 1 \in 1..(Len(s) - 1) /\ 1 + 1 = 2 /\ 2 \in 1..Len(s)
          BY <4>1, <4>3
        <5>2. t[1] = s[2]
          BY <4>1, <4>3, <5>1
        <5> QED
          BY <3>1, <4>1, <5>1, <5>2 DEF Plain, Wildcards, Stars
      <4> QED
        BY <3>1, <4>2, <4>3
    <3> QED
      BY <1>1, <1>2, <3>1 DEF withoutWWW
  <2>2. Domain(withoutWWW(v)) = withoutWWW(r)
    BY <1>5, <2>1 DEF Domain
  <2> QED
    BY <1>3, <1>4, <2>2 DEF q
<1>6. CASE Head(v) = "*" /\ IsStrictSuffix(Tail(v), r)
  <2>1. withoutWWW(v) = v /\ Domain(v) = Tail(v) /\ Tail(v) \in Text
    BY <1>1, <1>6, TailText DEF withoutWWW, Domain
  <2>2. IsStrictSuffix(q, r)
    <3>1. /\ IsSuffix(q, Tail(v)) /\ Len(q) \in Nat /\ Len(r) \in Nat /\ Len(Tail(v)) \in Nat
      BY <1>1, <1>2, <1>3, <2>1 DEF Text
    <3>2. Len(q) <= Len(Tail(v)) /\ Len(Tail(v)) < Len(r) /\ IsSuffix(Tail(v), r)
      BY <1>1, <1>2, <1>6, <2>1, <3>1, SuffixText DEF IsStrictSuffix
    <3>3. IsSuffix(q, r)
      BY <1>1, <1>2, <2>1, <3>1, <3>2, SuffixTrans
    <3>4. q # r
      BY <3>1, <3>2
    <3> QED
      BY <3>3, <3>4 DEF IsStrictSuffix
  <2>3. IsSuffix(q, Tail(r))
    <3>1. /\ Tail(r) \in Text /\ Len(Tail(r)) = Len(r) - 1 /\ Len(r) \in Nat \ {0}
          /\ \A i \in 1..(Len(r) - 1) : Tail(r)[i] = r[i + 1]
      BY <1>1, TailText
    <3>2. Len(q) < Len(r) /\ Len(q) \in Nat /\ \A i \in 1..Len(q) : q[i] = r[(Len(r) - Len(q)) + i]
      BY <1>1, <1>2, <2>2, SuffixText DEF Text
    <3>3. ASSUME NEW i \in 1..Len(q) PROVE q[i] = Tail(r)[(Len(Tail(r)) - Len(q)) + i]
      <4> DEFINE k == (Len(Tail(r)) - Len(q)) + i
      <4>1. k \in 1..(Len(r) - 1) /\ k + 1 = (Len(r) - Len(q)) + i
        BY <3>1, <3>2
      <4>2. Tail(r)[k] = r[k + 1]
        BY <3>1, <4>1
      <4> QED
        BY <3>2, <4>1, <4>2
    <3>4. Len(q) <= Len(Tail(r))
      BY <3>1, <3>2
    <3> QED
      BY <1>2, <3>1, <3>3, <3>4, SuffixText
  <2>4. IsSuffix(q, withoutWWW(r))
    BY <2>2, <2>3 DEF withoutWWW, IsStrictSuffix
  <2> QED
    BY <1>4, <2>4 DEF q
<1> QED
  BY <1>5, <1>6 DEF Means

\* A deny entry that covers a domain refuses every host the entry stands for.
THEOREM FetchCovered ==
    ASSUME NEW a \in ListAgents, NEW e, PermissionRule(a, e), NEW v, DomainEntry(v), NEW r, PlainEntry(r),
           Covers(a, "fetch", e, v), Means("fetch", v, r)
    PROVE  Matches(a, "fetch", e, r)
<1>1. v \in Text /\ v # <<>> /\ r \in Text /\ e.arg \in Text /\ Domain(v) \in Text
  BY DomainText DEF PermissionRule, PlainEntry, DomainEntry
<1>2. Matches(a, "fetch", e, r) <=> e.tool \in ToolsOf(a, "fetch") /\ HostMatches(a, e, r)
  BY DEF Matches
<1>3. IsSuffix(Domain(v), r) /\ (Head(v) = "*" => IsStrictSuffix(Tail(v), r))
  BY DomainEnds
<1>4. r = v \/ Head(v) = "*"
  BY DEF Means
<1>5. ASSUME e.arg = v \/ domainCovers(e.arg, v), a \in {"claude-code", "devin"}
      PROVE  HostMatches(a, e, r)
  <2>1. CASE e.arg = v
    BY <1>3, <1>4, <1>5, <2>1 DEF HostMatches
  <2>2. CASE e.arg = <<"*">>
    BY <2>2 DEF HostMatches
  <2>3. CASE Len(e.arg) > 1 /\ Head(e.arg) = "*" /\ IsStrictSuffix(Tail(e.arg), Domain(v))
    <3>1. e.arg # <<>>
      BY <2>3
    <3>2. Tail(e.arg) \in Text
      BY <1>1, <3>1, TailText
    <3>3. IsStrictSuffix(Tail(e.arg), r)
      BY <1>1, <1>3, <2>3, <3>2, SuffixTrans
    <3> QED
      BY <1>5, <2>3, <3>3 DEF HostMatches
  <2> QED
    BY <1>5, <2>1, <2>2, <2>3 DEF domainCovers
<1>6. ASSUME hostCovers(e.arg, v), a = "qwen-code"
      PROVE  HostMatches(a, e, r)
  <2>1. IsSuffix(e.arg, r)
    BY <1>1, <1>3, <1>6, SuffixTrans DEF hostCovers
  <2> QED
    BY <1>6, <2>1 DEF HostMatches, hostCovers
<1>7. e.arg \in {<<>>, <<"*">>} => HostMatches(a, e, r)
  BY DEF HostMatches
<1>8. CASE a = "claude-code"
  BY <1>2, <1>5, <1>7, <1>8 DEF Covers, claudeCovers, ToolsOf
<1>9. CASE a = "devin"
  BY <1>2, <1>5, <1>7, <1>9 DEF Covers, devinCovers, ToolsOf
<1>10. CASE a = "cursor-cli"
  BY <1>10 DEF Covers, cursorCovers
<1>11. CASE a = "qwen-code"
  BY <1>2, <1>6, <1>7, <1>11 DEF Covers, qwenCovers, ToolsOf
<1>12. CASE a = "grok"
  <2>1. /\ e.tool \in ToolsOf(a, "fetch")
        /\ e.arg \in {<<>>, <<"*">>} \/ hostCovers(withoutWWW(e.arg), withoutWWW(v))
    BY <1>12 DEF Covers, grokCovers, ToolsOf
  <2>2. HostMatches(a, e, r)
    BY <1>1, <1>7, <1>12, <2>1, GrokHost DEF HostMatches
  <2> QED
    BY <1>2, <2>1, <2>2
<1> QED
  BY <1>8, <1>9, <1>10, <1>11, <1>12 DEF ListAgents

\* The tool name of an MCP entry.
LEMMA TailFront ==
    ASSUME NEW v \in Text, Len(v) > 1
    PROVE  /\ v # <<>> /\ Tail(v) \in Text /\ Tail(v) # <<>> /\ Front(v) \in Text /\ Front(v) # <<>>
           /\ Front(Tail(v)) \in Text /\ Front(Tail(v)) = Tail(Front(v)) /\ Last(Tail(v)) = Last(v)
           /\ Head(Front(v)) = Head(v)
<1> DEFINE n == Len(v)
           t == Tail(v)
           w == Front(v)
<1>1. v # <<>> /\ n \in Nat /\ n > 1
  BY DEF Text
<1>2. t \in Text /\ Len(t) = n - 1 /\ (\A i \in 1..(n - 1) : t[i] = v[i + 1]) /\ Head(v) = v[1]
  BY <1>1, TailText
<1>3. w \in Text /\ Len(w) = n - 1 /\ \A i \in 1..(n - 1) : w[i] = v[i]
  BY <1>1, FrontText
<1>3a. Last(v) = v[n]
  BY DEF Last
<1> HIDE DEF n, t, w
<1>4. t # <<>> /\ w # <<>>
  BY <1>1, <1>2, <1>3
<1>5. Front(t) \in Text /\ Len(Front(t)) = n - 2 /\ \A i \in 1..(n - 2) : Front(t)[i] = t[i]
  <2>1. Len(t) - 1 = n - 2
    BY <1>1, <1>2
  <2> QED
    BY <1>2, <1>4, <2>1, FrontText
<1>6. Tail(w) \in Text /\ Len(Tail(w)) = n - 2 /\ (\A i \in 1..(n - 2) : Tail(w)[i] = w[i + 1]) /\ Head(w) = w[1]
  <2>1. Len(w) - 1 = n - 2
    BY <1>1, <1>3
  <2> QED
    BY <1>3, <1>4, <2>1, TailText
<1>7. Front(t) = Tail(w)
  <2>1. ASSUME NEW i \in 1..(n - 2) PROVE Front(t)[i] = Tail(w)[i]
    <3>1. i \in 1..(n - 1) /\ i + 1 \in 1..(n - 1)
      BY <1>1
    <3>2. Front(t)[i] = v[i + 1]
      BY <1>2, <1>5, <3>1
    <3>3. Tail(w)[i] = v[i + 1]
      BY <1>3, <1>6, <3>1
    <3> QED
      BY <3>2, <3>3
  <2> QED
    BY <1>5, <1>6, <2>1, SameText
<1>8. Last(t) = v[n]
  <2>1. Last(t) = t[n - 1]
    BY <1>2 DEF Last
  <2>2. n - 1 \in 1..(n - 1) /\ (n - 1) + 1 = n
    BY <1>1
  <2> QED
    BY <1>2, <2>1, <2>2
<1>9. w[1] = v[1]
  <2>1. 1 \in 1..(n - 1)
    BY <1>1
  <2> QED
    BY <1>3, <2>1
<1> QED
  BY <1>1, <1>2, <1>3, <1>3a, <1>4, <1>5, <1>6, <1>7, <1>8, <1>9 DEF t, w

\* A text with something after its first part.
LEMMA SecondPart ==
    ASSUME NEW s \in Text, s # <<>>, Tail(s) # <<>>
    PROVE  Len(s) > 1
<1> DEFINE n == Len(s)
           t == Tail(s)
<1>1. n \in Nat \ {0} /\ Len(t) = n - 1 /\ t \in Text
  BY TailText
<1>2. t # <<>>
  OBVIOUS
<1> HIDE DEF n, t
<1>3. Len(t) # 0
  BY <1>1, <1>2, EmptySeq DEF Text
<1>4. n > 1
  BY <1>1, <1>3
<1> QED
  BY <1>4 DEF n

\* Two texts, one starting with the other, after the first part.
LEMMA TailPrefix ==
    ASSUME NEW s \in Text, s # <<>>, NEW t \in Text, IsStrictPrefix(s, t)
    PROVE  t # <<>> /\ Head(t) = Head(s) /\ IsStrictPrefix(Tail(s), Tail(t)) /\ Tail(t) \in Text
<1>1. /\ Head(s) = s[1] /\ Tail(s) \in Text /\ Len(Tail(s)) = Len(s) - 1 /\ Len(s) \in Nat \ {0}
      /\ \A i \in 1..(Len(s) - 1) : Tail(s)[i] = s[i + 1]
  BY TailText
<1>2. Len(s) < Len(t) /\ Len(t) \in Nat /\ \A i \in 1..Len(s) : s[i] = t[i]
  BY PrefixText DEF Text
<1>3. t # <<>>
  BY <1>1, <1>2
<1>4. /\ Head(t) = t[1] /\ Tail(t) \in Text /\ Len(Tail(t)) = Len(t) - 1
      /\ \A i \in 1..(Len(t) - 1) : Tail(t)[i] = t[i + 1]
  BY <1>3, TailText
<1>5. ASSUME NEW i \in 1..Len(Tail(s)) PROVE Tail(s)[i] = Tail(t)[i]
  <2>1. i \in 1..(Len(s) - 1) /\ i + 1 \in 1..Len(s) /\ i \in 1..(Len(t) - 1)
    BY <1>1, <1>2
  <2> QED
    BY <1>1, <1>2, <1>4, <2>1
<1>6. Len(Tail(s)) < Len(Tail(t))
  BY <1>1, <1>2, <1>4
<1>7. IsStrictPrefix(Tail(s), Tail(t))
  BY <1>1, <1>4, <1>5, <1>6, PrefixText
<1>8. s[1] = t[1]
  <2>1. 1 \in 1..Len(s)
    BY <1>1
  <2> QED
    BY <1>2, <2>1
<1> QED
  BY <1>1, <1>3, <1>4, <1>7, <1>8

\* The tools an entry stands for are of its server, and go on after its literal part.
LEMMA McpMeans ==
    ASSUME NEW v, McpEntry(v), NEW r, PlainEntry(r), Len(r) > 1, Means("mcp-tools", v, r)
    PROVE  /\ v \in Text /\ v # <<>> /\ r \in Text /\ r # <<>> /\ Head(v) = Head(r)
           /\ Tail(v) \in Text /\ Tail(v) # <<>> /\ Tail(r) \in Text /\ Tail(r) # <<>>
           /\ Front(Tail(v)) \in Text /\ Plain(Front(Tail(v))) /\ Plain(Tail(r)) /\ Last(Tail(v)) = Last(v)
           /\ v = r \/ (Last(v) = "*" /\ IsStrictPrefix(Front(Tail(v)), Tail(r)))
<1>1. v \in Text /\ Len(v) > 1 /\ Plain(Front(v)) /\ r \in Text /\ r # <<>> /\ Plain(r)
  BY DEF McpEntry, PlainEntry
<1>2. v = r \/ (Last(v) = "*" /\ IsStrictPrefix(Front(v), r))
  BY DEF Means
<1>3. /\ v # <<>> /\ Tail(v) \in Text /\ Tail(v) # <<>> /\ Front(v) \in Text /\ Front(v) # <<>>
      /\ Front(Tail(v)) \in Text /\ Front(Tail(v)) = Tail(Front(v)) /\ Last(Tail(v)) = Last(v)
      /\ Head(Front(v)) = Head(v)
  BY <1>1, TailFront
<1>4. Tail(r) \in Text /\ Tail(r) # <<>>
  BY <1>1, TailFront
<1>5. ASSUME NEW s \in Text, s # <<>>, Plain(s) PROVE Plain(Tail(s))
  <2>1. /\ Len(Tail(s)) = Len(s) - 1 /\ Len(s) \in Nat \ {0}
        /\ \A i \in 1..(Len(s) - 1) : Tail(s)[i] = s[i + 1]
    BY <1>5, TailText
  <2>2. ASSUME NEW i \in 1..Len(Tail(s)) PROVE Tail(s)[i] \notin Wildcards
    <3>1. i \in 1..(Len(s) - 1) /\ i + 1 \in 1..Len(s)
      BY <2>1
    <3> QED
      BY <1>5, <2>1, <3>1 DEF Plain
  <2> QED
    BY <2>2 DEF Plain
<1>6. Plain(Front(Tail(v))) /\ Plain(Tail(r))
  BY <1>1, <1>3, <1>5
<1>7. CASE v = r
  BY <1>1, <1>3, <1>4, <1>6, <1>7
<1>8. CASE Last(v) = "*" /\ IsStrictPrefix(Front(v), r)
  <2>1. Head(r) = Head(Front(v)) /\ IsStrictPrefix(Tail(Front(v)), Tail(r))
    BY <1>1, <1>3, <1>8, TailPrefix
  <2> QED
    BY <1>1, <1>3, <1>4, <1>6, <1>8, <2>1
<1> QED
  BY <1>2, <1>7, <1>8

\* A deny entry that covers an MCP entry refuses every tool the entry stands for.
THEOREM McpCovered ==
    ASSUME NEW a \in ListAgents, NEW e, PermissionRule(a, e), NEW v, McpEntry(v), NEW r, PlainEntry(r), Len(r) > 1,
           Covers(a, "mcp-tools", e, v), Means("mcp-tools", v, r)
    PROVE  Matches(a, "mcp-tools", e, r)
<1>1. /\ v \in Text /\ v # <<>> /\ r \in Text /\ r # <<>> /\ Head(v) = Head(r)
      /\ Tail(v) \in Text /\ Tail(v) # <<>> /\ Tail(r) \in Text /\ Tail(r) # <<>>
      /\ Front(Tail(v)) \in Text /\ Plain(Front(Tail(v))) /\ Last(Tail(v)) = Last(v)
      /\ v = r \/ (Last(v) = "*" /\ IsStrictPrefix(Front(Tail(v)), Tail(r)))
  BY McpMeans
<1>2. Matches(a, "mcp-tools", e, r) <=> e.tool \in ToolsOf(a, "mcp-tools") /\ McpMatches(a, e, r)
  BY DEF Matches
<1>3. e.arg \in Text /\ (e.tool = "mcp" => e.arg # <<>>)
  BY DEF PermissionRule
<1>4. a # "cursor-cli" /\ e.arg \in {<<>>, <<"*">>} => McpMatches(a, e, r)
  BY DEF McpMatches
<1>5. ASSUME a # "cursor-cli", NEW bare, bare => e.tool = "mcp" /\ a # "devin", mcpCovers(e.arg, v, bare)
      PROVE  McpMatches(a, e, r)
  <2>1. CASE e.arg \in {<<>>, <<"*">>}
    BY <1>4, <1>5, <2>1
  <2>2. CASE e.arg \notin {<<>>, <<"*">>}
    <3> DEFINE t == Tail(e.arg)
    <3>1. Head(e.arg) = mcpServerName(Head(r)) /\ t \in Text
      BY <1>1, <1>3, <1>5, <2>2, TailText DEF mcpCovers
    <3>2. \/ t = <<>> /\ bare
          \/ t = Tail(v)
          \/ t # <<>> /\ Last(e.arg) = "*" /\ IsStrictPrefix(Front(t), Tail(v))
      BY <1>5, <2>2 DEF mcpCovers
    <3>3. t # <<>> => Front(t) \in Text /\ Last(e.arg) = Last(t)
      <4>1. SUFFICES ASSUME t # <<>> PROVE Front(t) \in Text /\ Last(e.arg) = Last(t)
        OBVIOUS
      <4>2. Len(e.arg) > 1
        BY <1>3, <2>2, <4>1, SecondPart
      <4> QED
        BY <1>3, <4>2, TailFront
    <3> HIDE DEF t
    <3>4. CASE t = <<>> /\ bare
      BY <1>5, <2>2, <3>1, <3>4 DEF McpMatches, t
    <3>5. CASE t = Tail(v)
      <4>1. t = Tail(r) \/ (Last(e.arg) = "*" /\ IsStrictPrefix(Front(t), Tail(r)))
        BY <1>1, <3>3, <3>5
      <4> QED
        BY <1>5, <2>2, <3>1, <4>1 DEF McpMatches, t
    <3>6. CASE t # <<>> /\ Last(e.arg) = "*" /\ IsStrictPrefix(Front(t), Tail(v))
      <4>1. IsStrictPrefix(Front(t), Tail(r))
        <5>1. CASE v = r
          BY <3>6, <5>1
        <5>2. CASE IsStrictPrefix(Front(Tail(v)), Tail(r))
          <6>1. IsPrefix(Front(t), Front(Tail(v)))
            BY <1>1, <3>3, <3>6, FrontPrefix
          <6> QED
            BY <1>1, <3>3, <3>6, <5>2, <6>1, PrefixTrans
        <5> QED
          BY <1>1, <5>1, <5>2
      <4> QED
        BY <1>5, <2>2, <3>1, <3>6, <4>1 DEF McpMatches, t
    <3> QED
      BY <3>2, <3>4, <3>5, <3>6
  <2> QED
    BY <2>1, <2>2
<1>6. CASE a \in {"claude-code", "qwen-code"}
  BY <1>2, <1>5, <1>6 DEF Covers, claudeCovers, qwenCovers, ToolsOf
<1>7. CASE a = "devin"
  BY <1>2, <1>5, <1>7 DEF Covers, devinCovers, ToolsOf
<1>8. CASE a = "cursor-cli"
  <2>1. /\ e.tool = "Mcp" /\ e.arg # <<>> /\ Head(e.arg) \in {Head(v), "*"}
        /\ starGlob(Tail(e.arg), Tail(v))
    BY <1>8 DEF Covers, cursorCovers
  <2>2. Tail(e.arg) \in Text
    BY <1>3, <2>1, TailText
  <2>3. starGlob(Tail(e.arg), Tail(r))
    <3>1. CASE v = r
      BY <2>1, <3>1
    <3>2. CASE Last(v) = "*" /\ IsStrictPrefix(Front(Tail(v)), Tail(r))
      <4>1. Tail(v) = Front(Tail(v)) \o <<"*">>
        BY <1>1, <3>2, FrontPrefix
      <4>2. Dotless(Tail(v))
        BY <1>1, <4>1, OpenText
      <4>3. starGlob(Tail(v), Tail(r))
        BY <1>1, <3>2, <4>1, GlobOpen DEF Stars
      <4> QED
        BY <1>1, <2>1, <2>2, <4>2, <4>3, GlobTrans
    <3> QED
      BY <1>1, <3>1, <3>2
  <2>4. McpMatches(a, e, r) /\ e.tool \in ToolsOf(a, "mcp-tools")
    BY <1>1, <1>8, <2>1, <2>3 DEF McpMatches, ToolsOf
  <2> QED
    BY <1>2, <2>4
<1>9. CASE a = "grok"
  <2>1. CASE grokMcpWhole(e)
    BY <1>2, <1>4, <1>9, <2>1 DEF grokMcpWhole, ToolsOf
  <2>2. CASE e.tool \in {"MCPTool", "mcp"} /\ mcpCovers(e.arg, v, e.tool = "mcp")
    <3>1. McpMatches(a, e, r)
      BY <1>5, <1>9, <2>2
    <3> QED
      BY <1>2, <1>9, <2>2, <3>1 DEF ToolsOf
  <2> QED
    BY <1>9, <2>1, <2>2 DEF Covers, grokCovers, grokMcpCovers
<1> QED
  BY <1>6, <1>7, <1>8, <1>9 DEF ListAgents

-----------------------------------------------------------------------------
(* An allow entry that matches such a request overlaps the neutral one,    *)
(* when its wildcards are at its end.                                      *)

\* Without a wildcard of a glob a pattern matches itself.
LEMMA GlobFixed ==
    ASSUME NEW p \in Text, NEW s \in Text, \A i \in 1..Len(p) : p[i] \notin Stars /\ p[i] # "...", starGlob(p, s)
    PROVE  p = s
<1>1. PICK f : Cut(p, s, f)
  BY GlobCuts
<1>2. Len(p) \in 0..Len(p)
  BY DEF Text
<1>3. f[Len(p)] = Len(p) /\ \A i \in 1..Len(p) : s[i] = p[i]
  BY <1>1, <1>2, CutPlain
<1>4. Len(p) = Len(s)
  BY <1>1, <1>3 DEF Cut
<1> QED
  BY <1>3, <1>4, SameText

\* With "..." at the end, a pattern matches what begins with the rest.
LEMMA GlobAny ==
    ASSUME NEW v \in Text, NEW s \in Text, Plain(v)
    PROVE  starGlob(v \o <<"...">>, s) <=> IsPrefix(v, s)
<1> DEFINE p == v \o <<"...">>
           n == Len(v)
<1>1. p \in Text /\ Len(p) = n + 1 /\ p[n + 1] = "..." /\ \A i \in 1..n : p[i] = v[i]
  BY AppendText, PartsAssumption
<1>2. n \in Nat /\ Len(s) \in Nat
  BY DEF Text
<1>3. IsPrefix(v, s) <=> n <= Len(s) /\ \A i \in 1..n : v[i] = s[i]
  BY PrefixText
<1>4. \A i \in 1..n : v[i] \notin Stars /\ v[i] # "..."
  BY DEF Plain, Wildcards
<1> HIDE DEF p, n
<1>5. ASSUME starGlob(p, s) PROVE IsPrefix(v, s)
  <2>1. PICK f : Cut(p, s, f)
    BY <1>1, <1>5, GlobCuts
  <2>2. n \in 0..Len(p) /\ \A i \in 1..n : p[i] \notin Stars /\ p[i] # "..."
    BY <1>1, <1>2, <1>4
  <2>3. n <= Len(s) /\ \A i \in 1..n : s[i] = p[i]
    BY <1>1, <2>1, <2>2, CutPlain
  <2> QED
    BY <1>1, <1>3, <2>3
<1>6. ASSUME IsPrefix(v, s) PROVE starGlob(p, s)
  <2> DEFINE f == [i \in 0..Len(p) |-> IF i <= n THEN i ELSE Len(s)]
  <2>1. n <= Len(s) /\ \A i \in 1..n : v[i] = s[i]
    BY <1>3, <1>6
  <2>2. f \in [0..Len(p) -> 0..Len(s)] /\ f[0] = 0 /\ f[Len(p)] = Len(s)
    BY <1>1, <1>2, <2>1
  <2>3. ASSUME NEW i \in 1..Len(p) PROVE Stands(p[i], s, f[i - 1], f[i])
    <3>1. CASE i = n + 1
      <4>1. f[i - 1] = n /\ f[i] = Len(s) /\ p[i] = "..."
        BY <1>1, <1>2, <3>1
      <4> QED
        BY <2>1, <4>1, StandsAs
    <3>2. CASE i # n + 1
      <4>1. i \in 1..n /\ f[i] = i /\ f[i - 1] = i - 1
        BY <1>1, <1>2, <3>2
      <4>2. p[i] = s[i] /\ p[i] \notin Stars /\ p[i] # "..."
        BY <1>1, <1>4, <2>1, <4>1
      <4>3. f[i] = f[i - 1] + 1 /\ s[f[i]] = p[i]
        BY <4>1, <4>2
      <4> QED
        BY <4>2, <4>3, StandsAs
    <3> QED
      BY <3>1, <3>2
  <2>4. Cut(p, s, f)
    BY <2>2, <2>3 DEF Cut
  <2> QED
    BY <1>1, <2>4, GlobCuts
<1> QED
  BY <1>5, <1>6 DEF p

\* The literal part of a pattern, and the wildcard that may follow it.
LEMMA LiteralCases ==
    ASSUME NEW p \in Text
    PROVE  /\ Literal(p) \in Text
           /\ \/ ~ Starred(p) /\ Literal(p) = p
              \/ Starred(p) /\ Last(p) \in {"*", ":*"} /\ Literal(p) = Front(p) /\ p = Literal(p) \o <<Last(p)>>
<1>1. CASE ~ Starred(p)
  BY <1>1 DEF Literal
<1>2. CASE Starred(p)
  <2>1. p # <<>> /\ Last(p) \in {"*", ":*"}
    BY <1>2 DEF Starred
  <2>2. Literal(p) = Front(p) /\ Front(p) \in Text /\ p = Front(p) \o <<Last(p)>>
    BY <1>2, <2>1, FrontPrefix DEF Literal
  <2> QED
    BY <1>2, <2>1, <2>2
<1> QED
  BY <1>1, <1>2

\* An entry that starts with a command does so without its wildcard.
LEMMA Narrower ==
    ASSUME NEW p \in Text, NEW v \in Text
    PROVE  /\ IsStrictPrefix(v, p) => IsPrefix(v, Literal(p))
           /\ IsPrefix(v, p) /\ ~ Starred(p) => IsPrefix(v, Literal(p))
<1>1. IsPrefix(v, p) /\ ~ Starred(p) => IsPrefix(v, Literal(p))
  BY DEF Literal
<1>2. IsStrictPrefix(v, p) => IsPrefix(v, p)
  BY DEF IsStrictPrefix
<1>3. ASSUME IsStrictPrefix(v, p), Starred(p) PROVE IsPrefix(v, Literal(p))
  BY <1>3, FrontPrefix DEF Literal, Starred
<1> QED
  BY <1>1, <1>2, <1>3

\* A glob with its wildcard at the end that matches a command matches what the
\* command begins with, or goes on after it.
LEMMA GlobNear ==
    ASSUME NEW p \in Text, Plain(Literal(p)), NEW v \in Text, NEW r \in Text, Plain(r), IsPrefix(v, r), starGlob(p, r)
    PROVE  IsPrefix(v, Literal(p)) \/ starGlob(p, v)
<1>1. Literal(p) \in Text
  BY LiteralCases
<1>2. CASE ~ Starred(p)
  <2>1. Plain(p)
    BY <1>2 DEF Literal
  <2>2. p = r
    BY <2>1, GlobPlain
  <2> QED
    BY <1>2, <2>2, Narrower
<1>3. CASE Starred(p) /\ Last(p) = "*"
  <2>1. p = Literal(p) \o <<"*">>
    BY <1>3, LiteralCases
  <2>2. IsStrictPrefix(Literal(p), r)
    BY <1>1, <2>1, GlobOpen DEF Stars
  <2>3. IsPrefix(v, Literal(p)) \/ IsStrictPrefix(Literal(p), v)
    BY <1>1, <2>2, PrefixTrans
  <2>4. IsStrictPrefix(Literal(p), v) => starGlob(p, v)
    BY <1>1, <2>1, GlobOpen DEF Stars
  <2> QED
    BY <2>3, <2>4
<1>4. CASE Starred(p) /\ Last(p) = ":*"
  <2>1. p = Literal(p) \o <<":*">>
    BY <1>4, LiteralCases
  <2> DEFINE l == Literal(p)
             n == Len(l)
  <2>2. Len(p) = n + 1 /\ p[n + 1] = ":*" /\ (\A i \in 1..n : p[i] = l[i]) /\ n \in Nat
    BY <1>1, <2>1, AppendText, PartsAssumption DEF Text
  <2>3. \A i \in 1..n : l[i] \notin Stars /\ l[i] # "..."
    BY DEF Plain, Wildcards
  <2> HIDE DEF l, n
  <2>4. \A i \in 1..Len(p) : p[i] \notin Stars /\ p[i] # "..."
    <3>1. ASSUME NEW i \in 1..Len(p) PROVE p[i] \notin Stars /\ p[i] # "..."
      <4>1. i = n + 1 \/ i \in 1..n
        BY <2>2
      <4>2. ":*" \notin Stars /\ ":*" # "..."
        BY DEF Stars
      <4> QED
        BY <2>2, <2>3, <4>1, <4>2
    <3> QED
      BY <3>1
  <2>5. p = r
    BY <2>4, GlobFixed
  <2>6. n + 1 \in 1..Len(r) /\ r[n + 1] = ":*"
    BY <2>2, <2>5
  <2> QED
    BY <2>6 DEF Plain, Wildcards
<1> QED
  BY <1>2, <1>3, <1>4, LiteralCases

\* A pattern that matches a command, with its wildcard at the end, matches what the
\* command starts with or starts with it: Cursor, Qwen Code, Grok.
LEMMA CursorNear ==
    ASSUME NEW p \in Text, p # <<>>, Plain(Literal(p)), NEW v, PlainEntry(v), NEW r, PlainEntry(r), IsPrefix(v, r),
           cursorShellMatches(p, r)
    PROVE  cursorShellMatches(p, v) \/ IsPrefix(v, Literal(p))
<1>1. v \in Text /\ v # <<>> /\ r \in Text /\ Plain(r) /\ Literal(p) \in Text
  BY LiteralCases DEF PlainEntry
<1>2. Head(v) = Head(r) /\ <<Head(v)>> \in Text
  BY <1>1, SameHead
<1>3. CASE Last(p) = ":*" /\ starGlob(Front(p), <<Head(r)>>)
  BY <1>2, <1>3 DEF cursorShellMatches
<1>4. CASE Last(p) = ":*" /\ starGlob(Front(p), r)
  <2>1. Literal(p) = Front(p)
    BY <1>4 DEF Literal, Starred
  <2>2. Front(p) = r
    BY <1>1, <1>4, <2>1, GlobPlain
  <2> QED
    BY <2>1, <2>2
<1>5. CASE starGlob(p, r)
  <2>1. IsPrefix(v, Literal(p)) \/ starGlob(p, v)
    BY <1>1, <1>5, GlobNear
  <2> QED
    BY <2>1 DEF cursorShellMatches
<1>6. CASE IsStrictPrefix(p, r)
  <2>1. IsStrictPrefix(v, p) \/ p = v \/ IsStrictPrefix(p, v)
    BY <1>1, <1>6, PrefixTrans DEF IsStrictPrefix
  <2>2. p = v => starGlob(p, v)
    BY <1>1, GlobSame
  <2>3. IsStrictPrefix(v, p) => IsPrefix(v, Literal(p))
    BY <1>1, Narrower
  <2> QED
    BY <2>1, <2>2, <2>3 DEF cursorShellMatches
<1>7. CASE starGlob(p, <<Head(r)>>)
  BY <1>2, <1>7 DEF cursorShellMatches
<1> QED
  BY <1>3, <1>4, <1>5, <1>6, <1>7 DEF cursorShellMatches

\* The same for Qwen Code.
LEMMA QwenNear ==
    ASSUME NEW p \in Text, Plain(Literal(p)), NEW v, PlainEntry(v), NEW r, PlainEntry(r), IsPrefix(v, r),
           qwenCommandMatches(p, r)
    PROVE  qwenCommandMatches(p, v) \/ IsPrefix(v, Literal(p))
<1>1. v \in Text /\ r \in Text /\ Literal(p) \in Text /\ qwenCommandArg(p) \in Text
  BY LiteralCases, QwenArg DEF PlainEntry
<1>2. CASE Plain(p)
  <2>1. IsPrefix(p, r)
    BY <1>2 DEF qwenCommandMatches, hasCmdPrefix
  <2>2. IsPrefix(p, v) \/ IsStrictPrefix(v, p)
    BY <1>1, <2>1, PrefixTrans
  <2>3. IsStrictPrefix(v, p) => IsPrefix(v, Literal(p))
    BY <1>1, Narrower
  <2> QED
    BY <1>2, <2>2, <2>3 DEF qwenCommandMatches, hasCmdPrefix
<1>3. CASE ~ Plain(p)
  <2> DEFINE l == Literal(p)
             n == Len(l)
             q == qwenCommandArg(p)
  <2>1. starGlob(q, r) /\ (starGlob(q, v) => qwenCommandMatches(p, v))
    BY <1>3 DEF qwenCommandMatches
  <2>2. DOMAIN q = 1..Len(p) /\ Len(q) = Len(p) /\ \A i \in 1..Len(p) : q[i] = IF i > 1 /\ p[i] \in Wildcards THEN "..." ELSE p[i]
    BY DEF qwenCommandArg, Text
  <2>5. \A i \in 1..n : l[i] \notin Wildcards
    BY DEF Plain
  <2>6. Starred(p)
    BY <1>3 DEF Literal
  <2>7. p = l \o <<Last(p)>> /\ Last(p) \in {"*", ":*"} /\ l \in Text
    BY <2>6, LiteralCases
  <2>8. Last(p) \in Parts
    BY <2>7, PartsAssumption
  <2>9. Len(p) = n + 1 /\ p[n + 1] = Last(p) /\ (\A i \in 1..n : p[i] = l[i]) /\ n \in Nat
    <3> DEFINE x == Last(p)
    <3>1. x \in Parts /\ p = l \o <<x>> /\ l \in Text
      BY <2>7, <2>8
    <3>2. Len(l \o <<x>>) = n + 1 /\ (l \o <<x>>)[n + 1] = x /\ \A i \in 1..n : (l \o <<x>>)[i] = l[i]
      BY <3>1, AppendText
    <3>3. n \in Nat
      BY <3>1 DEF Text
    <3> HIDE DEF x, l
    <3> QED
      BY <3>1, <3>2, <3>3 DEF x
  <2> DEFINE o == l \o <<"...">>
  <2>10. o \in Text /\ Len(o) = n + 1 /\ o[n + 1] = "..." /\ \A i \in 1..n : o[i] = l[i]
    BY <1>1, AppendText, PartsAssumption
  <2>11. (starGlob(o, r) <=> IsPrefix(l, r)) /\ (starGlob(o, v) <=> IsPrefix(l, v))
    BY <1>1, GlobAny
  <2> HIDE DEF l, n, q, o
  <2>12. ASSUME n # 0 PROVE q = o
    <3>1. ASSUME NEW i \in 1..Len(q) PROVE q[i] = o[i]
      <4>1. i = n + 1 \/ i \in 1..n
        BY <2>2, <2>9
      <4>2. CASE i = n + 1
        <5>1. i > 1 /\ p[i] \in Wildcards
          BY <2>7, <2>9, <2>12, <4>2 DEF Wildcards, Stars
        <5> QED
          BY <2>2, <2>10, <4>2, <5>1
      <4>3. CASE i \in 1..n
        BY <2>2, <2>5, <2>9, <2>10, <4>3
      <4> QED
        BY <4>1, <4>2, <4>3
    <3>2. q \in Text /\ Len(q) = Len(o)
      BY <1>1, <2>2, <2>9, <2>10 DEF q
    <3> QED
      BY <2>10, <3>1, <3>2, SameText
  <2>13. CASE n # 0
    <3>1. IsPrefix(l, r)
      BY <2>1, <2>11, <2>12, <2>13
    <3>2. IsPrefix(l, v) \/ IsStrictPrefix(v, l)
      BY <1>1, <2>7, <3>1, PrefixTrans
    <3> QED
      BY <2>1, <2>11, <2>12, <2>13, <3>2 DEF IsStrictPrefix, l
  <2>14. CASE n = 0
    <3>1. p \in Text /\ Len(p) = 1 /\ p[1] = Last(p) /\ q \in Text /\ Len(q) = 1
      BY <1>1, <2>2, <2>9, <2>14 DEF q
    <3>2. q[1] = p[1]
      BY <2>2, <3>1
    <3>3. q = p /\ p # <<>> /\ p = <<p[1]>>
      BY <3>1, <3>2, SameText DEF Text
    <3>4. CASE p[1] = "*"
      <4>1. v # <<>> /\ "*" \in Stars
        BY DEF PlainEntry, Stars
      <4>2. starGlob(q, v)
        BY <1>1, <3>3, <3>4, <4>1, GlobAll
      <4> QED
        BY <2>1, <4>2
    <3>5. CASE p[1] = ":*"
      <4>1. r # <<>> /\ r[1] \notin Wildcards
        BY TailText DEF PlainEntry, Plain
      <4>2. p[1] \notin Stars /\ p[1] # "..."
        BY <3>5 DEF Stars
      <4>3. r[1] = p[1]
        BY <1>1, <2>1, <3>3, <4>2, FirstPart
      <4> QED
        BY <3>5, <4>1, <4>3 DEF Wildcards
    <3> QED
      BY <2>7, <3>1, <3>4, <3>5
  <2> QED
    BY <2>13, <2>14
<1> QED
  BY <1>2, <1>3

\* The same for Grok.
LEMMA GrokNear ==
    ASSUME NEW p \in Text, Plain(Literal(p)), NEW v, PlainEntry(v), NEW r, PlainEntry(r), IsPrefix(v, r),
           grokCommandMatches(p, r)
    PROVE  grokCommandMatches(p, v) \/ IsPrefix(v, Literal(p))
<1> DEFINE q == GrokPattern(p)
<1>1. v \in Text /\ r \in Text /\ Plain(r) /\ Literal(p) \in Text /\ q \in Text
  BY LiteralCases, FrontText DEF PlainEntry, GrokPattern
<1>2. q = p \/ q = Literal(p)
  BY DEF GrokPattern, Literal, Starred
<1>3. (IsPrefix(q, v) \/ starGlob(q, v)) => grokCommandMatches(p, v)
  BY DEF grokCommandMatches, hasCmdPrefix
<1>4. IsPrefix(q, r) \/ starGlob(q, r)
  BY DEF grokCommandMatches, hasCmdPrefix
<1> HIDE DEF q
<1>5. CASE IsPrefix(q, r)
  <2>1. IsPrefix(q, v) \/ IsStrictPrefix(v, q)
    BY <1>1, <1>5, PrefixTrans
  <2>2. IsStrictPrefix(v, q) => IsPrefix(v, Literal(p))
    BY <1>1, <1>2, Narrower DEF IsStrictPrefix
  <2> QED
    BY <1>3, <2>1, <2>2
<1>6. CASE starGlob(q, r) /\ q = Literal(p)
  <2>1. q = r
    BY <1>1, <1>6, GlobPlain
  <2> QED
    BY <1>6, <2>1
<1>7. CASE starGlob(q, r) /\ q = p
  <2>1. IsPrefix(v, Literal(p)) \/ starGlob(p, v)
    BY <1>1, <1>7, GlobNear
  <2> QED
    BY <1>3, <1>7, <2>1
<1> QED
  BY <1>2, <1>4, <1>5, <1>6, <1>7

\* The wildcards of an allow entry are at its end.
OpenAtTheEnd(a, e) ==
    /\ a \in {"cursor-cli", "qwen-code", "grok"} /\ e.tool \in ToolsOf(a, "commands") => Plain(Literal(e.arg))
    /\ a = "cursor-cli" /\ e.tool = "Mcp" /\ e.arg # <<>> => Plain(Literal(Tail(e.arg)))

\* An allow entry that runs a command overlaps each entry the command is forbidden by
\* (claudeOverlaps and the others).
THEOREM CommandsGranted ==
    ASSUME NEW a \in ListAgents, NEW e, PermissionRule(a, e), OpenAtTheEnd(a, e), NEW v, PlainEntry(v), NEW r, PlainEntry(r),
           Matches(a, "commands", e, r), Means("commands", v, r)
    PROVE  Overlaps(a, "commands", e, v)
<1>1. v \in Text /\ r \in Text /\ e.arg \in Text /\ IsPrefix(v, r) /\ Literal(e.arg) \in Text
  BY LiteralText DEF PermissionRule, PlainEntry, Means
<1>2. e.tool \in ToolsOf(a, "commands") /\ CommandMatches(a, e.arg, r)
  BY DEF Matches
<1>3. ASSUME NEW p \in Text, IsPrefix(p, r) PROVE IsPrefix(p, v) \/ IsPrefix(v, p)
  BY <1>1, <1>3, PrefixTrans DEF IsStrictPrefix
<1>4. CASE a = "claude-code"
  <2>1. e.tool = "Bash"
    BY <1>2, <1>4 DEF ToolsOf
  <2>2. CASE e.arg = <<>> \/ Starred(e.arg)
    <3>1. IsPrefix(Literal(e.arg), r)
      BY <1>2, <1>4, <2>2 DEF CommandMatches
    <3>2. IsPrefix(Literal(e.arg), v) \/ IsPrefix(v, Literal(e.arg))
      BY <1>1, <1>3, <3>1
    <3> QED
      BY <1>4, <2>1, <2>2, <3>2 DEF Overlaps, claudeOverlaps, hasCmdPrefix
  <2>3. CASE ~ (e.arg = <<>> \/ Starred(e.arg))
    <3>1. e.arg = r
      BY <1>2, <1>4, <2>3 DEF CommandMatches
    <3>2. IsPrefix(v, Literal(e.arg))
      BY <1>1, <2>3, <3>1 DEF Literal
    <3> QED
      BY <1>4, <2>1, <3>2 DEF Overlaps, claudeOverlaps, hasCmdPrefix
  <2> QED
    BY <2>2, <2>3
<1>5. CASE a = "devin"
  <2>1. e.tool \in {"exec", "Exec"} /\ IsPrefix(e.arg, r)
    BY <1>2, <1>5 DEF ToolsOf, CommandMatches, hasCmdPrefix
  <2>2. IsPrefix(e.arg, v) \/ IsPrefix(v, e.arg)
    BY <1>1, <1>3, <2>1
  <2> QED
    BY <1>5, <2>1, <2>2 DEF Overlaps, devinOverlaps, hasCmdPrefix
<1>6. CASE a = "cursor-cli"
  <2>1. e.tool \in {"Shell", "Bash"} /\ e.arg # <<>> /\ cursorShellMatches(e.arg, r)
    BY <1>2, <1>6 DEF ToolsOf, CommandMatches
  <2>2. cursorShellMatches(e.arg, v) \/ IsPrefix(v, Literal(e.arg))
    BY <1>1, <1>2, <1>6, <2>1, CursorNear DEF OpenAtTheEnd
  <2> QED
    BY <1>6, <2>1, <2>2 DEF Overlaps, cursorOverlaps, hasCmdPrefix
<1>7. CASE a = "qwen-code"
  <2>1. e.tool \in qwenShellTools /\ qwenCommandMatches(e.arg, r)
    BY <1>2, <1>7 DEF ToolsOf, CommandMatches
  <2>2. qwenCommandMatches(e.arg, v) \/ IsPrefix(v, Literal(e.arg))
    BY <1>1, <1>2, <1>7, <2>1, QwenNear DEF OpenAtTheEnd
  <2> QED
    BY <1>7, <2>1, <2>2 DEF Overlaps, qwenOverlaps, narrowerCommand, hasCmdPrefix
<1>8. CASE a = "grok"
  <2>1. e.tool = "Bash" /\ grokCommandMatches(e.arg, r)
    BY <1>2, <1>8 DEF ToolsOf, CommandMatches
  <2>2. grokCommandMatches(e.arg, v) \/ IsPrefix(v, Literal(e.arg))
    BY <1>1, <1>2, <1>8, <2>1, GrokNear DEF OpenAtTheEnd
  <2> QED
    BY <1>8, <2>1, <2>2 DEF Overlaps, grokOverlaps, narrowerCommand, hasCmdPrefix
<1> QED
  BY <1>4, <1>5, <1>6, <1>7, <1>8 DEF ListAgents

\* An allow entry that runs a tool overlaps each entry the tool is forbidden by.
THEOREM McpGranted ==
    ASSUME NEW a \in ListAgents, NEW e, PermissionRule(a, e), OpenAtTheEnd(a, e), NEW v, McpEntry(v),
           NEW r, PlainEntry(r), Len(r) > 1, Matches(a, "mcp-tools", e, r), Means("mcp-tools", v, r),
           ~ (a = "claude-code" /\ e.tool = "mcp" /\ e.arg = <<"*">>)
    PROVE  Overlaps(a, "mcp-tools", e, v)
<1>1. /\ v \in Text /\ v # <<>> /\ r \in Text /\ r # <<>> /\ Head(v) = Head(r)
      /\ Tail(v) \in Text /\ Tail(v) # <<>> /\ Tail(r) \in Text /\ Tail(r) # <<>>
      /\ Front(Tail(v)) \in Text /\ Plain(Front(Tail(v))) /\ Plain(Tail(r)) /\ Last(Tail(v)) = Last(v)
      /\ v = r \/ (Last(v) = "*" /\ IsStrictPrefix(Front(Tail(v)), Tail(r)))
  BY McpMeans
<1>2. e.tool \in ToolsOf(a, "mcp-tools") /\ McpMatches(a, e, r) /\ e.arg \in Text /\ (e.tool = "mcp" => e.arg # <<>>)
  BY DEF Matches, PermissionRule
<1>3. ASSUME a # "cursor-cli", NEW bare, e.tool = "mcp" /\ a # "devin" => bare, e.arg # <<>>
      PROVE  mcpOverlaps(e.arg, v, bare)
  <2>1. CASE e.arg = <<"*">>
    BY <2>1 DEF mcpOverlaps
  <2>2. CASE e.arg # <<"*">>
    <3> DEFINE t == Tail(e.arg)
               w == Tail(v)
    <3>1. /\ Head(e.arg) = mcpServerName(Head(v))
          /\ \/ t = <<>> /\ bare
             \/ t = Tail(r)
             \/ Last(e.arg) = "*" /\ IsStrictPrefix(Front(t), Tail(r))
      BY <1>1, <1>2, <1>3, <2>2 DEF McpMatches
    <3>2. t \in Text /\ (t # <<>> => Last(e.arg) = Last(t) /\ Front(t) \in Text)
      BY <1>2, <1>3, TailText, SecondPart, TailFront
    <3>3. Last(e.arg) = "*" => t # <<>>
      <4>1. SUFFICES ASSUME Last(e.arg) = "*", t = <<>> PROVE FALSE
        OBVIOUS
      <4>2. Len(e.arg) = 1
        <5> DEFINE n == Len(e.arg)
        <5>1. n \in Nat \ {0} /\ Len(t) = n - 1 /\ Len(t) = 0
          BY <1>2, <1>3, <4>1, TailText
        <5> HIDE DEF n, t
        <5>2. n = 1
          BY <5>1
        <5> QED
          BY <5>2 DEF n
      <4>3. e.arg = <<"*">>
        BY <1>2, <4>1, <4>2 DEF Last, Text
      <4> QED
        BY <2>2, <4>3
    <3>4. Last(v) = "*" => Literal(w) = Front(w)
      BY <1>1 DEF Literal, Starred
    <3>5. Last(e.arg) = "*" => Literal(t) = Front(t) /\ t # <<>>
      BY <3>2, <3>3 DEF Literal, Starred
    <3>6. mcpOverlaps(e.arg, v, bare) <=>
            \/ e.arg = <<"*">>
            \/ /\ Head(e.arg) = mcpServerName(Head(v))
               /\ \/ t = <<>> /\ bare
                  \/ /\ t # <<>>
                     /\ \/ t = w
                        \/ Last(e.arg) = "*" /\ IsStrictPrefix(Literal(t), w)
                        \/ Last(v) = "*" /\ IsStrictPrefix(Literal(w), t)
                        \/ /\ Last(e.arg) = "*" /\ Last(v) = "*"
                           /\ IsPrefix(Literal(t), Literal(w)) \/ IsPrefix(Literal(w), Literal(t))
      BY DEF mcpOverlaps
    <3> HIDE DEF t, w
    <3>7. CASE t = <<>> /\ bare
      BY <3>1, <3>6, <3>7
    <3>8. CASE t = Tail(r)
      <4>1. t # <<>> /\ (t = w \/ (Last(v) = "*" /\ IsStrictPrefix(Literal(w), t)))
        BY <1>1, <3>4, <3>8 DEF w
      <4> QED
        BY <3>1, <3>6, <4>1
    <3>9. CASE Last(e.arg) = "*" /\ IsStrictPrefix(Front(t), Tail(r))
      <4>1. CASE v = r
        BY <3>1, <3>5, <3>6, <3>9, <4>1 DEF w
      <4>2. CASE Last(v) = "*" /\ IsStrictPrefix(Front(w), Tail(r))
        <5>1. Front(t) \in Text /\ Front(w) \in Text /\ Tail(r) \in Text
          BY <1>1, <3>2, <3>5, <3>9 DEF w
        <5>2. IsPrefix(Front(t), Tail(r)) /\ IsPrefix(Front(w), Tail(r))
          BY <3>9, <4>2 DEF IsStrictPrefix
        <5>3. IsPrefix(Front(t), Front(w)) \/ IsPrefix(Front(w), Front(t))
          BY <5>1, <5>2, PrefixTrans DEF IsStrictPrefix
        <5> QED
          BY <3>1, <3>4, <3>5, <3>6, <3>9, <4>2, <5>3
      <4> QED
        BY <1>1, <4>1, <4>2 DEF w
    <3> QED
      BY <3>1, <3>7, <3>8, <3>9
  <2> QED
    BY <2>1, <2>2
<1>4. CASE a = "claude-code"
  <2>1. e.tool = "mcp" /\ e.arg # <<"*">> /\ mcpOverlaps(e.arg, v, TRUE)
    BY <1>2, <1>3, <1>4 DEF ToolsOf
  <2> QED
    BY <1>4, <2>1 DEF Overlaps, claudeOverlaps
<1>5. CASE a = "devin"
  BY <1>2, <1>3, <1>5 DEF ToolsOf, Overlaps, devinOverlaps
<1>6. CASE a = "qwen-code"
  BY <1>2, <1>3, <1>6 DEF ToolsOf, Overlaps, qwenOverlaps
<1>7. CASE a = "grok"
  <2>1. e.tool \in {"mcp", "MCPTool"}
    BY <1>2, <1>7 DEF ToolsOf
  <2>2. CASE e.arg # <<>>
    <3>1. mcpOverlaps(e.arg, v, e.tool = "mcp")
      BY <1>3, <1>7, <2>2
    <3> QED
      BY <1>7, <2>1, <3>1 DEF Overlaps, grokOverlaps
  <2>3. CASE e.arg = <<>>
    BY <1>2, <1>7, <2>1, <2>3 DEF Overlaps, grokOverlaps, grokMcpWhole
  <2> QED
    BY <2>2, <2>3
<1>8. CASE a = "cursor-cli"
  <2> DEFINE t == Tail(e.arg)
             w == Tail(v)
             l == Literal(t)
             o == Front(w)
  <2>1. e.tool = "Mcp"
    BY <1>2, <1>8 DEF ToolsOf
  <2>2. /\ e.arg # <<>> /\ Head(e.arg) \in {Head(r), "*"} /\ starGlob(t, Tail(r))
    BY <1>2, <1>8, <2>1 DEF McpMatches
  <2>3. t \in Text /\ Plain(l) /\ l \in Text
    BY <1>2, <1>8, <2>1, <2>2, TailText, LiteralCases DEF OpenAtTheEnd
  <2>4. starGlob(t, w) \/ starGlob(w, t)
    <3>1. CASE v = r
      BY <2>2, <3>1
    <3>2. CASE Last(v) = "*" /\ IsStrictPrefix(o, Tail(r))
      <4>1. w = o \o <<"*">> /\ o \in Text /\ Plain(o) /\ w \in Text
        BY <1>1, <3>2, FrontPrefix
      <4>2. \A s \in Text : starGlob(w, s) <=> IsStrictPrefix(o, s)
        BY <4>1, GlobOpen DEF Stars
      <4>3. CASE Starred(t) /\ Last(t) = "*"
        <5>1. t = l \o <<"*">>
          BY <2>3, <4>3, LiteralCases
        <5>2. \A s \in Text : starGlob(t, s) <=> IsStrictPrefix(l, s)
          BY <2>3, <5>1, GlobOpen DEF Stars
        <5>3. IsStrictPrefix(l, Tail(r)) /\ IsStrictPrefix(l, t) /\ IsStrictPrefix(o, w)
          BY <1>1, <2>2, <2>3, <4>1, <5>1, <5>2, OpenText
        <5> HIDE DEF t, w, l, o
        <5>4. IsPrefix(l, o) \/ IsStrictPrefix(o, l)
          BY <1>1, <2>3, <3>2, <4>1, <5>3, PrefixTrans DEF IsStrictPrefix
        <5>5. IsPrefix(l, o) => starGlob(t, w)
          BY <2>3, <4>1, <5>2, <5>3, PrefixTrans
        <5>6. IsStrictPrefix(o, l) => starGlob(w, t)
          <6>1. SUFFICES ASSUME IsStrictPrefix(o, l) PROVE starGlob(w, t)
            OBVIOUS
          <6>2. IsPrefix(o, l)
            BY <6>1 DEF IsStrictPrefix
          <6>3. IsStrictPrefix(o, t)
            BY <2>3, <4>1, <5>3, <6>2, PrefixTrans
          <6> QED
            BY <2>3, <4>2, <6>3
        <5> QED
          BY <5>4, <5>5, <5>6
      <4>4. CASE ~ (Starred(t) /\ Last(t) = "*")
        <5>1. \A i \in 1..Len(t) : t[i] \notin Stars /\ t[i] # "..."
          <6>1. CASE ~ Starred(t)
            BY <2>3, <6>1 DEF Literal, Plain, Wildcards
          <6>2. CASE Starred(t)
            <7>1. t = l \o <<":*">> /\ l \in Text
              BY <2>3, <4>4, <6>2, LiteralCases
            <7>2. Len(t) = Len(l) + 1 /\ t[Len(l) + 1] = ":*" /\ (\A i \in 1..Len(l) : t[i] = l[i]) /\ Len(l) \in Nat
              BY <7>1, AppendText, PartsAssumption DEF Text
            <7>3. \A i \in 1..Len(l) : l[i] \notin Stars /\ l[i] # "..."
              BY <2>3 DEF Plain, Wildcards
            <7> HIDE DEF t, l
            <7>4. ASSUME NEW i \in 1..Len(t) PROVE t[i] \notin Stars /\ t[i] # "..."
              <8>1. i = Len(l) + 1 \/ i \in 1..Len(l)
                BY <7>2
              <8> QED
                BY <7>2, <7>3, <8>1 DEF Stars
            <7> QED
              BY <7>4
          <6> QED
            BY <6>1, <6>2
        <5>2. t = Tail(r)
          BY <1>1, <2>2, <2>3, <5>1, GlobFixed
        <5> QED
          BY <1>1, <3>2, <4>2, <5>2
      <4> QED
        BY <4>3, <4>4
    <3> QED
      BY <1>1, <3>1, <3>2
  <2> QED
    BY <1>1, <1>8, <2>1, <2>2, <2>4 DEF Overlaps, cursorOverlaps
<1> QED
  BY <1>4, <1>5, <1>6, <1>7, <1>8 DEF ListAgents

-----------------------------------------------------------------------------
(* What a finding tells to add covers the entry it is about.               *)

\* Texts without wildcards, as each agent reads them.
LEMMA PlainText ==
    ASSUME NEW v, PlainEntry(v)
    PROVE  /\ v \in Text /\ v # <<>> /\ IsPrefix(v, v) /\ IsPrefix(v, v \o <<"*">>) /\ IsStrictPrefix(v, v \o <<"*">>)
           /\ v \o <<"*">> \in Text /\ v \o <<"*">> # <<>> /\ Starred(v \o <<"*">>) /\ Literal(v \o <<"*">>) = v
           /\ qwenCommandArg(v) = v /\ "..." \notin ToSet(v) /\ "*" \notin ToSet(v) /\ GrokPattern(v) = v
<1> DEFINE w == v \o <<"*">>
           n == Len(v)
<1>1. v \in Text /\ v # <<>> /\ Plain(v) /\ n \in Nat \ {0}
  BY TailText DEF PlainEntry
<1>2. w \in Text /\ w # <<>> /\ Len(w) = n + 1 /\ w[n + 1] = "*" /\ \A i \in 1..n : w[i] = v[i]
  BY <1>1, AppendText, PartsAssumption
<1>3. IsStrictPrefix(v, w)
  BY <1>1, OpenText
<1>4. IsPrefix(v, v) /\ IsPrefix(v, w)
  BY <1>1, <1>3, PrefixTrans DEF IsStrictPrefix
<1> HIDE DEF w, n
<1>5. Last(w) = "*"
  BY <1>1, <1>2 DEF Last
<1>6. Front(w) \in Text /\ Len(Front(w)) = n /\ \A i \in 1..n : Front(w)[i] = w[i]
  <2>1. Len(w) - 1 = n
    BY <1>1, <1>2
  <2> QED
    BY <1>2, <2>1, FrontText
<1>7. Front(w) = v
  BY <1>1, <1>2, <1>6, SameText DEF n
<1>8. Starred(w) /\ Literal(w) = v
  BY <1>2, <1>5, <1>7 DEF Starred, Literal
<1>9. \A i \in 1..Len(v) : v[i] \notin Wildcards
  BY <1>1 DEF Plain
<1>10. "..." \notin ToSet(v) /\ "*" \notin ToSet(v)
  BY <1>1, <1>9 DEF ToSet, Wildcards, Stars, Text
<1>11. qwenCommandArg(v) = v
  <2>1. \A i \in 1..Len(v) : qwenCommandArg(v)[i] = v[i]
    BY <1>1, <1>9 DEF qwenCommandArg, Wildcards, Stars, Text
  <2>2. qwenCommandArg(v) \in Text /\ Len(qwenCommandArg(v)) = Len(v)
    BY <1>1, QwenArg DEF qwenCommandArg, Text
  <2> QED
    BY <1>1, <2>1, <2>2, SameText
<1>12. GrokPattern(v) = v
  <2>1. Last(v) \in {v[i] : i \in 1..Len(v)}
    BY <1>1 DEF Last, n
  <2> QED
    BY <1>9, <2>1 DEF GrokPattern, Wildcards, Stars
<1> QED
  BY <1>1, <1>2, <1>3, <1>4, <1>8, <1>10, <1>11, <1>12 DEF w

\* A text ends with itself.
LEMMA SuffixSame == ASSUME NEW s \in Text PROVE IsSuffix(s, s)
BY SuffixText DEF Text

\* Without www. the domain of an entry is still one it ends in.
LEMMA DomainAdvised ==
    ASSUME NEW v \in Text, v # <<>>, Domain(v) # <<>>, Plain(Domain(v))
    PROVE  hostCovers(withoutWWW(Domain(v)), withoutWWW(v))
<1> DEFINE d == Domain(v)
           w == withoutWWW(d)
<1>1. d \in Text /\ d # <<>> /\ Plain(d) /\ Tail(d) \in Text /\ w \in Text /\ w # <<>>
  BY DomainText, TrimText
<1>2. Len(d) \in Nat \ {0} /\ Len(Tail(d)) = Len(d) - 1 /\ \A i \in 1..(Len(d) - 1) : Tail(d)[i] = d[i + 1]
  BY <1>1, TailText
<1> HIDE DEF d
<1>3. IsSuffix(d, d) /\ IsSuffix(Tail(d), d)
  <2>1. ASSUME NEW i \in 1..Len(Tail(d)) PROVE Tail(d)[i] = d[(Len(d) - Len(Tail(d))) + i]
    <3>1. i \in 1..(Len(d) - 1) /\ (Len(d) - Len(Tail(d))) + i = i + 1
      BY <1>2
    <3> QED
      BY <1>2, <3>1
  <2>2. Len(Tail(d)) <= Len(d)
    BY <1>2
  <2> QED
    BY <1>1, <2>1, <2>2, SuffixText, SuffixSame
<1>4. \A i \in 1..Len(w) : w[i] # "*"
  <2>1. \A i \in 1..Len(d) : d[i] # "*"
    BY <1>1 DEF Plain, Wildcards, Stars
  <2>2. \A i \in 1..Len(Tail(d)) : Tail(d)[i] # "*"
    <3> TAKE i \in 1..Len(Tail(d))
    <3>1. i \in 1..(Len(d) - 1) /\ i + 1 \in 1..Len(d)
      BY <1>2
    <3> QED
      BY <1>2, <2>1, <3>1
  <2> QED
    BY <2>1, <2>2 DEF withoutWWW
<1>5. "*" \notin ToSet(w)
  BY <1>1, <1>4 DEF ToSet, Text
<1>6. IsSuffix(w, Domain(withoutWWW(v)))
  <2>1. CASE Head(v) = "*"
    <3>1. Domain(withoutWWW(v)) = d
      BY <2>1 DEF withoutWWW, Domain, d
    <3> QED
      BY <1>3, <3>1 DEF withoutWWW
  <2>2. CASE Head(v) # "*"
    <3>1. d = v /\ withoutWWW(v) = w
      BY <2>2 DEF Domain, d
    <3>2. Head(w) # "*"
      <4>1. Head(w) = w[1] /\ 1 \in 1..Len(w)
        BY <1>1, TailText
      <4> QED
        BY <1>4, <4>1
    <3>3. IsSuffix(w, w)
      BY <1>1, SuffixSame
    <3> QED
      BY <3>1, <3>2, <3>3 DEF Domain
  <2> QED
    BY <2>1, <2>2
<1>7. hostCovers(w, withoutWWW(v))
  BY <1>1, <1>5, <1>6 DEF hostCovers
<1> QED
  BY <1>7 DEF d

\* What a finding tells to add covers the entry the finding is about.
THEOREM SpellCovers ==
    ASSUME NEW a \in ListAgents, NEW c \in Categories, NEW v, NeutralText(c, v), a = "cursor-cli" => c # "fetch",
           a = "grok" /\ c = "mcp-tools" => mcpServerName(Head(v)) = Head(v),
           a = "grok" /\ c \in {"read", "write"} => Head(v) # ".",
           NEW e, e.tool = Spell(a, c, v).tool, e.arg = Spell(a, c, v).arg
    PROVE  Covers(a, c, e, v)
<1>1. \A x, y : Entry(x, y).tool = x /\ Entry(x, y).arg = y
  BY DEF Entry
<1>2. ASSUME c = "commands" PROVE Covers(a, c, e, v)
  <2>1. PlainEntry(v)
    BY <1>2 DEF NeutralText
  <2>2. /\ v \in Text /\ v # <<>> /\ IsPrefix(v, v) /\ IsPrefix(v, v \o <<"*">>) /\ IsStrictPrefix(v, v \o <<"*">>)
        /\ v \o <<"*">> \in Text /\ v \o <<"*">> # <<>> /\ Starred(v \o <<"*">>) /\ Literal(v \o <<"*">>) = v
        /\ qwenCommandArg(v) = v /\ "..." \notin ToSet(v) /\ GrokPattern(v) = v
    BY <2>1, PlainText
  <2>2a. Plain(v)
    BY <2>1 DEF PlainEntry
  <2>3. CASE a = "claude-code"
    <3>1. e.tool = "Bash" /\ e.arg = v \o <<"*">>
      BY <1>1, <1>2, <2>3 DEF Spell, claudeSpell
    <3> QED
      BY <1>2, <2>2, <2>3, <3>1 DEF Covers, claudeCovers, hasCmdPrefix
  <2>4. CASE a = "devin"
    <3>1. e.tool = "Exec" /\ e.arg = v
      BY <1>1, <1>2, <2>4 DEF Spell, devinSpell
    <3> QED
      BY <1>2, <2>2, <2>4, <3>1 DEF Covers, devinCovers, hasCmdPrefix
  <2>5. CASE a = "cursor-cli"
    <3>1. e.tool = "Shell" /\ e.arg = v
      BY <1>1, <1>2, <2>5 DEF Spell, cursorSpell
    <3>2. cursorShellMatches(v, v) /\ cursorShellMatches(v, v \o <<"*">>)
      BY <2>2, GlobSame DEF cursorShellMatches
    <3> QED
      BY <1>2, <2>2, <2>5, <3>1, <3>2 DEF Covers, cursorCovers
  <2>6. CASE a = "qwen-code"
    <3>1. e.tool = "Bash" /\ e.arg = v
      BY <1>1, <1>2, <2>6 DEF Spell, qwenSpell
    <3>2. qwenCommandMatches(v, v) /\ qwenCommandMatches(v, v \o <<"*">>)
      BY <2>2, <2>2a, OpenText DEF qwenCommandMatches, hasCmdPrefix
    <3> QED
      BY <1>2, <2>6, <3>1, <3>2 DEF Covers, qwenCovers, qwenShellTools
  <2>7. CASE a = "grok"
    <3>1. e.tool = "Bash" /\ e.arg = v
      BY <1>1, <1>2, <2>7 DEF Spell, grokSpell
    <3>2. grokCommandMatches(v, v) /\ grokCommandMatches(v, v \o <<"*">>)
      BY <2>2 DEF grokCommandMatches, hasCmdPrefix
    <3> QED
      BY <1>2, <2>7, <3>1, <3>2 DEF Covers, grokCovers
  <2> QED
    BY <2>3, <2>4, <2>5, <2>6, <2>7 DEF ListAgents
<1>3. ASSUME c \in {"read", "write"} PROVE Covers(a, c, e, v)
  <2>1. v \in Text /\ v # <<>> /\ PathEntry(v)
    BY <1>3 DEF NeutralText, PathEntry
  <2>2. \A x : globCovers(x, x)
    BY DEF globCovers
  <2>3. CASE a = "claude-code"
    <3>1. e.tool = (IF c = "read" THEN "Read" ELSE "Edit") /\ e.arg = v
      BY <1>1, <1>3, <2>3 DEF Spell, claudeSpell
    <3> QED
      BY <1>3, <2>2, <2>3, <3>1 DEF Covers, claudeCovers
  <2>4. CASE a = "devin"
    <3>1. e.tool = (IF c = "read" THEN "Read" ELSE "Write") /\ e.arg = v
      BY <1>1, <1>3, <2>4 DEF Spell, devinSpell
    <3> QED
      BY <1>3, <2>2, <2>4, <3>1 DEF Covers, devinCovers
  <2>5. CASE a = "cursor-cli"
    <3>1. e.tool = (IF c = "read" THEN "Read" ELSE "Write") /\ e.arg = cursorPathTarget(v)
      BY <1>1, <1>3, <2>5 DEF Spell, cursorSpell
    <3>2. <<"**">> \o v \in Text /\ <<"**">> \o v # <<>>
      BY <2>1, ConsText, PartsAssumption
    <3>3. cursorPathTarget(v) \in Text /\ cursorPathTarget(v) # <<>>
      BY <2>1, <3>2 DEF cursorPathTarget
    <3>4. starGlob(cursorPathTarget(v), cursorPathTarget(v))
      BY <3>3, GlobSame
    <3> QED
      BY <1>3, <2>5, <3>1, <3>3, <3>4 DEF Covers, cursorCovers
  <2>6. CASE a = "qwen-code"
    <3>1. e.tool = (IF c = "read" THEN "Read" ELSE "Edit") /\ e.arg = qwenRepoPath(v)
      BY <1>1, <1>3, <2>6 DEF Spell, qwenSpell
    <3>2. Head(<<"/">> \o v) = "/" /\ Tail(<<"/">> \o v) = v
      BY <2>1, ConsText, PartsAssumption
    <3>3. qwenPath(qwenRepoPath(v)) = v
      BY <3>2 DEF qwenPath, qwenRepoPath
    <3> QED
      BY <1>3, <2>2, <2>6, <3>1, <3>3 DEF Covers, qwenCovers
  <2>7. CASE a = "grok"
    <3>1. e.tool = (IF c = "read" THEN "Read" ELSE "Edit") /\ e.arg = grokPathTarget(v)
      BY <1>1, <1>3, <2>7 DEF Spell, grokSpell
    <3>2. Head(grokPathTarget(v)) # "."
      <4>1. Tail(v) \in Text /\ "**" \in Parts
        BY <2>1, TailText, PartsAssumption
      <4>2. Head(<<"**">> \o Tail(v)) = "**"
        BY <4>1, ConsText
      <4> QED
        BY <1>3, <2>7, <4>2 DEF grokPathTarget
    <3>3. relativePath(grokPathTarget(v)) = grokPathTarget(v)
      BY <3>2 DEF relativePath
    <3> QED
      BY <1>3, <2>2, <2>7, <3>1, <3>3 DEF Covers, grokCovers
  <2> QED
    BY <2>3, <2>4, <2>5, <2>6, <2>7 DEF ListAgents
<1>4. ASSUME c = "fetch" PROVE Covers(a, c, e, v)
  <2>1. v \in Text /\ v # <<>> /\ Domain(v) \in Text /\ Domain(v) # <<>> /\ Plain(Domain(v)) /\ PlainEntry(Domain(v))
    BY <1>4, DomainText DEF NeutralText, DomainEntry, PlainEntry
  <2>2. "*" \notin ToSet(Domain(v))
    BY <2>1, PlainText
  <2>3. domainCovers(v, v) /\ hostCovers(Domain(v), v)
    <3>1. IsSuffix(Domain(v), Domain(v))
      BY <2>1, SuffixSame
    <3> QED
      BY <2>1, <2>2, <3>1 DEF domainCovers, hostCovers
  <2>4. CASE a = "claude-code"
    <3>1. e.tool = "WebFetch" /\ e.arg = v
      BY <1>1, <1>4, <2>4 DEF Spell, claudeSpell
    <3> QED
      BY <1>4, <2>3, <2>4, <3>1 DEF Covers, claudeCovers
  <2>5. CASE a = "devin"
    <3>1. e.tool = (IF Head(v) = "*" THEN "Fetch url" ELSE "Fetch domain") /\ e.arg = v
      BY <1>1, <1>4, <2>5 DEF Spell, devinSpell
    <3>2. Head(v) # "*" => "*" \notin ToSet(v)
      BY <2>2 DEF Domain
    <3> QED
      BY <1>4, <2>3, <2>5, <3>1, <3>2 DEF Covers, devinCovers
  <2>6. CASE a = "qwen-code"
    <3>1. e.tool = "WebFetch" /\ e.arg = Domain(v)
      BY <1>1, <1>4, <2>6 DEF Spell, qwenSpell
    <3> QED
      BY <1>4, <2>3, <2>6, <3>1 DEF Covers, qwenCovers
  <2>7. CASE a = "grok"
    <3>1. e.tool = "WebFetch" /\ e.arg = Domain(v)
      BY <1>1, <1>4, <2>7 DEF Spell, grokSpell
    <3> QED
      BY <1>4, <2>1, <2>7, <3>1, DomainAdvised DEF Covers, grokCovers
  <2> QED
    BY <1>4, <2>4, <2>5, <2>6, <2>7 DEF ListAgents
<1>5. ASSUME c = "mcp-tools" PROVE Covers(a, c, e, v)
  <2>1. McpEntry(v) /\ v \in Text /\ v # <<>> /\ Len(v) > 1
    BY <1>5, TailFront DEF NeutralText, McpEntry
  <2>2. Tail(v) \in Text /\ Head(v) \in Parts
    BY <2>1, TailText
  <2>3. mcpServerName(Head(v)) \in Parts
    BY <2>2, PartsAssumption DEF mcpServerName
  <2> DEFINE x == mcpServerName(Head(v))
             s == <<x>> \o Tail(v)
  <2>4. Head(s) = x /\ Tail(s) = Tail(v)
    BY <2>2, <2>3, ConsText
  <2>5. \A bare : mcpCovers(s, v, bare)
    BY <2>4 DEF mcpCovers
  <2>6. mcpSpell(v) = Entry("mcp", s)
    BY DEF mcpSpell
  <2> HIDE DEF s
  <2>7. CASE a = "claude-code"
    <3>1. e.tool = "mcp" /\ e.arg = s
      BY <1>1, <1>5, <2>6, <2>7 DEF Spell, claudeSpell
    <3> QED
      BY <1>5, <2>5, <2>7, <3>1 DEF Covers, claudeCovers
  <2>8. CASE a = "devin"
    <3>1. e.tool = "mcp" /\ e.arg = s
      BY <1>1, <1>5, <2>6, <2>8 DEF Spell, devinSpell
    <3> QED
      BY <1>5, <2>5, <2>8, <3>1 DEF Covers, devinCovers
  <2>9. CASE a = "qwen-code"
    <3>1. e.tool = "mcp" /\ e.arg = s
      BY <1>1, <1>5, <2>6, <2>9 DEF Spell, qwenSpell
    <3> QED
      BY <1>5, <2>5, <2>9, <3>1 DEF Covers, qwenCovers
  <2>10. CASE a = "cursor-cli"
    <3>1. e.tool = "Mcp" /\ e.arg = v
      BY <1>1, <1>5, <2>10 DEF Spell, cursorSpell
    <3>2. starGlob(Tail(v), Tail(v))
      BY <2>2, GlobSame
    <3> QED
      BY <1>5, <2>1, <2>10, <3>1, <3>2 DEF Covers, cursorCovers
  <2>11. CASE a = "grok"
    <3>1. e.tool = "MCPTool" /\ e.arg = v
      BY <1>1, <1>5, <2>11 DEF Spell, grokSpell
    <3>2. mcpCovers(v, v, e.tool = "mcp")
      BY <1>5, <2>11 DEF mcpCovers
    <3> QED
      BY <1>5, <2>11, <3>1, <3>2 DEF Covers, grokCovers, grokMcpCovers
  <2> QED
    BY <2>7, <2>8, <2>9, <2>10, <2>11 DEF ListAgents
<1> QED
  BY <1>2, <1>3, <1>4, <1>5 DEF Categories

-----------------------------------------------------------------------------
(* Sequences of rules: what is left without some, and what is there after  *)
(* others are put in.                                                      *)

\* What a sequence with some of its members taken out holds.
Kept(s, G, S, g) ==
    /\ g \in [0..Len(s) -> Seq(S)] /\ g[0] = <<>>
    /\ \A i \in 1..Len(s) : g[i] = IF s[i] \in G THEN g[i - 1] ELSE Append(g[i - 1], s[i])

\* There is one such function.
LEMMA KeptExists ==
    ASSUME NEW S, NEW s \in Seq(S), NEW G
    PROVE  \E g : Kept(s, G, S, g)
<1> DEFINE N == Len(s)
           All == Seq(S)
           Step(i, t) == IF s[i] \in G THEN t ELSE Append(t, s[i])
           Ok(m, g) == g[0] = <<>> /\ \A i \in 1..m : g[i] = Step(i, g[i - 1])
           T == {m \in Nat : m <= N => \E g \in [0..m -> All] : Ok(m, g)}
<1>1. N \in Nat /\ <<>> \in All
  OBVIOUS
<1>2. \A i \in 1..N : \A t \in All : Step(i, t) \in All
  <2>1. \A i \in 1..Len(s) : s[i] \in S
    OBVIOUS
  <2> QED
    BY <2>1
<1> HIDE DEF Step, N, All
<1>3. 0 \in T
  <2>1. [n \in 0..0 |-> <<>>] \in [0..0 -> All] /\ Ok(0, [n \in 0..0 |-> <<>>])
    BY <1>1
  <2> QED
    BY <2>1
<1>4. ASSUME NEW m \in Nat, m \in T PROVE m + 1 \in T
  <2> SUFFICES ASSUME m + 1 <= N PROVE \E g \in [0..(m + 1) -> All] : Ok(m + 1, g)
    OBVIOUS
  <2>1. m <= N
    BY <1>1
  <2>2. \E g \in [0..m -> All] : Ok(m, g)
    BY <1>4, <2>1
  <2>3. PICK g \in [0..m -> All] : Ok(m, g)
    BY <2>2
  <2> DEFINE next == Step(m + 1, g[m])
             h == [n \in 0..(m + 1) |-> IF n = m + 1 THEN next ELSE g[n]]
  <2>4. next \in All
    <3>1. m + 1 \in 1..N /\ g[m] \in All
      BY <1>1, <2>3
    <3> QED
      BY <1>2, <3>1
  <2> HIDE DEF next
  <2>5. h \in [0..(m + 1) -> All] /\ (\A n \in 0..m : h[n] = g[n]) /\ h[m + 1] = next
    BY <2>3, <2>4
  <2> HIDE DEF h
  <2>6. Ok(m + 1, h)
    <3>1. h[0] = <<>>
      BY <2>3, <2>5
    <3>2. ASSUME NEW n \in 1..(m + 1) PROVE h[n] = Step(n, h[n - 1])
      <4>1. CASE n = m + 1
        BY <4>1, <2>5 DEF next
      <4>2. CASE n # m + 1
        <5>1. n \in 1..m /\ n \in 0..m /\ n - 1 \in 0..m
          BY <4>2
        <5> QED
          BY <5>1, <2>3, <2>5
      <4> QED
        BY <4>1, <4>2
    <3> QED
      BY <3>1, <3>2
  <2> QED
    BY <2>5, <2>6
<1> HIDE DEF T
<1>5. N \in T
  BY <1>1, <1>3, <1>4, SetInduction
<1> QED
  BY <1>5 DEF T, Kept, Ok, Step, N, All

\* Without is defined by it.
LEMMA WithoutIsKept ==
    ASSUME NEW S, NEW s \in Seq(S), NEW G
    PROVE  \E g : Kept(s, G, S, g) /\ Without(s, G) = g[Len(s)]
<1> DEFINE Body(g) == [i \in 0..Len(s) |-> IF i = 0 THEN <<>>
                                            ELSE IF s[i] \in G THEN g[i - 1] ELSE Append(g[i - 1], s[i])]
           L == CHOOSE g : g = Body(g)
<1>1. Without(s, G) = L[Len(s)]
  BY DEF Without
<1>2. PICK g : Kept(s, G, S, g)
  BY KeptExists
<1>3. g = Body(g)
  <2> DEFINE N == Len(s)
             All == Seq(S)
  <2>1. g \in [0..N -> All] /\ g[0] = <<>> /\ N \in Nat
        /\ \A i \in 1..N : g[i] = IF s[i] \in G THEN g[i - 1] ELSE Append(g[i - 1], s[i])
    BY <1>2 DEF Kept
  <2>2. Body(g) = [i \in 0..N |-> IF i = 0 THEN <<>> ELSE IF s[i] \in G THEN g[i - 1] ELSE Append(g[i - 1], s[i])]
    OBVIOUS
  <2> HIDE DEF N, All, Body
  <2>3. ASSUME NEW i \in 0..N PROVE g[i] = IF i = 0 THEN <<>> ELSE IF s[i] \in G THEN g[i - 1] ELSE Append(g[i - 1], s[i])
    <3>1. CASE i = 0
      BY <2>1, <3>1
    <3>2. CASE i # 0
      <4>1. i \in 1..N
        BY <2>1, <3>2
      <4> QED
        BY <2>1, <3>2, <4>1
    <3> QED
      BY <3>1, <3>2
  <2>4. g = [i \in 0..N |-> g[i]]
    BY <2>1
  <2> QED
    BY <2>2, <2>3, <2>4
<1>4. L = Body(L)
  BY <1>3
<1> HIDE DEF L
<1>5. Len(s) \in Nat
  OBVIOUS
<1>6. L[0] = <<>>
  BY <1>4, <1>5
<1>7. ASSUME NEW i \in 1..Len(s)
      PROVE  L[i] = IF s[i] \in G THEN L[i - 1] ELSE Append(L[i - 1], s[i])
  <2>1. i \in 0..Len(s) /\ i # 0
    BY <1>5
  <2>2. L[i] = Body(L)[i]
    BY <1>4
  <2>3. Body(L)[i] = IF s[i] \in G THEN L[i - 1] ELSE Append(L[i - 1], s[i])
    BY <2>1
  <2> QED
    BY <2>2, <2>3
<1> HIDE DEF Body
<1>8. \A i \in 0..Len(s) : L[i] = g[i]
  <2> DEFINE T == {n \in Nat : n <= Len(s) => L[n] = g[n]}
  <2>1. 0 \in T
    BY <1>2, <1>6 DEF Kept
  <2>2. ASSUME NEW n \in Nat, n \in T PROVE n + 1 \in T
    <3> SUFFICES ASSUME n + 1 <= Len(s) PROVE L[n + 1] = g[n + 1]
      OBVIOUS
    <3>1. L[n] = g[n] /\ n + 1 \in 1..Len(s) /\ (n + 1) - 1 = n
      BY <1>5, <2>2
    <3>2. g[n + 1] = IF s[n + 1] \in G THEN g[n] ELSE Append(g[n], s[n + 1])
      BY <1>2, <3>1 DEF Kept
    <3>3. L[n + 1] = IF s[n + 1] \in G THEN L[n] ELSE Append(L[n], s[n + 1])
      BY <1>7, <3>1
    <3> QED
      BY <3>1, <3>2, <3>3
  <2> HIDE DEF T
  <2>3. Nat \subseteq T
    BY <2>1, <2>2, SetInduction
  <2> QED
    BY <1>5, <2>3 DEF T
<1>9. L[Len(s)] = g[Len(s)]
  BY <1>5, <1>8
<1> QED
  BY <1>1, <1>2, <1>9

\* What is left are the members that were not taken out.
LEMMA WithoutMembers ==
    ASSUME NEW S, NEW s \in Seq(S), NEW G
    PROVE  Without(s, G) \in Seq(S) /\ ToSet(Without(s, G)) = ToSet(s) \ G
<1>1. PICK g : Kept(s, G, S, g) /\ Without(s, G) = g[Len(s)]
  BY WithoutIsKept
<1>2. Len(s) \in Nat /\ \A i \in 1..Len(s) : s[i] \in S
  OBVIOUS
<1> DEFINE T == {n \in Nat : n <= Len(s) => ToSet(g[n]) = {s[i] : i \in 1..n} \ G}
<1>3. 0 \in T
  <2>1. g[0] = <<>>
    BY <1>1 DEF Kept
  <2>2. ToSet(<<>>) = {} /\ {s[i] : i \in 1..0} = {}
    BY DEF ToSet
  <2> QED
    BY <2>1, <2>2
<1>4. ASSUME NEW n \in Nat, n \in T PROVE n + 1 \in T
  <2> SUFFICES ASSUME n + 1 <= Len(s) PROVE ToSet(g[n + 1]) = {s[i] : i \in 1..(n + 1)} \ G
    OBVIOUS
  <2>1. ToSet(g[n]) = {s[i] : i \in 1..n} \ G /\ n + 1 \in 1..Len(s) /\ (n + 1) - 1 = n /\ n \in 0..Len(s)
    BY <1>2, <1>4
  <2>2. g[n] \in Seq(S) /\ g[n + 1] = IF s[n + 1] \in G THEN g[n] ELSE Append(g[n], s[n + 1])
    BY <1>1, <2>1 DEF Kept
  <2>3. {s[i] : i \in 1..(n + 1)} = {s[i] : i \in 1..n} \cup {s[n + 1]}
    OBVIOUS
  <2>4. CASE s[n + 1] \in G
    BY <2>1, <2>2, <2>3, <2>4
  <2>5. CASE s[n + 1] \notin G
    <3> DEFINE t == g[n]
               x == s[n + 1]
    <3>1. t \in Seq(S) /\ x \in S
      BY <1>2, <2>1, <2>2
    <3> HIDE DEF t, x
    <3>2. ToSet(Append(t, x)) = ToSet(t) \cup {x}
      <4>1. Len(Append(t, x)) = Len(t) + 1 /\ Append(t, x)[Len(t) + 1] = x /\ (\A i \in 1..Len(t) : Append(t, x)[i] = t[i])
            /\ Len(t) \in Nat /\ DOMAIN t = 1..Len(t) /\ DOMAIN Append(t, x) = 1..(Len(t) + 1)
        BY <3>1
      <4>2. ToSet(Append(t, x)) = {Append(t, x)[i] : i \in 1..(Len(t) + 1)} /\ ToSet(t) = {t[i] : i \in 1..Len(t)}
        BY <4>1 DEF ToSet
      <4> QED
        BY <4>1, <4>2
    <3> QED
      BY <2>1, <2>2, <2>3, <2>5, <3>2 DEF t, x
  <2> QED
    BY <2>4, <2>5
<1> HIDE DEF T
<1>5. Len(s) \in T
  BY <1>2, <1>3, <1>4, SetInduction
<1>6. ToSet(g[Len(s)]) = ToSet(s) \ G
  BY <1>2, <1>5 DEF T, ToSet
<1>7. g[Len(s)] \in Seq(S)
  BY <1>1, <1>2 DEF Kept
<1> QED
  BY <1>1, <1>6, <1>7

\* The members of two sequences, one after the other.
LEMMA JoinMembers ==
    ASSUME NEW S, NEW s \in Seq(S), NEW t \in Seq(S)
    PROVE  s \o t \in Seq(S) /\ ToSet(s \o t) = ToSet(s) \cup ToSet(t)
<1>1. /\ s \o t \in Seq(S) /\ Len(s \o t) = Len(s) + Len(t) /\ Len(s) \in Nat /\ Len(t) \in Nat
      /\ (\A i \in 1..Len(s) : (s \o t)[i] = s[i]) /\ (\A i \in 1..Len(t) : (s \o t)[Len(s) + i] = t[i])
      /\ DOMAIN s = 1..Len(s) /\ DOMAIN t = 1..Len(t) /\ DOMAIN (s \o t) = 1..(Len(s) + Len(t))
  OBVIOUS
<1> DEFINE u == s \o t
<1> HIDE DEF u
<1>2. ASSUME NEW i \in 1..(Len(s) + Len(t)) PROVE u[i] \in ToSet(s) \cup ToSet(t)
  <2>1. CASE i \in 1..Len(s)
    BY <1>1, <2>1 DEF ToSet, u
  <2>2. CASE i \notin 1..Len(s)
    <3>1. i - Len(s) \in 1..Len(t) /\ Len(s) + (i - Len(s)) = i
      BY <1>1, <2>2
    <3>2. u[i] = t[i - Len(s)]
      BY <1>1, <3>1 DEF u
    <3> QED
      BY <1>1, <3>1, <3>2 DEF ToSet
  <2> QED
    BY <2>1, <2>2
<1>3. ToSet(s) \subseteq ToSet(u)
  <2>1. \A i \in 1..Len(s) : i \in 1..(Len(s) + Len(t)) /\ u[i] = s[i]
    BY <1>1 DEF u
  <2> QED
    BY <1>1, <2>1 DEF ToSet, u
<1>4. ToSet(t) \subseteq ToSet(u)
  <2>1. \A i \in 1..Len(t) : Len(s) + i \in 1..(Len(s) + Len(t)) /\ u[Len(s) + i] = t[i]
    BY <1>1 DEF u
  <2> QED
    BY <1>1, <2>1 DEF ToSet, u
<1>5. ToSet(u) \subseteq ToSet(s) \cup ToSet(t)
  BY <1>1, <1>2 DEF ToSet, u
<1> QED
  BY <1>1, <1>3, <1>4, <1>5 DEF u

\* A file after rules are put in: what was there and has another key, and the rules.
LEMMA PutMembers ==
    ASSUME NEW S, NEW s \in Seq(S), NEW t \in Seq(S)
    PROVE  /\ Put(s, t) \in Seq(S) /\ ToSet(t) \subseteq ToSet(Put(s, t))
           /\ ToSet(Put(s, t)) \subseteq ToSet(s) \cup ToSet(t)
           /\ \A x \in ToSet(s) : (\A y \in ToSet(t) : ~ SameKey(y, x)) => x \in ToSet(Put(s, t))
<1> DEFINE w == Without(s, Replaced(s, t))
<1>1. w \in Seq(S) /\ ToSet(w) = ToSet(s) \ Replaced(s, t)
  BY WithoutMembers
<1> HIDE DEF w
<1>2. w \o t \in Seq(S) /\ ToSet(w \o t) = ToSet(w) \cup ToSet(t)
  BY <1>1, JoinMembers
<1>3. Put(s, t) = w \o t
  BY DEF Put, w
<1> QED
  BY <1>1, <1>2, <1>3 DEF Replaced

-----------------------------------------------------------------------------
(* What the policy and the advice hold.                                    *)

\* An entry .cfgaudit.yml may have.
NeutralEntry(e) == e.category \in Categories /\ NeutralText(e.category, e.v)

\* The rules of an agent are in the Rulesync file.
LEMMA RulesAreWritten ==
    ASSUME NEW own
    PROVE  rulesFor(own) \subseteq policy.shared \cup policy.own
BY DEF rulesFor

\* Every rule has a category.
LEMMA CategoryKnown == ASSUME NEW r PROVE CategoryOf(r) \in Categories
BY DEF CategoryOf, Categories

\* A rule with a neutral form becomes an entry .cfgaudit.yml may have.
LEMMA RuleEntry ==
    ASSUME scenario \in Scenarios, NEW r \in policy.shared \cup policy.own, r.action \in {"deny", "ask"}, HasNeutralForm(r),
           NEW e, e = [category |-> CategoryOf(r), v |-> NeutralValue(r)]
    PROVE  NeutralEntry(e)
<1>1. NeutralText(CategoryOf(r), NeutralValue(r))
  BY PolicyCheckAssumption DEF policy
<1>2. e.category = CategoryOf(r) /\ e.v = NeutralValue(r)
  OBVIOUS
<1> QED
  BY <1>1, <1>2, CategoryKnown DEF NeutralEntry

\* So does every entry an agent is checked against.
LEMMA EntriesAreNeutral ==
    ASSUME scenario \in Scenarios, NEW own
    PROVE  /\ \A e \in DenyFor(own) : NeutralEntry(e)
           /\ \A e \in ForbidFor(own) : NeutralEntry(e) /\ e.category \in {"commands", "mcp-tools"}
<1>1. ASSUME NEW e \in policy.deny \cup policy.forbid PROVE NeutralEntry(e)
  BY <1>1, PolicyCheckAssumption DEF NeutralEntry, policy
<1>2. ASSUME NEW e \in policy.forbid PROVE e.category \in {"commands", "mcp-tools"}
  BY <1>2, PolicyCheckAssumption DEF policy
<1>3. ASSUME NEW e \in NeutralDeny(rulesFor(own)) PROVE NeutralEntry(e)
  <2>1. PICK r \in rulesFor(own) : r.action = "deny" /\ HasNeutralForm(r) /\ e = [category |-> CategoryOf(r), v |-> NeutralValue(r)]
    BY <1>3 DEF NeutralDeny, Neutral
  <2> QED
    BY <2>1, RuleEntry, RulesAreWritten
<1>4. ASSUME NEW e \in NeutralForbid(rulesFor(own)) PROVE NeutralEntry(e) /\ e.category \in {"commands", "mcp-tools"}
  <2>1. PICK r \in rulesFor(own) : /\ r.action = "ask" /\ HasNeutralForm(r) /\ CategoryOf(r) \in {"commands", "mcp-tools"}
                                   /\ e = [category |-> CategoryOf(r), v |-> NeutralValue(r)]
    BY <1>4 DEF NeutralForbid, Neutral
  <2>2. e.category = CategoryOf(r)
    BY <2>1
  <2> QED
    BY <2>1, <2>2, RuleEntry, RulesAreWritten
<1> QED
  BY <1>1, <1>2, <1>3, <1>4 DEF DenyFor, ForbidFor

\* Sequences of rules and their members.
LEMMA OwnSeq == ASSUME NEW S, NEW s \in Seq(S) PROVE s \in Seq(ToSet(s))
BY DEF ToSet

\* A sequence over a set is one over a wider set.
LEMMA WiderSeq == ASSUME NEW S, NEW T, NEW s \in Seq(S), S \subseteq T PROVE s \in Seq(T)
OBVIOUS

\* A sequence of one rule.
LEMMA OneRule == ASSUME NEW r PROVE <<r>> \in Seq({r}) /\ ToSet(<<r>>) = {r}
BY DEF ToSet

\* A sequence of two rules.
LEMMA TwoRules == ASSUME NEW q, NEW r PROVE <<q, r>> \in Seq({q, r}) /\ ToSet(<<q, r>>) = {q, r}
<1>1. DOMAIN <<q, r>> = 1..2 /\ <<q, r>>[1] = q /\ <<q, r>>[2] = r
  OBVIOUS
<1>2. <<q, r>> \in Seq({q, r})
  OBVIOUS
<1> QED
  BY <1>1, <1>2 DEF ToSet

\* What a rule put into a sequence of rules does to it.
LEMMA PutRules ==
    ASSUME NEW s, s \in Seq(ToSet(s)), NEW t, t \in Seq(ToSet(t))
    PROVE  /\ Put(s, t) \in Seq(ToSet(Put(s, t))) /\ ToSet(t) \subseteq ToSet(Put(s, t))
           /\ ToSet(Put(s, t)) \subseteq ToSet(s) \cup ToSet(t)
           /\ \A x \in ToSet(s) : (\A y \in ToSet(t) : ~ SameKey(y, x)) => x \in ToSet(Put(s, t))
<1> DEFINE S == ToSet(s) \cup ToSet(t)
<1>1. s \in Seq(S) /\ t \in Seq(S)
  BY WiderSeq
<1> HIDE DEF S
<1>2. Put(s, t) \in Seq(S)
  BY <1>1, PutMembers
<1>3. Put(s, t) \in Seq(ToSet(Put(s, t)))
  BY <1>2, OwnSeq
<1> QED
  BY <1>1, <1>3, PutMembers DEF S

\* What a sequence of rules is without some of them.
LEMMA WithoutRules ==
    ASSUME NEW s, s \in Seq(ToSet(s)), NEW G
    PROVE  Without(s, G) \in Seq(ToSet(Without(s, G))) /\ ToSet(Without(s, G)) = ToSet(s) \ G
BY WithoutMembers, OwnSeq

\* The texts that are made of an entry.
LEMMA NeutralIsText ==
    ASSUME NEW c \in Categories, NEW v, NeutralText(c, v)
    PROVE  /\ v \in Text /\ v # <<>> /\ v \o <<"*">> \in Text /\ v \o <<"*">> # <<>> /\ Domain(v) \in Text
           /\ \A x \in Parts : <<x>> \o v \in Text /\ <<x>> \o Tail(v) \in Text /\ <<x>> \o Tail(v) # <<>>
           /\ Front(v) \in Text /\ mcpServerName(Head(v)) \in Parts
<1>1. v \in Text /\ v # <<>>
  <2>1. c = "mcp-tools" => v \in Text /\ v # <<>>
    BY TailFront DEF NeutralText, McpEntry
  <2> QED
    BY <2>1 DEF NeutralText, PlainEntry, PathEntry, DomainEntry, Categories
<1>2. v \o <<"*">> \in Text /\ v \o <<"*">> # <<>>
  BY <1>1, AppendText, PartsAssumption
<1>3. Tail(v) \in Text /\ Head(v) \in Parts
  BY <1>1, TailText
<1>4. \A x \in Parts : <<x>> \o v \in Text /\ <<x>> \o Tail(v) \in Text /\ <<x>> \o Tail(v) # <<>>
  BY <1>1, <1>3, ConsText
<1>5. mcpServerName(Head(v)) \in Parts
  BY <1>3, PartsAssumption DEF mcpServerName
<1> QED
  BY <1>1, <1>2, <1>4, <1>5, DomainText, FrontText

\* What a finding tells to add is a rule the file may have.
LEMMA SpellIsRule ==
    ASSUME NEW a \in ListAgents, NEW c \in Categories, NEW v, NeutralText(c, v),
           NEW e, e.tool = Spell(a, c, v).tool, e.arg = Spell(a, c, v).arg
    PROVE  PermissionRule(a, e)
<1>1. \A x, y : Entry(x, y).tool = x /\ Entry(x, y).arg = y
  BY DEF Entry
<1>2. /\ v \in Text /\ v # <<>> /\ v \o <<"*">> \in Text /\ v \o <<"*">> # <<>> /\ Domain(v) \in Text
      /\ \A x \in Parts : <<x>> \o v \in Text /\ <<x>> \o Tail(v) \in Text /\ <<x>> \o Tail(v) # <<>>
      /\ mcpServerName(Head(v)) \in Parts
  BY NeutralIsText
<1> DEFINE s == <<mcpServerName(Head(v))>> \o Tail(v)
<1>3. s \in Text /\ s # <<>>
  BY <1>2
<1>4. mcpSpell(v) = Entry("mcp", s)
  BY DEF mcpSpell
<1> HIDE DEF s
<1>5. /\ cursorPathTarget(v) \in Text /\ qwenRepoPath(v) \in Text /\ grokPathTarget(v) \in Text
  BY <1>2, PartsAssumption DEF cursorPathTarget, qwenRepoPath, grokPathTarget
<1>6. CASE a = "claude-code"
  <2>1. e.arg \in {v \o <<"*">>, v, s} /\ (e.tool = "mcp" => e.arg = s)
    <3>1. e.tool = claudeSpell(c, v).tool /\ e.arg = claudeSpell(c, v).arg
      BY <1>6 DEF Spell
    <3>2. CASE c = "commands"
      <4>1. e.tool = "Bash" /\ e.arg = v \o <<"*">>
        BY <1>1, <3>1, <3>2 DEF claudeSpell
      <4> QED
        BY <4>1
    <3>3. CASE c = "read"
      BY <1>1, <1>4, <3>1, <3>3 DEF claudeSpell
    <3>4. CASE c = "write"
      BY <1>1, <1>4, <3>1, <3>4 DEF claudeSpell
    <3>5. CASE c = "fetch"
      BY <1>1, <1>4, <3>1, <3>5 DEF claudeSpell
    <3>6. CASE c = "mcp-tools"
      BY <1>1, <1>4, <3>1, <3>6 DEF claudeSpell
    <3> QED
      BY <3>2, <3>3, <3>4, <3>5, <3>6 DEF Categories
  <2> QED
    BY <1>2, <1>3, <1>6, <2>1 DEF PermissionRule
<1>7. CASE a = "devin"
  <2>1. e.arg \in {v, s} /\ e.tool \notin {"exec", "read", "edit"}
    <3>1. e.tool = devinSpell(c, v).tool /\ e.arg = devinSpell(c, v).arg
      BY <1>7 DEF Spell
    <3>2. CASE c = "commands"
      BY <1>1, <1>4, <3>1, <3>2 DEF devinSpell
    <3>3. CASE c = "read"
      BY <1>1, <1>4, <3>1, <3>3 DEF devinSpell
    <3>4. CASE c = "write"
      BY <1>1, <1>4, <3>1, <3>4 DEF devinSpell
    <3>5. CASE c = "fetch"
      <4>1. e.tool = (IF Head(v) = "*" THEN "Fetch url" ELSE "Fetch domain") /\ e.arg = v
        BY <1>1, <3>1, <3>5 DEF devinSpell
      <4> QED
        BY <4>1
    <3>6. CASE c = "mcp-tools"
      BY <1>1, <1>4, <3>1, <3>6 DEF devinSpell
    <3> QED
      BY <3>2, <3>3, <3>4, <3>5, <3>6 DEF Categories
  <2> QED
    BY <1>2, <1>3, <1>7, <2>1 DEF PermissionRule
<1>8. CASE a = "cursor-cli"
  <2>1. e.arg \in {v, cursorPathTarget(v)} /\ e.tool \notin {"mcp", "alwaysAllow"}
    BY <1>1, <1>8 DEF Spell, cursorSpell, Categories
  <2> QED
    BY <1>2, <1>5, <1>8, <2>1 DEF PermissionRule
<1>9. CASE a = "qwen-code"
  <2>1. e.arg \in {v, s, qwenRepoPath(v), Domain(v)} /\ (e.tool = "mcp" => e.arg = s) /\ e.tool # "alwaysAllow"
    BY <1>1, <1>4, <1>9 DEF Spell, qwenSpell, Categories
  <2> QED
    BY <1>2, <1>3, <1>5, <1>9, <2>1 DEF PermissionRule
<1>10. CASE a = "grok"
  <2>1. e.arg \in {v, grokPathTarget(v), Domain(v)} /\ e.tool \notin {"mcp", "alwaysAllow"}
    BY <1>1, <1>10 DEF Spell, grokSpell, Categories
  <2> QED
    BY <1>2, <1>5, <1>10, <2>1 DEF PermissionRule
<1> QED
  BY <1>6, <1>7, <1>8, <1>9, <1>10 DEF ListAgents

\* The agents whose file CFG025 goes through, without those whose last rule decides.
Checked == ListAgents \cup {"codex", "roo-code", "antigravity"}

\* Only for these agents is anything reported as missing.
LEMMA CheckedAgents ==
    ASSUME NEW a, a \notin Ordered, NEW c, NEW v, Checks(a, c, v)
    PROVE  /\ a \in Checked /\ (a = "cursor-cli" => c # "fetch") /\ (a = "antigravity" => c = "mcp-tools")
BY DEF Checks, Checked, ListAgents, Ordered

\* What is put into a file on advice: a list of enabled tools is not.
AdviceRule(a, r) == PermissionRule(a, r) /\ (a = "codex" => r.tool # "enabled_tools")

\* A path in the home directory has a part before its wildcard.
LEMMA HomeFront ==
    ASSUME NEW v \in Text, v # <<>>, Home(v), Last(v) = "**"
    PROVE  Front(v) # <<>>
<1> DEFINE n == Len(v)
<1>1. n \in Nat \ {0} /\ Len(Front(v)) = n - 1 /\ Front(v) \in Text /\ v[1] = "~" /\ v[n] = "**"
  BY FrontText, TailText DEF Last, Home
<1> HIDE DEF n
<1>2. n # 1
  BY <1>1
<1>3. Len(Front(v)) # 0
  BY <1>1, <1>2
<1> QED
  BY <1>3

\* Advice is a sequence of rules, and of such ones where texts are compared.
LEMMA AdviceRules ==
    ASSUME NEW a, NEW s, NEW c \in Categories, NEW v, NeutralText(c, v), Checks(a, c, v), NEW w
    PROVE  LET t == Advice(a, s, c, v, w)
           IN  t \in Seq(ToSet(t)) /\ (a \notin Ordered => \A r \in ToSet(t) : AdviceRule(a, r))
<1>1. \A x, y, z, u : Rule(x, y, z, u).tool = x /\ Rule(x, y, z, u).arg = y /\ Rule(x, y, z, u).effect = z /\ Rule(x, y, z, u).where = u
  BY DEF Rule
<1>2. v \in Text /\ v # <<>> /\ Front(v) \in Text
  BY NeutralIsText
<1>3. a \in Checked \cup Ordered
  BY CheckedAgents
<1> DEFINE t == Advice(a, s, c, v, w)
<1>4. ASSUME NEW r, t = <<r>>, AdviceRule(a, r)
      PROVE  t \in Seq(ToSet(t)) /\ \A x \in ToSet(t) : AdviceRule(a, x)
  <2>1. <<r>> \in Seq({r}) /\ ToSet(<<r>>) = {r}
    BY OneRule
  <2> QED
    BY <1>4, <2>1
<1>5. ASSUME NEW q, NEW r, t = <<q, r>>, AdviceRule(a, q), AdviceRule(a, r)
      PROVE  t \in Seq(ToSet(t)) /\ \A x \in ToSet(t) : AdviceRule(a, x)
  <2>1. <<q, r>> \in Seq({q, r}) /\ ToSet(<<q, r>>) = {q, r}
    BY TwoRules
  <2> QED
    BY <1>5, <2>1
<1>6. CASE a \in ListAgents
  <2> DEFINE e == Spell(a, c, v)
             r == Rule(e.tool, e.arg, "deny", IF a = "grok" THEN "compact" ELSE "")
  <2>1. t = <<r>>
    BY <1>6 DEF Advice, ListAgents, Ordered
  <2>2. r.tool = Spell(a, c, v).tool /\ r.arg = Spell(a, c, v).arg
    BY DEF Rule
  <2> HIDE DEF r
  <2>3. AdviceRule(a, r)
    BY <1>6, <2>2, SpellIsRule DEF AdviceRule, ListAgents
  <2> QED
    BY <1>4, <2>1, <2>3
<1>7. CASE a = "codex"
  <2>1. t = codexSpell(s, c, v)
    BY <1>7 DEF Advice, ListAgents, Ordered
  <2>2. \A x, z, u : \A y \in Text : x \notin {"mcp", "alwaysAllow", "enabled_tools"} /\ (x \in {"filesystem", "workspace"} => y # <<>>) =>
                                        AdviceRule(a, Rule(x, y, z, u))
    BY <1>1, <1>7 DEF AdviceRule, PermissionRule
  <2>3. CASE c = "commands"
    BY <1>2, <1>4, <2>1, <2>2, <2>3 DEF codexSpell
  <2>4. CASE c = "mcp-tools"
    BY <1>2, <1>4, <2>1, <2>2, <2>4 DEF codexSpell
  <2>5. ASSUME NEW r, t = WithProfile(s, r), AdviceRule(a, r)
        PROVE  t \in Seq(ToSet(t)) /\ \A x \in ToSet(t) : AdviceRule(a, x)
    <3>1. AdviceRule(a, Rule("default_permissions", <<>>, "on", ""))
      BY <2>2, EmptyPrefix, <1>2
    <3> QED
      BY <1>4, <1>5, <2>5, <3>1 DEF WithProfile
  <2>6. CASE c = "fetch"
    BY <1>2, <2>1, <2>2, <2>5, <2>6 DEF codexSpell
  <2>7. CASE c \in {"read", "write"}
    <3>1. t = WithProfile(s, codexPathSpell(c, v))
      BY <2>1, <2>7 DEF codexSpell
    <3>2. AdviceRule(a, codexPathSpell(c, v))
      <4>1. Home(v) /\ Last(v) = "**" => Front(v) # <<>>
        BY <1>2, HomeFront
      <4> QED
        BY <1>2, <2>2, <4>1 DEF codexPathSpell
    <3> QED
      BY <2>5, <3>1, <3>2
  <2> QED
    BY <2>3, <2>4, <2>6, <2>7 DEF Categories
<1>8. CASE a = "roo-code"
  <2>1. t = <<rooSpell(c, v)>>
    BY <1>8 DEF Advice, ListAgents, Ordered
  <2>2. rooSpell(c, v).arg = v /\ rooSpell(c, v).tool \in {"deniedCommands", "disabledTools", ".rooignore"}
    BY DEF rooSpell, Rule
  <2>3. AdviceRule(a, rooSpell(c, v))
    BY <1>2, <1>8, <2>2 DEF AdviceRule, PermissionRule
  <2> QED
    BY <1>4, <2>1, <2>3
<1>9. CASE a = "antigravity"
  <2>1. t = <<Rule("disabledTools", v, "deny", "")>>
    BY <1>9 DEF Advice, ListAgents, Ordered
  <2> DEFINE r == Rule("disabledTools", v, "deny", "")
  <2>2. r.arg = v /\ r.tool = "disabledTools"
    BY DEF Rule
  <2> HIDE DEF r
  <2>3. AdviceRule(a, r)
    BY <1>2, <1>9, <2>2 DEF AdviceRule, PermissionRule
  <2> QED
    BY <1>4, <2>1, <2>3 DEF r
<1>10. CASE a \in Ordered
  <2> DEFINE r == orderedSpell(c, v, w)
  <2>1. t = <<r>>
    BY <1>10 DEF Advice, ListAgents, Ordered
  <2> HIDE DEF r
  <2> QED
    BY <1>10, <2>1, OneRule
<1> QED
  BY <1>3, <1>6, <1>7, <1>8, <1>9, <1>10 DEF Checked

-----------------------------------------------------------------------------
(* OpenCode and Kilo Code: the rule a finding names matches each request   *)
(* CFG025 tries, and the last rule decides.                                *)

\* A path with its only wildcard at the end is cut there (BeforeStar).
LEMMA FirstStar ==
    ASSUME NEW v \in Text, v # <<>>, Last(v) \in Stars, Plain(Front(v))
    PROVE  BeforeStar(v) = Front(v)
<1> DEFINE n == Len(v)
           I == {i \in DOMAIN v : v[i] \in Stars} \cup {n + 1}
<1>1. /\ n \in Nat \ {0} /\ DOMAIN v = 1..n /\ v[n] \in Stars /\ Front(v) \in Text /\ Len(Front(v)) = n - 1
      /\ \A i \in 1..(n - 1) : Front(v)[i] = v[i] /\ v[i] \notin Stars
  <2>1. n \in Nat \ {0} /\ Front(v) \in Text /\ Len(Front(v)) = n - 1 /\ \A i \in 1..(n - 1) : Front(v)[i] = v[i]
    BY FrontText
  <2>2. DOMAIN v = 1..n
    BY DEF Text
  <2>3. v[n] \in Stars
    BY <2>1 DEF Last
  <2>4. \A i \in 1..(n - 1) : Front(v)[i] \notin Stars
    BY <2>1 DEF Plain, Wildcards
  <2> QED
    BY <2>1, <2>2, <2>3, <2>4
<1>2. n \in I /\ \A i \in I : n <= i
  <2> HIDE DEF n
  <2>1. \A i \in 1..n : v[i] \in Stars => n <= i
    BY <1>1
  <2> QED
    BY <1>1, <2>1
<1>3. I \subseteq Nat
  BY <1>1
<1> HIDE DEF I
<1>4. Min(I) = n
  <2>1. Min(I) \in I /\ \A y \in I : Min(I) <= y
    BY <1>2 DEF Min
  <2> DEFINE m == Min(I)
  <2>2. m \in I /\ m <= n /\ n <= m /\ n \in Nat /\ m \in Nat
    BY <1>1, <1>2, <1>3, <2>1
  <2> HIDE DEF m, n
  <2> QED
    BY <2>2 DEF m
<1>5. BeforeStar(v) = SubSeq(v, 1, n - 1)
  BY <1>4 DEF BeforeStar, I
<1>6. Front(v) = SubSeq(v, 1, n - 1)
  BY DEF Front
<1> QED
  BY <1>5, <1>6

\* An entry matches the request made of it with other parts for its wildcards (fill).
LEMMA Filled ==
    ASSUME NEW v \in Text
    PROVE  fill(v) \in Text /\ Len(fill(v)) = Len(v) /\ starGlob(v, fill(v))
<1>1. "probe" \in Parts
  BY PartsAssumption DEF ProbeParts
<1>2. Len(v) \in Nat /\ DOMAIN v = 1..Len(v) /\ \A i \in 1..Len(v) : v[i] \in Parts
  BY DEF Text
<1> DEFINE s == fill(v)
<1>3. s = [i \in 1..Len(v) |-> IF v[i] \in Stars THEN "probe" ELSE v[i]]
  BY <1>2 DEF fill
<1>4. s \in [1..Len(v) -> Parts] /\ \A i \in 1..Len(v) : v[i] \in Stars \/ s[i] = v[i]
  BY <1>1, <1>2, <1>3
<1>5. s \in Text /\ Len(s) = Len(v)
  BY <1>2, <1>4 DEF Text
<1> HIDE DEF s
<1>6. starGlob(v, s)
  BY <1>4, <1>5, GlobFilled
<1> QED
  BY <1>5, <1>6 DEF s

\* The parts that the requests are made of are texts.
LEMMA ProbeTexts ==
    /\ <<>> \in Text
    /\ \A x \in ProbeParts \cup {"*", "**", "..."} : <<x>> \in Text /\ <<x>> # <<>>
    /\ <<"a", "b">> \in Text /\ <<"a", "probe">> \in Text /\ <<"origin", "main">> \in Text
    /\ <<"a", "probe">> # <<>>
<1>1. \A x \in ProbeParts \cup {"*", "**", "..."} : x \in Parts
  BY PartsAssumption
<1>2. {"a", "b", "probe", "origin", "main"} \subseteq Parts
  BY <1>1 DEF ProbeParts
<1> QED
  BY <1>1, <1>2 DEF Text

\* The pattern a finding names for a path matches the paths it is checked by.
LEMMA PathProbes ==
    ASSUME NEW v, PathEntry(v), ~ Home(v), NEW s \in orderedPath(v)
    PROVE  starGlob(orderedPattern(v), s)
<1>1. v \in Text /\ v # <<>> /\ Tail(v) \in Text /\ Front(v) \in Text /\ Head(v) \in Parts /\ Len(v) \in Nat \ {0}
  BY FrontText, TailText DEF PathEntry
<1>2. CASE Len(v) = 1
  <2>1. s = fill(v) /\ orderedPattern(v) = v
    BY <1>2 DEF orderedPath, orderedPattern
  <2> QED
    BY <1>1, <2>1, Filled
<1>3. CASE Len(v) # 1 /\ Head(v) = "**"
  <2> DEFINE n == Len(v)
  <2>a. n \in Nat \ {0} /\ n # 1
    BY <1>1, <1>3
  <2> HIDE DEF n
  <2>b. n > 1
    BY <2>a
  <2>1. orderedPattern(v) = <<"...">> \o Tail(v)
    BY <1>3, <2>b DEF orderedPattern, n
  <2>2. PICK dir \in {<<>>, <<"a">>, <<"a", "b">>} : s = dir \o fill(Tail(v))
    BY <1>3 DEF orderedPath
  <2>3. dir \in Text /\ <<"...">> \in Text
    BY ProbeTexts DEF ProbeParts
  <2>4. starGlob(<<"...">>, dir)
    BY <2>3, GlobWild
  <2>5. fill(Tail(v)) \in Text /\ starGlob(Tail(v), fill(Tail(v)))
    BY <1>1, Filled
  <2> QED
    BY <1>1, <2>1, <2>2, <2>3, <2>4, <2>5, GlobJoin
<1>4. CASE Len(v) # 1 /\ Head(v) # "**" /\ Last(v) = "**"
  <2>1. orderedPattern(v) = v /\ v = Front(v) \o <<"**">>
    BY <1>1, <1>4, FrontPrefix DEF orderedPattern
  <2>2. PICK rest \in {<<"probe">>, <<"a", "probe">>} : s = Front(v) \o rest
    BY <1>4 DEF orderedPath
  <2>3. rest \in Text /\ rest # <<>> /\ <<"**">> \in Text
    BY ProbeTexts DEF ProbeParts
  <2>4. starGlob(<<"**">>, rest)
    BY <2>3, GlobWild
  <2>5. starGlob(Front(v), Front(v))
    BY <1>1, GlobSame
  <2>6. starGlob(Front(v) \o <<"**">>, Front(v) \o rest)
    BY <1>1, <2>3, <2>4, <2>5, GlobJoin
  <2> QED
    BY <2>1, <2>2, <2>6
<1>5. CASE Len(v) # 1 /\ Head(v) # "**" /\ Last(v) # "**"
  <2>1. s = fill(v) /\ orderedPattern(v) = v
    BY <1>5 DEF orderedPath, orderedPattern
  <2> QED
    BY <1>1, <2>1, Filled
<1> QED
  BY <1>2, <1>3, <1>4, <1>5

\* A home entry whose only wildcard is at its end.
HomeDirectory(v) == Last(v) \in Stars /\ Plain(Front(v))

\* A domain entry matches the host it is checked by.
LEMMA HostProbe ==
    ASSUME NEW v \in Text, v # <<>>
    PROVE  orderedHost(v) \in Text /\ starGlob(v, orderedHost(v))
<1>1. Tail(v) \in Text /\ (Head(v) = "*" => v = <<"*">> \o Tail(v))
  <2>1. /\ Head(v) = v[1] /\ Head(v) \in Parts /\ Len(v) \in Nat \ {0} /\ Tail(v) \in Text /\ Len(Tail(v)) = Len(v) - 1
        /\ \A i \in 1..(Len(v) - 1) : Tail(v)[i] = v[i + 1]
    BY TailText
  <2> DEFINE t == <<Head(v)>> \o Tail(v)
  <2>2. /\ t \in Text /\ Len(t) = Len(Tail(v)) + 1 /\ t[1] = Head(v) /\ \A i \in 1..Len(Tail(v)) : t[i + 1] = Tail(v)[i]
    BY <2>1, ConsText
  <2> HIDE DEF t
  <2>3. ASSUME NEW i \in 1..Len(v) PROVE v[i] = t[i]
    <3>1. CASE i = 1
      BY <2>1, <2>2, <3>1
    <3>2. CASE i # 1
      <4>1. i - 1 \in 1..(Len(v) - 1) /\ (i - 1) + 1 = i
        BY <2>1, <3>2
      <4> QED
        BY <2>1, <2>2, <4>1
    <3> QED
      BY <3>1, <3>2
  <2>4. Len(v) = Len(t)
    BY <2>1, <2>2
  <2>5. v = t
    BY <2>2, <2>3, <2>4, SameText
  <2> QED
    BY <2>1, <2>5 DEF t
<1>2. CASE Head(v) = "*"
  <2>1. <<"*">> \in Text /\ <<"api">> \in Text /\ <<"api">> # <<>>
    BY ProbeTexts DEF ProbeParts
  <2>2. starGlob(<<"*">>, <<"api">>)
    BY <2>1, GlobWild
  <2>3. starGlob(Tail(v), Tail(v))
    BY <1>1, GlobSame
  <2>4. starGlob(<<"*">> \o Tail(v), <<"api">> \o Tail(v)) /\ <<"api">> \o Tail(v) \in Text
    BY <1>1, <2>1, <2>2, <2>3, GlobJoin
  <2> QED
    BY <1>1, <1>2, <2>4 DEF orderedHost
<1>3. CASE Head(v) # "*"
  BY <1>3, GlobSame DEF orderedHost
<1> QED
  BY <1>2, <1>3

\* The rule a finding names matches what the entry is checked by.
LEMMA ProbesMatch ==
    ASSUME NEW a \in Ordered, NEW c \in Categories, NEW v, NeutralText(c, v), Checks(a, c, v),
           c \in {"read", "write"} /\ Home(v) => HomeDirectory(v), NEW w, NEW q \in orderedProbes(a, c, v)
    PROVE  LET r == orderedSpell(c, v, w)
           IN  r.effect = "deny" /\ r.where = w /\ starGlob(r.tool, q.action) /\ starGlob(r.arg, q.resource)
<1>2. v \in Text /\ v # <<>> /\ Tail(v) \in Text /\ Front(v) \in Text
  <2>1. v \in Text /\ v # <<>> /\ Front(v) \in Text
    BY NeutralIsText
  <2> QED
    BY <2>1, TailText
<1>3. \A x, S : \A p \in Requested(x, S) : p.action = x /\ p.resource \in S
  BY DEF Requested
<1>4. \A x \in ProbeParts \cup {"*", "**", "..."} : <<x>> \in Text /\ <<x>> # <<>> /\ starGlob(<<x>>, <<x>>)
  BY ProbeTexts, GlobSame
<1>5. CASE c = "commands"
  <2> DEFINE S == {v \o args : args \in {<<>>, <<"origin", "main">>, <<"--force">>}}
             r == Rule(<<"bash">>, v \o <<"...">>, "deny", w)
  <2>1. q \in Requested(<<"bash">>, S) /\ orderedSpell(c, v, w) = r
    BY <1>5 DEF orderedProbes, orderedSpell
  <2>2. r.effect = "deny" /\ r.where = w /\ r.tool = <<"bash">> /\ r.arg = v \o <<"...">>
    BY DEF Rule
  <2> HIDE DEF r
  <2>3. q.action = <<"bash">> /\ q.resource \in S
    BY <1>3, <2>1
  <2>4. PICK args \in {<<>>, <<"origin", "main">>, <<"--force">>} : q.resource = v \o args
    BY <2>3
  <2>5. args \in Text /\ <<"...">> \in Text
    BY ProbeTexts DEF ProbeParts
  <2>6. starGlob(v, v) /\ starGlob(<<"...">>, args)
    BY <1>2, <2>5, GlobSame, GlobWild
  <2>7. starGlob(v \o <<"...">>, v \o args)
    BY <1>2, <2>5, <2>6, GlobJoin
  <2>8. starGlob(<<"bash">>, <<"bash">>)
    BY <1>4 DEF ProbeParts
  <2> QED
    BY <2>1, <2>2, <2>3, <2>4, <2>7, <2>8
<1>6. CASE c \in {"read", "write"} /\ ~ Home(v)
  <2> DEFINE tool == IF c = "read" THEN <<"read">> ELSE <<"edit">>
             r == Rule(tool, orderedPattern(v), "deny", w)
  <2>1. orderedSpell(c, v, w) = r
    BY <1>6 DEF orderedSpell
  <2>2. q \in Requested(tool, orderedPath(v))
    BY <1>6 DEF orderedProbes
  <2>3. r.effect = "deny" /\ r.where = w /\ r.tool = tool /\ r.arg = orderedPattern(v)
    BY DEF Rule
  <2> HIDE DEF r
  <2>4. starGlob(tool, tool)
    BY <1>4 DEF ProbeParts
  <2> HIDE DEF tool
  <2>5. q.action = tool /\ q.resource \in orderedPath(v)
    BY <1>3, <2>2
  <2>6. starGlob(orderedPattern(v), q.resource)
    BY <1>6, <2>5, PathProbes DEF NeutralText
  <2> QED
    BY <2>1, <2>3, <2>4, <2>5, <2>6
<1>7. CASE c \in {"read", "write"} /\ Home(v)
  <2> DEFINE r == Rule(<<"external_directory">>, v, "deny", w)
  <2>1. orderedSpell(c, v, w) = r
    BY <1>7 DEF orderedSpell
  <2>2. q \in Requested(<<"external_directory">>, orderedPath(v))
    BY <1>7 DEF orderedProbes
  <2>3. r.effect = "deny" /\ r.where = w /\ r.tool = <<"external_directory">> /\ r.arg = v
    BY DEF Rule
  <2> HIDE DEF r
  <2>4. q.action = <<"external_directory">> /\ q.resource \in orderedPath(v)
    BY <1>3, <2>2
  <2>5. orderedPath(v) = {Front(v) \o <<"*">>}
    BY <1>2, <1>7, FirstStar DEF orderedPath, HomeDirectory
  <2>6. v = Front(v) \o <<Last(v)>> /\ Last(v) \in {"*", "**"}
    BY <1>2, <1>7, FrontPrefix DEF HomeDirectory, Stars
  <2>7. starGlob(Front(v), Front(v)) /\ <<Last(v)>> \in Text /\ <<"*">> \in Text /\ starGlob(<<Last(v)>>, <<"*">>)
    BY <1>2, <2>6, ProbeTexts, GlobSame, GlobWild
  <2>8. starGlob(Front(v) \o <<Last(v)>>, Front(v) \o <<"*">>)
    BY <1>2, <2>7, GlobJoin
  <2>9. starGlob(<<"external_directory">>, <<"external_directory">>)
    BY <1>4 DEF ProbeParts
  <2> QED
    BY <2>1, <2>3, <2>4, <2>5, <2>6, <2>8, <2>9
<1>8. CASE c = "fetch"
  <2> DEFINE S == {<<scheme>> \o orderedHost(v) \o <<"x">> : scheme \in {"https", "http"}}
             arg == <<"*">> \o v \o <<"*">>
             r == Rule(<<"webfetch">>, arg, "deny", w)
  <2>1. a # "opencode"
    BY <1>8 DEF Checks
  <2>2. q \in Requested(<<"webfetch">>, S) /\ orderedSpell(c, v, w) = r
    BY <1>8, <2>1 DEF orderedProbes, orderedSpell
  <2>3. r.effect = "deny" /\ r.where = w /\ r.tool = <<"webfetch">> /\ r.arg = arg
    BY DEF Rule
  <2> HIDE DEF r
  <2>4. q.action = <<"webfetch">> /\ q.resource \in S
    BY <1>3, <2>2
  <2>5. PICK scheme \in {"https", "http"} : q.resource = <<scheme>> \o orderedHost(v) \o <<"x">>
    BY <2>4
  <2> HIDE DEF S
  <2>6. /\ <<"*">> \in Text /\ <<scheme>> \in Text /\ <<"x">> \in Text
        /\ starGlob(<<"*">>, <<scheme>>) /\ starGlob(<<"*">>, <<"x">>)
    <3>1. scheme \in ProbeParts /\ "x" \in ProbeParts
      BY DEF ProbeParts
    <3> QED
      BY <1>4, <3>1, GlobWild
  <2>7. orderedHost(v) \in Text /\ starGlob(v, orderedHost(v))
    BY <1>2, HostProbe
  <2>8. /\ <<"*">> \o v \in Text /\ <<scheme>> \o orderedHost(v) \in Text
        /\ starGlob(<<"*">> \o v, <<scheme>> \o orderedHost(v))
    BY <1>2, <2>6, <2>7, GlobJoin
  <2>9. starGlob(arg, q.resource)
    BY <2>5, <2>6, <2>8, GlobJoin
  <2>10. starGlob(<<"webfetch">>, <<"webfetch">>)
    BY <1>4 DEF ProbeParts
  <2> HIDE DEF arg
  <2> QED
    BY <2>2, <2>3, <2>4, <2>9, <2>10
<1>9. CASE c = "mcp-tools"
  <2> DEFINE s == <<mcpServerName(Head(v))>>
             tool == s \o Tail(v)
             r == Rule(tool, <<"*">>, "deny", w)
  <2>1. q \in Requested(orderedMCPName(v), {<<"*">>}) /\ orderedSpell(c, v, w) = r
    BY <1>9 DEF orderedProbes, orderedSpell
  <2>2. r.effect = "deny" /\ r.where = w /\ r.tool = tool /\ r.arg = <<"*">>
    BY DEF Rule
  <2> HIDE DEF r
  <2>3. q.action = orderedMCPName(v) /\ q.resource = <<"*">>
    BY <1>3, <2>1
  <2>4. s \in Text
    BY NeutralIsText DEF Text
  <2>5. orderedMCPName(v) = s \o fill(Tail(v))
    BY DEF orderedMCPName
  <2> HIDE DEF s
  <2>6. starGlob(s, s) /\ fill(Tail(v)) \in Text /\ starGlob(Tail(v), fill(Tail(v)))
    BY <1>2, <2>4, GlobSame, Filled
  <2>7. starGlob(tool, orderedMCPName(v))
    BY <1>2, <2>4, <2>5, <2>6, GlobJoin
  <2>8. starGlob(<<"*">>, <<"*">>)
    BY <1>4
  <2> HIDE DEF tool
  <2> QED
    BY <2>1, <2>2, <2>3, <2>7, <2>8
<1> QED
  BY <1>5, <1>6, <1>7, <1>8, <1>9 DEF Categories

\* The last rule decides, if it applies.
LEMMA LastDecides ==
    ASSUME NEW S, NEW s \in Seq(S), NEW r \in S, NEW I \in SUBSET DOMAIN (s \o <<r>>), Len(s) + 1 \in I, NEW none
    PROVE  LastEffect(s \o <<r>>, I, none) = r.effect
<1> DEFINE t == s \o <<r>>
           n == Len(s) + 1
<1>1. n \in Nat /\ DOMAIN t = 1..n /\ t[n] = r /\ n \in I
  OBVIOUS
<1>2. I \subseteq 1..n
  BY <1>1
<1> HIDE DEF t, n
<1> DEFINE m == Max(I)
<1>3. m \in I /\ \A y \in I : m >= y
  <2>1. \A y \in I : n >= y
    BY <1>1, <1>2
  <2> QED
    BY <1>1, <2>1 DEF Max
<1>4. m = n
  <2>1. m \in 1..n /\ m >= n
    BY <1>1, <1>2, <1>3
  <2> HIDE DEF m
  <2> QED
    BY <1>1, <2>1
<1>5. LastEffect(t, I, none) = t[m].effect
  BY <1>1 DEF LastEffect
<1> HIDE DEF m
<1> QED
  BY <1>1, <1>4, <1>5 DEF t

\* A file that ends with the rule a finding names meets the entry.
THEOREM OrderedAdviceWorks ==
    ASSUME NEW a \in Ordered, NEW c \in Categories, NEW v, NeutralText(c, v), Checks(a, c, v),
           c \in {"read", "write"} /\ Home(v) => HomeDirectory(v), NEW w, NEW S, NEW s \in Seq(S)
    PROVE  orderedDenied(a, s \o <<orderedSpell(c, v, w)>>, w, c, v)
<1> DEFINE r == orderedSpell(c, v, w)
           t == s \o <<r>>
<1>1. t \in Seq(S \cup {r}) /\ DOMAIN t = 1..(Len(s) + 1) /\ Len(s) + 1 \in DOMAIN t /\ t[Len(s) + 1] = r /\ s \in Seq(S \cup {r})
  OBVIOUS
<1> HIDE DEF r
<1>2. ASSUME NEW q \in orderedProbes(a, c, v) PROVE orderedEffect(t, w, q) = "deny"
  <2>1. r.effect = "deny" /\ r.where = w /\ starGlob(r.tool, q.action) /\ starGlob(r.arg, q.resource)
    BY ProbesMatch DEF r
  <2> DEFINE I == Applying(t, w, q)
             other == LastEffect(t, Applying(t, "", q), "ask")
  <2>2. I \in SUBSET DOMAIN t
    BY DEF Applying
  <2>3. Len(s) + 1 \in I
    BY <1>1, <2>1 DEF Applying
  <2>4. orderedEffect(t, w, q) = LastEffect(t, I, other)
    BY DEF orderedEffect
  <2> HIDE DEF I, other
  <2>5. LastEffect(t, I, other) = r.effect
    BY <1>1, <2>2, <2>3, LastDecides
  <2> QED
    BY <2>1, <2>4, <2>5
<1> QED
  BY <1>2 DEF orderedDenied, r

-----------------------------------------------------------------------------
(* Roo Code: the longer of two prefixes decides, and the last line of      *)
(* .rooignore.                                                             *)

\* Some member of a finite set of numbers is the largest.
LEMMA Longest ==
    ASSUME NEW n \in Nat, NEW S \in SUBSET (0..n), S # {}
    PROVE  \E m \in S : \A k \in S : m >= k
<1> DEFINE T == {n - k : k \in S}
<1>1. T \subseteq Nat /\ T # {}
  <2>1. \A k \in S : n - k \in Nat
    OBVIOUS
  <2> QED
    BY <2>1
<1>2. \A x, y \in Nat : <<y, x>> \in Before <=> y < x
  BY DEF Before
<1>3. PICK x \in T : \A y \in T : ~ (<<y, x>> \in Before)
  BY <1>1, BeforeWellFounded, WFMin
<1>4. PICK m \in S : x = n - m
  OBVIOUS
<1>5. ASSUME NEW k \in S PROVE m >= k
  <2>1. n - k \in T
    OBVIOUS
  <2>2. ~ (n - k < n - m)
    BY <1>1, <1>2, <1>3, <1>4, <2>1
  <2>3. k \in 0..n /\ m \in 0..n
    OBVIOUS
  <2> QED
    BY <2>2, <2>3
<1> QED
  BY <1>5

\* A prefix of the command, or the one for all commands.
Listed(p, command) == p = <<"*">> \/ IsPrefix(p, command)

\* The longer of two prefixes of one command counts as longer, and "*" as the shortest.
LEMMA LengthText ==
    ASSUME NEW p \in Text, NEW s \in Text
    PROVE  /\ prefixLength(p) \in Nat \ {0} /\ prefixLength(p) <= 1 + Len(p)
           /\ Listed(p, s) => prefixLength(p) <= prefixLength(s)
           /\ p # <<"*">> => prefixLength(p) = 1 + Len(p)
<1>1. Len(p) \in Nat /\ Len(s) \in Nat /\ Len(<<"*">>) = 1 /\ Len(<<>>) = 0
  BY DEF Text
<1>2. IsPrefix(p, s) => Len(p) <= Len(s)
  BY PrefixText
<1>3. /\ prefixLength(p) = (IF p = <<"*">> THEN 1 ELSE 1 + Len(p))
      /\ prefixLength(s) = (IF s = <<"*">> THEN 1 ELSE 1 + Len(s))
  BY DEF prefixLength
<1>4. IsPrefix(p, <<"*">>) => p = <<"*">> \/ Len(p) = 0
  <2> HAVE IsPrefix(p, <<"*">>)
  <2>1. <<"*">> \in Text
    BY ProbeTexts
  <2>2. Len(p) <= 1 /\ \A i \in 1..Len(p) : p[i] = <<"*">>[i]
    BY <1>1, <2>1, PrefixText
  <2>3. CASE Len(p) = 1
    BY <1>1, <2>1, <2>2, <2>3, SameText
  <2> QED
    BY <1>1, <2>2, <2>3
<1> QED
  BY <1>1, <1>2, <1>3, <1>4 DEF Listed

\* rooLongestPrefix is the length of a prefix of the command, and none is longer.
LEMMA LongestPrefix ==
    ASSUME NEW P \in SUBSET Text, NEW s \in Text
    PROVE  /\ rooLongestPrefix(P, s) \in Nat
           /\ \A p \in P : Listed(p, s) => prefixLength(p) <= rooLongestPrefix(P, s)
           /\ rooLongestPrefix(P, s) > 0 => \E p \in P : Listed(p, s) /\ prefixLength(p) = rooLongestPrefix(P, s)
<1> DEFINE lengths == {prefixLength(p) : p \in {q \in P : q = <<"*">> \/ IsPrefix(q, s)}}
           m == CHOOSE n \in lengths : \A k \in lengths : n >= k
<1>1. /\ \A p \in P : Listed(p, s) => prefixLength(p) \in lengths
      /\ \A n \in lengths : \E p \in P : Listed(p, s) /\ n = prefixLength(p)
  BY DEF Listed
<1>2. rooLongestPrefix(P, s) = IF lengths = {} THEN 0 ELSE m
  BY DEF rooLongestPrefix
<1>3. CASE lengths = {}
  BY <1>1, <1>2, <1>3
<1>4. CASE lengths # {}
  <2>1. prefixLength(s) \in Nat /\ \A p \in P : prefixLength(p) \in Nat /\ (Listed(p, s) => prefixLength(p) <= prefixLength(s))
    BY LengthText
  <2> HIDE DEF lengths
  <2>2. lengths \in SUBSET (0..prefixLength(s))
    BY <1>1, <2>1
  <2>3. \E n \in lengths : \A k \in lengths : n >= k
    BY <1>4, <2>1, <2>2, Longest
  <2>4. m \in lengths /\ \A k \in lengths : m >= k
    BY <2>3
  <2> HIDE DEF m
  <2>5. m \in Nat /\ \A k \in lengths : k \in Nat
    BY <2>1, <2>2, <2>4
  <2>6. \A k \in lengths : k <= m
    BY <2>4, <2>5
  <2> QED
    BY <1>1, <1>2, <1>4, <2>4, <2>5, <2>6
<1> QED
  BY <1>3, <1>4

\* The commands a denied prefix decides, when no allowed prefix is longer.
LEMMA RooPrefixDecides ==
    ASSUME NEW s, \A x \in ToSet(s) : x.arg \in Text, NEW r \in Text,
           NEW d \in Args(s, "deniedCommands", "deny"), Listed(d, r),
           \A p \in Args(s, "allowedCommands", "allow") :
             Listed(p, r) => \E q \in Args(s, "deniedCommands", "deny") : Listed(q, r) /\ prefixLength(p) <= prefixLength(q)
    PROVE  rooDenied(s, r)
<1> DEFINE D == Args(s, "deniedCommands", "deny")
           A == Args(s, "allowedCommands", "allow")
           den == rooLongestPrefix(D, r)
           all == rooLongestPrefix(A, r)
<1>1. D \in SUBSET Text /\ A \in SUBSET Text
  BY DEF Args
<1>2. rooDenied(s, r) <=> den > 0 /\ all <= den
  BY DEF rooDenied
<1>3. d \in D /\ \A p \in A : Listed(p, r) => \E q \in D : Listed(q, r) /\ prefixLength(p) <= prefixLength(q)
  OBVIOUS
<1> HIDE DEF D, A
<1>4. /\ den \in Nat /\ all \in Nat
      /\ \A q \in D : Listed(q, r) => prefixLength(q) <= den
      /\ all > 0 => \E p \in A : Listed(p, r) /\ prefixLength(p) = all
  BY <1>1, LongestPrefix
<1>5. \A p \in D \cup A : prefixLength(p) \in Nat \ {0}
  BY <1>1, LengthText
<1> HIDE DEF den, all
<1>6. den > 0
  <2>1. prefixLength(d) <= den /\ prefixLength(d) \in Nat \ {0}
    BY <1>3, <1>4, <1>5
  <2> HIDE DEF den
  <2> QED
    BY <1>4, <2>1
<1>7. all <= den
  <2>1. CASE all > 0
    <3>1. PICK p \in A : Listed(p, r) /\ prefixLength(p) = all
      BY <1>4, <2>1
    <3>2. PICK q \in D : Listed(q, r) /\ prefixLength(p) <= prefixLength(q)
      BY <1>3, <3>1
    <3>3. prefixLength(q) <= den /\ prefixLength(q) \in Nat
      BY <1>4, <1>5, <3>2
    <3> QED
      BY <1>4, <3>1, <3>2, <3>3
  <2> QED
    BY <1>4, <2>1
<1> QED
  BY <1>2, <1>6, <1>7

\* A command that is denied, by its prefixes.
LEMMA RooDeniedBy ==
    ASSUME NEW s, \A x \in ToSet(s) : x.arg \in Text, NEW r \in Text, rooDenied(s, r)
    PROVE  \E d \in Args(s, "deniedCommands", "deny") :
             Listed(d, r) /\ \A p \in Args(s, "allowedCommands", "allow") : Listed(p, r) => prefixLength(p) <= prefixLength(d)
<1> DEFINE D == Args(s, "deniedCommands", "deny")
           A == Args(s, "allowedCommands", "allow")
           den == rooLongestPrefix(D, r)
           all == rooLongestPrefix(A, r)
<1>1. D \in SUBSET Text /\ A \in SUBSET Text
  BY DEF Args
<1>2. den > 0 /\ all <= den
  BY DEF rooDenied
<1> HIDE DEF D, A
<1>3. /\ den \in Nat /\ all \in Nat
      /\ \A p \in A : Listed(p, r) => prefixLength(p) <= all
      /\ den > 0 => \E p \in D : Listed(p, r) /\ prefixLength(p) = den
  BY <1>1, LongestPrefix
<1>4. \A p \in A : prefixLength(p) \in Nat
  BY <1>1, LengthText
<1> HIDE DEF den, all
<1>5. PICK d \in D : Listed(d, r) /\ prefixLength(d) = den
  BY <1>2, <1>3
<1>6. \A p \in A : Listed(p, r) => prefixLength(p) <= prefixLength(d)
  BY <1>2, <1>3, <1>4, <1>5
<1> QED
  BY <1>5, <1>6 DEF D, A

\* The command with the flag CFG025 tries, and its prefixes.
LEMMA ForceText ==
    ASSUME NEW v, PlainEntry(v)
    PROVE  /\ v \o <<"--force">> \in Text /\ IsStrictPrefix(v, v \o <<"--force">>)
           /\ \A p \in Text : IsPrefix(p, v \o <<"--force">>) => p = v \o <<"--force">> \/ IsPrefix(p, v)
<1> DEFINE w == v \o <<"--force">>
<1>1. v \in Text /\ "--force" \in Parts
  BY PartsAssumption DEF PlainEntry, ProbeParts
<1>2. w \in Text /\ Len(w) = Len(v) + 1 /\ w # <<>> /\ \A i \in 1..Len(v) : w[i] = v[i]
  BY <1>1, AppendText
<1>3. Len(v) \in Nat
  BY <1>1 DEF Text
<1> HIDE DEF w
<1>4. IsStrictPrefix(v, w)
  BY <1>1, <1>2, <1>3, PrefixText
<1>5. Len(Front(w)) = Len(v) /\ Front(w) \in Text /\ \A i \in 1..Len(v) : Front(w)[i] = v[i]
  BY <1>2, <1>3, FrontText
<1>6. Front(w) = v
  BY <1>1, <1>5, SameText
<1>7. \A p \in Text : IsPrefix(p, w) => p = w \/ IsPrefix(p, v)
  BY <1>2, <1>6, FrontPrefix, PrefixTrans
<1> QED
  BY <1>2, <1>4, <1>7 DEF w

\* A denied command, with no longer allowed prefix.
LEMMA RooCommandAdvised ==
    ASSUME NEW s, \A x \in ToSet(s) : x.arg \in Text, NEW v, PlainEntry(v), v \in Args(s, "deniedCommands", "deny"),
           \A p \in Args(s, "allowedCommands", "allow") : ~ IsStrictPrefix(v, p)
    PROVE  rooCommandCovered(s, v)
<1> DEFINE w == v \o <<"--force">>
<1>1. v \in Text /\ w \in Text /\ IsStrictPrefix(v, w) /\ \A p \in Text : IsPrefix(p, w) => p = w \/ IsPrefix(p, v)
  BY ForceText DEF PlainEntry
<1> HIDE DEF w
<1>2. IsPrefix(v, v) /\ IsPrefix(v, w)
  BY <1>1, PrefixTrans
<1>3. ASSUME NEW p \in Args(s, "allowedCommands", "allow"), Listed(p, v) \/ Listed(p, w)
      PROVE  prefixLength(p) <= prefixLength(v)
  <2>1. p \in Text /\ p # w
    BY <1>1 DEF Args
  <2>2. Listed(p, v)
    BY <1>1, <1>3, <2>1 DEF Listed
  <2> QED
    BY <1>1, <2>1, <2>2, LengthText
<1>4. rooDenied(s, v)
  BY <1>1, <1>2, <1>3, RooPrefixDecides DEF Listed
<1>5. rooDenied(s, w)
  BY <1>1, <1>2, <1>3, RooPrefixDecides DEF Listed
<1> QED
  BY <1>4, <1>5 DEF rooCommandCovered, w

\* An allowed prefix that goes on after a denied command is the one the check
\* tries, or denied itself.
RooPrefixes(s, v) ==
    \A p \in Args(s, "allowedCommands", "allow") : IsStrictPrefix(v, p) => p = v \o <<"--force">> \/ rooDenied(s, p)

\* A command entry CFG025 takes for denied is refused with every argument.
THEOREM RooCommandRefused ==
    ASSUME NEW s, \A x \in ToSet(s) : x.arg \in Text, NEW v, PlainEntry(v), rooCommandCovered(s, v), RooPrefixes(s, v),
           NEW r \in Text, IsPrefix(v, r)
    PROVE  rooDenied(s, r)
<1> DEFINE w == v \o <<"--force">>
           A == Args(s, "allowedCommands", "allow")
           D == Args(s, "deniedCommands", "deny")
<1>1. v \in Text /\ w \in Text
  BY ForceText DEF PlainEntry
<1>2. A \subseteq Text /\ D \subseteq Text
  BY DEF Args
<1>3. rooDenied(s, v) /\ rooDenied(s, w)
  BY DEF rooCommandCovered
<1>4. \A p \in A : IsStrictPrefix(v, p) => p = w \/ rooDenied(s, p)
  BY DEF RooPrefixes
<1> HIDE DEF w, A, D
<1>5. PICK d \in D : Listed(d, v) /\ \A p \in A : Listed(p, v) => prefixLength(p) <= prefixLength(d)
  BY <1>1, <1>3, RooDeniedBy DEF A, D
<1>6. Listed(d, r)
  BY <1>1, <1>2, <1>5, PrefixTrans DEF Listed
<1>7. ASSUME NEW p \in A, Listed(p, r)
      PROVE  \E q \in D : Listed(q, r) /\ prefixLength(p) <= prefixLength(q)
  <2>1. CASE Listed(p, v)
    BY <1>5, <1>6, <2>1
  <2>2. CASE ~ Listed(p, v)
    <3>1. p \in Text /\ IsPrefix(p, r) /\ IsStrictPrefix(v, p)
      <4>1. p \in Text /\ IsPrefix(p, r) /\ ~ IsPrefix(p, v)
        BY <1>2, <1>7, <2>2 DEF Listed
      <4> QED
        BY <1>1, <4>1, PrefixTrans
    <3>2. rooDenied(s, p)
      BY <1>3, <1>4, <3>1
    <3>3. PICK q \in D : Listed(q, p) /\ \A o \in A : Listed(o, p) => prefixLength(o) <= prefixLength(q)
      BY <3>1, <3>2, RooDeniedBy DEF A, D
    <3>4. Listed(q, r)
      BY <1>2, <3>1, <3>3, PrefixTrans DEF Listed
    <3>5. Listed(p, p)
      BY <3>1, PrefixTrans DEF Listed
    <3> QED
      BY <3>3, <3>4, <3>5
  <2> QED
    BY <2>1, <2>2
<1> QED
  BY <1>6, <1>7, RooPrefixDecides DEF A, D

\* A command Roo Code runs under a forbidden entry is granted by an allowed prefix.
THEOREM RooCommandGranted ==
    ASSUME NEW s, \A x \in ToSet(s) : x.arg \in Text, NEW v, PlainEntry(v), RooPrefixes(s, v),
           NEW r \in Text, IsPrefix(v, r), ~ rooDenied(s, r), rooLongestPrefix(Args(s, "allowedCommands", "allow"), r) > 0
    PROVE  rooCommandGranted(s, v)
<1> DEFINE A == Args(s, "allowedCommands", "allow")
           D == Args(s, "deniedCommands", "deny")
<1>1. A \in SUBSET Text /\ D \in SUBSET Text /\ v \in Text
  BY DEF Args, PlainEntry
<1> HIDE DEF A, D
<1>2. PICK a \in A : Listed(a, r) /\ prefixLength(a) = rooLongestPrefix(A, r)
  BY <1>1, LongestPrefix DEF A
<1>3. a = <<"*">> \/ IsPrefix(a, v) \/ IsPrefix(v, a)
  BY <1>1, <1>2, PrefixTrans DEF Listed
<1>4. ASSUME rooDenied(s, a) PROVE FALSE
  <2>1. PICK d \in D : Listed(d, a) /\ \A p \in A : Listed(p, a) => prefixLength(p) <= prefixLength(d)
    BY <1>1, <1>2, <1>4, RooDeniedBy DEF A, D
  <2>2. Listed(a, a) /\ prefixLength(a) <= prefixLength(d)
    BY <1>1, <2>1, PrefixTrans DEF Listed
  <2>3. Listed(d, r)
    <3>1. CASE d = <<"*">>
      BY <3>1 DEF Listed
    <3>2. CASE d # <<"*">> /\ IsPrefix(a, r)
      BY <1>1, <2>1, <3>2, PrefixTrans DEF Listed
    <3>3. CASE d # <<"*">> /\ a = <<"*">>
      <4> DEFINE star == <<"*">>
                 n == Len(d)
      <4>1. IsPrefix(d, star) /\ star \in Text /\ Len(star) = 1 /\ d \in Text /\ d # star
        BY <1>1, <2>1, <3>3, ProbeTexts DEF Listed
      <4>2. n \in Nat /\ Len(r) \in Nat
        BY <4>1 DEF Text
      <4> HIDE DEF star
      <4>3. n <= 1 /\ \A i \in 1..n : d[i] = star[i]
        BY <4>1, PrefixText
      <4>4. n # 1
        BY <4>1, <4>3, SameText
      <4> HIDE DEF n
      <4>6. n = 0
        BY <4>2, <4>3, <4>4
      <4>5. IsPrefix(d, r)
        BY <4>1, <4>2, <4>6, PrefixText DEF n
      <4> QED
        BY <4>5 DEF Listed
    <3> QED
      BY <1>2, <3>1, <3>2, <3>3 DEF Listed
  <2>4. \A p \in A : Listed(p, r) => prefixLength(p) <= prefixLength(d)
    <3>1. /\ \A p \in A : Listed(p, r) => prefixLength(p) <= rooLongestPrefix(A, r)
          /\ \A p \in A \cup D : prefixLength(p) \in Nat
          /\ rooLongestPrefix(A, r) \in Nat
      BY <1>1, LongestPrefix, LengthText
    <3> QED
      BY <1>2, <2>2, <3>1
  <2>5. rooDenied(s, r)
    BY <2>3, <2>4, RooPrefixDecides DEF A, D
  <2> QED
    BY <2>5
<1>5. ~ rooCommandCovered(s, v)
  BY RooCommandRefused
<1> QED
  BY <1>2, <1>3, <1>4, <1>5 DEF rooCommandGranted, A

\* The last of the rules that apply decides.
LEMMA LastIs ==
    ASSUME NEW S, NEW s \in Seq(S), NEW I \in SUBSET DOMAIN s, I # {}
    PROVE  \E m \in I : (\A k \in I : m >= k) /\ \A none : LastEffect(s, I, none) = s[m].effect
<1> DEFINE n == Len(s)
           m == Max(I)
<1>1. n \in Nat /\ DOMAIN s = 1..n
  OBVIOUS
<1>2. I \in SUBSET (0..n)
  BY <1>1
<1>3. m \in I /\ \A k \in I : m >= k
  <2>1. \E x \in I : \A k \in I : x >= k
    BY <1>1, <1>2, Longest
  <2> QED
    BY <2>1 DEF Max
<1>4. \A none : LastEffect(s, I, none) = s[m].effect
  BY DEF LastEffect
<1> HIDE DEF m
<1> QED
  BY <1>3, <1>4

\* A .rooignore with the path at its end ignores it.
LEMMA RooPathAdvised ==
    ASSUME NEW S, NEW s \in Seq(S), NEW v, Head(v) # "/"
    PROVE  rooIgnored(s \o <<Rule(".rooignore", v, "deny", "")>>, v)
<1> DEFINE r == Rule(".rooignore", v, "deny", "")
           t == s \o <<r>>
           I == {i \in DOMAIN t : t[i].tool = ".rooignore" /\ rooIgnoreCovers(t[i].arg, v)}
<1>1. r.tool = ".rooignore" /\ r.arg = v /\ r.effect = "deny"
  BY DEF Rule
<1> HIDE DEF r
<1>2. s \in Seq(S \cup {r}) /\ Len(s) + 1 \in DOMAIN t /\ t[Len(s) + 1] = r
  OBVIOUS
<1>3. rooIgnoreCovers(r.arg, v)
  BY <1>1 DEF rooIgnoreCovers, unrooted
<1>4. I \in SUBSET DOMAIN t /\ Len(s) + 1 \in I
  BY <1>1, <1>2, <1>3
<1>5. rooIgnored(t, v) <=> LastEffect(t, I, "allow") = "deny"
  BY DEF rooIgnored
<1> HIDE DEF I
<1>6. LastEffect(t, I, "allow") = r.effect
  BY <1>2, <1>4, LastDecides
<1> QED
  BY <1>1, <1>5, <1>6 DEF r

\* A line that covers an entry for CFG025, and does: the entry, the same name at
\* any depth, or a directory it is in.
RooLineFits(line, v) ==
    LET p == unrooted(line)
        dir == IF Last(p) = "**" THEN Front(p) ELSE p IN
    \/ p = v
    \/ v = <<"**">> \o line /\ Len(line) = 1 /\ Head(line) # "."
    \/ dir # <<>> /\ Plain(dir) /\ IsStrictPrefix(dir, v)

\* Lines that cover no less than CFG025 takes them to, and no exception for some of
\* what the entry stands for.
RooLines(s, v, R) ==
    \A x \in ToSet(s) : x.tool = ".rooignore" =>
      /\ x.effect = "deny" /\ rooIgnoreCovers(x.arg, v) => RooLineFits(x.arg, v)
      /\ x.effect # "deny" /\ (\E r \in R : rooIgnores(x.arg, r)) => rooIgnoreCovers(x.arg, v)

\* A text without wildcards in front of a pattern is in front of what it matches.
LEMMA PlainBegins ==
    ASSUME NEW p \in Text, NEW v \in Text, NEW r \in Text, Plain(p), IsPrefix(p, v), starGlob(v, r)
    PROVE  IsPrefix(p, r)
<1>1. Len(p) \in Nat /\ Len(v) \in Nat /\ Len(p) <= Len(v) /\ \A i \in 1..Len(p) : p[i] = v[i]
  BY PrefixText DEF Text
<1>2. PICK f : Cut(v, r, f)
  BY GlobCuts
<1>3. \A i \in 1..Len(p) : v[i] \notin Stars /\ v[i] # "..."
  BY <1>1 DEF Plain, Wildcards
<1>4. Len(p) \in 0..Len(v)
  BY <1>1
<1>5. Len(p) <= Len(r) /\ \A i \in 1..Len(p) : r[i] = v[i]
  BY <1>2, <1>3, <1>4, CutPlain
<1> QED
  BY <1>1, <1>5, PrefixText

\* Such a line ignores every path the entry stands for.
LEMMA RooLineMatches ==
    ASSUME NEW line \in Text, NEW v, PathEntry(v), NEW r, PathRequest(r), PathMeans(v, r), RooLineFits(line, v)
    PROVE  rooIgnores(line, r)
<1> DEFINE p == unrooted(line)
<1>1. v \in Text /\ v # <<>> /\ r \in Text /\ r # <<>> /\ pathGlob(v, r)
  BY DEF PathEntry, PathRequest, PathMeans
<1>p. p \in Text
  <2>1. Len(line) > 1 => line # <<>>
    OBVIOUS
  <2> QED
    BY <2>1, TailText DEF unrooted
<1>2. CASE p = v
  BY <1>1, <1>2, ClaudeMeans DEF PathMeans, rooIgnores
<1>3. CASE v = <<"**">> \o line /\ Len(line) = 1 /\ Head(line) # "."
  <2>1. unrooted(line) = line
    BY <1>3 DEF unrooted
  <2>2. claudeGlob(line) = v
    BY <1>3 DEF claudeGlob, relativePath
  <2> QED
    BY <1>1, <2>1, <2>2 DEF rooIgnores
<1> DEFINE dir == IF Last(p) = "**" THEN Front(p) ELSE p
<1>4. CASE dir # <<>> /\ Plain(dir) /\ IsStrictPrefix(dir, v)
  <2> HIDE DEF p
  <2>1. dir \in Text /\ Len(dir) \in Nat
    <3>1. p # <<>> \/ dir = p \/ dir = Front(<<>>)
      OBVIOUS
    <3>2. CASE p = <<>>
      <4>1. Front(<<>>) = <<>>
        BY DEF Front
      <4> QED
        BY <1>4, <3>2, <4>1
    <3>3. CASE p # <<>>
      BY <1>p, <3>3, FrontText DEF Text
    <3> QED
      BY <3>2, <3>3
  <2>2. IsPrefix(dir, v)
    BY <1>1, <1>4, <2>1, PrefixTrans
  <2>3. Head(v) # "**"
    <3>1. Len(dir) \in Nat \ {0} /\ Head(v) = v[1]
      BY <1>1, <1>4, <2>1, TailText
    <3>2. dir[1] = v[1]
      BY <1>1, <2>1, <2>2, <3>1, PrefixText
    <3>3. dir[1] \notin Wildcards
      BY <1>4, <3>1 DEF Plain
    <3> QED
      BY <3>1, <3>2, <3>3 DEF Wildcards, Stars
  <2>4. starGlob(v, r)
    BY <1>1, <2>3 DEF pathGlob
  <2>5. IsPrefix(dir, r)
    BY <1>1, <1>4, <2>1, <2>2, <2>4, PlainBegins
  <2> QED
    BY <2>5 DEF Under, rooIgnores, p
<1> QED
  BY <1>2, <1>3, <1>4 DEF RooLineFits

\* A path entry CFG025 takes for ignored is refused.
THEOREM RooPathRefused ==
    ASSUME NEW s, s \in Seq(ToSet(s)), \A x \in ToSet(s) : x.arg \in Text,
           NEW v, PathEntry(v), ~ Home(v), NEW R, NEW r \in R, PathRequest(r), PathMeans(v, r),
           RooLines(s, v, R), rooIgnored(s, v)
    PROVE  ~ Home(r) /\ LastEffect(s, rooLines(s, r), "allow") = "deny"
<1> DEFINE I == {i \in DOMAIN s : s[i].tool = ".rooignore" /\ rooIgnoreCovers(s[i].arg, v)}
           J == rooLines(s, r)
<1>1. ~ Home(r)
  BY DEF PathMeans
<1>2. \A i \in DOMAIN s : s[i] \in ToSet(s)
  BY DEF ToSet
<1>3. I \in SUBSET DOMAIN s /\ J \in SUBSET DOMAIN s /\ DOMAIN s \subseteq Nat
  BY DEF rooLines
<1>4. LastEffect(s, I, "allow") = "deny"
  BY DEF rooIgnored
<1>5. I # {}
  BY <1>4 DEF LastEffect
<1>6. \A i \in I : s[i].tool = ".rooignore" /\ rooIgnoreCovers(s[i].arg, v)
  OBVIOUS
<1>7. \A i \in J : s[i].tool = ".rooignore" /\ rooIgnores(s[i].arg, r)
  BY DEF rooLines
<1>8. ASSUME NEW i \in DOMAIN s, s[i].tool = ".rooignore", rooIgnores(s[i].arg, r)
      PROVE  i \in J
  BY <1>8 DEF rooLines
<1>9. \A i \in DOMAIN s : s[i].tool = ".rooignore" /\ rooIgnoreCovers(s[i].arg, v) => i \in I
  OBVIOUS
<1> HIDE DEF I, J
<1>10. PICK m \in I : (\A k \in I : m >= k) /\ s[m].effect = "deny"
  BY <1>3, <1>4, <1>5, LastIs
<1>11. m \in J
  <2>1. s[m] \in ToSet(s) /\ s[m].tool = ".rooignore" /\ rooIgnoreCovers(s[m].arg, v) /\ m \in DOMAIN s
    BY <1>2, <1>3, <1>6, <1>10
  <2>2. RooLineFits(s[m].arg, v) /\ s[m].arg \in Text
    BY <1>10, <2>1 DEF RooLines
  <2> QED
    BY <1>8, <2>1, <2>2, RooLineMatches
<1>12. PICK j \in J : (\A k \in J : j >= k) /\ LastEffect(s, J, "allow") = s[j].effect
  BY <1>3, <1>11, LastIs
<1>13. s[j].effect = "deny"
  <2> SUFFICES ASSUME s[j].effect # "deny" PROVE FALSE
    OBVIOUS
  <2>1. s[j] \in ToSet(s) /\ j \in DOMAIN s /\ s[j].tool = ".rooignore" /\ rooIgnores(s[j].arg, r)
    BY <1>2, <1>3, <1>7, <1>12
  <2>2. rooIgnoreCovers(s[j].arg, v)
    BY <2>1 DEF RooLines
  <2>3. j \in I
    BY <1>9, <2>1, <2>2
  <2>4. m >= j /\ j >= m /\ m \in Nat /\ j \in Nat
    BY <1>3, <1>10, <1>11, <1>12, <2>3
  <2>5. m = j
    BY <2>4
  <2> QED
    BY <1>10, <2>5
<1> QED
  BY <1>1, <1>12, <1>13 DEF J

-----------------------------------------------------------------------------
(* OpenCode and Kilo Code: a request that comes under the same last rule   *)
(* as another gets its effect.                                             *)

\* Rules that decide one request decide another that comes under each of them with
\* this effect, and under no other that the first does not come under.
LEMMA LastStands ==
    ASSUME NEW S, NEW s \in Seq(S), NEW I \in SUBSET DOMAIN s, NEW J \in SUBSET DOMAIN s, NEW x, NEW one, NEW two,
           \A i \in J : s[i].effect # x => i \in I, \A i \in I : s[i].effect = x => i \in J,
           one = x => two = x, LastEffect(s, I, one) = x
    PROVE  LastEffect(s, J, two) = x
<1>1. DOMAIN s \subseteq Nat
  OBVIOUS
<1>2. CASE I = {}
  <2>1. two = x
    BY <1>2 DEF LastEffect
  <2>2. CASE J = {}
    BY <2>1, <2>2 DEF LastEffect
  <2>3. CASE J # {}
    <3>1. PICK j \in J : LastEffect(s, J, two) = s[j].effect
      BY <2>3, LastIs
    <3> QED
      BY <1>2, <3>1
  <2> QED
    BY <2>2, <2>3
<1>3. CASE I # {}
  <2>1. PICK m \in I : (\A k \in I : m >= k) /\ s[m].effect = x
    BY <1>3, LastIs
  <2>2. m \in J
    BY <2>1
  <2>3. PICK j \in J : (\A k \in J : j >= k) /\ LastEffect(s, J, two) = s[j].effect
    BY <2>2, LastIs
  <2>4. ASSUME s[j].effect # x PROVE FALSE
    <3>1. m >= j /\ j >= m /\ m \in Nat /\ j \in Nat
      BY <1>1, <2>1, <2>2, <2>3, <2>4
    <3>2. m = j
      BY <3>1
    <3> QED
      BY <2>1, <2>4, <3>2
  <2> QED
    BY <2>3, <2>4
<1> QED
  BY <1>2, <1>3

\* A rule applies to a request.
ComesUnder(r, q) == starGlob(r.tool, q.action) /\ starGlob(r.arg, q.resource)

\* Request q stands for request p: what has the effect of q on p, and nothing that
\* has another is between them.
StandsFor(s, where, effect, q, p) ==
    \A r \in orderedRules(s, where) :
      /\ r.effect = effect /\ ComesUnder(r, q) => ComesUnder(r, p)
      /\ r.effect # effect /\ ComesUnder(r, p) => ComesUnder(r, q)

\* Then the second request gets this effect if the first does.
LEMMA OrderedStands ==
    ASSUME NEW s, s \in Seq(ToSet(s)), NEW where, NEW x, x # "ask", NEW q, NEW p, StandsFor(s, where, x, q, p),
           orderedEffect(s, where, q) = x
    PROVE  orderedEffect(s, where, p) = x
<1>1. \A i \in DOMAIN s : s[i] \in ToSet(s)
  BY DEF ToSet
<1>2. ASSUME NEW w \in {"", where}
      PROVE  /\ Applying(s, w, q) \in SUBSET DOMAIN s /\ Applying(s, w, p) \in SUBSET DOMAIN s
             /\ \A i \in Applying(s, w, p) : s[i].effect # x => i \in Applying(s, w, q)
             /\ \A i \in Applying(s, w, q) : s[i].effect = x => i \in Applying(s, w, p)
  <2>1. \A i, o : i \in Applying(s, w, o) <=> i \in DOMAIN s /\ s[i].where = w /\ ComesUnder(s[i], o)
    BY DEF Applying, ComesUnder
  <2>2. \A i \in DOMAIN s : s[i].where = w => s[i] \in orderedRules(s, where)
    BY <1>1 DEF orderedRules
  <2> QED
    BY <2>1, <2>2 DEF StandsFor
<1> DEFINE one == LastEffect(s, Applying(s, "", q), "ask")
           two == LastEffect(s, Applying(s, "", p), "ask")
<1>3. ASSUME one = x PROVE two = x
  <2> DEFINE I == Applying(s, "", q)
             J == Applying(s, "", p)
  <2>1. "" \in {"", where}
    OBVIOUS
  <2>2. /\ I \in SUBSET DOMAIN s /\ J \in SUBSET DOMAIN s
        /\ \A i \in J : s[i].effect # x => i \in I
        /\ \A i \in I : s[i].effect = x => i \in J
    BY <1>2, <2>1
  <2>3. LastEffect(s, I, "ask") = x
    BY <1>3
  <2> HIDE DEF I, J
  <2>4. LastEffect(s, J, "ask") = x
    BY <2>2, <2>3, LastStands
  <2> QED
    BY <2>4 DEF J
<1>4. /\ orderedEffect(s, where, q) = LastEffect(s, Applying(s, where, q), one)
      /\ orderedEffect(s, where, p) = LastEffect(s, Applying(s, where, p), two)
  BY DEF orderedEffect
<1> HIDE DEF one, two
<1> DEFINE I == Applying(s, where, q)
           J == Applying(s, where, p)
<1>5. where \in {"", where}
  OBVIOUS
<1>6. /\ I \in SUBSET DOMAIN s /\ J \in SUBSET DOMAIN s
      /\ \A i \in J : s[i].effect # x => i \in I
      /\ \A i \in I : s[i].effect = x => i \in J
  BY <1>2, <1>5
<1>7. LastEffect(s, I, one) = x
  BY <1>4
<1> HIDE DEF I, J
<1>8. LastEffect(s, J, two) = x
  BY <1>3, <1>6, <1>7, LastStands
<1> QED
  BY <1>4, <1>8 DEF J

\* What CFG025 asks for each block when it looks for grants.
Asked(a, s, where, c, v) ==
    orderedProbes(a, c, v) \cup
    {[action |-> <<"bash">>, resource |-> r.arg] :
       r \in {x \in orderedRules(s, where) : c = "commands" /\ x.effect = "allow" /\ starGlob(x.tool, <<"bash">>)
                                             /\ narrowerCommand(x.arg, v)}}

\* If one of them is allowed, CFG025 takes the entry for granted.
LEMMA AskedGranted ==
    ASSUME NEW a, NEW s, NEW where, NEW c, NEW v, NEW q \in Asked(a, s, where, c, v), orderedEffect(s, where, q) = "allow"
    PROVE  orderedGranted(a, s, where, c, v)
<1>1. CASE q \in orderedProbes(a, c, v)
  BY <1>1 DEF orderedGranted
<1>2. CASE q \notin orderedProbes(a, c, v)
  <2>1. PICK r \in orderedRules(s, where) :
          /\ c = "commands" /\ r.effect = "allow" /\ starGlob(r.tool, <<"bash">>) /\ narrowerCommand(r.arg, v)
          /\ q = [action |-> <<"bash">>, resource |-> r.arg]
    BY <1>2 DEF Asked
  <2>2. orderedEffect(s, where, [action |-> <<"bash">>, resource |-> r.arg]) = "allow"
    BY <2>1
  <2> QED
    BY <2>1, <2>2 DEF orderedGranted
<1> QED
  BY <1>1, <1>2

-----------------------------------------------------------------------------
(* The invariant of the team.                                              *)

\* A rule somebody wrote, or one a finding says to write.
FileRule(r) == PermissionRule(agent, r) /\ (agent = "codex" /\ r.tool = "enabled_tools" => r \in scenario.pool)

\* A file is a sequence of rules, and where CFG025 compares their texts they are ones the
\* agent may have.
FileIsRules == file \in Seq(ToSet(file)) /\ (agent \notin Ordered => \A r \in ToSet(file) : FileRule(r))

\* What is reported as missing is in the policy and CFG025 checks it, however old the
\* report is.
MissingIsPolicy ==
    \A f \in report.missing :
      Checks(agent, f.category, f.v) /\ \E e \in DenyFor(TRUE) : f.category = e.category /\ f.v = e.v

\* A report nobody edited after says what a scan would say again.
TeamInvariant ==
    /\ scenario \in Scenarios
    /\ fresh => report = Findings
    /\ FileIsRules
    /\ MissingIsPolicy

\* The policy of a behaviour is always the same one.
LEMMA PolicySame ==
    ASSUME scenario' = scenario
    PROVE  /\ agent' = agent /\ policy' = policy
           /\ DenyFor(TRUE)' = DenyFor(TRUE) /\ DenyFor(FALSE)' = DenyFor(FALSE)
           /\ ForbidFor(TRUE)' = ForbidFor(TRUE) /\ ForbidFor(FALSE)' = ForbidFor(FALSE)
           /\ rulesFor(TRUE)' = rulesFor(TRUE) /\ rulesFor(FALSE)' = rulesFor(FALSE)
<1>1. agent' = agent /\ policy' = policy
  BY DEF agent, policy
<1>2. rulesFor(TRUE)' = rulesFor(TRUE) /\ rulesFor(FALSE)' = rulesFor(FALSE)
  BY <1>1 DEF rulesFor
<1>3. DenyFor(TRUE)' = DenyFor(TRUE) /\ DenyFor(FALSE)' = DenyFor(FALSE)
  BY <1>1, <1>2 DEF DenyFor
<1>4. ForbidFor(TRUE)' = ForbidFor(TRUE) /\ ForbidFor(FALSE)' = ForbidFor(FALSE)
  BY <1>1, <1>2 DEF ForbidFor
<1> QED
  BY <1>1, <1>2, <1>3, <1>4

\* Findings depend on the scenario and the file only.
LEMMA FindingsSame ==
    ASSUME scenario' = scenario, file' = file
    PROVE  Findings' = Findings
<1>1. /\ agent' = agent /\ DenyFor(TRUE)' = DenyFor(TRUE) /\ DenyFor(FALSE)' = DenyFor(FALSE)
      /\ ForbidFor(TRUE)' = ForbidFor(TRUE) /\ ForbidFor(FALSE)' = ForbidFor(FALSE)
      /\ rulesFor(FALSE)' = rulesFor(FALSE)
  BY PolicySame
<1>2. Missing' = Missing
  BY <1>1 DEF Missing
<1>3. Open' = Open
  BY <1>1 DEF Open
<1>4. Unenforced' = Unenforced
  BY <1>1 DEF Unenforced
<1> QED
  BY <1>1, <1>2, <1>3, <1>4 DEF Findings

\* The findings of InEach.
LEMMA InEachIs ==
    ASSUME NEW B, NEW S
    PROVE  /\ \A f \in InEach(B, S) : f.where \in B /\ \E e \in S : f.category = e.category /\ f.v = e.v
           /\ \A e \in S, where \in B : Finding(e, where) \in InEach(B, S)
<1>1. \A e, where : Finding(e, where).category = e.category /\ Finding(e, where).v = e.v /\ Finding(e, where).where = where
  BY DEF Finding
<1>2. \A f \in InEach(B, S) : \E e \in S, where \in B : f = Finding(e, where)
  BY DEF InEach
<1>3. \A e \in S, where \in B : Finding(e, where) \in InEach(B, S)
  BY DEF InEach
<1> QED
  BY <1>1, <1>2, <1>3

\* What is missing is checked and not denied, and the reverse.
LEMMA MissingIs ==
    /\ \A f \in Missing : /\ Checks(agent, f.category, f.v) /\ ~ Denied(agent, file, f.category, f.v, f.where)
                          /\ \E e \in DenyFor(TRUE) : f.category = e.category /\ f.v = e.v
    /\ \A e \in DenyFor(TRUE), where \in Wheres(agent, file) :
         Checks(agent, e.category, e.v) /\ ~ Denied(agent, file, e.category, e.v, where) => Finding(e, where) \in Missing
<1> DEFINE P == InEach(Wheres(agent, file), DenyFor(TRUE))
           D(f) == Checks(agent, f.category, f.v) /\ ~Denied(agent, file, f.category, f.v, f.where)
<1>1. Missing = {f \in P : D(f)}
  BY DEF Missing
<1>2. /\ \A f \in P : \E e \in DenyFor(TRUE) : f.category = e.category /\ f.v = e.v
      /\ \A e \in DenyFor(TRUE), where \in Wheres(agent, file) : Finding(e, where) \in P
  BY InEachIs
<1>3. \A e, where : Checks(agent, e.category, e.v) /\ ~ Denied(agent, file, e.category, e.v, where) => D(Finding(e, where))
  BY DEF Finding
<1> HIDE DEF P
<1>4. ASSUME NEW f \in P, D(f) PROVE Checks(agent, f.category, f.v) /\ ~ Denied(agent, file, f.category, f.v, f.where)
  BY <1>4
<1> HIDE DEF D
<1> QED
  BY <1>1, <1>2, <1>3, <1>4

\* What is granted is reported as open.
LEMMA OpenIs ==
    \A e \in ForbidFor(TRUE), where \in Wheres(agent, file) :
      Granted(agent, file, e.category, e.v, where) => Finding(e, where) \in Open
<1> DEFINE P == InEach(Wheres(agent, file), ForbidFor(TRUE))
           D(f) == Granted(agent, file, f.category, f.v, f.where)
<1>1. Open = {f \in P : D(f)}
  BY DEF Open
<1>2. \A e \in ForbidFor(TRUE), where \in Wheres(agent, file) : Finding(e, where) \in P
  BY InEachIs
<1>3. \A e, where : Granted(agent, file, e.category, e.v, where) => D(Finding(e, where))
  BY DEF Finding
<1> HIDE DEF P, D
<1> QED
  BY <1>1, <1>2, <1>3

\* Without findings nothing is missing.
LEMMA MissingInFindings ==
    ASSUME NEW f \in Findings.missing
    PROVE  Checks(agent, f.category, f.v) /\ \E e \in DenyFor(TRUE) : f.category = e.category /\ f.v = e.v
<1>1. f \in Missing
  BY DEF Findings, Nothing
<1> QED
  BY <1>1, MissingIs

\* The invariant holds at first, and each action keeps it.
LEMMA TeamStarts == ASSUME TeamInit PROVE TeamInvariant
<1>1. file = <<>> /\ ToSet(<<>>) = {}
  BY DEF TeamInit, ToSet
<1>2. report.missing = {}
  BY DEF TeamInit, Nothing
<1> QED
  BY <1>1, <1>2 DEF TeamInit, TeamInvariant, FileIsRules, MissingIsPolicy

\* The rule somebody edits comes from the pool.
LEMMA EditKeeps == ASSUME TeamInvariant, Edit PROVE TeamInvariant'
<1>1. scenario' = scenario /\ report' = report /\ fresh' = FALSE
  BY DEF Edit
<1>2. agent' = agent /\ DenyFor(TRUE)' = DenyFor(TRUE)
  BY <1>1, PolicySame
<1>3. FileIsRules'
  <2> SUFFICES file' \in Seq(ToSet(file')) /\ (agent \notin Ordered => \A r \in ToSet(file') : FileRule(r))
    BY <1>1, <1>2 DEF FileIsRules, FileRule
  <2>1. PICK r \in scenario.pool : file' = Put(file, <<r>>)
    BY DEF Edit
  <2>2. agent \notin Ordered => FileRule(r)
    BY <2>1, PolicyCheckAssumption DEF TeamInvariant, agent, FileRule
  <2>3. <<r>> \in Seq(ToSet(<<r>>)) /\ ToSet(<<r>>) = {r}
    BY OneRule
  <2>4. file \in Seq(ToSet(file)) /\ (agent \notin Ordered => \A x \in ToSet(file) : FileRule(x))
    BY DEF TeamInvariant, FileIsRules
  <2>5. file' \in Seq(ToSet(file')) /\ ToSet(file') \subseteq ToSet(file) \cup ToSet(<<r>>)
    BY <2>1, <2>3, <2>4, PutRules
  <2> QED
    BY <2>2, <2>3, <2>4, <2>5
<1>4. MissingIsPolicy'
  BY <1>1, <1>2 DEF TeamInvariant, MissingIsPolicy
<1> QED
  BY <1>1, <1>3, <1>4 DEF TeamInvariant

\* A scan leaves the file as it is.
LEMMA ScanKeeps == ASSUME TeamInvariant, Scan PROVE TeamInvariant'
<1>1. scenario' = scenario /\ file' = file /\ report' = Findings
  BY DEF Scan
<1>2. agent' = agent /\ DenyFor(TRUE)' = DenyFor(TRUE) /\ Findings' = Findings
  BY <1>1, PolicySame, FindingsSame
<1>3. FileIsRules'
  BY <1>1, <1>2 DEF TeamInvariant, FileIsRules, FileRule
<1>4. MissingIsPolicy'
  BY <1>1, <1>2, MissingInFindings DEF MissingIsPolicy
<1> QED
  BY <1>1, <1>2, <1>3, <1>4 DEF TeamInvariant

\* The rules a finding names are rules the file may have.
LEMMA FollowKeeps == ASSUME TeamInvariant, NEW f \in report.missing, Follow(f) PROVE TeamInvariant'
<1> DEFINE gone == {r \in ToSet(file) : InTheWay(agent, f.category, f.v, r) \/ (report.discarded /\ r.tool = "type mismatch")}
           left == Without(file, gone)
           new  == Advice(agent, file, f.category, f.v, f.where)
<1>1. scenario' = scenario /\ report' = [report EXCEPT !.missing = @ \ {f}] /\ fresh' = FALSE /\ file' = Put(left, new)
  BY DEF Follow
<1>2. agent' = agent /\ DenyFor(TRUE)' = DenyFor(TRUE)
  BY <1>1, PolicySame
<1> HIDE DEF gone
<1>3. FileIsRules'
  <2> SUFFICES file' \in Seq(ToSet(file')) /\ (agent \notin Ordered => \A r \in ToSet(file') : FileRule(r))
    BY <1>1, <1>2 DEF FileIsRules, FileRule
  <2>1. Checks(agent, f.category, f.v) /\ f.category \in Categories /\ NeutralText(f.category, f.v)
    BY EntriesAreNeutral DEF TeamInvariant, MissingIsPolicy, NeutralEntry
  <2>2. new \in Seq(ToSet(new)) /\ (agent \notin Ordered => \A r \in ToSet(new) : FileRule(r))
    BY <2>1, AdviceRules DEF AdviceRule, FileRule
  <2>3. file \in Seq(ToSet(file)) /\ (agent \notin Ordered => \A x \in ToSet(file) : FileRule(x))
    BY DEF TeamInvariant, FileIsRules
  <2>4. left \in Seq(ToSet(left)) /\ ToSet(left) \subseteq ToSet(file)
    BY <2>3, WithoutRules
  <2> HIDE DEF left, new
  <2>5. file' \in Seq(ToSet(file')) /\ ToSet(file') \subseteq ToSet(left) \cup ToSet(new)
    BY <1>1, <2>2, <2>4, PutRules
  <2> QED
    BY <2>2, <2>3, <2>4, <2>5
<1>4. MissingIsPolicy'
  <2>1. report'.missing \subseteq report.missing
    BY <1>1
  <2> QED
    BY <1>2, <2>1 DEF TeamInvariant, MissingIsPolicy
<1> QED
  BY <1>1, <1>3, <1>4 DEF TeamInvariant

\* The rules of the file stay rules, a fresh report is what Findings says of the file, and
\* what is reported as missing stays in the policy: nobody edits it (attachPolicy).
THEOREM TeamIsInvariant == TeamSpec => []TeamInvariant
<1>1. TeamInit => TeamInvariant
  BY TeamStarts
<1>2. TeamInvariant /\ [TeamNext]_teamVars => TeamInvariant'
  <2> SUFFICES ASSUME TeamInvariant, [TeamNext]_teamVars PROVE TeamInvariant'
    OBVIOUS
  <2>1. CASE Edit
    BY <2>1, EditKeeps
  <2>2. CASE Scan
    BY <2>2, ScanKeeps
  <2>3. CASE FollowAdvice
    BY <2>3, FollowKeeps DEF FollowAdvice
  <2>4. CASE UNCHANGED teamVars
    <3>1. scenario' = scenario /\ file' = file /\ report' = report /\ fresh' = fresh
      BY <2>4 DEF teamVars
    <3>2. agent' = agent /\ DenyFor(TRUE)' = DenyFor(TRUE) /\ Findings' = Findings
      BY <3>1, PolicySame, FindingsSame
    <3> QED
      BY <3>1, <3>2 DEF TeamInvariant, FileIsRules, FileRule, MissingIsPolicy
  <2> QED
    BY <2>1, <2>2, <2>3, <2>4 DEF TeamNext
<1> QED
  BY <1>1, <1>2, PTL DEF TeamSpec

-----------------------------------------------------------------------------
(* What CFG025 takes for denied is refused, and no deny entry goes         *)
(* unanswered.                                                             *)

\* What comparing patterns cannot settle for Codex: a path in the home directory
\* with a wildcard before its end, and an MCP entry for more than one tool.
CodexEntry(c, v) ==
    /\ c \in {"read", "write"} /\ Home(v) => Plain(IF Last(v) = "**" THEN Front(v) ELSE v)
    /\ c = "mcp-tools" => Last(v) # "*"

\* What such a path starts with, each request under it does.
LEMMA HomePrefix ==
    ASSUME NEW v, PathEntry(v), NEW r, PathRequest(r), Home(v), PathMeans(v, r), CodexEntry("read", v)
    PROVE  LET dir == IF Last(v) = "**" THEN Front(v) ELSE v
           IN  dir \in Text /\ IsPrefix(dir, r) /\ \A p \in Text : IsStrictPrefix(p, v) => IsPrefix(p, r)
<1>1. v \in Text /\ v # <<>> /\ r \in Text /\ starGlob(v, r)
  BY DEF PathEntry, PathRequest, PathMeans, pathGlob, Home
<1>2. CASE Last(v) = "**"
  <2>1. Front(v) \in Text /\ Plain(Front(v)) /\ v = Front(v) \o <<"**">>
    BY <1>1, <1>2, FrontPrefix DEF CodexEntry
  <2>2. IsStrictPrefix(Front(v), r)
    BY <1>1, <2>1, GlobOpen DEF Stars
  <2>3. IsPrefix(Front(v), r)
    BY <1>1, <2>1, <2>2, PrefixTrans
  <2>4. \A p \in Text : IsStrictPrefix(p, v) => IsPrefix(p, r)
    BY <1>1, <2>1, <2>3, FrontPrefix, PrefixTrans
  <2> QED
    BY <1>2, <2>1, <2>3, <2>4
<1>3. CASE Last(v) # "**"
  <2>1. v = r
    BY <1>1, <1>3, GlobPlain DEF CodexEntry
  <2> QED
    BY <1>1, <1>3, <2>1, PrefixTrans
<1> QED
  BY <1>2, <1>3

\* codexPathDenied is right about the requests the entry stands for.
LEMMA CodexPathRefused ==
    ASSUME NEW s, \A x \in ToSet(s) : PermissionRule("codex", x) /\ (x.tool = "workspace" => ~ Home(x.arg)),
           NEW c \in {"read", "write"}, NEW v, PathEntry(v), CodexEntry(c, v), NEW r, PathRequest(r), PathMeans(v, r),
           codexPathDenied(s, c, v)
    PROVE  CodexRefuses(s, c, r)
<1>1. v \in Text /\ v # <<>> /\ r \in Text /\ (Home(v) <=> Home(r))
  BY DEF PathEntry, PathRequest, PathMeans
<1>2. PICK x \in ToSet(s) :
         /\ x.effect \in codexBlocks(c)
         /\ \/ x.tool = "filesystem" /\ x.arg = <<":root">>
            \/ /\ x.tool = "filesystem" /\ Home(v)
               /\ x.arg = v \/ IsStrictPrefix(IF Last(x.arg) = "**" THEN Front(x.arg) ELSE x.arg, v)
            \/ x.tool = "filesystem" /\ ~Home(v) /\ x.arg = <<":workspace_roots">>
            \/ x.tool = "workspace" /\ globCovers(x.arg, v)
  BY DEF codexPathDenied
<1>3. ProfileSelected(s)
  BY DEF codexPathDenied
<1>4. CodexRefuses(s, c, r) <=>
        ProfileSelected(s) /\ \E y \in ToSet(s) :
             /\ y.effect \in codexBlocks(c)
             /\ \/ y.tool = "filesystem" /\ (y.arg = <<":root">> \/ (Home(r) /\ Under(y.arg, r)))
                \/ y.tool = "filesystem" /\ ~Home(r) /\ y.arg = <<":workspace_roots">>
                \/ y.tool = "workspace" /\ ~Home(r) /\ pathGlob(y.arg, r)
  BY DEF CodexRefuses
<1>5. ASSUME x.tool = "filesystem", Home(v),
             x.arg = v \/ IsStrictPrefix(IF Last(x.arg) = "**" THEN Front(x.arg) ELSE x.arg, v)
      PROVE  Under(x.arg, r)
  <2> DEFINE dir == IF Last(x.arg) = "**" THEN Front(x.arg) ELSE x.arg
  <2>1. x.arg \in Text /\ x.arg # <<>>
    BY <1>5 DEF PermissionRule
  <2>2. dir \in Text
    BY <2>1, FrontText
  <2>3. CodexEntry("read", v)
    BY DEF CodexEntry
  <2>4. IsPrefix(dir, r)
    <3>1. CASE x.arg = v
      BY <1>5, <2>3, <3>1, HomePrefix
    <3>2. CASE IsStrictPrefix(dir, v)
      BY <1>5, <2>2, <2>3, <3>2, HomePrefix
    <3> QED
      BY <1>5, <3>1, <3>2
  <2> QED
    BY <2>4 DEF Under
<1>6. ASSUME x.tool = "workspace", globCovers(x.arg, v)
      PROVE  ~ Home(r) /\ pathGlob(x.arg, r)
  <2>1. x.arg \in Text /\ ~ Home(x.arg)
    BY <1>6 DEF PermissionRule
  <2>2. PathMeans(x.arg, r)
    BY <1>6, <2>1, PathSound
  <2> QED
    BY <2>1, <2>2 DEF PathMeans
<1> QED
  BY <1>1, <1>2, <1>3, <1>4, <1>5, <1>6

\* So is codexDenied about all categories.
THEOREM CodexRefused ==
    ASSUME NEW s, \A x \in ToSet(s) : PermissionRule("codex", x) /\ (x.tool = "workspace" => ~ Home(x.arg)),
           NEW c \in Categories, NEW v, NeutralText(c, v), CodexEntry(c, v), NEW r, PlainEntry(r),
           c \in {"read", "write"} => PathRequest(r), c = "mcp-tools" => Len(r) > 1, Means(c, v, r), codexDenied(s, c, v)
    PROVE  CodexRefuses(s, c, r)
<1>1. v \in Text /\ v # <<>> /\ r \in Text /\ r # <<>>
  BY NeutralIsText DEF PlainEntry
<1>2. CASE c = "commands"
  <2>1. PICK p \in Args(s, "prefix_rule", "forbidden") : IsPrefix(p, v)
    BY <1>2 DEF codexDenied, codexForbidden
  <2>2. p \in Text
    BY DEF Args, PermissionRule
  <2>3. IsPrefix(p, r)
    BY <1>1, <1>2, <2>1, <2>2, PrefixTrans DEF Means
  <2> QED
    BY <1>2, <2>1, <2>3 DEF CodexRefuses
<1>3. CASE c \in {"read", "write"}
  <2>1. codexPathDenied(s, c, v)
    BY <1>3 DEF codexDenied
  <2>2. PathEntry(v) /\ PathMeans(v, r)
    BY <1>3 DEF NeutralText, Means, PathMeans
  <2> QED
    BY <1>3, <2>1, <2>2, CodexPathRefused
<1>4. CASE c = "fetch"
  <2>1. DomainEntry(v)
    BY <1>4 DEF NeutralText
  <2>2. IsSuffix(Domain(v), r) /\ (Head(v) = "*" => IsStrictSuffix(Tail(v), r)) /\ Domain(v) \in Text
    BY <1>1, <1>4, <2>1, DomainEnds, DomainText
  <2>3. r = v \/ Head(v) = "*"
    BY <1>4 DEF Means
  <2>4. PICK x \in ToSet(s) : \/ x.tool = "network" /\ x.effect = "off"
                              \/ x.tool = "domains" /\ x.effect = "deny" /\ domainCovers(x.arg, v)
    BY <1>4 DEF codexDenied, codexFetchDenied
  <2>5. ProfileSelected(s)
    BY <1>4 DEF codexDenied, codexFetchDenied
  <2>6. ASSUME domainCovers(x.arg, v)
        PROVE  x.arg \in {r, <<"*">>} \/ (Head(x.arg) = "*" /\ IsStrictSuffix(Tail(x.arg), r))
    <3>1. CASE x.arg \in {v, <<"*">>}
      BY <2>2, <2>3, <3>1
    <3>2. CASE Len(x.arg) > 1 /\ Head(x.arg) = "*" /\ IsStrictSuffix(Tail(x.arg), Domain(v))
      <4>1. x.arg \in Text
        BY DEF PermissionRule
      <4>2. x.arg # <<>>
        BY <3>2
      <4>3. Tail(x.arg) \in Text
        BY <4>1, <4>2, TailText
      <4> QED
        BY <1>1, <2>2, <3>2, <4>3, SuffixTrans
    <3> QED
      BY <2>6, <3>1, <3>2 DEF domainCovers
  <2> QED
    BY <1>4, <2>4, <2>5, <2>6 DEF CodexRefuses
<1>5. CASE c = "mcp-tools"
  <2>1. v = r
    BY <1>5, McpMeans DEF NeutralText, CodexEntry
  <2>2. codexMCPDenied(s, v) /\ Last(v) # "*"
    BY <1>5 DEF codexDenied, CodexEntry
  <2>3. \A n : toolMatch(n, v) <=> n = v
    BY <2>2 DEF toolMatch
  <2> DEFINE enabled == {n \in Args(s, "enabled_tools", "on") : Head(n) = Head(v)}
  <2>4. \/ ~Configured(s, v)
        \/ enabled # {} /\ v \notin enabled
        \/ Has(s, "disabled_tools", v, {"deny"})
    BY <2>2, <2>3 DEF codexMCPDenied
  <2> QED
    BY <1>5, <2>1, <2>4 DEF CodexRefuses
<1> QED
  BY <1>2, <1>3, <1>4, <1>5 DEF Categories

\* What CFG025 takes for denied, the agent refuses.
LEMMA ListRefused ==
    ASSUME NEW a \in ListAgents, NEW s, \A x \in ToSet(s) : PermissionRule(a, x),
           NEW c \in Categories, NEW v, NeutralText(c, v), NEW r, PlainEntry(r),
           c \in {"read", "write"} => PathRequest(r), c = "mcp-tools" => Len(r) > 1, Means(c, v, r), listDenied(a, s, c, v)
    PROVE  ListEffect(a, s, c, r) = "deny"
<1>1. PICK e \in ListEntries(a, s, "deny") : Covers(a, c, e, v)
  BY DEF listDenied
<1>2. PermissionRule(a, e)
  BY DEF ListEntries
<1>3. Matches(a, c, e, r)
  <2>1. CASE c = "commands"
    BY <1>1, <1>2, <2>1, CommandsCovered DEF NeutralText
  <2>2. CASE c \in {"read", "write"}
    BY <1>1, <1>2, <2>2, PathsCovered DEF NeutralText
  <2>3. CASE c = "fetch"
    BY <1>1, <1>2, <2>3, FetchCovered DEF NeutralText
  <2>4. CASE c = "mcp-tools"
    BY <1>1, <1>2, <2>4, McpCovered DEF NeutralText
  <2> QED
    BY <2>1, <2>2, <2>3, <2>4 DEF Categories
<1> QED
  BY <1>3 DEF ListEffect

\* The same for Roo Code: commands with no exception but the one the check tries,
\* paths with the lines above, and MCP entries for one tool.
RooEntry(s, c, v, R) ==
    /\ c = "commands" => RooPrefixes(s, v)
    /\ c \in {"read", "write"} /\ ~ Home(v) => RooLines(s, v, R)
    /\ c = "mcp-tools" => Last(v) # "*"

\* Then what CFG025 takes for denied, Roo Code refuses.
LEMMA RooRefused ==
    ASSUME NEW s, s \in Seq(ToSet(s)), \A x \in ToSet(s) : x.arg \in Text,
           NEW c \in Categories, NEW v, NeutralText(c, v), rooChecks(c, v), NEW R, NEW r \in R, RooEntry(s, c, v, R), PlainEntry(r),
           c \in {"read", "write"} => PathRequest(r), c = "mcp-tools" => Len(r) > 1, Means(c, v, r), rooPolicyDenied(s, c, v)
    PROVE  RooRefuses(s, c, r)
<1>1. CASE c = "commands"
  <2>1. PlainEntry(v) /\ IsPrefix(v, r) /\ r \in Text /\ rooCommandCovered(s, v) /\ RooPrefixes(s, v)
    BY <1>1 DEF NeutralText, Means, PlainEntry, rooPolicyDenied, RooEntry
  <2>2. rooDenied(s, r)
    BY <2>1, RooCommandRefused
  <2> QED
    BY <1>1, <2>2 DEF RooRefuses
<1>2. CASE c \in {"read", "write"}
  <2>1. ~ Home(v)
    BY <1>2 DEF rooChecks
  <2>2. rooIgnored(s, v) /\ RooLines(s, v, R)
    BY <1>2, <2>1 DEF rooPolicyDenied, RooEntry
  <2>3. PathEntry(v) /\ PathRequest(r) /\ PathMeans(v, r)
    BY <1>2 DEF NeutralText, Means, PathMeans
  <2>4. ~ Home(r) /\ LastEffect(s, rooLines(s, r), "allow") = "deny"
    BY <2>1, <2>2, <2>3, RooPathRefused
  <2> QED
    BY <1>2, <2>4 DEF RooRefuses
<1>3. CASE c = "mcp-tools"
  <2>1. v = r
    BY <1>3, McpMeans DEF NeutralText, RooEntry
  <2>2. rooMCPDenied(s, v)
    BY <1>3 DEF rooPolicyDenied
  <2> QED
    BY <1>3, <2>1, <2>2 DEF RooRefuses
<1> QED
  BY <1>1, <1>2, <1>3 DEF Categories, rooChecks

\* And for OpenCode and Kilo Code: each request has a probe that stands for it.
ProbesStand(a, s, c, v, R) ==
    \A where \in Blocks(s), r \in R : \E q \in orderedProbes(a, c, v) : StandsFor(s, where, "deny", q, OrderedRequest(a, c, r))

\* The effects a request has in the blocks an agent may run with.
LEMMA BlockEffects ==
    ASSUME NEW a, NEW s, NEW c, NEW r
    PROVE  /\ \A x : (\A where \in Blocks(s) : orderedEffect(s, where, OrderedRequest(a, c, r)) = x) =>
                        OrderedEffects(a, s, c, r) = {x}
           /\ \A x \in OrderedEffects(a, s, c, r) : \E where \in Blocks(s) : orderedEffect(s, where, OrderedRequest(a, c, r)) = x
<1>1. "" \in Blocks(s)
  BY DEF Blocks
<1> QED
  BY <1>1 DEF OrderedEffects

\* Then what CFG025 takes for denied in each block, no block allows.
LEMMA OrderedRefused ==
    ASSUME NEW a, NEW s, s \in Seq(ToSet(s)), NEW c, NEW v, NEW R, NEW r \in R, ProbesStand(a, s, c, v, R),
           \A where \in Blocks(s) : orderedDenied(a, s, where, c, v)
    PROVE  OrderedEffects(a, s, c, r) = {"deny"}
<1> DEFINE p == OrderedRequest(a, c, r)
<1>1. ASSUME NEW where \in Blocks(s) PROVE orderedEffect(s, where, p) = "deny"
  <2>1. PICK q \in orderedProbes(a, c, v) : StandsFor(s, where, "deny", q, p)
    BY DEF ProbesStand
  <2>2. orderedEffect(s, where, q) = "deny"
    BY DEF orderedDenied
  <2> HIDE DEF p
  <2> QED
    BY <2>1, <2>2, OrderedStands
<1> QED
  BY <1>1, BlockEffects

\* What is reported for every agent is what the shared policy says (main.go goes
\* through the agents only when it has entries, and names its categories): the
\* blocks of an agent add nothing that no shared entry is like.
SharedSaysSo ==
    LET unread(own) == {r \in rulesFor(own) : r.action = "deny" /\ ~HasNeutralForm(r)}
    IN  /\ {d.category : d \in DenyFor(TRUE)} \cap Unenforced \subseteq {d.category : d \in DenyFor(FALSE)}
        /\ unread(TRUE) \subseteq rulesFor(FALSE)
        /\ DenyFor(FALSE) = {} /\ ForbidFor(FALSE) = {} => DenyFor(TRUE) = {} /\ unread(TRUE) = {}

\* The policies and files for which the theorem below is stated: what CFG025 tries for an
\* entry stands for the requests the entry stands for.
Answerable ==
    /\ SharedSaysSo
    /\ \A e \in DenyFor(TRUE) :
         /\ agent \in {"codex", "antigravity"} => CodexEntry(e.category, e.v)
         /\ agent = "roo-code" => RooEntry(file, e.category, e.v, Requests(e))
         /\ agent \in Ordered => ProbesStand(agent, file, e.category, e.v, Requests(e))
    /\ agent = "codex" => \A x \in ToSet(file) : x.tool = "workspace" => ~ Home(x.arg)

\* What is known of a request that is tried.
LEMMA RequestOf ==
    ASSUME NEW e, NeutralEntry(e), NEW r \in Requests(e)
    PROVE  /\ PlainEntry(r) /\ Means(e.category, e.v, r)
           /\ e.category \in {"read", "write"} => PathRequest(r)
           /\ e.category = "mcp-tools" => Len(r) > 1
BY PolicyCheckAssumption DEF Requests, NeutralEntry

\* What CFG025 takes for denied, the agent refuses.
LEMMA DeniedIsRefused ==
    ASSUME TeamInvariant, Answerable, NEW e \in DenyFor(TRUE), Checks(agent, e.category, e.v),
           \A where \in Wheres(agent, file) : Denied(agent, file, e.category, e.v, where), NEW r \in Requests(e)
    PROVE  Refuses(agent, file, e.category, r)
<1> DEFINE c == e.category
           v == e.v
<1>1. NeutralEntry(e)
  BY EntriesAreNeutral DEF TeamInvariant
<1>2. /\ PlainEntry(r) /\ Means(c, v, r) /\ (c \in {"read", "write"} => PathRequest(r)) /\ (c = "mcp-tools" => Len(r) > 1)
      /\ c \in Categories /\ NeutralText(c, v)
  BY <1>1, RequestOf DEF NeutralEntry
<1>3. agent \in Ordered \cup Checked /\ (agent = "antigravity" => c = "mcp-tools")
  BY CheckedAgents DEF Ordered
<1>4. file \in Seq(ToSet(file)) /\ (agent \notin Ordered => \A x \in ToSet(file) : PermissionRule(agent, x) /\ x.arg \in Text)
  BY DEF TeamInvariant, FileIsRules, FileRule, PermissionRule
<1>5. /\ agent \in {"codex", "antigravity"} => CodexEntry(c, v)
      /\ agent = "roo-code" => RooEntry(file, c, v, Requests(e))
      /\ agent \in Ordered => ProbesStand(agent, file, c, v, Requests(e))
  BY DEF Answerable
<1>6. agent = "codex" => \A x \in ToSet(file) : x.tool = "workspace" => ~ Home(x.arg)
  BY DEF Answerable
<1>7. /\ agent \notin Ordered => Denied(agent, file, c, v, "")
      /\ agent \in Ordered => \A where \in Blocks(file) : Denied(agent, file, c, v, where)
      /\ Checks(agent, c, v)
  BY DEF Wheres
<1> HIDE DEF c, v
<1>8. CASE agent \in ListAgents
  <2>1. listDenied(agent, file, c, v)
    BY <1>7, <1>8 DEF Denied, ListAgents, Ordered
  <2>2. \A x \in ToSet(file) : PermissionRule(agent, x)
    BY <1>4, <1>8 DEF ListAgents, Ordered
  <2>3. ListEffect(agent, file, c, r) = "deny"
    BY <1>2, <1>8, <2>1, <2>2, ListRefused
  <2>4. Refuses(agent, file, c, r)
    BY <1>8, <2>3 DEF Refuses, ListAgents, Ordered
  <2> QED
    BY <2>4 DEF c
<1>9. CASE agent = "codex"
  <2>1. codexDenied(file, c, v)
    BY <1>7, <1>9 DEF Denied, ListAgents, Ordered
  <2>2. \A x \in ToSet(file) : PermissionRule(agent, x)
    BY <1>4, <1>9 DEF Ordered
  <2>3. CodexRefuses(file, c, r)
    BY <1>2, <1>5, <1>6, <1>9, <2>1, <2>2, CodexRefused
  <2>4. Refuses(agent, file, c, r)
    BY <1>9, <2>3 DEF Refuses, ListAgents, Ordered
  <2> QED
    BY <2>4 DEF c
<1>10. CASE agent = "antigravity"
  <2>1. rooMCPDenied(file, v)
    BY <1>7, <1>10 DEF Denied, ListAgents, Ordered
  <2>2. v = r /\ c = "mcp-tools"
    BY <1>2, <1>3, <1>5, <1>10, McpMeans DEF CodexEntry, NeutralText
  <2>3. Refuses(agent, file, c, r)
    BY <1>10, <2>1, <2>2 DEF Refuses, ListAgents, Ordered
  <2> QED
    BY <2>3 DEF c
<1>11. CASE agent = "roo-code"
  <2>1. rooPolicyDenied(file, c, v) /\ rooChecks(c, v)
    BY <1>7, <1>11 DEF Denied, Checks, ListAgents, Ordered
  <2>2. \A x \in ToSet(file) : x.arg \in Text
    BY <1>4, <1>11 DEF Ordered
  <2>3. RooRefuses(file, c, r)
    BY <1>2, <1>4, <1>5, <1>11, <2>1, <2>2, RooRefused
  <2>4. Refuses(agent, file, c, r)
    BY <1>11, <2>3 DEF Refuses, ListAgents, Ordered
  <2> QED
    BY <2>4 DEF c
<1>12. CASE agent \in Ordered
  <2>1. \A where \in Blocks(file) : orderedDenied(agent, file, where, c, v)
    BY <1>7, <1>12 DEF Denied, ListAgents, Ordered
  <2>2. OrderedEffects(agent, file, c, r) = {"deny"}
    BY <1>4, <1>5, <1>12, <2>1, OrderedRefused
  <2>3. Refuses(agent, file, c, r)
    BY <1>12, <2>2 DEF Refuses, ListAgents, Ordered
  <2> QED
    BY <2>3 DEF c
<1> QED
  BY <1>3, <1>8, <1>9, <1>10, <1>11, <1>12 DEF Checked

\* A category that is reported as one no file can carry, or carried by the file.
LEMMA UncheckedIsAnswered ==
    ASSUME TeamInvariant, Answerable, NEW e \in DenyFor(TRUE), ~ Checks(agent, e.category, e.v),
           e.category \notin Unenforced, NEW r \in Requests(e)
    PROVE  Refuses(agent, file, e.category, r)
<1> DEFINE c == e.category
           v == e.v
<1>1. NeutralEntry(e)
  BY EntriesAreNeutral DEF TeamInvariant
<1>2. PlainEntry(r) /\ Means(c, v, r) /\ (c = "mcp-tools" => Len(r) > 1) /\ c \in Categories /\ NeutralText(c, v)
  BY <1>1, RequestOf DEF NeutralEntry
<1>3. file \in Seq(ToSet(file))
  BY DEF TeamInvariant, FileIsRules
<1>4. ~ Checks(agent, c, v) /\ c \notin Unenforced
  OBVIOUS
<1>5. agent \in {"gemini-cli", "pi"} \/ (agent = "opencode" /\ c = "fetch" /\ OrderedDeniesFetch(file))
  <2>1. CASE agent = "cursor-cli"
    <3>1. c = "fetch"
      BY <1>4, <2>1 DEF Checks
    <3> QED
      BY <1>4, <2>1, <3>1 DEF Unenforced
  <2>2. CASE agent = "antigravity"
    <3>1. c # "mcp-tools"
      BY <1>4, <2>2 DEF Checks
    <3> QED
      BY <1>2, <1>4, <2>2, <3>1 DEF Unenforced
  <2>3. CASE agent \in {"claude-code", "devin", "qwen-code", "grok", "codex", "kilo-code"}
    BY <1>4, <2>3 DEF Checks
  <2>4. CASE agent = "roo-code"
    <3>1. ~ rooChecks(c, v)
      BY <1>4, <2>4 DEF Checks
    <3>2. c = "fetch" \/ (c \in {"read", "write"} /\ Home(v))
      BY <1>2, <3>1 DEF rooChecks, Categories
    <3>3. c \in rooUnenforced(DenyFor(TRUE))
      BY <3>2 DEF rooUnenforced
    <3> QED
      BY <1>4, <2>4, <3>3 DEF Unenforced
  <2>5. CASE agent = "opencode"
    <3>1. c = "fetch"
      BY <1>4, <2>5 DEF Checks
    <3>2. OrderedDeniesFetch(file)
      BY <1>4, <2>5, <3>1 DEF Unenforced
    <3> QED
      BY <2>5, <3>1, <3>2
  <2>6. CASE agent \notin {"cursor-cli", "antigravity", "claude-code", "devin", "qwen-code", "grok", "codex", "gemini-cli", "pi",
                           "kilo-code", "roo-code", "opencode"}
    <3>1. Unenforced = Categories
      BY <2>6 DEF Unenforced
    <3> QED
      BY <1>2, <1>4, <3>1
  <2> QED
    BY <2>1, <2>2, <2>3, <2>4, <2>5, <2>6
<1>6. CASE agent = "gemini-cli"
  <2>1. c \in geminiToolsOff(file, DenyFor(TRUE))
    BY <1>2, <1>4, <1>6 DEF Unenforced
  <2>2. CASE c = "mcp-tools"
    <3>1. Head(v) = Head(r)
      BY <1>2, <2>2, McpMeans DEF NeutralText
    <3> DEFINE excluded == Args(file, "mcp.excluded", "deny")
               servers  == {<<Head(d.v)>> : d \in {x \in DenyFor(TRUE) : x.category = "mcp-tools"}}
    <3>2. c \notin DOMAIN geminiTools
      BY <2>2 DEF geminiTools
    <3>3. servers \subseteq excluded \/ <<"*">> \in excluded
      BY <2>1, <3>2 DEF geminiToolsOff
    <3>4. <<Head(v)>> \in servers
      BY <2>2
    <3>5. <<Head(r)>> \in excluded \/ <<"*">> \in excluded
      BY <3>1, <3>3, <3>4
    <3>6. \A s : s \in excluded => Has(file, "mcp.excluded", s, {"deny"})
      BY DEF Args, Has
    <3>7. GeminiRefuses(file, c, r)
      BY <2>2, <3>5, <3>6 DEF GeminiRefuses
    <3>8. Refuses(agent, file, c, r)
      BY <1>6, <3>7 DEF Refuses, ListAgents, Ordered
    <3> QED
      BY <3>8
  <2>3. CASE c # "mcp-tools"
    <3>1. \A tool \in geminiTools[c] : geminiOff(file, tool)
      BY <2>1, <2>3 DEF geminiToolsOff
    <3>2. GeminiRefuses(file, c, r)
      BY <2>3, <3>1 DEF GeminiRefuses
    <3>3. Refuses(agent, file, c, r)
      BY <1>6, <3>2 DEF Refuses, ListAgents, Ordered
    <3> QED
      BY <3>3
  <2> QED
    BY <2>2, <2>3
<1>7. CASE agent = "pi"
  <2>1. c \in piToolsOff(file)
    BY <1>2, <1>4, <1>7 DEF Unenforced
  <2>2. PiRefuses(file, c)
    BY <2>1 DEF piToolsOff, PiRefuses
  <2>3. Refuses(agent, file, c, r)
    BY <1>7, <2>2 DEF Refuses, ListAgents, Ordered
  <2> QED
    BY <2>3
<1>8. CASE agent = "opencode" /\ c = "fetch" /\ OrderedDeniesFetch(file)
  <2>1. \A x, y \in {<<"webfetch">>, <<"*">>} : [action |-> x, resource |-> y] \in Requested(x, {y})
    BY DEF Requested
  <2> DEFINE q == [action |-> <<"webfetch">>, resource |-> <<"*">>]
  <2>2. OrderedRequest(agent, c, r) = q
    BY <1>8 DEF OrderedRequest
  <2>3. q \in orderedProbes("opencode", "fetch", <<"*">>)
    BY <2>1 DEF orderedProbes
  <2> HIDE DEF q
  <2>4. \A where \in Blocks(file) : orderedEffect(file, where, q) = "deny"
    BY <1>8, <2>3 DEF OrderedDeniesFetch, orderedDenied
  <2>5. OrderedEffects(agent, file, c, r) = {"deny"}
    BY <2>2, <2>4, BlockEffects
  <2>6. Refuses(agent, file, c, r)
    BY <1>8, <2>5 DEF Refuses, ListAgents, Ordered
  <2> QED
    BY <2>6
<1> QED
  BY <1>5, <1>6, <1>7, <1>8

\* The two ways to be answered, together.
LEMMA Answered ==
    ASSUME TeamInvariant, Answerable
    PROVE  EveryDenyAnswered
<1> SUFFICES ASSUME fresh PROVE EveryDenyAnswered
  BY DEF EveryDenyAnswered
<1>1. report = Findings /\ SharedSaysSo
  BY DEF TeamInvariant, Answerable
<1>3. ASSUME NEW e \in DenyFor(TRUE)
      PROVE  \/ \E f \in report.missing : f.category = e.category /\ f.v = e.v
             \/ e.category \in report.unenforced
             \/ \A r \in Requests(e) : Refuses(agent, file, e.category, r)
  <2>1. /\ report.missing = Missing
        /\ report.unenforced = {d.category : d \in DenyFor(FALSE)} \cap Unenforced
    BY <1>1 DEF SharedSaysSo, Findings
  <2>2. CASE Checks(agent, e.category, e.v)
    <3>1. CASE \A where \in Wheres(agent, file) : Denied(agent, file, e.category, e.v, where)
      BY <2>2, <3>1, DeniedIsRefused
    <3>2. CASE ~ \A where \in Wheres(agent, file) : Denied(agent, file, e.category, e.v, where)
      <4> PICK where \in Wheres(agent, file) : ~ Denied(agent, file, e.category, e.v, where)
        BY <3>2
      <4>1. Finding(e, where) \in Missing
        BY <2>2, MissingIs
      <4>2. Finding(e, where).category = e.category /\ Finding(e, where).v = e.v
        BY DEF Finding
      <4> QED
        BY <2>1, <4>1, <4>2
    <3> QED
      BY <3>1, <3>2
  <2>3. CASE ~ Checks(agent, e.category, e.v)
    <3>1. CASE e.category \in Unenforced
      BY <1>1, <2>1, <3>1 DEF SharedSaysSo
    <3>2. CASE e.category \notin Unenforced
      BY <2>3, <3>2, UncheckedIsAnswered
    <3> QED
      BY <3>1, <3>2
  <2> QED
    BY <2>2, <2>3
<1>4. ASSUME NEW r \in rulesFor(TRUE), r.action = "deny", ~HasNeutralForm(r)
      PROVE  r \in report.skipped
  <2>1. r \in rulesFor(FALSE)
    BY <1>1, <1>4 DEF SharedSaysSo
  <2>2. report.skipped = Skipped(rulesFor(FALSE))
    BY <1>1, <1>4 DEF SharedSaysSo, Findings
  <2> QED
    BY <1>4, <2>1, <2>2 DEF Skipped
<1> QED
  BY <1>3, <1>4 DEF EveryDenyAnswered

\* A deny entry no finding names is enforced: the agent refuses every request it stands
\* for, whatever the policy and the file are that are as Answerable says
\* (checkNeutralPolicy, for all agents).
THEOREM DeniesAreAnswered == TeamSpec => [](Answerable => EveryDenyAnswered)
<1>1. TeamInvariant => (Answerable => EveryDenyAnswered)
  BY Answered
<1> QED
  BY <1>1, TeamIsInvariant, PTL

-----------------------------------------------------------------------------
(* No grant of something forbidden goes unseen.                            *)

\* What CFG025 asks about a forbidden entry stands for each request that may be
\* granted, or a rule allows a tool that goes on after the entry.
GrantsStand(a, s, c, v, R) ==
    \A where \in Blocks(s), r \in R :
      \/ \E q \in Asked(a, s, where, c, v) : StandsFor(s, where, "allow", OrderedRequest(a, c, r), q)
      \/ /\ c = "mcp-tools"
         /\ \E x \in orderedRules(s, where) : x.effect = "allow" /\ IsPrefix(<<mcpServerName(Head(v))>> \o Literal(Tail(v)), x.tool)

\* The policies and files for which the theorem below is stated: allow entries have their
\* wildcards at the end, and what CFG025 tries stands for the requests.
Seeable ==
    /\ \A e \in ForbidFor(TRUE) :
         /\ agent = "roo-code" /\ e.category = "commands" => RooPrefixes(file, e.v)
         /\ agent \in Ordered => GrantsStand(agent, file, e.category, e.v, Requests(e))
    /\ DenyFor(FALSE) = {} /\ ForbidFor(FALSE) = {} => ForbidFor(TRUE) = {}
    /\ \A x \in ToSet(file) : x.effect = "allow" => OpenAtTheEnd(IF agent = "cursor" THEN "cursor-cli" ELSE agent, x)

\* A pattern and an entry that both start a command are comparable.
LEMMA Comparable ==
    ASSUME NEW v, PlainEntry(v), NEW r, PlainEntry(r), IsPrefix(v, r), NEW p \in Text
    PROVE  /\ IsPrefix(p, r) => IsPrefix(p, v) \/ IsPrefix(v, p)
           /\ IsPrefix(p, v) => IsPrefix(p, r)
BY PrefixTrans DEF PlainEntry

\* What the deny and allow lists run is overlapped by an allow entry.
LEMMA ListGrantSeen ==
    ASSUME NEW a \in ListAgents, NEW s,
           \A x \in ToSet(s) : PermissionRule(a, x) /\ (x.effect = "allow" => OpenAtTheEnd(a, x)),
           NEW c \in {"commands", "mcp-tools"}, NEW v, NeutralText(c, v), NEW r, PlainEntry(r),
           c = "mcp-tools" => Len(r) > 1, Means(c, v, r), ListEffect(a, s, c, r) = "allow"
    PROVE  listGranted(a, s, c, v)
<1>1. PICK e \in ListEntries(a, s, "allow") :
         Matches(a, c, e, r) /\ (a = "claude-code" => ~(e.tool = "mcp" /\ e.arg = <<"*">>))
  BY DEF ListEffect
<1>2. PermissionRule(a, e) /\ OpenAtTheEnd(a, e)
  BY DEF ListEntries
<1>3. Overlaps(a, c, e, v)
  <2>1. CASE c = "commands"
    BY <1>1, <1>2, <2>1, CommandsGranted DEF NeutralText
  <2>2. CASE c = "mcp-tools"
    BY <1>1, <1>2, <2>2, McpGranted DEF NeutralText
  <2> QED
    BY <2>1, <2>2
<1> QED
  BY <1>3 DEF listGranted

\* An MCP entry matches the tools it stands for (codexToolMatch).
LEMMA ToolMatched ==
    ASSUME NEW v, McpEntry(v), NEW r, PlainEntry(r), Len(r) > 1, Means("mcp-tools", v, r)
    PROVE  toolMatch(r, v)
<1>1. r \in Text /\ r # <<>>
  BY DEF PlainEntry
<1>2. v = r \/ (Last(v) = "*" /\ IsStrictPrefix(Front(v), r))
  BY DEF Means
<1>3. Last(r) # "*"
  <2>1. Last(r) = r[Len(r)] /\ Len(r) \in 1..Len(r)
    BY <1>1, FrontText DEF Last
  <2> QED
    BY <2>1 DEF PlainEntry, Plain, Wildcards, Stars
<1> QED
  BY <1>2, <1>3 DEF toolMatch

\* A text is its first part and the others.
LEMMA HeadTail ==
    ASSUME NEW s \in Text, s # <<>>
    PROVE  s = <<Head(s)>> \o Tail(s)
BY DEF Text

\* What Codex runs is granted by a rule or an approval.
LEMMA CodexGrantSeen ==
    ASSUME NEW s, \A x \in ToSet(s) : x.arg \in Text,
           NEW c \in {"commands", "mcp-tools"}, NEW v, NeutralText(c, v), NEW r, PlainEntry(r),
           c = "mcp-tools" => Len(r) > 1, Means(c, v, r), CodexRuns(s, c, r)
    PROVE  IF c = "commands" THEN codexCommandGranted(s, v) ELSE codexMCPGranted(s, v)
<1>1. \A x, y : Args(s, x, y) \subseteq Text
  BY DEF Args
<1>2. CASE c = "commands"
  <2>1. PlainEntry(v) /\ IsPrefix(v, r)
    BY <1>2 DEF NeutralText, Means
  <2>2. PICK p \in Args(s, "prefix_rule", "allow") : IsPrefix(p, r)
    BY <1>2 DEF CodexRuns
  <2>3. \A q \in Args(s, "prefix_rule", "forbidden") : ~ IsPrefix(q, r)
    BY <1>2 DEF CodexRuns, CodexRefuses
  <2>4. ~ codexForbidden(s, v)
    BY <1>1, <2>1, <2>3, Comparable DEF codexForbidden
  <2>5. IsPrefix(p, v) \/ IsPrefix(v, p)
    BY <1>1, <2>1, <2>2, Comparable
  <2> QED
    BY <1>2, <2>2, <2>4, <2>5 DEF codexCommandGranted
<1>3. CASE c = "mcp-tools"
  <2>1. McpEntry(v) /\ v \in Text /\ v # <<>> /\ Head(v) = Head(r) /\ r \in Text /\ r # <<>>
    BY <1>3, McpMeans DEF NeutralText
  <2>2. Configured(s, r)
    BY <1>3 DEF CodexRuns, CodexRefuses
  <2>3. Configured(s, v)
    BY <2>1, <2>2 DEF Configured
  <2>4. PICK n \in Args(s, "approve", "allow") : n \in {<<Head(r)>>, r}
    BY <1>3 DEF CodexRuns
  <2>5. toolMatch(r, v)
    BY <1>3, <2>1, ToolMatched
  <2> QED
    BY <1>3, <2>1, <2>3, <2>4, <2>5 DEF codexMCPGranted
<1> QED
  BY <1>2, <1>3

\* The same for Roo Code.
LEMMA RooGrantSeen ==
    ASSUME NEW s, \A x \in ToSet(s) : x.arg \in Text /\ (x.tool = "alwaysAllow" => x.arg # <<>>),
           NEW c \in {"commands", "mcp-tools"}, NEW v, NeutralText(c, v), c = "commands" => RooPrefixes(s, v),
           NEW r, PlainEntry(r), c = "mcp-tools" => Len(r) > 1, Means(c, v, r), RooRuns(s, c, r)
    PROVE  IF c = "commands" THEN rooCommandGranted(s, v) ELSE rooMCPGranted(s, v)
<1>1. CASE c = "commands"
  <2>1. PlainEntry(v) /\ IsPrefix(v, r) /\ r \in Text /\ RooPrefixes(s, v)
    BY <1>1 DEF NeutralText, Means, PlainEntry
  <2>2. ~ rooDenied(s, r) /\ rooLongestPrefix(Args(s, "allowedCommands", "allow"), r) > 0
    BY <1>1 DEF RooRuns
  <2>3. rooCommandGranted(s, v)
    BY <2>1, <2>2, RooCommandGranted
  <2> QED
    BY <1>1, <2>3
<1>2. CASE c = "mcp-tools"
  <2>1. v \in Text /\ v # <<>> /\ Head(v) = Head(r) /\ r \in Text /\ r # <<>>
    BY <1>2, McpMeans DEF NeutralText
  <2>2. PICK n \in Args(s, "alwaysAllow", "allow") : Head(n) = Head(r) /\ Tail(n) \in {<<"*">>, Tail(r)}
    BY <1>2 DEF RooRuns
  <2>3. n \in Text /\ n # <<>>
    BY DEF Args
  <2>4. Tail(n) = Tail(r) => toolMatch(n, v)
    <3> HAVE Tail(n) = Tail(r)
    <3>1. n = r
      <4>1. n = <<Head(n)>> \o Tail(n) /\ r = <<Head(r)>> \o Tail(r)
        BY <2>1, <2>3, HeadTail
      <4> QED
        BY <2>2, <4>1
    <3> QED
      BY <1>2, <2>1, <3>1, ToolMatched DEF NeutralText
  <2>5. rooMCPGranted(s, v)
    BY <2>1, <2>2, <2>4 DEF rooMCPGranted
  <2> QED
    BY <1>2, <2>5
<1> QED
  BY <1>1, <1>2

\* The same for OpenCode and Kilo Code, in the block that allows it.
LEMMA OrderedGrantSeen ==
    ASSUME NEW a, NEW s, s \in Seq(ToSet(s)), NEW c, NEW v, NEW R, NEW r \in R, GrantsStand(a, s, c, v, R),
           "allow" \in OrderedEffects(a, s, c, r)
    PROVE  \E where \in Blocks(s) : orderedGranted(a, s, where, c, v)
<1> DEFINE p == OrderedRequest(a, c, r)
<1>1. PICK where \in Blocks(s) : orderedEffect(s, where, p) = "allow"
  BY BlockEffects
<1>2. CASE \E q \in Asked(a, s, where, c, v) : StandsFor(s, where, "allow", p, q)
  <2>1. PICK q \in Asked(a, s, where, c, v) : StandsFor(s, where, "allow", p, q)
    BY <1>2
  <2> HIDE DEF p
  <2>2. orderedEffect(s, where, q) = "allow"
    BY <1>1, <2>1, OrderedStands
  <2> QED
    BY <2>2, AskedGranted
<1>3. CASE ~ \E q \in Asked(a, s, where, c, v) : StandsFor(s, where, "allow", p, q)
  <2>1. /\ c = "mcp-tools"
        /\ \E x \in orderedRules(s, where) : x.effect = "allow" /\ IsPrefix(<<mcpServerName(Head(v))>> \o Literal(Tail(v)), x.tool)
    BY <1>3 DEF GrantsStand
  <2>2. orderedGranted(a, s, where, c, v)
    BY <2>1 DEF orderedGranted
  <2> QED
    BY <2>2
<1> QED
  BY <1>2, <1>3

\* What an agent runs, CFG025 takes for granted to it.
LEMMA GrantIsSeen ==
    ASSUME TeamInvariant, Seeable, NEW e \in ForbidFor(TRUE), NEW r \in Requests(e), Runs(agent, file, e.category, r)
    PROVE  \E where \in Wheres(agent, file) : Granted(agent, file, e.category, e.v, where)
<1> DEFINE c == e.category
           v == e.v
<1>1. NeutralEntry(e) /\ c \in {"commands", "mcp-tools"}
  BY EntriesAreNeutral DEF TeamInvariant
<1>2. /\ PlainEntry(r) /\ Means(c, v, r) /\ (c = "mcp-tools" => Len(r) > 1)
      /\ c \in {"commands", "mcp-tools"} /\ NeutralText(c, v)
  BY <1>1, RequestOf DEF NeutralEntry
<1>3. /\ file \in Seq(ToSet(file))
      /\ agent = "roo-code" /\ c = "commands" => RooPrefixes(file, v)
      /\ agent \in Ordered => GrantsStand(agent, file, c, v, Requests(e))
  BY DEF TeamInvariant, FileIsRules, Seeable
<1> HIDE DEF c, v
<1> SUFFICES ASSUME agent \notin Ordered PROVE Granted(agent, file, c, v, "")
  <2>1. CASE agent \notin Ordered
    BY <2>1 DEF Wheres, c, v
  <2>2. CASE agent \in Ordered
    <3>1. "allow" \in OrderedEffects(agent, file, c, r)
      BY <2>2 DEF Runs, ListAgents, Ordered, c
    <3>2. PICK where \in Blocks(file) : orderedGranted(agent, file, where, c, v)
      BY <1>3, <2>2, <3>1, OrderedGrantSeen
    <3>3. Granted(agent, file, c, v, where)
      BY <2>2, <3>2 DEF Granted, ListAgents, Ordered
    <3> QED
      BY <2>2, <3>3 DEF Wheres, c, v
  <2> QED
    BY <2>1, <2>2
<1>4. \A x \in ToSet(file) : PermissionRule(agent, x) /\ x.arg \in Text /\ (x.tool = "alwaysAllow" => x.arg # <<>>)
  BY DEF TeamInvariant, FileIsRules, FileRule, PermissionRule
<1>5. \A x \in ToSet(file) : x.effect = "allow" => OpenAtTheEnd(IF agent = "cursor" THEN "cursor-cli" ELSE agent, x)
  BY DEF Seeable
<1>6. Runs(agent, file, c, r)
  BY DEF c
<1>7. \A x, y : Args(file, x, y) \subseteq Text
  BY <1>4 DEF Args
<1>8. CASE agent \in ListAgents
  <2>1. ListEffect(agent, file, c, r) = "allow"
    BY <1>6, <1>8 DEF Runs, ListAgents, Ordered
  <2>2. agent # "cursor"
    BY <1>8 DEF ListAgents
  <2>3. \A x \in ToSet(file) : PermissionRule(agent, x) /\ (x.effect = "allow" => OpenAtTheEnd(agent, x))
    BY <1>4, <1>5, <2>2
  <2>4. listGranted(agent, file, c, v)
    BY <1>2, <1>8, <2>1, <2>3, ListGrantSeen
  <2>5. Granted(agent, file, c, v, "")
    BY <1>8, <2>4 DEF Granted, ListAgents, Ordered
  <2> QED
    BY <2>5
<1>9. CASE agent = "codex"
  <2>1. CodexRuns(file, c, r)
    BY <1>6, <1>9 DEF Runs, ListAgents, Ordered
  <2>2. IF c = "commands" THEN codexCommandGranted(file, v) ELSE codexMCPGranted(file, v)
    BY <1>2, <1>4, <2>1, CodexGrantSeen
  <2>3. Granted(agent, file, c, v, "")
    BY <1>9, <2>2 DEF Granted, ListAgents, Ordered
  <2> QED
    BY <2>3
<1>10. CASE agent = "cursor"
  <2>1. ListEffect("cursor-cli", file, c, r) = "allow"
    BY <1>6, <1>10 DEF Runs, ListAgents, Ordered
  <2>2. \A x \in ToSet(file) : PermissionRule("cursor-cli", x) /\ (x.effect = "allow" => OpenAtTheEnd("cursor-cli", x))
    BY <1>4, <1>5, <1>10 DEF PermissionRule
  <2>3. listGranted("cursor-cli", file, c, v)
    BY <1>2, <2>1, <2>2, ListGrantSeen DEF ListAgents
  <2>4. cursorIDEGranted(file, c, v)
    BY <2>3 DEF listGranted, cursorIDEGranted, Overlaps
  <2>5. Granted(agent, file, c, v, "")
    BY <1>10, <2>4 DEF Granted, ListAgents, Ordered
  <2> QED
    BY <2>5
<1>11. CASE agent = "gemini-cli"
  <2>1. PICK p \in Args(file, "tools.allowed", "allow") : IsPrefix(p, r) /\ c = "commands"
    BY <1>6, <1>11 DEF Runs, ListAgents, Ordered
  <2>2. IsPrefix(p, v) \/ IsPrefix(v, p)
    BY <1>2, <1>7, <2>1, Comparable DEF NeutralText, Means
  <2>3. geminiGranted(file, c, v)
    BY <2>1, <2>2 DEF geminiGranted
  <2>4. Granted(agent, file, c, v, "")
    BY <1>11, <2>3 DEF Granted, ListAgents, Ordered
  <2> QED
    BY <2>4
<1>12. CASE agent = "vscode"
  <2>1. PICK p \in Args(file, "autoApprove", "allow") :
           IsPrefix(p, r) /\ c = "commands" /\ \A k \in Args(file, "autoApprove", "deny") : ~IsPrefix(k, r)
    BY <1>6, <1>12 DEF Runs, ListAgents, Ordered
  <2>2. PlainEntry(v) /\ IsPrefix(v, r)
    BY <1>2, <2>1 DEF NeutralText, Means
  <2>3. IsPrefix(p, v) \/ IsPrefix(v, p)
    BY <1>2, <1>7, <2>1, <2>2, Comparable
  <2>4. \A k \in Args(file, "autoApprove", "deny") : ~IsPrefix(k, v)
    BY <1>2, <1>7, <2>1, <2>2, Comparable
  <2>5. vscodeGranted(file, c, v)
    BY <2>1, <2>3, <2>4 DEF vscodeGranted
  <2>6. Granted(agent, file, c, v, "")
    BY <1>12, <2>5 DEF Granted, ListAgents, Ordered
  <2> QED
    BY <2>6
<1>13. CASE agent = "roo-code"
  <2>1. RooRuns(file, c, r)
    BY <1>6, <1>13 DEF Runs, ListAgents, Ordered
  <2>2. IF c = "commands" THEN rooCommandGranted(file, v) ELSE rooMCPGranted(file, v)
    BY <1>2, <1>3, <1>4, <1>13, <2>1, RooGrantSeen
  <2>3. Granted(agent, file, c, v, "")
    BY <1>13, <2>2 DEF Granted, ListAgents, Ordered
  <2> QED
    BY <2>3
<1>14. CASE agent \notin ListAgents \cup {"codex", "cursor", "gemini-cli", "vscode", "roo-code"}
  BY <1>6, <1>14 DEF Runs, ListAgents, Ordered
<1> QED
  BY <1>8, <1>9, <1>10, <1>11, <1>12, <1>13, <1>14

\* Then it is reported.
LEMMA Seen == ASSUME TeamInvariant, Seeable PROVE GrantsAreSeen
<1> SUFFICES ASSUME fresh, NEW e \in ForbidFor(TRUE), NEW r \in Requests(e), Runs(agent, file, e.category, r)
             PROVE  \E f \in report.open : f.category = e.category /\ f.v = e.v
  BY DEF GrantsAreSeen
<1>1. report = Findings
  BY DEF TeamInvariant
<1>2. report.open = Open
  BY <1>1 DEF Seeable, Findings
<1>3. PICK where \in Wheres(agent, file) : Granted(agent, file, e.category, e.v, where)
  BY GrantIsSeen
<1>4. Finding(e, where) \in Open
  BY <1>3, OpenIs
<1>5. Finding(e, where).category = e.category /\ Finding(e, where).v = e.v
  BY DEF Finding
<1> QED
  BY <1>2, <1>4, <1>5

\* A forbidden command or tool an agent runs without asking is reported, for every policy
\* and every file that are as Seeable says (CFG025, overlaps, for all agents).
THEOREM GrantsAreReported == TeamSpec => [](Seeable => GrantsAreSeen)
<1>1. TeamInvariant => (Seeable => GrantsAreSeen)
  BY Seen
<1> QED
  BY <1>1, TeamIsInvariant, PTL

-----------------------------------------------------------------------------
(* The advice is recognised.                                               *)

\* Advice the check recognises: not for a tool that a list of enabled tools of
\* Codex names, since disabling it does not change the list, not for a server Grok
\* knows by another name, not for a path that starts with "./", which Grok's entry
\* is read without, and for a path in the home directory that has its wildcard at
\* the end.  Codex and Roo Code are told to name each tool that an
\* entry with a wildcard matches, which Advice does not go into.
Advisable ==
    \A e \in DenyFor(TRUE) :
      /\ e.category = "mcp-tools" =>
           /\ agent \in {"codex", "roo-code"} => Last(e.v) # "*"
           /\ agent = "codex" => \A r \in scenario.pool : r.tool = "enabled_tools" => ~ toolMatch(r.arg, e.v)
           /\ agent = "grok" => mcpServerName(Head(e.v)) = Head(e.v)
      /\ agent = "grok" /\ e.category \in {"read", "write"} => Head(e.v) # "."
      /\ agent \in Ordered /\ e.category \in {"read", "write"} /\ Home(e.v) => HomeDirectory(e.v)

\* A file n that got the advice t for an entry, and what was in file s and has
\* another key, meets the entry.
LEMMA CodexAdviceWorks ==
    ASSUME agent = "codex", NEW s, NEW n, NEW c \in Categories, NEW v, NeutralText(c, v),
           ToSet(codexSpell(s, c, v)) \subseteq ToSet(n),
           \A x \in ToSet(s) : x.tool = "default_permissions" /\ (\A y \in ToSet(codexSpell(s, c, v)) : ~ SameKey(y, x))
                                 => x \in ToSet(n),
           c = "mcp-tools" => \A x \in ToSet(n) : x.tool = "enabled_tools" => ~ toolMatch(x.arg, v)
    PROVE  codexDenied(n, c, v)
<1>1. \A r : ToSet(<<r>>) = {r}
  BY OneRule
<1>2. \A q, r : ToSet(<<q, r>>) = {q, r}
  BY TwoRules
<1>3. v \in Text /\ v # <<>>
  BY NeutralIsText
<1>4. ASSUME NEW r, codexSpell(s, c, v) = WithProfile(s, r), r.tool # "default_permissions"
      PROVE  r \in ToSet(n) /\ ProfileSelected(n)
  <2>1. CASE ProfileSelected(s)
    <3>1. codexSpell(s, c, v) = <<r>>
      BY <1>4, <2>1 DEF WithProfile
    <3>2. PICK x \in ToSet(s) : x.tool = "default_permissions"
      BY <2>1 DEF ProfileSelected
    <3>3. ~ SameKey(r, x)
      BY <1>4, <3>2 DEF SameKey
    <3>4. x \in ToSet(n)
      BY <1>1, <3>1, <3>2, <3>3
    <3> QED
      BY <1>1, <3>1, <3>2, <3>4 DEF ProfileSelected
  <2>2. CASE ~ ProfileSelected(s)
    <3> DEFINE q == Rule("default_permissions", <<>>, "on", "")
    <3>1. codexSpell(s, c, v) = <<q, r>>
      BY <1>4, <2>2 DEF WithProfile
    <3>2. q.tool = "default_permissions"
      BY DEF Rule
    <3> HIDE DEF q
    <3>3. {q, r} \subseteq ToSet(n)
      BY <1>2, <3>1
    <3> QED
      BY <3>2, <3>3 DEF ProfileSelected
  <2> QED
    BY <2>1, <2>2
<1>5. CASE c = "commands"
  <2> DEFINE r == Rule("prefix_rule", v, "forbidden", "")
  <2>1. codexSpell(s, c, v) = <<r>>
    BY <1>5 DEF codexSpell
  <2>2. r.tool = "prefix_rule" /\ r.arg = v /\ r.effect = "forbidden"
    BY DEF Rule
  <2> HIDE DEF r
  <2>3. r \in ToSet(n)
    BY <1>1, <2>1
  <2>4. IsPrefix(v, v)
    BY <1>3, PrefixTrans
  <2>5. codexForbidden(n, v)
    BY <2>2, <2>3, <2>4 DEF codexForbidden, Args
  <2> QED
    BY <1>5, <2>5 DEF codexDenied
<1>6. CASE c \in {"read", "write"}
  <2> DEFINE r == codexPathSpell(c, v)
  <2>1. codexSpell(s, c, v) = WithProfile(s, r)
    BY <1>6 DEF codexSpell
  <2>2. /\ r.effect \in codexBlocks(c) /\ r.tool \in {"filesystem", "workspace"}
        /\ Home(v) => r.tool = "filesystem" /\ r.arg = (IF Last(v) = "**" THEN Front(v) ELSE v)
        /\ ~ Home(v) => r.tool = "workspace" /\ r.arg = v
    <3> DEFINE dir == IF Last(v) = "**" THEN Front(v) ELSE v
               block == IF c = "write" THEN "read" ELSE "deny"
    <3> HIDE DEF dir, block
    <3>1. CASE Home(v)
      <4>1. r = Rule("filesystem", dir, "deny", "")
        BY <3>1 DEF codexPathSpell, dir
      <4> DEFINE q == Rule("filesystem", dir, "deny", "")
      <4>5. q.tool = "filesystem" /\ q.arg = dir /\ q.effect = "deny"
        BY DEF Rule
      <4> HIDE DEF r, q
      <4>2. r.tool = "filesystem" /\ r.arg = dir /\ r.effect = "deny"
        BY <4>1, <4>5 DEF q
      <4>3. "deny" \in codexBlocks(c)
        BY DEF codexBlocks
      <4> QED
        BY <3>1, <4>2, <4>3 DEF dir
    <3>2. CASE ~ Home(v)
      <4>1. r = Rule("workspace", v, block, "")
        BY <3>2 DEF codexPathSpell, block
      <4> DEFINE q == Rule("workspace", v, block, "")
      <4>5. q.tool = "workspace" /\ q.arg = v /\ q.effect = block
        BY DEF Rule
      <4> HIDE DEF r, q
      <4>2. r.tool = "workspace" /\ r.arg = v /\ r.effect = block
        BY <4>1, <4>5 DEF q
      <4>3. block \in codexBlocks(c)
        BY <1>6 DEF codexBlocks, block
      <4> QED
        BY <3>2, <4>2, <4>3
    <3> QED
      BY <3>1, <3>2
  <2> HIDE DEF r
  <2>3. r \in ToSet(n) /\ ProfileSelected(n)
    BY <1>4, <2>1, <2>2
  <2>4. CASE ~ Home(v)
    <3>1. globCovers(r.arg, v)
      BY <2>2, <2>4 DEF globCovers
    <3>2. codexPathDenied(n, c, v)
      BY <2>2, <2>3, <2>4, <3>1 DEF codexPathDenied
    <3> QED
      BY <1>6, <3>2 DEF codexDenied
  <2>5. CASE Home(v) /\ Last(v) # "**"
    <3>1. codexPathDenied(n, c, v)
      BY <2>2, <2>3, <2>5 DEF codexPathDenied
    <3> QED
      BY <1>6, <3>1 DEF codexDenied
  <2>6. CASE Home(v) /\ Last(v) = "**"
    <3> DEFINE w == Front(v)
    <3>1. w \in Text /\ w # <<>> /\ IsStrictPrefix(w, v)
      BY <1>3, <2>6, HomeFront, FrontPrefix
    <3>2. Front(w) \in Text /\ IsStrictPrefix(Front(w), w)
      BY <3>1, FrontPrefix
    <3> HIDE DEF w
    <3>3. IsStrictPrefix(Front(w), v)
      BY <1>3, <3>1, <3>2, PrefixTrans
    <3>4. r.arg = w /\ r.tool = "filesystem"
      BY <2>2, <2>6 DEF w
    <3>5. IsStrictPrefix(IF Last(r.arg) = "**" THEN Front(r.arg) ELSE r.arg, v)
      BY <3>1, <3>3, <3>4
    <3>6. codexPathDenied(n, c, v)
      BY <2>2, <2>3, <2>6, <3>4, <3>5 DEF codexPathDenied
    <3> QED
      BY <1>6, <3>6 DEF codexDenied
  <2> QED
    BY <2>4, <2>5, <2>6
<1>7. CASE c = "fetch"
  <2> DEFINE r == Rule("domains", v, "deny", "")
  <2>1. codexSpell(s, c, v) = WithProfile(s, r)
    BY <1>7 DEF codexSpell
  <2>2. r.tool = "domains" /\ r.arg = v /\ r.effect = "deny"
    BY DEF Rule
  <2> HIDE DEF r
  <2>3. r \in ToSet(n) /\ ProfileSelected(n)
    BY <1>4, <2>1, <2>2
  <2>4. domainCovers(r.arg, v)
    BY <2>2 DEF domainCovers
  <2>5. codexFetchDenied(n, v)
    BY <2>2, <2>3, <2>4 DEF codexFetchDenied
  <2> QED
    BY <1>7, <2>5 DEF codexDenied
<1>8. CASE c = "mcp-tools"
  <2> DEFINE r == Rule("disabled_tools", v, "deny", "")
  <2>1. codexSpell(s, c, v) = <<r>>
    BY <1>8 DEF codexSpell
  <2>2. r.tool = "disabled_tools" /\ r.arg = v /\ r.effect = "deny"
    BY DEF Rule
  <2> HIDE DEF r
  <2>3. r \in ToSet(n)
    BY <1>1, <2>1
  <2>4. Has(n, "disabled_tools", v, {"deny"})
    BY <2>2, <2>3 DEF Has
  <2>5. \A m \in Args(n, "enabled_tools", "on") : ~ toolMatch(m, v)
    BY <1>8 DEF Args
  <2>6. codexMCPDenied(n, v)
    BY <2>4, <2>5 DEF codexMCPDenied
  <2> QED
    BY <1>8, <2>6 DEF codexDenied
<1> QED
  BY <1>5, <1>6, <1>7, <1>8 DEF Categories

\* The same for Roo Code, when the prefixes a finding says must go are gone.
LEMMA RooAdviceWorks ==
    ASSUME NEW s, NEW S, s \in Seq(S), NEW c \in {"commands", "mcp-tools", "read", "write"}, NEW v, NeutralText(c, v), NEW n,
           n = s \o <<rooSpell(c, v)>>, rooSpell(c, v) \in ToSet(n), \A x \in ToSet(n) : x.arg \in Text,
           c = "commands" => \A x \in ToSet(n) : ~ InTheWay("roo-code", c, v, x)
    PROVE  rooPolicyDenied(n, c, v)
<1>1. CASE c = "commands"
  <2> DEFINE r == Rule("deniedCommands", v, "deny", "")
  <2>1. rooSpell(c, v) = r
    BY <1>1 DEF rooSpell
  <2>2. r.tool = "deniedCommands" /\ r.arg = v /\ r.effect = "deny"
    BY DEF Rule
  <2> HIDE DEF r
  <2>3. v \in Args(n, "deniedCommands", "deny")
    BY <2>1, <2>2 DEF Args
  <2>4. \A p \in Args(n, "allowedCommands", "allow") : ~ IsStrictPrefix(v, p)
    BY <1>1 DEF Args, InTheWay
  <2>5. rooCommandCovered(n, v)
    BY <1>1, <2>3, <2>4, RooCommandAdvised DEF NeutralText
  <2> QED
    BY <1>1, <2>5 DEF rooPolicyDenied
<1>2. CASE c = "mcp-tools"
  <2> DEFINE r == Rule("disabledTools", v, "deny", "")
  <2>1. rooSpell(c, v) = r
    BY <1>2 DEF rooSpell
  <2>2. r.tool = "disabledTools" /\ r.arg = v /\ r.effect = "deny"
    BY DEF Rule
  <2> HIDE DEF r
  <2>3. rooMCPDenied(n, v)
    BY <2>1, <2>2 DEF rooMCPDenied, Has
  <2> QED
    BY <1>2, <2>3 DEF rooPolicyDenied
<1>3. CASE c \in {"read", "write"}
  <2>1. rooSpell(c, v) = Rule(".rooignore", v, "deny", "")
    BY <1>3 DEF rooSpell
  <2>2. rooIgnored(n, v)
    BY <1>3, <2>1, RooPathAdvised DEF NeutralText
  <2> QED
    BY <1>3, <2>2 DEF rooPolicyDenied
<1> QED
  BY <1>1, <1>2, <1>3

\* What a finding tells to add makes the next check find it.
LEMMA AdviceWorks ==
    ASSUME TeamInvariant, TeamInvariant', Advisable, NEW f \in report.missing, Follow(f),
           ~ Discarded(agent, file') \/ report.discarded
    PROVE  Denied(agent, file', f.category, f.v, f.where)
<1> DEFINE c == f.category
           v == f.v
           gone == {r \in ToSet(file) : InTheWay(agent, c, v, r) \/ (report.discarded /\ r.tool = "type mismatch")}
           left == Without(file, gone)
           new == Advice(agent, file, c, v, f.where)
           rest == Without(left, Replaced(left, new))
<1>1. file' = Put(left, new) /\ scenario' = scenario
  BY DEF Follow
<1>2. agent' = agent
  BY <1>1, PolicySame
<1>3. Checks(agent, c, v) /\ c \in Categories /\ NeutralText(c, v)
  BY EntriesAreNeutral DEF TeamInvariant, MissingIsPolicy, NeutralEntry
<1>4. /\ agent = "codex" /\ c = "mcp-tools" => \A r \in scenario.pool : r.tool = "enabled_tools" => ~ toolMatch(r.arg, v)
      /\ agent = "grok" /\ c = "mcp-tools" => mcpServerName(Head(v)) = Head(v)
      /\ agent = "grok" /\ c \in {"read", "write"} => Head(v) # "."
      /\ agent \in Ordered /\ c \in {"read", "write"} /\ Home(v) => HomeDirectory(v)
  <2>1. PICK e \in DenyFor(TRUE) : c = e.category /\ v = e.v
    BY DEF TeamInvariant, MissingIsPolicy
  <2> HIDE DEF c, v
  <2> QED
    BY <2>1 DEF Advisable
<1>5. agent \notin Ordered => agent \in Checked /\ (agent = "cursor-cli" => c # "fetch") /\ (agent = "antigravity" => c = "mcp-tools")
  BY <1>3, CheckedAgents
<1>6. agent # "roo-code" => \A x \in gone : x.tool = "type mismatch"
  BY DEF InTheWay
<1>c. report.discarded => \A x \in ToSet(file) \ gone : x.tool # "type mismatch"
  OBVIOUS
<1>a. \A x \in ToSet(file) \ gone : ~ InTheWay(agent, c, v, x)
  OBVIOUS
<1>7. file \in Seq(ToSet(file))
  BY DEF TeamInvariant, FileIsRules
<1> HIDE DEF gone
<1>8. left \in Seq(ToSet(left)) /\ ToSet(left) = ToSet(file) \ gone
  BY <1>7, WithoutRules
<1>9. new \in Seq(ToSet(new))
  BY <1>3, AdviceRules
<1>10. new = Advice(agent, file, c, v, f.where)
  OBVIOUS
<1> HIDE DEF left, new, c, v
<1>11. /\ ToSet(new) \subseteq ToSet(file')
       /\ ToSet(file') \subseteq ToSet(left) \cup ToSet(new)
       /\ \A x \in ToSet(left) : (\A y \in ToSet(new) : ~ SameKey(y, x)) => x \in ToSet(file')
  BY <1>1, <1>8, <1>9, PutRules
<1>b. file' = rest \o new /\ rest \in Seq(ToSet(rest))
  BY <1>1, <1>8, WithoutRules DEF Put
<1> HIDE DEF rest
<1>12. CASE agent \in ListAgents
  <2> DEFINE e == Spell(agent, c, v)
             r == Rule(e.tool, e.arg, "deny", IF agent = "grok" THEN "compact" ELSE "")
  <2>1. new = <<r>>
    BY <1>10, <1>12 DEF Advice, ListAgents, Ordered
  <2>2. r.tool = Spell(agent, c, v).tool /\ r.arg = Spell(agent, c, v).arg /\ r.effect = "deny"
    BY DEF Rule
  <2>3. agent = "grok" => r.where = "compact"
    BY DEF Rule
  <2> HIDE DEF r
  <2>4. r \in ToSet(file')
    BY <1>11, <2>1, OneRule
  <2>5. ~ Discarded(agent, file')
    <3>1. CASE report.discarded /\ agent = "claude-code"
      <4>1. r.tool # "type mismatch"
        BY <2>2, <3>1 DEF Spell, claudeSpell, mcpSpell, Entry
      <4>2. \A x \in ToSet(file') : x.tool # "type mismatch"
        <5>1. ToSet(new) = {r}
          BY <2>1, OneRule
        <5>2. \A x \in ToSet(left) : x.tool # "type mismatch"
          BY <1>c, <1>8, <3>1
        <5> QED
          BY <1>11, <4>1, <5>1, <5>2
      <4> QED
        BY <4>2 DEF Discarded
    <3> QED
      BY <3>1 DEF Discarded
  <2>5a. r \in ListEntries(agent, file', "deny")
    BY <2>2, <2>3, <2>4, <2>5 DEF ListEntries
  <2>6. Covers(agent, c, r, v)
    BY <1>3, <1>4, <1>5, <1>12, <2>2, SpellCovers DEF ListAgents, Ordered
  <2>7. Denied(agent, file', c, v, f.where)
    BY <1>12, <2>5a, <2>6 DEF Denied, listDenied, ListAgents, Ordered
  <2> QED
    BY <2>7 DEF c, v
<1>13. CASE agent = "codex"
  <2>1. new = codexSpell(file, c, v)
    BY <1>10, <1>13 DEF Advice, ListAgents, Ordered
  <2>2. c = "mcp-tools" => \A x \in ToSet(file') : x.tool = "enabled_tools" => ~ toolMatch(x.arg, v)
    <3>1. \A x \in ToSet(file') : x.tool = "enabled_tools" => x \in scenario.pool
      BY <1>1, <1>2, <1>13 DEF TeamInvariant, FileIsRules, FileRule, Ordered
    <3> QED
      BY <1>4, <1>13, <3>1
  <2>3. \A x \in ToSet(file) : x.tool = "default_permissions" => x \in ToSet(left)
    BY <1>6, <1>8, <1>13
  <2>4. codexDenied(file', c, v)
    <3> DEFINE spelled == codexSpell(file, c, v)
    <3>1. ToSet(spelled) \subseteq ToSet(file')
      BY <1>11, <2>1
    <3>2. \A x \in ToSet(file) : x.tool = "default_permissions" /\ (\A y \in ToSet(spelled) : ~ SameKey(y, x))
                                  => x \in ToSet(file')
      BY <1>11, <2>1, <2>3
    <3> QED
      BY <1>3, <1>13, <2>2, <3>1, <3>2, CodexAdviceWorks
  <2>5. Denied(agent, file', c, v, f.where)
    BY <1>13, <2>4 DEF Denied, ListAgents, Ordered
  <2> QED
    BY <2>5 DEF c, v
<1>14. CASE agent = "antigravity"
  <2> DEFINE r == Rule("disabledTools", v, "deny", "")
  <2>1. new = <<r>>
    BY <1>10, <1>14 DEF Advice, ListAgents, Ordered
  <2>2. r.tool = "disabledTools" /\ r.arg = v /\ r.effect = "deny"
    BY DEF Rule
  <2> HIDE DEF r
  <2>3. r \in ToSet(file')
    BY <1>11, <2>1, OneRule
  <2>4. rooMCPDenied(file', v)
    BY <2>2, <2>3 DEF rooMCPDenied, Has
  <2>5. Denied(agent, file', c, v, f.where)
    BY <1>14, <2>4 DEF Denied, ListAgents, Ordered
  <2> QED
    BY <2>5 DEF c, v
<1>15. CASE agent = "roo-code"
  <2>1. new = <<rooSpell(c, v)>>
    BY <1>10, <1>15 DEF Advice, ListAgents, Ordered
  <2>2. ToSet(new) = {rooSpell(c, v)}
    BY <2>1, OneRule
  <2>3. c \in {"commands", "mcp-tools", "read", "write"}
    BY <1>3, <1>15 DEF Checks, rooChecks
  <2>4. \A x \in ToSet(file') : x.arg \in Text
    BY <1>2, <1>15 DEF TeamInvariant, FileIsRules, FileRule, PermissionRule, Ordered
  <2>5. c = "commands" => rooSpell(c, v).tool = "deniedCommands"
    BY DEF rooSpell, Rule
  <2>6. c = "commands" => \A x \in ToSet(file') : ~ InTheWay("roo-code", c, v, x)
    <3> SUFFICES ASSUME c = "commands", NEW x \in ToSet(file') PROVE ~ InTheWay("roo-code", c, v, x)
      OBVIOUS
    <3>1. CASE x \in ToSet(left)
      <4>1. x \in ToSet(file) \ gone
        BY <1>8, <3>1
      <4>2. ~ InTheWay(agent, c, v, x)
        BY <1>a, <4>1 DEF c, v
      <4> QED
        BY <1>15, <4>2
    <3>2. CASE x = rooSpell(c, v)
      BY <2>5, <3>2 DEF InTheWay
    <3> QED
      BY <1>11, <2>2, <3>1, <3>2
  <2>7. rooSpell(c, v) \in ToSet(file')
    BY <1>11, <2>2
  <2>8. file' = rest \o <<rooSpell(c, v)>> /\ rest \in Seq(ToSet(rest))
    BY <1>b, <2>1
  <2>9. rooPolicyDenied(file', c, v)
    BY <1>3, <2>3, <2>4, <2>6, <2>7, <2>8, RooAdviceWorks
  <2>10. Denied(agent, file', c, v, f.where)
    BY <1>15, <2>9 DEF Denied, ListAgents, Ordered
  <2> QED
    BY <2>10 DEF c, v
<1>16. CASE agent \in Ordered
  <2>1. new = <<orderedSpell(c, v, f.where)>>
    BY <1>10, <1>16 DEF Advice, ListAgents, Ordered
  <2>2. orderedDenied(agent, rest \o <<orderedSpell(c, v, f.where)>>, f.where, c, v)
    BY <1>3, <1>4, <1>16, <1>b, OrderedAdviceWorks
  <2>3. orderedDenied(agent, file', f.where, c, v)
    BY <1>b, <2>1, <2>2
  <2>4. Denied(agent, file', c, v, f.where)
    BY <1>16, <2>3 DEF Denied, ListAgents, Ordered
  <2> QED
    BY <2>4 DEF c, v
<1> QED
  BY <1>5, <1>12, <1>13, <1>14, <1>15, <1>16 DEF Checked

\* What is missing is not denied.
MissingIsNotDenied == \A g \in Missing : ~ Denied(agent, file, g.category, g.v, g.where)

\* It holds by the definition of Missing.
LEMMA MissingNow == MissingIsNotDenied
BY MissingIs DEF MissingIsNotDenied

\* Also after a step.
LEMMA MissingNext == MissingIsNotDenied'
BY MissingNow, PTL

\* Whoever adds what a finding names is rid of the finding, also when the report is old
\* and the file has changed, unless it has got what makes Claude Code discard it since
\* (policySpellings, codexSpell, discardedNote, checkNeutralPolicy).
THEOREM AdviceIsRecognised == TeamSpec /\ Advisable => AdviceSatisfiesTheCheck
<1>1. ASSUME TeamInvariant, TeamInvariant', Advisable, NEW f \in report.missing, Follow(f)
      PROVE  f \notin Missing' \/ (Discarded(agent, file') /\ ~ report.discarded)
  <2> SUFFICES ASSUME ~ Discarded(agent, file') \/ report.discarded PROVE f \notin Missing'
    OBVIOUS
  <2>1. agent' = agent
    <3>1. scenario' = scenario
      BY <1>1 DEF Follow
    <3> QED
      BY <3>1, PolicySame
  <2>2. Denied(agent, file', f.category, f.v, f.where)
    BY <1>1, AdviceWorks
  <2>3. Denied(agent', file', f.category, f.v, f.where)
    BY <2>1, <2>2
  <2> QED
    BY <2>3, MissingNext DEF MissingIsNotDenied
<1>2. Advisable /\ [TeamNext]_teamVars => Advisable'
  <2> SUFFICES ASSUME Advisable, [TeamNext]_teamVars PROVE Advisable'
    OBVIOUS
  <2>1. scenario' = scenario
    BY DEF TeamNext, Edit, Scan, FollowAdvice, Follow, teamVars
  <2>2. agent' = agent /\ DenyFor(TRUE)' = DenyFor(TRUE)
    BY <2>1, PolicySame
  <2> QED
    BY <2>1, <2>2 DEF Advisable
<1>3. TeamInvariant /\ TeamInvariant' /\ Advisable => [\A f \in report.missing :
           Follow(f) => f \notin Missing' \/ (Discarded(agent, file') /\ ~ report.discarded)]_teamVars
  BY <1>1
<1> QED
  BY <1>2, <1>3, TeamIsInvariant, PTL DEF TeamSpec, AdviceSatisfiesTheCheck
=============================================================================
