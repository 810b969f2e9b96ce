--------------------------- MODULE ArchiveProofs ---------------------------
(***************************************************************************)
(* Proofs about extractArchive for any names, sizes and limits.            *)
(***************************************************************************)
EXTENDS Archive, TLAPS

\* Until unpacking fails, the entries and the bytes copied stay within limits.
WithinTotal ==
    /\ status = "unpacking" => entries <= MaxEntries
    /\ copied = total
    /\ status # "failed" => total <= MaxTotal
    /\ CopyBounded

\* The files read so far are whole on the disk or were named as skipped.
Kept == status \in {"unpacking", "unpacked"} =>
    \A f \in read : f[1] \in skipped \/ (node[f[1]] = "file" /\ size[f[1]] = f[2])

IInv == TypeOK /\ WithinTotal /\ Kept

\* What is on the disk sits in directories.
InDirectories == \A n \in Names : node[n] # "none" => \A d \in Above(n) : node[d] = "dir"
-----------------------------------------------------------------------------
\* What is above a directory of a name is above the name.
LEMMA AboveIsTransitive ==
    ASSUME ArchiveAssumption, NEW n \in Names, NEW d \in Above(n)
    PROVE  d \in Names /\ d # n /\ Above(d) \subseteq Above(n)
<1>1. n \in Seq(STRING)
  BY DEF ArchiveAssumption
<1>2. PICK i \in 1..(Len(n) - 1) : d = SubSeq(n, 1, i)
  BY DEF Above
<1>3. Len(d) = i
  BY <1>1, <1>2
<1>4. ASSUME NEW j \in 1..(Len(d) - 1) PROVE SubSeq(d, 1, j) = SubSeq(n, 1, j) /\ j \in 1..(Len(n) - 1)
  BY <1>1, <1>2, <1>3, <1>4
<1>5. d # n
  BY <1>1, <1>2, <1>3
<1> QED
  BY <1>4, <1>5 DEF Above

\* Failing leaves nothing below the root.
LEMMA FailType == ASSUME TypeOK, Fail PROVE
    /\ status' = "failed"
    /\ node' \in [Names -> {"none", "dir", "file"}] /\ size' \in [Names -> Nat]
BY DEF TypeOK, Fail

\* Counting an entry stays within the limit, or unpacking fails.
LEMMA CountEntry ==
    ASSUME ArchiveAssumption, TypeOK, MoreEntries, NEW n \in Names
    PROVE  /\ WithinEntries => entries' \in 0..(MaxEntries + 1) /\ entries' <= MaxEntries
           /\ entries <= MaxEntries => entries' \in 0..(MaxEntries + 1)
           /\ listed \cup {n} \subseteq Names
BY DEF ArchiveAssumption, TypeOK, MoreEntries, WithinEntries

\* Making directories keeps the type and leaves every file alone.
LEMMA WithDirsType ==
    ASSUME TypeOK, NEW ds, CanMkdir(ds)
    PROVE  /\ WithDirs(ds) \in [Names -> {"none", "dir", "file"}]
           /\ \A m \in Names : node[m] # "none" => WithDirs(ds)[m] = node[m]
BY DEF TypeOK, CanMkdir, WithDirs

\* The directory an entry asks for, or a failure.
LEMMA DirEntryInv ==
    ASSUME ArchiveAssumption, IInv, NEW n \in Names, DirEntry(n) PROVE IInv'
<1>1. CASE CanMkdir(Above(n) \cup {n})
  <2>1. /\ node' = WithDirs(Above(n) \cup {n})
        /\ UNCHANGED <<status, size>>
    BY <1>1 DEF DirEntry
  <2>2. /\ node' \in [Names -> {"none", "dir", "file"}]
        /\ \A m \in Names : node[m] # "none" => node'[m] = node[m]
    BY <1>1, <2>1, WithDirsType DEF IInv
  <2>3. TypeOK'
    BY <2>1, <2>2, CountEntry DEF IInv, TypeOK, DirEntry, List, Unpacking, ArchiveAssumption
  <2>4. WithinTotal'
    BY <2>1, CountEntry DEF IInv, WithinTotal, CopyBounded, DirEntry
  <2>5. Kept'
    BY <2>1, <2>2 DEF IInv, Kept, TypeOK, DirEntry
  <2> QED
    BY <2>3, <2>4, <2>5 DEF IInv
<1>2. CASE ~ CanMkdir(Above(n) \cup {n})
  <2>1. Fail
    BY <1>2 DEF DirEntry
  <2>2. TypeOK'
    BY <2>1, CountEntry, FailType DEF IInv, TypeOK, DirEntry, List, Unpacking, ArchiveAssumption
  <2>3. WithinTotal' /\ Kept'
    BY <2>1 DEF Fail, IInv, WithinTotal, CopyBounded, Kept, DirEntry
  <2> QED
    BY <2>2, <2>3 DEF IInv
<1> QED
  BY <1>1, <1>2

\* A file that is too large, or that cannot be created, is named as skipped.
LEMMA SkippedFileInv ==
    ASSUME ArchiveAssumption, IInv, NEW n \in Names, NEW header \in Sizes, NEW bytes \in Sizes,
           LargeFile(n, header, bytes) \/ FileInTheWay(n, header, bytes) \/ CannotCreate(n, header, bytes)
    PROVE  IInv'
<1>1. CASE LargeFile(n, header, bytes)
  <2>1. TypeOK'
    BY <1>1, CountEntry DEF LargeFile, IInv, TypeOK, List, Unpacking, ArchiveAssumption
  <2>2. WithinTotal' /\ Kept'
    BY <1>1, CountEntry DEF LargeFile, IInv, WithinTotal, CopyBounded, Kept
  <2> QED
    BY <2>1, <2>2 DEF IInv
<1>2. CASE FileInTheWay(n, header, bytes) /\ CanMkdir(Above(n))
  <2>1. TypeOK'
    BY <1>2, CountEntry DEF FileInTheWay, IInv, TypeOK, List, Unpacking, ArchiveAssumption
  <2>2. WithinTotal' /\ Kept'
    BY <1>2, CountEntry DEF FileInTheWay, IInv, WithinTotal, CopyBounded, Kept
  <2> QED
    BY <2>1, <2>2 DEF IInv
<1>3. CASE FileInTheWay(n, header, bytes) /\ ~ CanMkdir(Above(n))
  <2>1. Fail
    BY <1>3 DEF FileInTheWay
  <2>2. /\ entries' \in 0..(MaxEntries + 1) /\ listed' \subseteq Names
        /\ total' = total /\ copied' = copied /\ links' = links /\ skipped' = skipped
        /\ read' = read \cup {<<n, bytes>>}
    BY <1>3, CountEntry DEF FileInTheWay, List, IInv
  <2>3. TypeOK'
    BY <2>1, <2>2, FailType DEF IInv, TypeOK, ArchiveAssumption
  <2>4. WithinTotal' /\ Kept'
    BY <1>3, <2>1 DEF FileInTheWay, Fail, IInv, WithinTotal, CopyBounded, Kept
  <2> QED
    BY <2>3, <2>4 DEF IInv
<1>4. CASE CannotCreate(n, header, bytes)
  <2>1. /\ node' = WithDirs(Above(n)) /\ CanMkdir(Above(n))
        /\ skipped' = skipped \cup {n} /\ read' = read \cup {<<n, bytes>>}
        /\ UNCHANGED <<status, size, total, links, copied>>
    BY <1>4 DEF CannotCreate
  <2>2. /\ node' \in [Names -> {"none", "dir", "file"}]
        /\ \A m \in Names : node[m] # "none" => node'[m] = node[m]
    BY <2>1, WithDirsType DEF IInv
  <2>3. TypeOK'
    BY <1>4, <2>1, <2>2, CountEntry DEF CannotCreate, IInv, TypeOK, List, Unpacking, ArchiveAssumption
  <2>4. WithinTotal'
    BY <1>4, <2>1, CountEntry DEF CannotCreate, IInv, WithinTotal, CopyBounded
  <2>5. Kept'
    BY <2>1, <2>2 DEF IInv, Kept, TypeOK
  <2> QED
    BY <2>3, <2>4, <2>5 DEF IInv
<1> QED
  BY <1>1, <1>2, <1>3, <1>4

\* An extracted file is whole or named as skipped; past the limit all is gone.
LEMMA ExtractFileInv ==
    ASSUME ArchiveAssumption, IInv, NEW n \in Names, NEW header \in Sizes, NEW bytes \in Sizes,
           ExtractFile(n, header, bytes)
    PROVE  IInv'
<1> DEFINE written == IF bytes > MaxFile THEN MaxFile + 1 ELSE bytes
<1>1. written \in Nat /\ written <= MaxFile + 1 /\ (written <= MaxFile => written = bytes)
  BY DEF ArchiveAssumption
<1>2. /\ entries' \in 0..(MaxEntries + 1) /\ entries' <= MaxEntries
  BY CountEntry DEF ExtractFile, IInv
<1>3. /\ total' = total + written /\ copied' = copied + written
      /\ skipped' = skipped \cup (IF written > MaxFile THEN {n} ELSE {})
      /\ read' = read \cup {<<n, bytes>>}
      /\ CanMkdir(Above(n)) /\ node[n] = "none" /\ status = "unpacking" /\ links' = links
      /\ listed' = listed \cup {n}
  BY DEF ExtractFile, Unpacking, List
<1>4. bytes \in Nat /\ MaxTotal \in Nat /\ MaxFile \in Nat /\ MaxEntries \in Nat
  BY DEF ArchiveAssumption
<1>5. total \in Nat /\ copied = total /\ total <= MaxTotal
  BY <1>2, <1>3 DEF IInv, TypeOK, WithinTotal
<1>6. CASE total' > MaxTotal
  <2>1. Fail
    BY <1>6 DEF ExtractFile
  <2>2. TypeOK'
    BY <1>1, <1>2, <1>3, <1>4, <1>5, <2>1, FailType DEF IInv, TypeOK
  <2>3. WithinTotal'
    BY <1>1, <1>2, <1>3, <1>4, <1>5, <2>1 DEF Fail, WithinTotal, CopyBounded
  <2>4. Kept'
    BY <2>1 DEF Fail, Kept
  <2> QED
    BY <2>2, <2>3, <2>4 DEF IInv
<1>7. CASE ~ total' > MaxTotal
  <2>1. /\ node' = [WithDirs(Above(n)) EXCEPT ![n] = "file"]
        /\ size' = [size EXCEPT ![n] = IF written > MaxFile THEN 0 ELSE written]
        /\ status' = status
    BY <1>7 DEF ExtractFile
  <2>2. WithDirs(Above(n)) \in [Names -> {"none", "dir", "file"}]
    BY <1>2, <1>3, WithDirsType DEF IInv
  <2>3. /\ node' \in [Names -> {"none", "dir", "file"}] /\ size' \in [Names -> Nat]
        /\ node'[n] = "file" /\ size'[n] = IF written > MaxFile THEN 0 ELSE written
    BY <1>1, <2>1, <2>2 DEF IInv, TypeOK
  <2>4. \A m \in Names : node[m] # "none" => node'[m] = node[m] /\ size'[m] = size[m]
    BY <1>2, <1>3, <2>1, <2>2, WithDirsType DEF IInv, TypeOK
  <2>5. TypeOK'
    BY <1>1, <1>2, <1>3, <1>4, <1>5, <2>1, <2>3 DEF IInv, TypeOK
  <2>6. WithinTotal'
    BY <1>1, <1>2, <1>3, <1>4, <1>5, <1>7 DEF WithinTotal, CopyBounded
  <2>7. Kept'
    <3>1. ASSUME NEW f \in read'
          PROVE  f[1] \in skipped' \/ (node'[f[1]] = "file" /\ size'[f[1]] = f[2])
      <4>1. CASE f = <<n, bytes>>
        BY <1>1, <1>2, <1>3, <1>4, <2>3, <4>1
      <4>2. CASE f \in read
        <5>1. f[1] \in Names
          BY <4>2 DEF IInv, TypeOK
        <5>2. f[1] \in skipped \/ (node[f[1]] = "file" /\ size[f[1]] = f[2])
          BY <1>2, <1>3, <4>2 DEF IInv, Kept
        <5> QED
          BY <1>2, <1>3, <2>4, <5>1, <5>2
      <4> QED
        BY <1>2, <1>3, <3>1, <4>1, <4>2
    <3> QED
      BY <3>1 DEF Kept
  <2> QED
    BY <2>5, <2>6, <2>7 DEF IInv
<1> QED
  BY <1>6, <1>7

\* A copy that breaks off leaves nothing behind, and counts.
LEMMA CopyBreaksOffInv ==
    ASSUME ArchiveAssumption, IInv, NEW n \in Names, NEW bytes \in Sizes, CopyBreaksOff(n, bytes)
    PROVE  IInv'
<1>1. /\ total' = total + bytes /\ copied' = copied + bytes
      /\ listed' = listed \cup {n} /\ links' = links /\ skipped' = skipped /\ read' = read
      /\ bytes <= MaxFile + 1 /\ status = "unpacking" /\ Fail
  BY DEF CopyBreaksOff, Unpacking, List
<1>2. bytes \in Nat /\ MaxTotal \in Nat /\ MaxFile \in Nat
  BY DEF ArchiveAssumption
<1>3. entries' \in 0..(MaxEntries + 1)
  BY CountEntry DEF CopyBreaksOff, IInv
<1>4. TypeOK'
  BY <1>1, <1>2, <1>3, FailType DEF IInv, TypeOK
<1>5. WithinTotal'
  BY <1>1, <1>2 DEF Fail, IInv, TypeOK, WithinTotal, CopyBounded
<1>6. Kept'
  BY <1>1 DEF Fail, Kept
<1> QED
  BY <1>4, <1>5, <1>6 DEF IInv

\* The steps that put nothing on the disk.
LEMMA OtherStepsInv ==
    ASSUME ArchiveAssumption, IInv,
           \/ TooManyEntries \/ SkipDotDot \/ SkipOutside \/ Corrupt \/ EndOfArchive \/ ScanEnds
           \/ \E n \in Names : LinkEntry(n)
    PROVE  IInv'
<1>1. CASE TooManyEntries \/ Corrupt
  <2>1. Fail
    BY <1>1 DEF TooManyEntries, Corrupt
  <2>2. entries' \in 0..(MaxEntries + 1)
    <3>1. CASE TooManyEntries
      BY <3>1 DEF TooManyEntries, Unpacking, MoreEntries, IInv, TypeOK, WithinTotal, ArchiveAssumption
    <3>2. CASE Corrupt
      BY <3>2 DEF Corrupt, IInv, TypeOK
    <3> QED
      BY <1>1, <3>1, <3>2
  <2>3. TypeOK'
    BY <1>1, <2>1, <2>2, FailType DEF TooManyEntries, Corrupt, IInv, TypeOK
  <2>4. WithinTotal' /\ Kept'
    BY <1>1, <2>1 DEF TooManyEntries, Corrupt, Fail, IInv, WithinTotal, CopyBounded, Kept
  <2> QED
    BY <2>3, <2>4 DEF IInv
<1>2. CASE SkipDotDot \/ SkipOutside
  <2>1. entries' \in 0..(MaxEntries + 1) /\ entries' <= MaxEntries
    <3>1. CASE SkipDotDot
      BY <3>1 DEF SkipDotDot, Unpacking, IInv, TypeOK, WithinTotal, ArchiveAssumption
    <3>2. CASE SkipOutside
      BY <3>2 DEF SkipOutside, WithinEntries, MoreEntries, IInv, TypeOK, ArchiveAssumption
    <3> QED
      BY <1>2, <3>1, <3>2
  <2>2. TypeOK'
    BY <1>2, <2>1 DEF SkipDotDot, SkipOutside, IInv, TypeOK
  <2>3. WithinTotal' /\ Kept'
    BY <1>2, <2>1 DEF SkipDotDot, SkipOutside, IInv, WithinTotal, CopyBounded, Kept
  <2> QED
    BY <2>2, <2>3 DEF IInv
<1>3. ASSUME NEW n \in Names, LinkEntry(n) PROVE IInv'
  <2>1. TypeOK'
    BY <1>3, CountEntry DEF LinkEntry, List, IInv, TypeOK
  <2>2. WithinTotal' /\ Kept'
    BY <1>3, CountEntry DEF LinkEntry, IInv, WithinTotal, CopyBounded, Kept
  <2> QED
    BY <2>1, <2>2 DEF IInv
<1>4. CASE EndOfArchive \/ ScanEnds
  <2>1. TypeOK'
    BY <1>4 DEF EndOfArchive, ScanEnds, IInv, TypeOK
  <2>2. WithinTotal' /\ Kept'
    BY <1>4 DEF EndOfArchive, ScanEnds, IInv, WithinTotal, CopyBounded, Kept
  <2> QED
    BY <2>1, <2>2 DEF IInv
<1> QED
  BY <1>1, <1>2, <1>3, <1>4

\* The limits hold and no file is lost, entry after entry (extractor.entry).
THEOREM InductiveInvariant == ASSUME ArchiveAssumption PROVE Spec => []IInv
<1>1. Init => IInv
  BY DEF Init, IInv, TypeOK, WithinTotal, CopyBounded, Kept, ArchiveAssumption
<1>2. ASSUME IInv, [Next]_vars PROVE IInv'
  <2>1. CASE UNCHANGED vars
    BY <1>2, <2>1 DEF IInv, TypeOK, WithinTotal, CopyBounded, Kept, vars
  <2>2. ASSUME NEW n \in Names, NEW header \in Sizes, NEW bytes \in Sizes,
               \/ LargeFile(n, header, bytes) \/ FileInTheWay(n, header, bytes)
               \/ CannotCreate(n, header, bytes) \/ ExtractFile(n, header, bytes)
        PROVE  IInv'
    BY <1>2, <2>2, SkippedFileInv, ExtractFileInv
  <2>3. ASSUME NEW n \in Names, NEW bytes \in Sizes, CopyBreaksOff(n, bytes) PROVE IInv'
    BY <1>2, <2>3, CopyBreaksOffInv
  <2> QED
    BY <1>2, <2>1, <2>2, <2>3, DirEntryInv, OtherStepsInv DEF Next, Over
<1> QED
  BY <1>1, <1>2, PTL DEF Spec

\* The variables of the extractor keep their types, its entry count among them.
THEOREM TypeCorrect == ASSUME ArchiveAssumption PROVE Spec => []TypeOK
<1>1. IInv => TypeOK
  BY DEF IInv
<1> QED
  BY <1>1, InductiveInvariant, PTL

\* No archive makes the extractor write more than one file past the limit on
\* all bytes (maxArchiveTotal and maxArchiveFile).
THEOREM DiskUseBounded == ASSUME ArchiveAssumption PROVE Spec => []CopyBounded
<1>1. IInv => CopyBounded
  BY DEF IInv, WithinTotal
<1> QED
  BY <1>1, InductiveInvariant, PTL

\* Every file of an archive that unpacks is there for the scan or named as not
\* extracted (archiveResult.Skipped).
THEOREM NoFileLost == ASSUME ArchiveAssumption PROVE Spec => []NothingDropped
<1>1. IInv => NothingDropped
  BY DEF IInv, Kept, NothingDropped
<1> QED
  BY <1>1, InductiveInvariant, PTL
-----------------------------------------------------------------------------
(* What a step does to the tree below the root                             *)

Cleared == status' \in {"failed", "over"} /\ \A m \in Names : node'[m] = "none"

AddsDirectory(n) ==
    /\ CanMkdir(Above(n) \cup {n})
    /\ node' = WithDirs(Above(n) \cup {n}) /\ size' = size

AddsItsDirectories(n) ==
    /\ CanMkdir(Above(n))
    /\ node' = WithDirs(Above(n)) /\ size' = size

AddsFile(n) ==
    /\ CanMkdir(Above(n)) /\ node[n] = "none"
    /\ node' = [WithDirs(Above(n)) EXCEPT ![n] = "file"]
    /\ \A m \in Names \ {n} : size'[m] = size[m]

\* A step removes everything, or adds one directory or at most one file with
\* the directories above it, or leaves the tree alone.
LEMMA TreeStep ==
    ASSUME TypeOK, [Next]_vars
    PROVE  \/ Cleared \/ UNCHANGED <<node, size>>
           \/ \E n \in Names : AddsDirectory(n) \/ AddsItsDirectories(n) \/ AddsFile(n)
<1>1. Fail => Cleared
  BY DEF Fail, Cleared
<1>2. ASSUME NEW n \in Names, DirEntry(n) PROVE AddsDirectory(n) \/ Fail
  BY <1>2 DEF DirEntry, AddsDirectory
<1>3. ASSUME NEW n \in Names, NEW header, NEW bytes, ExtractFile(n, header, bytes)
      PROVE  AddsFile(n) \/ Fail
  <2> DEFINE kept == IF (IF bytes > MaxFile THEN MaxFile + 1 ELSE bytes) > MaxFile
                     THEN 0 ELSE IF bytes > MaxFile THEN MaxFile + 1 ELSE bytes
  <2>1. CASE total' > MaxTotal
    BY <1>3, <2>1 DEF ExtractFile
  <2>2. CASE ~ total' > MaxTotal
    <3>1. /\ CanMkdir(Above(n)) /\ node[n] = "none"
          /\ node' = [WithDirs(Above(n)) EXCEPT ![n] = "file"]
          /\ size' = [size EXCEPT ![n] = kept]
      BY <1>3, <2>2 DEF ExtractFile
    <3> HIDE DEF kept
    <3> QED
      BY <3>1 DEF AddsFile, TypeOK
  <2> QED
    BY <2>1, <2>2
<1>4. ASSUME NEW n \in Names, NEW header, NEW bytes,
             LargeFile(n, header, bytes) \/ FileInTheWay(n, header, bytes)
      PROVE  UNCHANGED <<node, size>> \/ Fail
  BY <1>4 DEF LargeFile, FileInTheWay
<1>5. ASSUME NEW n \in Names, NEW bytes, CopyBreaksOff(n, bytes) PROVE Fail
  BY <1>5 DEF CopyBreaksOff
<1>6. ASSUME NEW n \in Names, LinkEntry(n) PROVE UNCHANGED <<node, size>>
  BY <1>6 DEF LinkEntry
<1>7. TooManyEntries \/ Corrupt => Fail
  BY DEF TooManyEntries, Corrupt
<1>8. SkipDotDot \/ SkipOutside \/ EndOfArchive \/ UNCHANGED vars => UNCHANGED <<node, size>>
  BY DEF SkipDotDot, SkipOutside, EndOfArchive, vars
<1>9. ScanEnds => Cleared
  BY DEF ScanEnds, Cleared
<1>10. ASSUME NEW n \in Names, NEW header, NEW bytes, CannotCreate(n, header, bytes)
       PROVE  AddsItsDirectories(n)
  BY <1>10 DEF CannotCreate, AddsItsDirectories
<1> QED
  BY <1>1, <1>2, <1>3, <1>4, <1>5, <1>6, <1>7, <1>8, <1>9, <1>10 DEF Next, Over

\* A step that does not remove everything changes nothing that is there, and
\* puts what it adds into directories.
LEMMA TreeStepKeeps ==
    ASSUME ArchiveAssumption, TypeOK, InDirectories, [Next]_vars
    PROVE  /\ InDirectories'
           /\ \A m \in Names : node[m] # "none" /\ status' \in {"unpacking", "unpacked"} =>
                                node'[m] = node[m] /\ size'[m] = size[m]
<1>1. CASE Cleared
  BY <1>1 DEF Cleared, InDirectories
<1>2. CASE UNCHANGED <<node, size>>
  BY <1>2 DEF InDirectories
<1>3. ASSUME NEW n \in Names, AddsDirectory(n) \/ AddsItsDirectories(n) \/ AddsFile(n)
      PROVE  /\ \A m \in Names : node[m] # "none" => node'[m] = node[m] /\ size'[m] = size[m]
             /\ \A d \in Above(n) : node'[d] = "dir"
             /\ \A m \in Names : node'[m] # "none" => node[m] # "none" \/ m = n \/ m \in Above(n)
  <2>1. CASE AddsDirectory(n)
    BY <2>1, AboveIsTransitive DEF AddsDirectory, CanMkdir, WithDirs, TypeOK
  <2>2. CASE AddsFile(n)
    <3>1. \A m \in Names : node'[m] = IF m = n THEN "file" ELSE IF m \in Above(n) THEN "dir" ELSE node[m]
      BY <2>2 DEF AddsFile, WithDirs
    <3>2. \A m \in Names : node[m] # "none" => m # n
      BY <2>2 DEF AddsFile
    <3> QED
      BY <2>2, <3>1, <3>2, AboveIsTransitive DEF AddsFile, CanMkdir, TypeOK
  <2>3. CASE AddsItsDirectories(n)
    BY <2>3, AboveIsTransitive DEF AddsItsDirectories, CanMkdir, WithDirs, TypeOK
  <2> QED
    BY <1>3, <2>1, <2>2, <2>3
<1>4. ASSUME NEW n \in Names, AddsDirectory(n) \/ AddsItsDirectories(n) \/ AddsFile(n)
      PROVE  InDirectories'
  <2> SUFFICES ASSUME NEW m \in Names, node'[m] # "none", NEW d \in Above(m) PROVE node'[d] = "dir"
    BY DEF InDirectories
  <2>1. CASE node[m] # "none"
    <3>1. d \in Names /\ node[d] = "dir"
      BY <2>1, AboveIsTransitive DEF InDirectories
    <3> QED
      BY <1>3, <1>4, <3>1
  <2>2. CASE m = n \/ m \in Above(n)
    <3>1. d \in Above(n)
      BY <2>2, AboveIsTransitive
    <3> QED
      BY <1>3, <1>4, <3>1
  <2> QED
    BY <1>3, <1>4, <2>1, <2>2
<1> QED
  BY <1>1, <1>2, <1>3, <1>4, TreeStep

\* No entry of an archive changes what an earlier one put below the root, and
\* every file sits in directories (extractor.entry).
THEOREM FirstOneWinsHolds == ASSUME ArchiveAssumption PROVE Spec => FirstOneWins
<1> DEFINE Step == \A n \in Names :
             /\ node[n] # "none" /\ status' \in {"unpacking", "unpacked"} =>
                   node'[n] = node[n] /\ size'[n] = size[n]
             /\ node'[n] # "none" => \A d \in Above(n) : node'[d] = "dir"
<1>1. Init => InDirectories
  BY DEF Init, InDirectories
<1>2. TypeOK /\ InDirectories /\ [Next]_vars => InDirectories'
  BY TreeStepKeeps
<1>3. TypeOK /\ InDirectories /\ [Next]_vars => [Step]_vars
  BY TreeStepKeeps DEF InDirectories
<1> QED
  BY <1>1, <1>2, <1>3, TypeCorrect, PTL DEF Spec, FirstOneWins
=============================================================================
