------------------------------ MODULE Archive ------------------------------
(***************************************************************************)
(* extractArchive (cmd/cfgaudit/archive.go): the entries of a zip or tar   *)
(* file are unpacked one by one into a private directory, within limits,   *)
(* and the directory is removed when the scan of it is over or unpacking   *)
(* failed.                                                                 *)
(***************************************************************************)
EXTENDS Naturals, Sequences, FiniteSets

CONSTANTS
    Names,        \* cleaned entry names that stay under the root, by component
    Outside,      \* a name safeEntryName rejects: absolute, or a drive letter
    DotDot,       \* a name with two dots in a row, which both readers skip
    Sizes,        \* sizes of entries, as the header says and as read
    MaxEntries, MaxFile, MaxTotal,  \* maxArchiveEntries, and so on
    MaxRead       \* bound on the entries of an archive

ASSUME ArchiveAssumption ==
    /\ Names \subseteq Seq(STRING)
    /\ Outside \notin Names /\ DotDot \notin Names
    /\ Sizes \subseteq Nat
    /\ MaxEntries \in Nat /\ MaxFile \in Nat /\ MaxTotal \in Nat /\ MaxRead \in Nat

VARIABLES
    status,   \* "unpacking", "unpacked", "failed" or "over"
    node,     \* node[n]: "none", "dir" or "file" below the root
    size,     \* size[n]: bytes of the file at n
    total,    \* bytes copied, extractor.total
    entries,  \* entries counted, extractor.entries
    listed,   \* archiveResult.Entries
    links,    \* archiveResult.Links
    skipped,  \* archiveResult.Skipped
    read,     \* history: the regular files the archive held, as <<name, bytes>>
    copied    \* history: bytes written to the disk

vars == <<status, node, size, total, entries, listed, links, skipped, read, copied>>

Init ==
    /\ status = "unpacking"
    /\ node = [n \in Names |-> "none"]
    /\ size = [n \in Names |-> 0]
    /\ total = 0
    /\ entries = 0
    /\ listed = {}
    /\ links = {}
    /\ skipped = {}
    /\ read = {}
    /\ copied = 0

\* An error of any entry removes what was unpacked before it.
Fail ==
    /\ status' = "failed"
    /\ node' = [n \in Names |-> "none"]
    /\ size' = [n \in Names |-> 0]
-----------------------------------------------------------------------------
(* The directories of an entry.                                            *)

Above(n) == {m \in Names : \E i \in 1..(Len(n) - 1) : m = SubSeq(n, 1, i)}

\* os.MkdirAll of the directories ds fails on a file in its way.
CanMkdir(ds) == \A d \in ds : node[d] # "file"
WithDirs(ds) == [n \in Names |-> IF n \in ds THEN "dir" ELSE node[n]]

\* entry() counts every entry it is handed and lists the ones with a safe name.
MoreEntries == entries' = entries + 1
WithinEntries == entries < MaxEntries
List(n) == listed' = listed \cup {n}
Unpacking == status = "unpacking" /\ entries < MaxRead
-----------------------------------------------------------------------------
(* What entry() makes of one entry of the archive.                         *)

TooManyEntries ==
    /\ Unpacking
    /\ ~ WithinEntries
    /\ MoreEntries
    /\ Fail
    /\ UNCHANGED <<total, listed, links, skipped, read, copied>>

\* The readers skip these names before entry() counts them; a pipe or device is
\* skipped without a word.
SkipDotDot ==
    /\ Unpacking
    /\ skipped' = skipped \cup {DotDot}
    /\ UNCHANGED <<status, node, size, total, entries, listed, links, read, copied>>

SkipOutside ==
    /\ Unpacking /\ WithinEntries
    /\ MoreEntries
    /\ skipped' = skipped \cup {Outside}
    /\ UNCHANGED <<status, node, size, total, listed, links, read, copied>>

\* A link is recorded, never created.
LinkEntry(n) ==
    /\ Unpacking /\ WithinEntries
    /\ MoreEntries /\ List(n)
    /\ links' = links \cup {n}
    /\ UNCHANGED <<status, node, size, total, skipped, read, copied>>

DirEntry(n) ==
    /\ Unpacking /\ WithinEntries
    /\ MoreEntries /\ List(n)
    /\ IF CanMkdir(Above(n) \cup {n})
       THEN node' = WithDirs(Above(n) \cup {n}) /\ UNCHANGED <<status, size>>
       ELSE Fail
    /\ UNCHANGED <<total, links, skipped, read, copied>>

\* Mutant: an entry that is too large is left out without a word.
DropLargeFile(n, header, bytes) ==
    /\ Unpacking /\ WithinEntries
    /\ header > MaxFile
    /\ MoreEntries /\ List(n)
    /\ read' = read \cup {<<n, bytes>>}
    /\ UNCHANGED <<status, node, size, total, links, skipped, copied>>

\* A file whose header says more than the limit is listed, not extracted.
LargeFile(n, header, bytes) ==
    /\ Unpacking /\ WithinEntries
    /\ header > MaxFile
    /\ MoreEntries /\ List(n)
    /\ skipped' = skipped \cup {n}
    /\ read' = read \cup {<<n, bytes>>}
    /\ UNCHANGED <<status, node, size, total, links, copied>>

\* A file or directory already sits where the file would go: the first one
\* wins.  One in the place of a directory above it ends the scan.
FileInTheWay(n, header, bytes) ==
    /\ Unpacking /\ WithinEntries
    /\ header <= MaxFile
    /\ ~ CanMkdir(Above(n)) \/ node[n] # "none"
    /\ MoreEntries /\ List(n)
    /\ IF CanMkdir(Above(n))
       THEN skipped' = skipped \cup {n} /\ UNCHANGED <<status, node, size>>
       ELSE Fail /\ UNCHANGED skipped
    /\ read' = read \cup {<<n, bytes>>}
    /\ UNCHANGED <<total, links, copied>>

\* os.OpenFile fails for another reason, as on a name that is too long.
CannotCreate(n, header, bytes) ==
    /\ Unpacking /\ WithinEntries
    /\ header <= MaxFile
    /\ CanMkdir(Above(n)) /\ node[n] = "none"
    /\ MoreEntries /\ List(n)
    /\ node' = WithDirs(Above(n))
    /\ skipped' = skipped \cup {n}
    /\ read' = read \cup {<<n, bytes>>}
    /\ UNCHANGED <<status, size, total, links, copied>>

\* Mutant: the limit on all bytes is not looked at after a file was cut off.
ForgetTotal(n, header, bytes) ==
    /\ Unpacking /\ WithinEntries
    /\ header <= MaxFile
    /\ CanMkdir(Above(n)) /\ node[n] = "none"
    /\ MoreEntries /\ List(n)
    /\ LET written == IF bytes > MaxFile THEN MaxFile + 1 ELSE bytes IN
       /\ total' = total + written
       /\ copied' = copied + written
       /\ skipped' = skipped \cup (IF written > MaxFile THEN {n} ELSE {})
       /\ IF total' > MaxTotal /\ written <= MaxFile
          THEN Fail
          ELSE /\ node' = [WithDirs(Above(n)) EXCEPT ![n] = "file"]
               /\ size' = [size EXCEPT ![n] = IF written > MaxFile THEN 0 ELSE written]
               /\ UNCHANGED status
    /\ read' = read \cup {<<n, bytes>>}
    /\ UNCHANGED links

\* Mutant: a later entry of the name is written over the first.
Overwrite(n, header, bytes) ==
    /\ Unpacking /\ WithinEntries
    /\ header <= MaxFile
    /\ CanMkdir(Above(n)) /\ node[n] # "dir"
    /\ MoreEntries /\ List(n)
    /\ LET written == IF bytes > MaxFile THEN MaxFile + 1 ELSE bytes IN
       /\ total' = total + written
       /\ copied' = copied + written
       /\ skipped' = skipped \cup (IF written > MaxFile THEN {n} ELSE {})
       /\ IF total' > MaxTotal
          THEN Fail
          ELSE /\ node' = [WithDirs(Above(n)) EXCEPT ![n] = "file"]
               /\ size' = [size EXCEPT ![n] = IF written > MaxFile THEN 0 ELSE written]
               /\ UNCHANGED status
    /\ read' = read \cup {<<n, bytes>>}
    /\ UNCHANGED links

\* The copy does not trust the header: it stops one byte past the limit, and
\* what it copied is cut off again, but counts.
ExtractFile(n, header, bytes) ==
    /\ Unpacking /\ WithinEntries
    /\ header <= MaxFile
    /\ CanMkdir(Above(n)) /\ node[n] = "none"
    /\ MoreEntries /\ List(n)
    /\ LET written == IF bytes > MaxFile THEN MaxFile + 1 ELSE bytes IN
       /\ total' = total + written
       /\ copied' = copied + written
       /\ skipped' = skipped \cup (IF written > MaxFile THEN {n} ELSE {})
       /\ IF total' > MaxTotal
          THEN Fail
          ELSE /\ node' = [WithDirs(Above(n)) EXCEPT ![n] = "file"]
               /\ size' = [size EXCEPT ![n] = IF written > MaxFile THEN 0 ELSE written]
               /\ UNCHANGED status
    /\ read' = read \cup {<<n, bytes>>}
    /\ UNCHANGED links

\* The data of an entry turns out to be damaged when bytes of it are copied.
CopyBreaksOff(n, bytes) ==
    /\ Unpacking /\ WithinEntries
    /\ CanMkdir(Above(n)) /\ node[n] = "none"
    /\ bytes <= MaxFile + 1
    /\ MoreEntries /\ List(n)
    /\ total' = total + bytes
    /\ copied' = copied + bytes
    /\ Fail
    /\ UNCHANGED <<links, skipped, read>>

\* The archive is damaged between entries.
Corrupt ==
    /\ status = "unpacking"
    /\ Fail
    /\ UNCHANGED <<total, entries, listed, links, skipped, read, copied>>

EndOfArchive ==
    /\ status = "unpacking"
    /\ status' = "unpacked"
    /\ UNCHANGED <<node, size, total, entries, listed, links, skipped, read, copied>>

\* The deferred os.RemoveAll of run(), after the scan of the root.
ScanEnds ==
    /\ status = "unpacked"
    /\ status' = "over"
    /\ node' = [n \in Names |-> "none"]
    /\ size' = [n \in Names |-> 0]
    /\ UNCHANGED <<total, entries, listed, links, skipped, read, copied>>

Over == status \in {"failed", "over"} /\ UNCHANGED vars

Next ==
    \/ TooManyEntries \/ SkipDotDot \/ SkipOutside \/ Corrupt \/ EndOfArchive \/ ScanEnds \/ Over
    \/ \E n \in Names :
        \/ LinkEntry(n) \/ DirEntry(n)
        \/ \E bytes \in Sizes : CopyBreaksOff(n, bytes)
        \/ \E header, bytes \in Sizes :
              \/ LargeFile(n, header, bytes) \/ FileInTheWay(n, header, bytes)
              \/ CannotCreate(n, header, bytes) \/ ExtractFile(n, header, bytes)

Spec == Init /\ [][Next]_vars
-----------------------------------------------------------------------------
TypeOK ==
    /\ status \in {"unpacking", "unpacked", "failed", "over"}
    /\ node \in [Names -> {"none", "dir", "file"}]
    /\ size \in [Names -> Nat]
    /\ total \in Nat /\ entries \in 0..(MaxEntries + 1) /\ copied \in Nat
    /\ listed \subseteq Names /\ links \subseteq Names
    /\ skipped \subseteq Names \cup {Outside, DotDot}
    /\ read \subseteq Names \X Nat

\* However an archive is put together, unpacking it writes at most one file
\* more than the limit on all bytes ("keep a zip bomb ... from filling the
\* disk").
CopyBounded == copied <= MaxTotal + MaxFile + 1

\* A file of the archive is never lost without a word: the scan of the root
\* sees it whole, or the list of what was not extracted names it.
NothingDropped ==
    status = "unpacked" =>
        \A f \in read : f[1] \in skipped \/ (node[f[1]] = "file" /\ size[f[1]] = f[2])

\* "The first one wins, as an entry never replaces what is there": until the
\* root is removed, no later entry changes a file or a directory below it, and
\* a file always sits in directories.
FirstOneWins ==
    [][\A n \in Names :
          /\ node[n] # "none" /\ status' \in {"unpacking", "unpacked"} =>
                node'[n] = node[n] /\ size'[n] = size[n]
          /\ node'[n] # "none" => \A d \in Above(n) : node'[d] = "dir"]_vars
=============================================================================
