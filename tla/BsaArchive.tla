----------------------------- MODULE BsaArchive -----------------------------
(***************************************************************************)
(* Reading a BSA archive: BsaReader.ReadHeader and BsaContentReader turn   *)
(* its tables into entries, BsaArchiveReader and BsaPayload find and       *)
(* decode the bytes of one file.                                           *)
(*                                                                         *)
(* An archive is a record.  Its header: supported and valid (whether the   *)
(* checks of its version, flags and counts pass), version, embedded and    *)
(* compressed (two of its flags), fileCount.  Its tables: folders, the     *)
(* sequence of folder records in the order they are stored, each with the  *)
(* offset of its block and its file count; blocks, what stands at those    *)
(* offsets; names, the names the filename table holds.  length is that of  *)
(* the stream.  A file record has its hash, its size and offset, the flag  *)
(* that toggles compression, and what its bytes say: prefix, the length of *)
(* an embedded name, declared, the expanded size, and inflated, what       *)
(* decoding yields.  `is' and `at' are what no code sees: the path it was   *)
(* packed as, in lower case, and where its payload was put.                *)
(***************************************************************************)
EXTENDS Integers, Sequences, SequencesExt, FiniteSets

CONSTANTS
  WordSize,   \* the bytes of a 32-bit integer
  MaxArray    \* Array.MaxLength

Refused(reason) == [outcome |-> reason, entries |-> <<>>]

-----------------------------------------------------------------------------
(* The tables                                                              *)

Total(folders) == FoldLeft(LAMBDA n, f : n + f.count, 0, folders)

\* Folder records are sorted by hash, blocks and names by position.
Physical(folders) == SortSeq(folders, LAMBDA f, g : f.offset < g.offset)

\* A block of n files is n + 1 units long, a folder record one; block i does not
\* begin before the end of what was read before it.
Apart(folders, i) ==
  folders[i].offset >=
    IF i = 1 THEN Len(folders) ELSE folders[i - 1].offset + folders[i - 1].count + 1

\* The lookup by hash that BsaFileBlockRecord builds takes each hash once.
HashesDiffer(files) == \A i, j \in DOMAIN files : files[i].hash = files[j].hash => i = j

\* Files and their folders, in physical order.
FilesOf(a, folders) ==
  FlattenSeq([i \in DOMAIN folders |->
    LET block == a.blocks[folders[i].offset] IN
    [j \in 1..folders[i].count |-> [folder |-> block.folder, file |-> block.files[j]]]])

\* BsaArchive: names go to files in order.
EntriesOf(files, names) ==
  [i \in DOMAIN files |-> [path |-> files[i].folder \o <<names[i]>>, file |-> files[i].file]]

\* ReadBsaArchive, which builds the record of a block before it goes to the next.  A
\* filename table that holds more than it should is cut off.
Read(a) ==
  LET folders == Physical(a.folders)
      files == FilesOf(a, folders)
      entries == EntriesOf(files, a.names)
  IN IF ~a.supported THEN Refused("NotSupported")
     ELSE IF ~a.valid \/ Total(a.folders) # a.fileCount
       THEN Refused("InvalidData")
     ELSE IF \E i \in DOMAIN folders : /\ \A k \in 1..i : Apart(folders, k)
                                      /\ ~HashesDiffer(a.blocks[folders[i].offset].files)
       THEN Refused("Argument")
     ELSE IF \E i \in DOMAIN folders : ~Apart(folders, i)
       THEN Refused("InvalidData")
     ELSE IF Len(a.names) < a.fileCount
               \/ \E i, j \in DOMAIN entries : i # j /\ entries[i].path = entries[j].path
       THEN Refused("InvalidData")
     ELSE [outcome |-> "ok", entries |-> entries]

-----------------------------------------------------------------------------
(* One file                                                                *)

IsNamed(a) == a.embedded /\ a.version # "oblivion"
IsCompressed(a, f) == a.compressed # f.toggled

\* What stands before the payload: the embedded name and the expanded size.
Skipped(a, f) ==
  (IF IsNamed(a) THEN f.prefix + 1 ELSE 0) + (IF IsCompressed(a, f) THEN WordSize ELSE 0)

Expanded(a, f) == IF IsCompressed(a, f) THEN f.declared ELSE f.size - Skipped(a, f)

\* GetPayload, ReadFile and BsaPayload.Copy accept the file.
CanRead(a, f) ==
  /\ f.offset <= a.length /\ f.size <= a.length - f.offset
  /\ Skipped(a, f) <= f.size
  /\ Expanded(a, f) <= MaxArray
  /\ IsCompressed(a, f) => f.inflated = f.declared

\* The stored bytes that are read, and how many bytes come out.
Payload(a, f) ==
  [from |-> f.offset + Skipped(a, f), to |-> f.offset + f.size, expanded |-> Expanded(a, f)]
=============================================================================
