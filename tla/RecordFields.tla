---------------------------- MODULE RecordFields ----------------------------
(***************************************************************************)
(* PluginFile.ReadRecordDataCoreAsync: the data of one record, inflated    *)
(* when it is compressed, cut into fields.  The bytes of a record are      *)
(* chosen as they are parsed and forgotten when it has been read.          *)
(***************************************************************************)
EXTENDS PluginNodes

CONSTANTS
  FieldHeaderSize,  \* RecordField.HeaderSize: signature and 16-bit size
  HedrSize,         \* the least size of a HEDR field
  FieldSizes,       \* the sizes a field may declare, in 16 or in 32 bits
  Signatures        \* of fields; KnownSignatures.Xxxx is "XXXX"

ASSUME RecordFieldsAssumption ==
  FieldHeaderSize \in Nat /\ HedrSize \in Nat /\ FieldSizes \subseteq Nat

VARIABLE
  reading   \* the record being read, its field bytes and the fields so far

NotReading == [record |-> None]

IsReading == reading # NotReading

\* absolute is null in an inflated buffer, extended when there was no XXXX.
Field(signature, at, absolute, extended, size) ==
  [signature |-> signature, data |-> at, absolute |-> absolute, extended |-> extended, size |-> size]

FieldsInit == reading = NotReading

\* The field bytes are there; ParseFields starts.
Cut(n, size, compressed) ==
  reading' = [record |-> n, length |-> size, at |-> 0, fields |-> <<>>,
              base |-> IF compressed THEN None ELSE DataOffset(n)]

\* Inflate: the declared size must fit and be what zlib delivers.
Inflates(n, declared, inflated) ==
  /\ DataSize(n) >= Word
  /\ declared <= MaxInt
  /\ inflated = declared

\* Mutant of ReadData: any size is read.
ReadDataAnySize(n, declared, inflated) ==
  \/ n.header.kind = "record" /\ Cut(n, DataSize(n), FALSE)
  \/ n.header.kind = "compressed" /\ Inflates(n, declared, inflated) /\ Cut(n, declared, TRUE)

\* ReadRecordDataCoreAsync up to ParseFields.  inflated is what ZLibStream
\* yields, null for invalid data.
ReadData(n, declared, inflated) ==
  /\ DataSize(n) <= MaxInt
  /\ \/ n.header.kind = "record" /\ Cut(n, DataSize(n), FALSE)
     \/ n.header.kind = "compressed" /\ Inflates(n, declared, inflated) /\ Cut(n, declared, TRUE)

DataRefused(n, declared, inflated) ==
  \/ DataSize(n) > MaxInt
  \/ n.header.kind = "compressed" /\ ~Inflates(n, declared, inflated)

-----------------------------------------------------------------------------
(* ParseFields                                                             *)

Left == reading.length - reading.at
DataStart(extended) ==
  reading.at + FieldHeaderSize + IF extended THEN Word + FieldHeaderSize ELSE 0

\* An XXXX header is usable: its own size, a whole field header behind its
\* word, and a size (in the word) that fits.
ExtendedOk(declared, size) ==
  /\ declared = Word
  /\ Left >= FieldHeaderSize + Word + FieldHeaderSize
  /\ size <= MaxInt

\* Mutant of FieldOk: an XXXX size may run past the data.
FieldOkUnbounded(extended, declared, size) ==
  /\ Left >= FieldHeaderSize
  /\ IF extended THEN ExtendedOk(declared, size)
     ELSE size = declared /\ DataStart(extended) + size <= reading.length

\* The field at reading.at is accepted with this size.
FieldOk(extended, declared, size) ==
  /\ Left >= FieldHeaderSize
  /\ IF extended THEN ExtendedOk(declared, size) ELSE size = declared
  /\ DataStart(extended) + size <= reading.length

\* One turn of the loop.  With an XXXX header, signature is that of the field
\* behind it, whose own 16-bit size is not looked at.
ParseField(extended, signature, declared, size) ==
  /\ IsReading /\ Left > 0
  /\ ~extended => signature # "XXXX"
  /\ FieldOk(extended, declared, size)
  /\ LET start == DataStart(extended)
         field == Field(signature, start,
                    IF reading.base = None THEN None ELSE reading.base + start,
                    IF extended THEN reading.at ELSE None, size)
     IN  reading' = [reading EXCEPT !.at = start + size, !.fields = Append(@, field)]

FieldRefused(extended, declared, size) ==
  /\ IsReading /\ Left > 0
  /\ ~extended => size = declared
  /\ ~FieldOk(extended, declared, size)

FieldsDone == IsReading /\ Left <= 0

-----------------------------------------------------------------------------
(* PluginHeader.FromRecordData                                             *)

\* The fields of a TES4 record make a plugin header: HEDR is there and long
\* enough, the form ids of ONAM are whole, INCC is one integer.
HeaderIsValid(fields) ==
  /\ \E i \in DOMAIN fields : fields[i].signature = "HEDR"
  /\ \A i \in DOMAIN fields :
       /\ fields[i].signature = "HEDR" => fields[i].size >= HedrSize
       /\ fields[i].signature = "ONAM" => fields[i].size % Word = 0
       /\ fields[i].signature = "INCC" => fields[i].size = Word

-----------------------------------------------------------------------------
(* Properties                                                              *)

\* Where the field begins, its XXXX header included.
Start(f) == IF f.extended # None THEN f.extended ELSE f.data - FieldHeaderSize

FieldSet ==
  [signature : Signatures, data : Nat, absolute : Nat \cup {None}, extended : Nat \cup {None}, size : Nat]

\* What is read is a record of the file; without compression its data are the
\* bytes behind its header.  No field reaches behind the position.
ReadingInv ==
  IsReading =>
    /\ reading \in [record : FileNodes, length : Nat, at : Nat, fields : Seq(FieldSet),
                    base : Nat \cup {None}]
    /\ reading.record.header \in RecordHeaders
    /\ DataSize(reading.record) <= MaxInt
    /\ IF reading.record.header.kind = "compressed" THEN reading.base = None
       ELSE reading.base = DataOffset(reading.record) /\ reading.length = DataSize(reading.record)
    /\ reading.at <= reading.length
    /\ \A i \in DOMAIN reading.fields :
         LET f == reading.fields[i] IN
         /\ f.data + f.size <= reading.at
         /\ f.absolute = IF reading.base = None THEN None ELSE reading.base + f.data

\* The fields read so far cut the data into consecutive pieces: every byte
\* before `at' belongs to one field, none lies behind the data.
FieldsPartitionData ==
  IsReading =>
    /\ reading.at <= reading.length
    /\ \A b \in 0..(reading.at - 1) :
         Cardinality({i \in DOMAIN reading.fields :
           /\ Start(reading.fields[i]) <= b
           /\ b < reading.fields[i].data + reading.fields[i].size}) = 1

\* A field's offset in the file, where it has one, is that of the byte it
\* stands for: inside the data of its record, which is inside the file.
FieldsLieInRecord ==
  IsReading =>
    \A i \in DOMAIN reading.fields :
      LET f == reading.fields[i] IN
      IF reading.record.header.kind = "compressed" THEN f.absolute = None
      ELSE /\ f.absolute = DataOffset(reading.record) + f.data
           /\ f.absolute + f.size <= EndOffset(reading.record)
           /\ EndOffset(reading.record) <= length

\* ParseFields: the fields are the data of the record, each byte in one of them,
\* and their offsets lead to the same bytes in the file.
FieldsAreRight == FieldsPartitionData /\ FieldsLieInRecord
=============================================================================
