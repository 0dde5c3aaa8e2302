SPECIFICATION Spec
CONSTANTS
  HeaderSize = 2
  Word = 2
  MaxInt = 7
  Lengths = {1, 5, 11}
  RecordHeaders <- MCRecordHeaders
  GroupHeaders <- MCGroupHeaders
  None = None
  FieldHeaderSize = 2
  HedrSize = 1
  FieldSizes = {0, 1, 2, 8}
  DataSizes = {3, 7, 8}
  Signatures = {"XXXX", "HEDR", "ONAM", "INCC"}
  ChunkSize = 4
INVARIANTS
  IInv
  FieldsAreRight
  IndexCoversFile
  PathIsRight
  WalksAreRight
PROPERTY ScansAreSound
