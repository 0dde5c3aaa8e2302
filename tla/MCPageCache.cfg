SPECIFICATION HistoryFairSpec
CONSTANTS
  r1 = r1
  r2 = r2
  Readers <- TwoReaders
  NoOne = NoOne
  FileLength = 5
  Content <- MCContent
  Blank = Blank
  PageSize = 2
  MaxPages = 2
  Requests <- MCRequests
CHECK_DEADLOCK FALSE
INVARIANTS
  IInv
  LoadsOnce
  HoldsMostRecent
PROPERTIES
  ImplementsSource
  ReadsReturn
