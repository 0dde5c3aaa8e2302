SPECIFICATION FairSpec
CONSTANTS
  master = master
  mod = mod
  copy = copy
  t1 = t1
  t2 = t2
  Tasks <- TwoTasks
  NoOne = NoOne
  Sources <- AllSources
  NoPlugin = NoPlugin
  NameOf <- MCNameOf
  MastersOf <- MCMastersOf
  RecordsOf <- MCRecordsOf
  References <- MCReferences
CHECK_DEADLOCK FALSE
INVARIANTS
  OwnershipKept
  BuiltOnce
  ResolvesRight
PROPERTIES
  DisposalComplete
  CallsReturn
