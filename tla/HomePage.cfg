SPECIFICATION HomeSpec
CONSTANTS
  master = master
  mod = mod
  copy = copy
  home1 = home1
  home2 = home2
  call = call
  Tasks <- MCTasks
  Pages <- TwoPages
  Selections <- MCSelections
  MaxFiles = 3
  Elsewhere = Elsewhere
  NoOne = NoOne
  Sources <- MCSources
  NoPlugin = NoPlugin
  NameOf <- MCNameOf
  MastersOf <- MCMastersOf
  RecordsOf <- MCRecordsOf
  References <- MCReferences
CHECK_DEADLOCK FALSE
INVARIANTS
  NamesUniqueOnOnePage
  FilesInUse
