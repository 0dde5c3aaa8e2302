SPECIFICATION FairSpec
CONSTANTS
  first = first
  second = second
  t1 = t1
  t2 = t2
  g = g
  Tasks <- TwoTasks
  Plugins <- TwoPlugins
  NoPlugin = NoPlugin
  Groups <- OneGroup
  TopLevel = TopLevel
  Path <- GroupPath
  MayFail <- OneGroupOfSecond
CHECK_DEADLOCK FALSE
PROPERTIES
  SelectionIsLive
  ChildrenOwn
  GoToShows
  BusyEnds
