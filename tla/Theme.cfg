SPECIFICATION FairSpec
CONSTANTS
  tab1 = tab1
  tab2 = tab2
  Tabs <- TwoTabs
  MaxClicks = 2
  MaxChanges = 2
  MaxReloads = 1
  None = None
CHECK_DEADLOCK FALSE
INVARIANTS
  ShowsResolved
  LastClickCounts
PROPERTIES
  NoFlash
  ThemeSettles
