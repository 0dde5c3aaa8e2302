SPECIFICATION ViewerFairSpec
CONSTANTS
  page1 = page1
  page2 = page2
  r1 = r1
  r2 = r2
  Pages <- TwoPages
  Calls <- MCCalls
  Roots = {r1, r2}
  Linked <- MCLinked
  Typed <- MCTyped
  Paths <- MCPaths
  Answers <- MCAnswers
  Elsewhere = Elsewhere
  None = None
  Failed = Failed
CHECK_DEADLOCK FALSE
INVARIANTS
  RequestServed
  FirstFound
PROPERTY LoadingEnds
