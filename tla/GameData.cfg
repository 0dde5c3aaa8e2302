SPECIFICATION FairSpec
CONSTANTS
  c1 = c1
  c2 = c2
  r1 = r1
  r2 = r2
  Calls = {c1, c2}
  Roots = {r1, r2}
  Listing <- MCListing
  RankOf <- MCRankOf
  Content <- MCContent
  Requests <- MCRequests
  LowerOf <- MCLowerOf
  Outside = {".."}
  None = None
  Failed = Failed
  NoOne = NoOne
  WordSize = 2
  MaxArray = 20
  MaxOpens = 4
INVARIANTS
  IndexIsOfRoot
  OpenWhileRead
PROPERTIES
  ImplementsAssets
  OthersRemain
  CallsReturn
