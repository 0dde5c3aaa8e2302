SPECIFICATION PaneSpec
CONSTANTS
  g = g
  twin = twin
  r = r
  other = other
  p = p
  q = q
  Records = {r, other}
  GroupNodes = {g, twin}
  MaxReads = 3
  WindowOf <- MCWindowOf
  PluginOf <- MCPluginOf
  PageSize = 2
  Nothing = Nothing
INVARIANTS
  SettlesRight
