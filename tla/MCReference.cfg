SPECIFICATION MCSpec
CONSTANTS
  p1 = p1  s1 = s1  s2 = s2  away = away
  facade = facade  core = core  old = old  new = new  pinned = pinned
  None = None
  Procs = {p1}
  Shas = {s1, s2}
  Elsewhere = {away}
  Crates = {facade, core}
  Versions = {old, new}
  HeadVersion = new
  BaseLock <- MCBaseLock
  Configs = {pinned}
  Ignored = FALSE
  Passes = 3
  MaxKills = 2
  MaxMoves = 2
  Costs = {2, 7}
  K_MAX = 3
  WINDOW_IR = 6
  Room = 1
  Leaves = FALSE
  a = a  b = b  c = c  app = app  Nobody = Nobody
  Units = {a, b, c, app}
  Members = {app}
  Needs <- MCNeeds
  Plans <- MCPlans
  MaxBuilt = 6
  MaxCleans = 1
INVARIANTS MeasuresBase HealsItself UsersKept MeasuredWhole BaseLinks
PROPERTY NobodyWaits
