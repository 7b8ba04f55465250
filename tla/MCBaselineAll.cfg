SPECIFICATION Spec
CONSTANTS
  p = p
  q = q
  a = a
  b = b
  x = x
  f1 = f1
  f2 = f2
  None = None
  Packages = {p, q}
  Items = {a, x}
  N = 1
  ShardOf <- OneShard
  Files = {f1}
  Listings <- Moving
  Filters <- ByItem
  Reuses <- AnyShared
  Planned = {}
  MeasureAll = TRUE
  MayCrash = FALSE
  Rerun = TRUE
  MaxCommits = 1
INVARIANT Accounted
