SPECIFICATION Spec
CONSTANTS
  p = p
  q = q
  a = a
  b = b
  x = x
  f1 = f1
  f2 = f2
  None = None
  Packages = {p, q}
  Items = {a, b, x}
  N = 2
  ShardOf <- TwoShards
  Files = {f1, f2}
  Listings <- Shared
  Filters <- Unfiltered
  Reuses <- AnyWhole
  Planned = {p, q}
  MeasureAll = FALSE
  MayCrash = TRUE
  Rerun = FALSE
  MaxCommits = 0
CHECK_DEADLOCK FALSE
INVARIANTS LegsMerge MergeAccounts
SYMMETRY Interchangeable
