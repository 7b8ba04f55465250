SPECIFICATION Spec
CONSTANTS
  p1 = p1  p2 = p2  t1 = t1  t2 = t2  t3 = t3  b1 = b1  b2 = b2  item1 = item1  item2 = item2
  None = None
  HEAD = HEAD
  Procs = {p1, p2}
  Trees = {t1, t2, t3}
  Binaries = {b1, b2}
  Bin <- MCBin
  Items = {item1, item2}
  Listing <- MCListing
  Claims <- MCClaims
  Breaks <- MCBreaks
  Shards <- Split
  Filters <- Whole
  Starts <- MCStarts
  KEEP = 4
  Gating = "callgrind"
  Moves = FALSE
  MaxCommits = 2
  MaxRuns = 2
SYMMETRY MCSymmetry
INVARIANTS RunsNamed RunsWhole FailuresMeasured
PROPERTY ImplementsMemo
