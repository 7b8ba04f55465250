SPECIFICATION MCSpec
CONSTANTS
  i1 = i1  i2 = i2  ins = ins  alloc = alloc  wall = wall  f0 = f0  f1 = f1
  None = None
  Absent = Absent
  Never = Never  p = p  q = q  c = c  e = e  f = f  g = g  x = x  y = y
  Items = {i1}
  Counters = {ins}
  Counts = {alloc}
  Alloc = {alloc}
  Wall = wall
  Limit <- MCLimit
  Floor <- MCFloor
  FlatPct = 1
  FlatAbs = 0
  Measures <- MCMeasures
  Runs <- MCNoHeadroom
  AgainstRef = TRUE
  SaveNames = {}
  ReacceptStale = FALSE
  MaxCommits = 5
  Names = {p, q}
  Fields = {f, g}
  Pinned = {g}
  Schemas <- MCSchemas
  Sources = {c, e}
  Binds <- MCBinds
  Formats = {1, 3}
  VERSION = 2
  Pages = {p, q}
  Scope = {p}
  Codes = {x, y}
  MaxBlocks = 2
  MaxEdits = 3
INVARIANTS GreenIsReviewed DroppingNeverHelps LockEarned CapturedOwn StampTrue
PROPERTIES AcceptSettles SavesKeepGreen
