SPECIFICATION Spec
CONSTANTS
  p1 = p1  p2 = p2
  src = src  doc = doc  a = a  b = b
  Procs = {p1, p2}
  Parts = {src, doc}
  Contents = {a, b}
  InKey = {src}
  InInputs = {src, doc}
  SizeOf <- MCSizes
  EditsInWindow = FALSE
  RebuildsInDigest = FALSE
  MaxEdits = 2
  MaxStores = 2
  None = None
  Target = Target
SYMMETRY MCSymmetry
INVARIANTS EntrySound ServedIsTheTree DigestNamesTheBinary
