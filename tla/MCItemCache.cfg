SPECIFICATION Spec
CONSTANTS
  p1 = p1  p2 = p2  one = one  two = two  r1 = r1  r2 = r2  fng = fng  fnh = fnh
  callsG = callsG  callsH = callsH  leaf = leaf  slow = slow
  b1 = b1  b2 = b2  b3 = b3  b4 = b4  f0 = f0  f1 = f1
  None = None  Absent = Absent  Empty = Empty  Torn = Torn
  Procs = {p1, p2}
  Items = {one, two}
  Functions = {r1, r2, fng, fnh}
  Contents = {callsG, callsH, leaf, slow}
  Binaries = {b1, b2, b3, b4}
  Code <- MCCode
  Calls <- MCCalls
  Root <- MCRoot
  Listing <- MCListing
  Finger <- MCFinger
  Hashed <- MCHashed
  Broken <- MCBroken
  Starts <- MCStarts
  PerItem = 1
  KEEP = 1
  MaxJobs = 1
SYMMETRY MCSymmetry
INVARIANT FailuresAreMeasured
PROPERTIES ImplementsMemo
