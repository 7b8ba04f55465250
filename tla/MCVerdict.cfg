SPECIFICATION VerdictSpec
CONSTANTS
    p = p
    q = q
    i = i
    t = t
    None = None
    DocsName = docs
    TestName = tests
    Layouts <- MCLayouts
    Writers = {w}
    Readers = {r}
    TailBlocks = 2
    Contents = {0, 1}
    Base = 0
    MaxFaults = 1
INVARIANTS
    ConclusionIsEarned
    WorstDecides
