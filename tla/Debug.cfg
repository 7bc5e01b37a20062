CONSTANTS
    Addrs = {p, q}
    Accs = {a}
    Vals = {v}
    Types = {"exec", "write", "value"}
    Conds = {}
    MaxBps = 2
    MaxHits = 0
    Limits = {0}
    Rom = {}
    Capacity = 1
    MaxWrites = 1
    MaxLog = 1
    MaxDepth = 1
    MaxSnaps = 0
    RingCapacity = 3
    Items = {blank, x, y, z}
    Blank = blank
    NoItem = none
SPECIFICATION MCSpec
SYMMETRY AddrSymmetry
INVARIANTS
  ListConsistent AtMostOneSkip IndexedByAge
PROPERTIES
  ResumeProgresses ImplementsHistory
