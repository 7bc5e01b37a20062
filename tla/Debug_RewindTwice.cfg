CONSTANTS
    Addrs = {p, q}
    Accs = {a}
    Vals = {u, v}
    Types = {"exec", "write"}
    Conds = {}
    MaxBps = 0
    MaxHits = 0
    Limits = {0}
    Rom = {}
    Capacity = 2
    MaxWrites = 1
    MaxLog = 2
    MaxDepth = 0
    MaxSnaps = 0
SPECIFICATION Spec
PROPERTY RewindRestores
