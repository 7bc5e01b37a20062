SPECIFICATION MCSpec
CONSTANTS
  MosPcs = {4336, 65520}
  MosLows = {0, 16, 255}
  MosHighs = {0, 144}
  MosDigits = {0, 1, 9, 16, 25, 73, 89, 144, 153}
  G45Operands = {0, 1, 144, 255}
  G45QuadBytes = {0, 255}
  G45Bcd = {0, 1, 9, 16, 25, 73, 89, 144, 153}
  Addrs = {p, q}
  Accs = {a}
  Vals = {u, v}
  Types = {"exec", "write"}
  Conds = {}
  MaxBps = 0
  MaxHits = 0
  Limits = {0}
  Rom = {q}
  Capacity = 1
  MaxWrites = 1
  MaxLog = 2
  MaxDepth = 0
  MaxSnaps = 1
INVARIANTS
  MosRight G45Right NewestEntryUndoes
