SPECIFICATION G45Spec
CONSTANTS
  G45Operands = {0, 16}
  G45QuadBytes = {0, 255}
  G45Bcd = {0, 1}
INVARIANT G45TargetsTold
