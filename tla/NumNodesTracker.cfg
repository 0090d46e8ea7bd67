SPECIFICATION Spec
CONSTANTS
  Threads = {t1, t2}
  InitialNumNodes = 15
  Limits = {9, 10}
  MaxContractions = 1
INVARIANTS
  NeverUnderestimates
  PassOvershootBounded
