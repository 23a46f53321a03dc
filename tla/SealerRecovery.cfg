CONSTANTS
  p1 = p1
  i1 = i1
  i2 = i2
  i3 = i3
  i4 = i4
  m1 = m1
  m2 = m2
  Proc = {p1}
  Inference = {i1, i2, i3}
  PairOf <- Pairs
  Setups <- AllSetups
  MaxEnds = 3
SPECIFICATION Spec
CHECK_DEADLOCK FALSE
INVARIANT TypeOK
INVARIANT EveryHoleDeclared
INVARIANT DeclaredOnce
INVARIANT ReleasedIsSealed
PROPERTY SealedInContext
