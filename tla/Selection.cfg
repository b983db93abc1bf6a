SPECIFICATION Spec
CONSTANTS
  t1 = t1
  t2 = t2
  t3 = t3
  Tokens <- Words
  Population = 5
  FreshCount = 1
  Threshold <- Half
  None = None
SYMMETRY WordSymmetry
INVARIANTS SlotsAreUsed AlikeOnlyIfForced NoveltySurvives BreedingIsFair PacketsCross
CHECK_DEADLOCK FALSE
