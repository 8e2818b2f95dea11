\* What docs/generation.md says of every value, of values that are infinite or NaN.
SPECIFICATION Spec
CONSTANTS
  HeadCount = 2
  HeadSize = 2
  Capacity = 3
  Rows <- MCRows
  NaN = NaN
  PosInf = PosInf
  NegInf = NegInf
  Exp <- MCExp
INVARIANTS
  OutputIsCausal
