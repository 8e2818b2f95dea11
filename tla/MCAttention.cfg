\* Every text of up to three rows, every cut of it into passes, and whatever an
\* earlier text or a failed pass left in the cache.
SPECIFICATION Spec
CONSTANTS
  HeadCount = 2
  HeadSize = 2
  Capacity = 3
  Rows <- MCRows
  NaN = NaN
  PosInf = PosInf
  NegInf = NegInf
  Exp <- MCExp
INVARIANT OutputIsReference
