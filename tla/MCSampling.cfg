\* Top-k off, at its smallest, in the middle and beyond the vocabulary; top-p
\* off and at every quarter, and two that are refused; floats coarse enough for
\* the sum of three of them to miss one.
SPECIFICATION Spec
CONSTANTS
  VocabularySize = 4
  NaN = 101
  PosInf = 100
  NegInf <- MCNegInf
  ScoreVectors <- MCScoreVectors
  Temperatures = {0, 1, 2}
  TopKs = {0, 1, 2, 3, 4}
  TopPs = {0, 1, 2, 3, 4, 5}
  Divide <- MCDivide
  Exp <- MCExp
  PUnit = 4
  FloatUnit = 5
  Draws = 6
INVARIANTS
  KeptIsReference
  DrawnIsPermitted
  DrawSelectsItsToken
  RefusedIsUnusable
