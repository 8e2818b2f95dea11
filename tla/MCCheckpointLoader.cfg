\* Names of up to two units, records of up to two tensors; the limits are
\* within reach of both.
SPECIFICATION Spec
CONSTANTS
  MaxWord = 15
  Float32Size = 2
  MinInt8 = 8
  Magic = 14
  Configs = {3}
  MaxTensors = 2
  MaxRank = 2
  MaxNameSize = 2
  MaxPayload = 4
  MaxTotalPayload = 6
  Damage = {0, 1, 2, 3, 8, 9}
  ScaleSuffix <- MCSuffix
  Names <- MCNames
  IsUtf8 <- MCIsUtf8
  Files <- MCFiles
  TensorLists <- MCTensorLists
INVARIANTS
  BuffersFitTheFile
  AcceptsExactlyCheckpoints
