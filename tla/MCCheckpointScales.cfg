\* Undamaged files with a name, its scale's name and that name's scale's name.
SPECIFICATION Spec
CONSTANTS
  MaxWord = 15
  Float32Size = 2
  MinInt8 = 8
  Magic = 14
  Configs = {3}
  MaxTensors = 2
  MaxRank = 2
  MaxNameSize = 3
  MaxPayload = 4
  MaxTotalPayload = 6
  Damage = {0, 1, 2, 3, 8, 9}
  ScaleSuffix <- MCSuffix
  Names <- MCScaleNames
  IsUtf8 <- MCIsUtf8
  Files <- MCWholeFiles
  TensorLists <- MCTensorLists
INVARIANT ScalesAreFloats
