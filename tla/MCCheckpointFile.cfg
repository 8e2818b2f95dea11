\* Two exports, one on top of the other, and a reader that may come at any time.
SPECIFICATION FileSpec
CONSTANTS
  MaxWord = 15
  Float32Size = 2
  MinInt8 = 8
  Magic = 14
  Configs = {3}
  MaxTensors = 2
  MaxRank = 2
  MaxNameSize = 2
  MaxPayload = 4
  MaxTotalPayload = 6
  MaxExports = 2
  Files = {}
  ScaleSuffix <- MCSuffix
  IsUtf8 <- MCIsUtf8
  TensorLists <- MCTensorLists
INVARIANTS
  LoadedIsTheExport
  WrittenCanBeRead
  AcceptedIsValid
