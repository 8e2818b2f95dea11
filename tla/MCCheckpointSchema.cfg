\* Sizes up to 41: two layers can be counted whatever their precision, three
\* cannot; a pass of six tokens does not fit, one of five does.  Weights are
\* quantized to seven levels.
SPECIFICATION ComposedSpec
CONSTANTS
  MaxSize = 41
  Checkpoints <- MCCheckpoints
  Sources <- MCSources
  Levels = 3
INVARIANTS
  TypeOK
  AcceptsExactlyModels
  PassFailsOnlyForASize
  LogitsCoverTheVocabulary
  DequantizedIsNear
  ExportsExactlyModels
  ExportIsAccepted
