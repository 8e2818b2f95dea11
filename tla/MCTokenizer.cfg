\* The bytes of the space, the newline and the first of two are not printable.
\* Tokens of at most four bytes; room for one token more than the larger
\* vocabulary has.
SPECIFICATION Spec
CONSTANTS
  ByteCount = 9
  Printable = {3, 4, 5, 6, 7, 8}
  FirstRemapped = 9
  FirstOfTwo = 9
  Files <- MCFiles
  EndOfText <- MCMarker
  VersionPrefix <- MCVersionPrefix
  MaxVocabularySize = 23
  MaxTokenLength = 4
  Characters = {1, 2, 3, 4, 5, 6, 7, 8}
  Letters = {4, 7}
  Numbers = {8}
  Whitespace = {1, 2}
  Space = 1
  Apostrophe = 3
  Contractions <- MCContractions
  Texts <- MCTexts
  Invalid = 0
  Utf8 <- MCUtf8
  Marker <- MCMarker
INVARIANTS
  LoadsExactlyUsableTables
  EncodeIsTotal
  MergesLowestRankFirst
  PiecesAreThePattern
  DecodeInvertsEncode
  MarkerIsOnlyFromText
