SPECIFICATION Spec
CONSTANTS
  Number <- MCNumber
  Quoted <- MCQuoted
  Upper <- MCUpper
  Lower <- MCLower
  MaxDepth = 6
  RuleType = {"THRESHOLD", "COMPOSITE", "PATTERN"}
  Piece <- MCExamplePiece
  MaxPieces <- ThreePieces
  Limit <- MCLimit
  Transaction <- MCTransaction
  Answer <- MCAnswer
INVARIANT
  AcceptedIsPushed
