SPECIFICATION Spec
CONSTANTS
  Number <- MCNumber
  Quoted <- MCQuoted
  Upper <- MCUpper
  Lower <- MCLower
  MaxDepth = 6
  RuleType = {"PATTERN"}
  Piece <- MCPiece
  MaxPieces <- SixPieces
  Limit <- MCLimit
  Transaction <- MCTransaction
  Answer <- MCAnswer
INVARIANT
  PatternSeesHistory
