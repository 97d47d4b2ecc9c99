CONSTANTS
  Pad = Pad
  Blank = Blank
  Other = Other
  NoRole = NoRole
  NoId = NoId
  Unwritable = Unwritable
  Rooms <- Space
  Width = 20
  FloatLimit <- LimitDigits
  NumberTexts <- Numerals
  Strings <- StringTokens
  Scalars = {"n"}
  BadToken = "?"
  ByteStrings <- Bytes
  UnitStrings <- Units
  TokenLists <- TokenTexts
  Replies <- Answers
  NodeLists <- Trees
SPECIFICATION Spec
INVARIANTS
  StringsSurvive
  LinesCarryStrings
  NumbersSurvive
  ParsesGrammar
  CaptureIsWhole
  SnapshotShowsTree
CHECK_DEADLOCK FALSE
