SPECIFICATION Spec
CONSTANTS
  a = a
  b = b
  wide = wide
  Fields = {f, g}
  Missing = missing
  Nowhere = nowhere
  Unsaid = unsaid
  NoCommand = NoCommand
  Chars = {a, b}
  WideChars = {wide}
  NamedKeys = {enter}
  Texts <- ShortTexts
  KeyTexts <- TypedTexts
  Distances <- UpAndDown
  Sessions <- FourKinds
  Patient = TRUE
  Late = TRUE
  MaxCommands = 3
INVARIANTS
  PageAsAsked
  PrintedAsAsked
CHECK_DEADLOCK FALSE
