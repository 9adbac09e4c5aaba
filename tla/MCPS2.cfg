SPECIFICATION Spec
CONSTANTS
  one_byte <- OneByteCodes
  two_byte <- TwoByteCodes
  Packet <- Packets
  SameTime = FALSE
  NULL = NULL
  MaxInputs = 4
  Value <- Values
  MaxLen = 2
  Discard = "DiscardNewest"
INVARIANTS
  RecogniserInStep
PROPERTIES
  MousePacketsAreWhole
  DeliversKeys
  HandlersReturn
CHECK_DEADLOCK FALSE
