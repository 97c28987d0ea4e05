SPECIFICATION Spec
CONSTANTS
  ThreadId <- MCThreadId
  Reasons <- MCReasons
  Fens <- MCFens
  PacketCap = 2
  BatchMax = 2
  MaxMoves = 2
  MaxOwed = 2
INVARIANTS
  GeneralsSafe
  ScreenMatchesGame
  ClicksArePresses
  ButtonIsKnown
PROPERTIES
  MovesFollowRules
