CONSTANTS
  Src = src
  Dst = dst
  Messages = 1
  Arms <- MCArms
  Presses <- MCPresses
  Chunk = 3
  Regimes <- Older
  Fleet = {1, 2, 3, 4, 5}
  RingSize = 4
  Talker = 1
  Listener = 3
  RingRegimes <- Rings
  None = None
SPECIFICATION FieldSpec
INVARIANTS CompletedRunSurvives
CHECK_DEADLOCK FALSE
