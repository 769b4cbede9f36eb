SPECIFICATION FairSpec
CONSTANTS
  p1 = p1
  p2 = p2
  p3 = p3
  p4 = p4
  p5 = p5
  ble = ble
  udx = udx
  Packets = {p1, p2, p4}
  Links = {ble}
  CreatedAt <- StampsUsed
  ForAsker = {}
  Held = {}
  Targeted = {}
  Limits = {2}
  MaxFrames = 3
  MaxConvey = 1
  StartNow = 3
  MaxNow = 4
  Ahead = 0
  OnSchedule = TRUE
  Expires = FALSE
  MaxFaults = 0
PROPERTIES GroundUnderPrefixIsSwept
