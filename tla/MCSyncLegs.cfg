SPECIFICATION FairSpec
CONSTANTS
  p1 = p1
  p2 = p2
  p3 = p3
  p4 = p4
  p5 = p5
  ble = ble
  udx = udx
  Packets = {p1, p4, p5}
  Links = {ble, udx}
  CreatedAt <- StampsUsed
  ForAsker = {}
  Held = {}
  Targeted = {udx}
  Limits = {2}
  MaxFrames = 2
  MaxConvey = 1
  StartNow = 3
  MaxNow = 5
  Ahead = 0
  OnSchedule = TRUE
  Expires = FALSE
  MaxFaults = 0
PROPERTIES SeenGroundIsSwept
