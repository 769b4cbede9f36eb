SPECIFICATION Spec
CONSTANTS
  p1 = p1
  p2 = p2
  p3 = p3
  p4 = p4
  p5 = p5
  ble = ble
  udx = udx
  Packets = {p1, p2, p3, p4}
  Links = {ble}
  CreatedAt <- StampsUsed
  ForAsker = {p2, p4}
  Held = {p3, p4}
  Targeted = {}
  Limits = {2}
  MaxFrames = 3
  MaxConvey = 1
  StartNow = 3
  MaxNow = 4
  Ahead = 0
  OnSchedule = FALSE
  Expires = FALSE
  MaxFaults = 0
PROPERTIES RoundsFinish
