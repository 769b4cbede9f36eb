SPECIFICATION Spec
CONSTANTS
  p1 = p1
  p2 = p2
  p3 = p3
  p4 = p4
  p5 = p5
  ble = ble
  udx = udx
  Packets = {p1, p2, p3, p4}
  Links = {ble}
  CreatedAt <- StampsUsed
  ForAsker = {p2, p4}
  Held = {}
  Targeted = {}
  Limits = {1}
  MaxFrames = 3
  MaxConvey = 1
  StartNow = 3
  MaxNow = 3
  Ahead = 1
  OnSchedule = FALSE
  Expires = FALSE
  MaxFaults = 0
PROPERTIES RoundsAskForTheNewest
