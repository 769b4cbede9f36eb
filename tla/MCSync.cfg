SPECIFICATION FairSpec
CONSTANTS
  p1 = p1
  p2 = p2
  p3 = p3
  p4 = p4
  p5 = p5
  ble = ble
  udx = udx
  Packets = {p1, p2, p3, p4}
  Links = {ble}
  CreatedAt <- StampsUsed
  ForAsker = {p2, p3}
  Held = {p2, p3}
  Targeted = {}
  Limits = {1, 2}
  MaxFrames = 2
  MaxConvey = 1
  StartNow = 3
  MaxNow = 4
  Ahead = 1
  OnSchedule = TRUE
  Expires = TRUE
  MaxFaults = 1
INVARIANTS FramesAreDisjoint HungerIsAccounted
PROPERTIES SeenGroundIsSwept HeldMailArrives FramesNameTheirWindows ReachIsNotUnderstated
