CONSTANTS
  alice = alice
  bob = bob
  Phones = {alice, bob}
  Messages = {1}
  From <- MCFrom
  To <- MCTo
  Trials = 2
  Regimes <- Steady
  None = None
  LinkRegimes <- Quiet
  Nodes = {src, dst, r1, r2}
  r1 = r1
  Src = src
  Dst = dst
  Message = m
  Fragments = {f1, f2}
  AckPacket = ack
  DefaultTtl = 2
  PacketRegimes <- Every
  Contacts = {1, 2, 3}
  Gap = 2
  Caps = {1, 2, 3, 4}
  Missing = {0, 2}
  TFail = 1
  THandshake = 3
  MaxTime = 5
SPECIFICATION AnalysisSpec
INVARIANTS
  WindowsAreTrue FatesAreTrue FiguresAgree LegsAreTrue EstablishmentIsTrue PacketsAreTrue CapsAreTrue
CHECK_DEADLOCK FALSE
