SPECIFICATION Spec
CONSTANTS
  a = a  r = r  c = c  
  Nodes = {a, r, c}
  Messages = {m1, m2}
  From <- MCFrom
  To <- MCTo
  Fragments <- One
  Links <- Triangle
  Open = {a, r, c}
  Ttl = 1
  NonceWindow = 1
  BufferAge = 1
  SeenAge = 1
  PartsAge = 1
  FaultKinds = {}
  MaxNow = 2
  MaxFaults = 0
CHECK_DEADLOCK FALSE
INVARIANT DeliveredOnce
