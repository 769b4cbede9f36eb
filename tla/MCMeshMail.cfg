SPECIFICATION MailSpec
CONSTANTS
  a = a  r = r  c = c  
  Nodes = {a, r, c}
  Messages = {m1}
  From <- MCFrom
  To <- MCTo
  Fragments <- One
  Links <- LineAndUdx
  Open = {a, r, c}
  Ttl = 1
  NonceWindow = 4
  BufferAge = 1
  SeenAge = 1
  PartsAge = 1
  FaultKinds = {"lose", "loseUdx", "evict", "restart"}
  MaxNow = 2
  MaxFaults = 2
CHECK_DEADLOCK FALSE
PROPERTIES ImplementsMailbox MailIsServedOnLine
