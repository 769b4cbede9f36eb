SPECIFICATION Spec
CONSTANTS
  short = short
  long = long
  Messages = {short}
  Fragments <- FragmentsUsed
  MaxMessages = 1
  CancelMidSend = FALSE
  RetireOnSend = {TRUE, FALSE}
  DeleteMidSend = TRUE
INVARIANTS DeletedStaysDeleted
