SPECIFICATION Spec
CONSTANTS
  short = short
  long = long
  Messages = {long}
  Fragments <- FragmentsUsed
  MaxMessages = 1
  CancelMidSend = TRUE
  RetireOnSend = {TRUE, FALSE}
  DeleteMidSend = FALSE
INVARIANTS CancelledStaysOut
