SPECIFICATION FairSpec
CONSTANTS
  short = short
  long = long
  Messages = {short, long}
  Fragments <- FragmentsUsed
  MaxMessages = 1
  CancelMidSend = FALSE
  RetireOnSend = {TRUE, FALSE}
  DeleteMidSend = TRUE
INVARIANTS IndexMirrorsBuffer ConfirmedHoldsNothing StoredBeforeWritten
PROPERTIES StatusNeverRegresses SendsSettle
