CONSTANTS
  Uploads <- MCUploads
  Batch <- MCBatch
  Like <- MCUploads
  b1 = b1
  b2 = b2
  q = q
  g = g
  Builds = {b1, b2}
  Readers = {q}
  Layouts = {g}
  Regimes <- Torn
  None = None
SPECIFICATION Spec
INVARIANTS AnswersAreWhole
CHECK_DEADLOCK FALSE
