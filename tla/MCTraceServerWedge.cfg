CONSTANTS
  Uploads <- MCUploads
  Batch <- MCBatch
  Like <- MCUploads
  b1 = b1
  b2 = b2
  q = q
  g = g
  Builds = {b1, b2}
  Readers = {q}
  Layouts = {g}
  Regimes <- Wedged
  None = None
SPECIFICATION FairSpec
PROPERTIES UploadsLand
CHECK_DEADLOCK FALSE
