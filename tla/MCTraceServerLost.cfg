CONSTANTS
  Uploads <- MCUploads
  Batch <- MCBatch
  Like <- MCUploads
  b1 = b1
  b2 = b2
  q = q
  g = g
  Builds = {b1, b2}
  Readers = {q}
  Layouts = {g}
  Regimes <- Lost
  None = None
SPECIFICATION Spec
INVARIANTS AckedIsServed
CHECK_DEADLOCK FALSE
