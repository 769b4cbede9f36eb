--------------------------- MODULE MCNoiseSession ---------------------------
(* NoiseSession with handlers that take turns, with handlers that overlap. *)
EXTENDS NoiseSession
Regime(overlap, faults) == [overlap |-> overlap, left |-> faults]
BothRegimes == {Regime(FALSE, 2), Regime(TRUE, 1)}
Overlapping == {Regime(TRUE, 0)}
TakingTurns == {Regime(FALSE, 3)}
=============================================================================
