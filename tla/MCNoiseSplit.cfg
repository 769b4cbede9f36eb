SPECIFICATION Spec
CONSTANTS
    Lo = Lo
    Hi = Hi
    Regimes <- Overlapping
INVARIANTS
    NoSplitSession
