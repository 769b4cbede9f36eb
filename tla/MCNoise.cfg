SPECIFICATION FairSpec
CONSTANTS
    Lo = Lo
    Hi = Hi
    Regimes <- BothRegimes
INVARIANTS
    SerialHandlersAgree
    OneStart
    WaitersAreServed
PROPERTIES
    PairingConverges
