SPECIFICATION Spec
CONSTANTS
    Lo = Lo
    Hi = Hi
    Regimes <- TakingTurns
PROPERTIES
    TimerSparesSession
