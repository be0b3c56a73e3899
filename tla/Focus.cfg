CONSTANTS
    Windows = {1, 2}
    MaxMoves = 3
    MaxKeys = 3
    MaxSignals = 1
    Places <- FewPlaces
    Home <- Start
    Publishing = {1}
    Readable = {1}
    CompatClasses = {}
    CompatExes = {1}
    GameExes = {}
    Borderless = {1, 2}
    PollTicks = 2
    ProbeTicks = 1
    SettleTicks = 2
    GraceTicks = 4
    ChurnTicks = 0
    LagTicks = 1
    MaxDeeds = 2
SPECIFICATION FocusSpec
CHECK_DEADLOCK FALSE
INVARIANTS AnsweredSecretsStay LeftBehindIsDropped
PROPERTIES OlderNeverUndoes PrivacyCatchesUp TypingIsNoMove
