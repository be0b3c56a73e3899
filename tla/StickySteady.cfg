CONSTANTS
    NeverHeld = {}
    ResetReleases = TRUE
    OSFails = FALSE
    Locking = TRUE
    Studying = FALSE
    Crashing = TRUE
SPECIFICATION Spec
INVARIANTS HeldIsLit LitIsHeld NoStrayModifier
PROPERTIES LocksSurviveKeystrokes
