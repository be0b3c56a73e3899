CONSTANTS
    NeverHeld = {"win"}
    ResetReleases = TRUE
    OSFails = TRUE
    Locking = FALSE
    Studying = TRUE
    Crashing = TRUE
SPECIFICATION Spec
INVARIANTS TrialsStrandOnlyTheLit
