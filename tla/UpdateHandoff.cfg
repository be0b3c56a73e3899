SPECIFICATION Spec
CONSTANTS
    MaxAttempts = 2
    MaxFaults = 2
CHECK_DEADLOCK FALSE
INVARIANTS ToastIsTrue
PROPERTIES LaunchesAreSafe ScreenSettles
