CONSTANTS
    Modifiers = {"shift", "ctrl"}
    MaxJobs = 5
    MaxUnits = 2
    InlineUnits = 1
    Timeouts = TRUE
SPECIFICATION Spec
CHECK_DEADLOCK FALSE
INVARIANTS NoKeyLeftDown BuiltForWhatIsDown
PROPERTIES ImplementsTypingQueue Drains
