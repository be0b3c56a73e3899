SPECIFICATION Spec
CONSTANTS
    MaxJobs = 2
    Practice = 1
    Scored = 1
    MaxVersions = 2
    MaxFaults = 2
CHECK_DEADLOCK FALSE
INVARIANTS EnginesAccountedFor TrialIsContained LogCoversCursor
