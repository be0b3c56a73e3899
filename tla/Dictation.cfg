CONSTANTS
    MaxPhrases = 2
    Networked = {TRUE, FALSE}
SPECIFICATION Spec
INVARIANTS PrivacyIsSilent WordsOnce NothingLost
PROPERTIES EveryRunEnds
