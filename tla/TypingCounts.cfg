CONSTANTS
    Profiles <- FormFillers
    PillWords <- Pills
    Corrections <- Fixes
    SnippetText <- Snip
    SpokenText <- Phrase
    Tokens <- AllTokens
    FieldValues <- Values
    Domains <- Hosts
    MaxSightings = 2
SPECIFICATION BarSpec
CHECK_DEADLOCK FALSE
PROPERTY CountedOnce
