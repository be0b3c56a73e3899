CONSTANTS
    Profiles <- Typists
    PillWords <- Pills
    Corrections <- Fixes
    SnippetText <- Snip
    SpokenText <- Phrase
    Tokens <- AllTokens
    FieldValues <- Values
    Domains <- Hosts
    MaxSightings = 1
SPECIFICATION BarSpec
CHECK_DEADLOCK FALSE
INVARIANTS WordAtCaret FragmentsNeverTaught BarIsForTheText
PROPERTIES PillIsTheWord
