\* Two prompts of at most two rounds, housekeeping of two more after any.
SPECIFICATION Spec
CONSTANTS
    a = a
    b = b
    Sayings = {a, b}
    MaxPrompts = 2
    MaxCalls = 2
    MaxRounds = 2
    HkRounds = 2
    MaxRepeated = 2
    MaxNoProgress = 2
    TailNodes = 1
    TailCalls = 1
    Deferring = FALSE
    Retries <- OneRetry
    Nothing = Nothing
SYMMETRY Swap
\* after MaxPrompts nothing prompts the session
CHECK_DEADLOCK FALSE
INVARIANTS
    TypeOK
    OwnPromptSurvives
    NothingIsLost
    HousekeepingTidies
    WarnedInTime
    ResultIsReturned
