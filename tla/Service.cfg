\* The four stores of the application.  The three attempts of the project, one
\* second before the second: limits of up to five seconds fall short of, on and
\* beyond the three that the pauses cover.
SPECIFICATION Spec
CONSTANTS
    Stores <- StoresOfEmma
    MaxAttempts = 3
    Backoff = 1
    CallTime = 1
    LongestLimit = 5
INVARIANTS
    NobodyIsStranded
    UsersStopFirst
    RefusedOnlyWhenHopeless
    NoTurnOutlivesWhatItUses
PROPERTY NoFutileAttempt
CHECK_DEADLOCK FALSE
