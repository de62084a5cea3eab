\* The clock covers being switched off, waiting, being put back and going off
\* again.  The wait is two ticks and a turn lasts at most one.  remove_tool can be
\* removed like the ordinary tool a, so two tools can be; two jobs each are enough
\* for one to be reopened beside another.
SPECIFICATION Spec
CONSTANTS
    a = a
    Others = {a}
    MinTimeOff = 2
    TurnTime = 1
    MaxTime = 6
    MaxJobs = 2
INVARIANTS
    OneRemovalJobPerTool
    WaitIsNotRestarted
PROPERTIES
    RemovalRestsOnEvidence
    TwoOccasions
CHECK_DEADLOCK FALSE
