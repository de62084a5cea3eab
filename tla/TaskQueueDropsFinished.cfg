\* The developer finishes a job while EMMA is dropping it.
SPECIFICATION Spec
CONSTANTS
    s1 = s1
    Sessions = {s1}
    Stages = {"new", "deployed"}
    MaxTasks = 1
    MaxAsk = 2
    StaleAfter = 0
PROPERTY FinishedIsNotDropped
CHECK_DEADLOCK FALSE
