\* Two calls of the script at once, free to name any job, and one job.
SPECIFICATION Spec
CONSTANTS
    s1 = s1
    s2 = s2
    Sessions = {s1, s2}
    Stages = {"new", "deployed"}
    MaxTasks = 1
    MaxAsk = 3
    StaleAfter = 1
SYMMETRY SessionSymmetry
INVARIANTS
    TypeOK
    MoveIsActionable
    AnswersNeverOutnumberQuestions
    HeartbeatCoversWork
    AnswerMatchesQuestion
PROPERTIES
    NoAnswerErasedUnread
    HandoffSpec
CHECK_DEADLOCK FALSE
