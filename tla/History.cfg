\* A window of three is odd, so that a pair is split at its edge; three
\* turns roll it over, prune it late and prune it again.  Two rounds of up to two
\* calls are what it takes to replay one reply beside another, and two objects to
\* tell whose arguments a call comes back with.
SPECIFICATION Spec
CONSTANTS
    x = x
    y = y
    Objects = {x, y}
    MaxMessages = 3
    MaxTurns = 3
    MaxRounds = 2
    MaxBlocks = 2
INVARIANTS
    AnswersFollowTheirQuestions
    RequestsAreWellFormed
    RepliesAreReplayed
PROPERTY ImplementsWindow
CHECK_DEADLOCK FALSE
