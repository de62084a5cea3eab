\* The project's three attempts.  A limit of four and texts of up to nine make
\* up to three chunks, with every placing of the blanks around each cut.
SPECIFICATION Spec
CONSTANTS
    Letters = {x, y}
    MaxLength = 9
    MAX_MESSAGE_LENGTH = 4
    DEFAULT_SEND_ATTEMPTS = 3
INVARIANTS
    NothingWrittenIsLost
    ChunksReadInOrder
    EveryChunkIsTried
PROPERTY LinesCutOnlyWhenUnavoidable
CHECK_DEADLOCK FALSE
