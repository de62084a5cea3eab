\* Two watchers armed at once.
SPECIFICATION WatchSpec
CONSTANTS
    w1 = w1
    w2 = w2
    j1 = j1
    Watchers = {w1, w2}
    Jobs = {j1}
    MaxSpells = 1
    MaxKills = 0
INVARIANT OnlyTheHolderFrees
CHECK_DEADLOCK FALSE
