\* Two pids, one of which may be killed, and two jobs that may come back.
SPECIFICATION WatchSpec
CONSTANTS
    w1 = w1
    w2 = w2
    j1 = j1
    j2 = j2
    Watchers = {w1, w2}
    Jobs = {j1, j2}
    MaxSpells = 2
    MaxKills = 1
INVARIANTS
    OneWatcherPolls
    NothingIsAnnouncedTwice
PROPERTIES
    WatchingResumes
    NewJobsWakeTheSession
CHECK_DEADLOCK FALSE
