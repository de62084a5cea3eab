\* Kills and errors anywhere, and three disk faults on any file.
SPECIFICATION StoreSpec
CONSTANTS
    MaxWritten = 3
    MaxFaults = 3
INVARIANT OneFaultLosesOnlyTheUnsaved
PROPERTIES
    OnlyFaultsLoseHistory
    EmptyOnlyWithoutSnapshot
CHECK_DEADLOCK FALSE
