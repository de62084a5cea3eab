\* A recovery cut short beside a healthy snapshot.
SPECIFICATION StoreSpec
CONSTANTS
    MaxWritten = 2
    MaxFaults = 1
PROPERTY SnapshotIsPutInPlace
CHECK_DEADLOCK FALSE
