INIT BackupInit
NEXT BackupNext
CONSTANTS
    NoContents = NoContents
    Mixed = Mixed
    MaxVersion = 2
    retain_count = 1
    MaxRestores = 1
CHECK_DEADLOCK FALSE
INVARIANT RestoredIsTheSnapshot
