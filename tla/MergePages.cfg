SPECIFICATION MigrationSpec
CONSTANTS
 MaxComment = 4
 Databases <- Found
 MaxFaults = 2
 MaxBoots = 3
CHECK_DEADLOCK FALSE
INVARIANTS
 MergeKept
