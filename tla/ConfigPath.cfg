SPECIFICATION StartupSpec
CONSTANTS
 RandomKeys <- MCRandomKeys
 Machines <- AllMachines
 MaxStarts = 2
CHECK_DEADLOCK FALSE
INVARIANTS
 RelativeHere
