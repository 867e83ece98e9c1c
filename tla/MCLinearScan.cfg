CONSTANTS
    NumRegisters = 3
    CalleeSaved = {2, 3}
    MaxIntervals = 4
    LastPosition = 3
    MaxCalls = 1
    Workloads <- MCWorkloads
SPECIFICATION Spec
INVARIANTS
    NoSharedHome
    SafeAcrossCalls
    IInv
PROPERTIES
    SpillsTheLongestLived
    MovesOnlyToFreshSlots
