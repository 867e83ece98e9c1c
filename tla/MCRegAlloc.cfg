CONSTANTS
    r1 = r1
    r2 = r2
    r3 = r3
    VirtualRegs <- MCVirtualRegs
    NoReg = NoReg
    Graphs <- MCGraphs
    NumRegisters = 2
    CalleeSaved = {2}
SPECIFICATION Spec
INVARIANTS
    LiveOutIsExact
    NothingLiveIsDestroyed
    LayoutIsComplete
    HandsOverAWorkload
