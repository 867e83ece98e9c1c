CONSTANTS
    rdi = rdi
    rsi = rsi
    rdx = rdx
    rcx = rcx
    rbx = rbx
    Registers <- MCRegisters
    Scratch = Scratch
    ArgumentRegisters <- MCArgumentRegisters
    Allocatable <- MCAllocatable
    InMemory = InMemory
    NoRegister = NoRegister
    MaxParameters = 4
SPECIFICATION Spec
INVARIANTS
    TypeOK
    FrameParametersArrive
    ScratchIsFreeForTheNextCycle
    FewestMoves
PROPERTIES
    ImplementsParallelMove
CHECK_DEADLOCK FALSE
