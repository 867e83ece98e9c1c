CONSTANTS
    vp = vp
    vx = vx
    vy = vy
    vz = vz
    vt = vt
    vu = vu
    Values <- MCValues
    NoValue = NoValue
    Width = 1
    Inputs <- MCInputs
    Functions <- MCFunctions
    Steps = 24
SPECIFICATION Spec
INVARIANTS
    SolutionIsSound
    SameBehaviour
    StaysWellFormed
    SecondRunChangesNothing
PROPERTIES
    TerminationMeasureFalls
