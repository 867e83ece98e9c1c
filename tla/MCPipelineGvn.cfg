CONSTANTS
    vp = vp
    vx = vx
    vw = vw
    vy = vy
    vz = vz
    vt = vt
    vu = vu
    Values <- MCValues
    NoValue = NoValue
    Width = 2
    Inputs <- MCInputs
    Functions <- MCFunctions
    Steps = 40
SPECIFICATION Spec
INVARIANT NumberingAgainReplacesNothing
