SPECIFICATION GenerationSpec
CONSTANTS
    ByteBits = 2
    MostValues = 70
    SetjmpLike = {"setjmp"}
    Names = {"a", "b", "c", "d", "e", "f", "g", "h", "p", "s", "S", "setjmp"}
    Programs <- MCPrograms
    Arguments = {0, 1, 3, 254}
    Answers <- MCAnswers
    Fuel = 300
    Allocatable <- MCAllocatable
INVARIANTS
    StaysWellFormed
    DominanceIsExact
    PhisAreWhereDefinitionsMeet
    SameBehaviour
    HandsOverAGraph
    FrameIsSound
    CodeBehaves
