SPECIFICATION FrontEndSpec
CONSTANTS
    Identifiers = {"a", "b", "c", "d", "e", "f", "g", "h", "p", "s", "S", "T"}
    Literals <- MCLiterals
    CharConstants = {"'c'"}
    ByteBits = 2
    Programs <- NestedArrays
    Verbose <- NoPrograms
    Arguments = {0, 1, 3, 254}
    Answers <- MCAnswers
    Fuel <- MCFuel
INVARIANT
    TreesSpellTheFile
