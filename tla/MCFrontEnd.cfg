SPECIFICATION FrontEndSpec
CONSTANTS
    Identifiers = {"a", "b", "c", "d", "e", "f", "g", "h", "p", "s", "S", "T"}
    Literals <- MCLiterals
    CharConstants = {"'c'"}
    ByteBits = 2
    Programs <- MCPrograms
    Verbose <- MCVerbose
    Arguments = {0, 1, 3, 254}
    Answers <- MCAnswers
    Fuel <- MCFuel
INVARIANTS
    TreesSpellTheFile
    MembersDoNotOverlap
    NamesMeanTheSame
    BreaksOnlyAtKnownGaps
    EdgesAreTheTransfers
    SameBehaviour
