SPECIFICATION ParserSpec
CONSTANTS
    Identifiers = {"f", "x"}
    Literals <- MCLiterals
    CharConstants = {}
    Programs <- MCPrograms
PROPERTY EveryFileIsReadToItsEnd
CHECK_DEADLOCK FALSE
