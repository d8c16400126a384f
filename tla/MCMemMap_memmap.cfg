CONSTANTS
    Wrap = 16
    LogPage = 2
    ByteBits = 1
    LongBytes = 2
    LogSize = 6
    Gpa <- MCGpa
    Uva <- MCUva
    Size <- MCSize
    Ptr <- MCPtr
    HugePage = 4
    SlotsMax = 3
SPECIFICATION Spec
INVARIANTS SlotsIsolated WritesLogged TranslationsAgree
