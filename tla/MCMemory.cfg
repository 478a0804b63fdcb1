CONSTANTS
    Bases = {4, 14}
    Room = 10
    SIZE_MAX = 31
    Blocks = {1, 2}
    Sizes <- MCSizes
    Counts = {1, 30}
    FlagSets <- MCFlagSets
    Alignments = {1, 4}
    DefaultAlignment = 2
SPECIFICATION Spec
INVARIANTS
    TypeOK
    HeaderFound
    BlocksFit
    NothingLeaks
    NoFailAborts
    UndefinedOutsideTerms
PROPERTIES
    ImplementsHeap
CHECK_DEADLOCK FALSE
