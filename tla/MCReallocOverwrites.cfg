CONSTANTS
    Bases = {4, 14}
    Room = 10
    SIZE_MAX = 31
    Blocks = {1}
    Sizes = {1, 3}
    Counts = {1}
    FlagSets <- MCFlagSets
    Alignments = {1, 4}
    DefaultAlignment = 2
SPECIFICATION Spec
PROPERTY ReallocKeepsWords
CHECK_DEADLOCK FALSE
