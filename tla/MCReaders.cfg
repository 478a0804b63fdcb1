CONSTANTS
    Bytes = {"a", "nl"}
    Delimiter = "nl"
    NUL = "nul"
    Kinds = {"reg", "blk", "dir", "pipe", "mem", "cookie", "odd"}
    MaxFile = 3
    MaxWrites = 2
    INIT_LEN = 2
    SSIZE_MAX = 5
    SIZE_MAX = 7
    DefaultBlkSize = 2
    StBlkSize = 1
    TweakedSizes = {0, 1}
    TweakedBlocks = {0, 6}
    OwnBuffers = {0, 3}
SPECIFICATION Spec
INVARIANTS
    TypeOK
    BuffersInBounds
    PositionAccounts
    LineComplete
    FailureLosesOneByte
    AllRead
    BuffersOwned
    OneReadIsEnough
PROPERTIES
    CallsReturn
