CONSTANTS
    Null = Null
    Databases <- MCDatabases
    Gid = "mine"
    Name = "me"
    BUFLEN = 1
    MaxOthers = 2
    Paths <- MCPaths
    Characters <- MCCharacters
    Colon = ":"
    Slash = "/"
    NUL = "nul"
    FileName <- MCFileName
    Files <- MCFiles
    MaxFd = 3
    Texts <- MCTexts
    Delim = ","
    Joins <- MCJoins
    Lengths <- MCLengths
    Uuids <- MCUuids
    UuidTexts <- MCUuidTexts
    Pixels <- MCPixels
    Messages <- MCMessages
    Natives <- MCNatives
    UINT32_MAX = 63
    SIZE_T_MAX = 127
    Samples = {0, 1, 6, 7, 13, 14, 31, 32, 33, 63, 64, 65, 127}
    Rates = {0, 1, 15, 16, 63}
    Channels = {0, 1, 2, 3}
    HashSizes <- MCHashSizes
    Builds <- MCBuilds
    Stripes <- MCStripes
    Factors <- MCFactors
    Loads <- MCLoads
    HALF = 8
    BitXor <- MCBitXor
    XXH_PRIME32_1 = 5
    SHIFT47 = 32
    XXH3_kSecret <- MCSecret
    WordUnits <- MCWordUnits
    VectorUnits <- MCVectorUnits
SPECIFICATION Spec
INVARIANTS
    TypeOK
    EachGroupOnce
    NothingLeft
    FirstExecutable
    NameIsWhole
    JoinUndoesSplit
    FormatsReadBack
    HashReadsItsInput
    BuildsHashAlike
PROPERTIES
    CallsReturn
