CONSTANTS
    Requests <- MCRequests
    DefaultAlignment = 4
    Addresses = {6, 8, 12, 16}
    SIZE_MAX = 63
SPECIFICATION Spec
INVARIANTS
    TypeOK
    ArraysPlaced
    NothingLeaks
    PassesAgreeWhenFirstIsStrictest
