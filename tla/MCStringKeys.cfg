CONSTANTS
    k1 = k1
    k1b = k1b
    k2 = k2
    k3 = k3
    v1 = v1
    v2 = v2
    NULL = NULL
    Keys = {k1, k1b, k2}
    Values = {v1}
    hash_proc <- MCHash
    compare_proc <- MCStringCompare
    SIZE_MAX = 27
    BUCKET_SIZE = 4
    MIN_BUCKET_AUTO_ALLOCATION = 2
    LoadFactors <- MCLoadFactors
    ResizeTargets = {4}
SPECIFICATION Spec
INVARIANT StoredKeysFound
