----------------------------- MODULE VscHashMap -----------------------------
(***************************************************************************)
(* vsclib's open-addressing hash map (vsclib/hashmap.c): linear probing,   *)
(* deletion by shifting a cluster back, and automatic growth by load       *)
(* factor.  One action per call of the API; the calls that loop over the   *)
(* buckets (resize, remove, enumerate) take one step per bucket, and an    *)
(* insert that grows the table goes through the steps of resize.           *)
(***************************************************************************)
EXTENDS Integers, FiniteSets

CONSTANTS Keys, Values,     \* key and value pointers the user passes
          NULL,
          hash_proc,        \* the user's hash: a function from Keys to vsc_hash_t
          compare_proc,     \* the user's comparison: the pairs it accepts
          SIZE_MAX,         \* the greatest size_t (and vsc_hash_t)
          BUCKET_SIZE,      \* sizeof(VscHashMapBucket), a size_t and two pointers
          MIN_BUCKET_AUTO_ALLOCATION,
          LoadFactors,      \* arguments <<min_num, min_den, max_num, max_den>>
          ResizeTargets     \* arguments of vsc_hashmap_resize

INVALID_HASH == SIZE_MAX

ASSUME SizeAssumption ==
    /\ SIZE_MAX \in Nat \ {0}
    /\ BUCKET_SIZE \in Nat \ {0, 1}
    /\ MIN_BUCKET_AUTO_ALLOCATION \in 1..SIZE_MAX

ASSUME UserAssumption ==
    /\ hash_proc \in [Keys -> 0..SIZE_MAX]
    /\ compare_proc \subseteq Keys \X Keys
    /\ LoadFactors \subseteq Nat \X Nat \X Nat \X Nat
    /\ ResizeTargets \subseteq 0..SIZE_MAX

VARIABLES size, num_buckets,
          buckets,          \* the allocated array: a function on 0..(alloc - 1)
          alloc,            \* how many buckets the allocation really holds
          resize_policy, load_min, load_max,
          call,             \* the call in progress: its local variables
          ret               \* the last call that returned, and its answer

vars == <<size, num_buckets, buckets, alloc, resize_policy, load_min, load_max,
          call, ret>>
table == <<size, num_buckets, buckets, alloc>>
config == <<resize_policy, load_min, load_max>>
-----------------------------------------------------------------------------
(* Values *)

EmptyBucket == [hash |-> INVALID_HASH, key |-> NULL, value |-> NULL]
Filled == [hash : 0..(SIZE_MAX - 1), key : Keys, value : Values]
Bucket == Filled \cup {EmptyBucket}
NoBuckets == [i \in 0..-1 |-> EmptyBucket]

IsEmpty(b) == b.hash = INVALID_HASH
Occupied(bs) == {i \in DOMAIN bs : ~IsEmpty(bs[i])}
Entries(bs) == {[key |-> bs[i].key, value |-> bs[i].value] : i \in Occupied(bs)}

Policies == {"LOAD_FACTOR", "NONE"}
Fraction == [num : Nat, den : Nat]
Codes == {"0", "1", "stop", "EINVAL", "ERANGE", "ENOMEM", "ENOSPC"}
ApiFunctions == {"alloc", "free", "clear", "configure", "reset", "resize", "insert",
              "find_by_hash", "find", "update", "remove", "set_resize_policy",
              "enumerate"}

Idle == [op |-> "idle"]
Freed == [op |-> "freed"]

\* size_t multiplication wraps; intceil does not.
Mul(a, b) == (a * b) % (SIZE_MAX + 1)
CeilDiv(num, den) == (num \div den) + IF num % den = 0 THEN 0 ELSE 1
Greater(a, b) == IF a < b THEN b ELSE a
-----------------------------------------------------------------------------
(* Probing *)

\* The positions LOOP_BUCKETS passes on its way from h to i in a ring of n.
Path(h, i, n) == IF h <= i THEN h..(i - 1) ELSE (h..(n - 1)) \cup (0..(i - 1))

Matches(hash, key, b) == b.hash = hash /\ <<key, b.key>> \in compare_proc

\* The first position of the probe for a hash that stops it: S are those that do.
FirstIn_NoWrap(S, hash, n) ==
    {i \in S : i >= hash % n /\ \A j \in (hash % n)..(i - 1) : j \notin S}

FirstIn(S, hash, n) ==
    {i \in S : \A j \in Path(hash % n, i, n) : j \notin S}

\* The positions add_or_replace_bucket and find_bucket stop at.
Stops(bs, n, hash, key) ==
    {i \in 0..(n - 1) : IsEmpty(bs[i]) \/ Matches(hash, key, bs[i])}

\* Where add_or_replace_bucket writes b: at most one position.
AddAt(bs, n, b) == FirstIn(Stops(bs, n, b.hash, b.key), b.hash, n)

Placed(bs, n, b) ==
    [i \in DOMAIN bs |-> IF i \in AddAt(bs, n, b) THEN b ELSE bs[i]]

\* Where find_bucket finds k: a full match with no empty bucket on the way.
FindAt(k) ==
    {i \in FirstIn(Stops(buckets, num_buckets, hash_proc[k], k), hash_proc[k], num_buckets) :
        ~IsEmpty(buckets[i])}

FindByHashAt(h) ==
    LET S == {i \in 0..(num_buckets - 1) : IsEmpty(buckets[i]) \/ buckets[i].hash = h}
    IN  {i \in FirstIn(S, h, num_buckets) : ~IsEmpty(buckets[i])}
-----------------------------------------------------------------------------
(* Allocating, freeing and configuring *)

Return(fn, k, res) == ret' = [fn |-> fn, key |-> k, res |-> res]

Half == [num |-> 1, den |-> 2]
ThreeQuarters == [num |-> 3, den |-> 4]

Init ==
    /\ size = 0 /\ num_buckets = 0 /\ buckets = NoBuckets /\ alloc = 0
    /\ resize_policy = "LOAD_FACTOR" /\ load_min = Half /\ load_max = ThreeQuarters
    /\ call = Idle
    /\ ret = [fn |-> "alloc", key |-> NULL, res |-> "0"]

Alloc ==
    /\ call = Freed
    /\ size' = 0 /\ num_buckets' = 0 /\ buckets' = NoBuckets /\ alloc' = 0
    /\ resize_policy' = "LOAD_FACTOR" /\ load_min' = Half /\ load_max' = ThreeQuarters
    /\ call' = Idle
    /\ Return("alloc", NULL, "0")

\* The buckets go; size, policy and load factors stay as they were.
ReleaseBuckets ==
    /\ num_buckets' = 0 /\ buckets' = NoBuckets /\ alloc' = 0
    /\ UNCHANGED <<size, config>>

Reset == call = Idle /\ ReleaseBuckets /\ Return("reset", NULL, "0") /\ UNCHANGED call

Free == call = Idle /\ ReleaseBuckets /\ call' = Freed /\ Return("free", NULL, "0")

\* A call that reads or writes buckets stays inside the allocation.
InBounds == num_buckets <= alloc
Ready == call = Idle /\ InBounds

Clear_SizeOnly ==
    /\ Ready /\ size' = 0 /\ Return("clear", NULL, "0")
    /\ UNCHANGED <<num_buckets, buckets, alloc, config, call>>

Clear ==
    /\ Ready
    /\ size' = 0
    /\ buckets' = [i \in DOMAIN buckets |->
                      IF i < num_buckets THEN EmptyBucket ELSE buckets[i]]
    /\ Return("clear", NULL, "0")
    /\ UNCHANGED <<num_buckets, alloc, config, call>>

ValidFactors_Unordered(f) ==
    f[1] # 0 /\ f[2] # 0 /\ f[1] < f[2] /\ f[3] # 0 /\ f[4] # 0 /\ f[3] < f[4]

ValidFactors(f) ==
    /\ f[1] # 0 /\ f[2] # 0 /\ f[1] < f[2]
    /\ f[3] # 0 /\ f[4] # 0 /\ f[3] < f[4]
    /\ f[1] * f[4] <= f[3] * f[2]

Configure(f) ==
    /\ call = Idle
    /\ \/ /\ ValidFactors(f)
          /\ load_min' = [num |-> f[1], den |-> f[2]]
          /\ load_max' = [num |-> f[3], den |-> f[4]]
          /\ Return("configure", NULL, "0")
       \/ /\ ~ValidFactors(f)
          /\ Return("configure", NULL, "EINVAL")
          /\ UNCHANGED <<load_min, load_max>>
    /\ UNCHANGED <<table, resize_policy, call>>

SetResizePolicy(p) ==
    /\ call = Idle
    /\ resize_policy' = p
    /\ Return("set_resize_policy", NULL, resize_policy)
    /\ UNCHANGED <<table, load_min, load_max, call>>
-----------------------------------------------------------------------------
(* Resizing.  pending is the bucket an insert still has to add afterwards,  *)
(* or EmptyBucket when the user called vsc_hashmap_resize.                  *)

Rehash(pending, n) ==
    [op |-> "rehash", tmp |-> [i \in 0..(n - 1) |-> EmptyBucket], cur |-> 0,
     pending |-> pending]

\* resize returns res: to the user, or to insert, which gives up on an error.
ResizeReturns(pending, res) ==
    \/ /\ pending = EmptyBucket
       /\ call' = Idle
       /\ Return("resize", NULL, res)
    \/ /\ pending # EmptyBucket /\ res # "0"
       /\ call' = Idle
       /\ Return("insert", pending.key, res)
    \/ /\ pending # EmptyBucket /\ res = "0"
       /\ call' = [op |-> "add", pending |-> pending]
       /\ UNCHANGED ret

\* The value resize returns before it touches the table; "go" when it goes on.
ResizeCheck(nelem) ==
    CASE nelem = 0 \/ nelem < size             -> "EINVAL"
      [] nelem # 0 /\ nelem = size             -> "0"
      [] nelem > size /\ nelem >= SIZE_MAX \div BUCKET_SIZE -> "ERANGE"
      [] OTHER                                 -> "go"

Reallocated(nelem) ==
    [i \in 0..(nelem - 1) |-> IF i < num_buckets THEN buckets[i] ELSE EmptyBucket]

\* The reallocation has succeeded: the block has nelem buckets from here on.
ResizeReallocated(nelem, pending) ==
    /\ buckets' = Reallocated(nelem)
    /\ alloc' = nelem
    /\ \/ /\ size = 0
          /\ num_buckets' = nelem
          /\ ResizeReturns(pending, "0")
       \/ /\ size # 0                               \* no temporary list
          /\ UNCHANGED num_buckets
          /\ ResizeReturns(pending, "ENOMEM")
       \/ /\ size # 0
          /\ num_buckets' = nelem
          /\ call' = Rehash(pending, nelem)
          /\ UNCHANGED ret

ResizeTo(nelem, pending) ==
    /\ \/ /\ ResizeCheck(nelem) # "go"
          /\ ResizeReturns(pending, ResizeCheck(nelem))
          /\ UNCHANGED <<num_buckets, buckets, alloc>>
       \/ /\ ResizeCheck(nelem) = "go"              \* realloc failed
          /\ ResizeReturns(pending, "ENOMEM")
          /\ UNCHANGED <<num_buckets, buckets, alloc>>
       \/ /\ ResizeCheck(nelem) = "go"
          /\ ResizeReallocated(nelem, pending)
    /\ UNCHANGED <<size, config>>

Resize(nelem) == Ready /\ ResizeTo(nelem, EmptyBucket)

RehashStep_Stuck ==
    /\ call.op = "rehash" /\ call.cur < num_buckets
    /\ LET b == buckets[call.cur]
       IN  call' = IF IsEmpty(b) THEN call
                   ELSE [call EXCEPT !.cur = @ + 1, !.tmp = Placed(@, num_buckets, b)]
    /\ UNCHANGED <<table, config, ret>>

RehashStep ==
    /\ call.op = "rehash" /\ call.cur < num_buckets
    /\ LET b == buckets[call.cur]
       IN  call' = [call EXCEPT !.cur = @ + 1,
                                !.tmp = IF IsEmpty(b) THEN @ ELSE Placed(@, num_buckets, b)]
    /\ UNCHANGED <<table, config, ret>>

RehashDone ==
    /\ call.op = "rehash" /\ call.cur = num_buckets
    /\ buckets' = call.tmp
    /\ ResizeReturns(call.pending, "0")
    /\ UNCHANGED <<size, num_buckets, alloc, config>>
-----------------------------------------------------------------------------
(* Inserting, finding and updating *)

\* add_or_replace_bucket on the table, and what insert does with its answer.
Add_AlwaysCounts(b) ==
    /\ \E i \in AddAt(buckets, num_buckets, b) :
          /\ buckets' = [buckets EXCEPT ![i] = b]
          /\ size' = (size + 1) % (SIZE_MAX + 1)
    /\ Return("insert", b.key, "0") /\ call' = Idle
    /\ UNCHANGED <<num_buckets, alloc, config>>

Add(b) ==
    /\ \/ /\ AddAt(buckets, num_buckets, b) = {}
          /\ Return("insert", b.key, "ENOSPC")
          /\ UNCHANGED <<size, buckets>>
       \/ \E i \in AddAt(buckets, num_buckets, b) :
          /\ buckets' = [buckets EXCEPT ![i] = b]
          /\ size' = IF IsEmpty(buckets[i]) THEN (size + 1) % (SIZE_MAX + 1) ELSE size
          /\ Return("insert", b.key, "0")
    /\ call' = Idle
    /\ UNCHANGED <<num_buckets, alloc, config>>

AddPending == call.op = "add" /\ Add(call.pending)

\* maybe_resize
ThresholdOverflows == num_buckets >= CeilDiv(SIZE_MAX, load_max.num)
Threshold == CeilDiv(Mul(num_buckets, load_max.num), load_max.den)
MinReqOverflows == size + 1 >= CeilDiv(SIZE_MAX, load_max.den)
MinReq == CeilDiv(Mul(size + 1, load_min.den), load_min.num)

NeedsResize_OffByOne == size > Threshold /\ resize_policy = "LOAD_FACTOR"
NeedsResize == size >= Threshold /\ resize_policy = "LOAD_FACTOR"

InsertRefused(k) ==
    Return("insert", k, "ERANGE") /\ UNCHANGED <<table, config, call>>

Insert(k, v) ==
    LET b == [hash |-> hash_proc[k], key |-> k, value |-> v]
    IN  /\ Ready
        /\ \/ /\ \/ b.hash = INVALID_HASH
                 \/ ThresholdOverflows
                 \/ NeedsResize /\ MinReqOverflows
              /\ InsertRefused(k)
           \/ /\ b.hash # INVALID_HASH /\ ~ThresholdOverflows /\ ~NeedsResize
              /\ Add(b)
           \/ /\ b.hash # INVALID_HASH /\ ~ThresholdOverflows
              /\ NeedsResize /\ ~MinReqOverflows
              /\ ResizeTo(Greater(MinReq, MIN_BUCKET_AUTO_ALLOCATION), b)

Find(k) ==
    /\ Ready
    /\ \/ FindAt(k) = {} /\ Return("find", k, NULL)
       \/ \E i \in FindAt(k) : Return("find", k, buckets[i].value)
    /\ UNCHANGED <<table, config, call>>

FindByHash(h) ==
    /\ Ready
    /\ \/ FindByHashAt(h) = {} /\ Return("find_by_hash", NULL, NULL)
       \/ \E i \in FindByHashAt(h) : Return("find_by_hash", NULL, buckets[i].value)
    /\ UNCHANGED <<table, config, call>>

UpdateValue(k, v) ==
    /\ \/ /\ FindAt(k) = {}
          /\ Return("update", k, "1")
          /\ UNCHANGED buckets
       \/ \E i \in FindAt(k) :
          /\ buckets' = [buckets EXCEPT ![i].value = v]
          /\ Return("update", k, "0")
    /\ UNCHANGED <<size, num_buckets, alloc, config>>

Update(k, v) == Ready /\ UpdateValue(k, v) /\ UNCHANGED call

-----------------------------------------------------------------------------
(* Removing: the gap moves along the cluster, dragging buckets back.        *)

Remove_LateRead(k) ==
    /\ Ready
    /\ \E i \in FindAt(k) :
          /\ buckets' = [buckets EXCEPT ![i] = EmptyBucket]
          /\ call' = [op |-> "shift", gap |-> i, cur |-> (i + 1) % num_buckets,
                      left |-> num_buckets, key |-> k, val |-> EmptyBucket.value]
    /\ UNCHANGED <<size, num_buckets, alloc, config, ret>>

Remove(k) ==
    /\ Ready
    /\ \/ /\ FindAt(k) = {}
          /\ Return("remove", k, NULL)
          /\ UNCHANGED <<buckets, call>>
       \/ \E i \in FindAt(k) :
          /\ buckets' = [buckets EXCEPT ![i] = EmptyBucket]
          /\ call' = [op |-> "shift", gap |-> i, cur |-> (i + 1) % num_buckets,
                      left |-> num_buckets, key |-> k, val |-> buckets[i].value]
          /\ UNCHANGED ret
    /\ UNCHANGED <<size, num_buckets, alloc, config>>

MovesBack_Strict == buckets[call.cur].hash % num_buckets < call.gap
\* The test of hashmap.c:496: may the bucket at cur move back into the gap?
MovesBack == buckets[call.cur].hash % num_buckets <= call.gap

ShiftSteps == call.op = "shift" /\ call.left > 0 /\ ~IsEmpty(buckets[call.cur])

ShiftMove ==
    /\ ShiftSteps /\ MovesBack
    /\ buckets' = [buckets EXCEPT ![call.gap] = buckets[call.cur],
                                 ![call.cur] = EmptyBucket]
    /\ call' = [call EXCEPT !.gap = call.cur, !.cur = (@ + 1) % num_buckets,
                            !.left = @ - 1]
    /\ UNCHANGED <<size, num_buckets, alloc, config, ret>>

ShiftSkip ==
    /\ ShiftSteps /\ ~MovesBack
    /\ call' = [call EXCEPT !.cur = (@ + 1) % num_buckets, !.left = @ - 1]
    /\ UNCHANGED <<table, config, ret>>

ShiftEnd ==
    /\ call.op = "shift"
    /\ call.left = 0 \/ IsEmpty(buckets[call.cur])
    /\ size' = (size + SIZE_MAX) % (SIZE_MAX + 1)         \* --hm->size
    /\ call' = Idle
    /\ Return("remove", call.key, call.val)
    /\ UNCHANGED <<num_buckets, buckets, alloc, config>>
-----------------------------------------------------------------------------
(* Enumerating.  The callback may update values and may stop the loop.      *)

EnumBegin_SkipsFirst ==
    /\ Ready /\ num_buckets > 0
    /\ call' = [op |-> "enum", cur |-> 1, seen |-> {}]
    /\ UNCHANGED <<table, config, ret>>

EnumBegin ==
    /\ Ready
    /\ call' = [op |-> "enum", cur |-> 0, seen |-> {}]
    /\ UNCHANGED <<table, config, ret>>

EnumSkip ==
    /\ call.op = "enum" /\ call.cur < num_buckets /\ IsEmpty(buckets[call.cur])
    /\ call' = [call EXCEPT !.cur = @ + 1]
    /\ UNCHANGED <<table, config, ret>>

\* proc is called on one bucket and returns 0; it may have called update once.
EnumCallback ==
    /\ call.op = "enum" /\ call.cur < num_buckets /\ ~IsEmpty(buckets[call.cur])
    /\ call' = [call EXCEPT !.cur = @ + 1, !.seen = @ \cup {buckets[call.cur].key}]
    /\ \/ UNCHANGED <<table, config, ret>>
       \/ \E k \in Keys, v \in Values : UpdateValue(k, v)

EnumEnd ==
    /\ call.op = "enum"
    /\ \/ call.cur = num_buckets /\ Return("enumerate", NULL, "0")
       \/ /\ call.cur < num_buckets /\ ~IsEmpty(buckets[call.cur])
          /\ Return("enumerate", NULL, "stop")
    /\ call' = Idle
    /\ UNCHANGED <<table, config>>
-----------------------------------------------------------------------------
(* Behaviours *)

\* The calls other than insert, reset, resize and remove.
SimpleCall ==
    \/ Alloc \/ Free \/ Clear \/ EnumBegin
    \/ \E f \in LoadFactors : Configure(f)
    \/ \E p \in Policies : SetResizePolicy(p)
    \/ \E k \in Keys : Find(k)
    \/ \E k \in Keys, v \in Values : Update(k, v)
    \/ \E h \in {hash_proc[k] : k \in Keys} : FindByHash(h)

\* The steps a call in progress takes by itself.
Continue ==
    \/ RehashStep \/ RehashDone \/ AddPending
    \/ ShiftMove \/ ShiftSkip \/ ShiftEnd
    \/ EnumSkip \/ EnumCallback \/ EnumEnd

Next ==
    \/ SimpleCall
    \/ Continue
    \/ Reset
    \/ \E n \in ResizeTargets : Resize(n)
    \/ \E k \in Keys, v \in Values : Insert(k, v)
    \/ \E k \in Keys : Remove(k)

\* A call that has begun is executed to its end by the thread that made it.
Fairness == WF_vars(Continue)

Spec == Init /\ [][Next]_vars /\ Fairness
-----------------------------------------------------------------------------
(* Properties of every behaviour, whatever the user's functions and calls are *)

CallType ==
    {Idle, Freed}
    \cup [op : {"add"}, pending : Filled]
    \cup [op : {"rehash"}, tmp : [0..(num_buckets - 1) -> Bucket],
          cur : 0..num_buckets, pending : Bucket]
    \cup [op : {"shift"}, gap : 0..(num_buckets - 1), cur : 0..(num_buckets - 1),
          left : 0..num_buckets, key : Keys, val : Values]
    \cup [op : {"enum"}, cur : 0..num_buckets, seen : SUBSET Keys]

TableType ==
    /\ size \in 0..SIZE_MAX /\ num_buckets \in 0..SIZE_MAX /\ alloc \in 0..SIZE_MAX
    /\ buckets \in [0..(alloc - 1) -> Bucket]

ConfigType ==
    /\ resize_policy \in Policies
    /\ load_min \in Fraction /\ load_min.num \in 1..(load_min.den - 1)
    /\ load_max \in Fraction /\ load_max.num \in 1..(load_max.den - 1)
    /\ load_min.num * load_max.den <= load_max.num * load_min.den

AnswerType ==
    ret \in [fn : ApiFunctions, key : Keys \cup {NULL},
            res : Codes \cup Policies \cup Values \cup {NULL}]

\* The types, and: the minimum load factor stays below the maximum whatever is
\* configured, and only an idle map has more buckets than it has allocated.
TypeOK ==
    /\ TableType /\ ConfigType /\ AnswerType
    /\ call \in CallType
    /\ call \notin {Idle, Freed} => InBounds
    /\ call.op = "rehash" => alloc = num_buckets

\* The size never falls below the number of stored entries, so the decrement in
\* remove (hashmap.c:504) never wraps, and a table the size says is empty is.
SizeCoversEntries ==
    call.op # "shift" => size >= Cardinality(Occupied(buckets))

\* The redistribution in resize always finds a bucket: the assertion of
\* hashmap.c:277, which a release build does not evaluate.
RehashFits ==
    call.op = "rehash" /\ call.cur < num_buckets /\ ~IsEmpty(buckets[call.cur])
        => AddAt(call.tmp, num_buckets, buckets[call.cur]) # {}

\* Every call returns: the loops of resize, remove and enumerate end.
CallsReturn == call.op \notin {"idle", "freed"} ~> call.op = "idle"
=============================================================================
