----------------------- MODULE VscHashMapRefines_proofs -----------------------
(***************************************************************************)
(* Proof that under the contract the table implements the dictionary of    *)
(* VscMap, that an insert never finds a full table under the load-factor   *)
(* policy, and that an enumeration visits each key once.                   *)
(***************************************************************************)
EXTENDS VscHashMapContract_proofs

-----------------------------------------------------------------------------
(* What the entries of a table are                                         *)

EntryOf(b) == [key |-> b.key, value |-> b.value]

\* An entry is that of an occupied bucket.
LEMMA EntryIn ==
    ASSUME NEW bs, NEW e
    PROVE  e \in Entries(bs) <=> \E i \in Occupied(bs) : e = EntryOf(bs[i])
  BY DEF Entries, EntryOf

\* Buckets that are the same where they are occupied have the same entries.
LEMMA SameEntries ==
    ASSUME NEW bs, NEW bs2, Occupied(bs2) = Occupied(bs), \A i \in Occupied(bs) : bs2[i] = bs[i]
    PROVE  Entries(bs2) = Entries(bs)
  BY DEF Entries

\* A bucket written where none was adds its entry.
LEMMA EntriesFill ==
    ASSUME NEW bs, NEW i \in DOMAIN bs, IsEmpty(bs[i]), NEW b, ~IsEmpty(b)
    PROVE  /\ Entries(Put(bs, i, b)) = Entries(bs) \cup {EntryOf(b)}
           /\ Occupied(Put(bs, i, b)) = Occupied(bs) \cup {i}
<1> DEFINE bs2 == Put(bs, i, b)
<1>1. DOMAIN bs2 = DOMAIN bs /\ bs2[i] = b /\ \A j \in DOMAIN bs \ {i} : bs2[j] = bs[j]
  BY DEF Put
<1>2. i \notin Occupied(bs)
  BY DEF Occupied
<1> HIDE DEF bs2
<1>3. Occupied(bs2) = Occupied(bs) \cup {i}
  BY <1>1 DEF Occupied
<1>4. \A j \in Occupied(bs) : bs2[j] = bs[j]
  BY <1>1, <1>2 DEF Occupied
<1>5. Entries(bs2) = Entries(bs) \cup {EntryOf(b)}
  BY <1>1, <1>3, <1>4 DEF Entries, EntryOf
<1> QED BY <1>3, <1>5 DEF bs2

\* A bucket emptied takes its entry out, and no other, if no key is stored twice.
LEMMA EntriesEmpty ==
    ASSUME NEW bs, NEW i \in Occupied(bs), Distinct(bs), \A j \in Occupied(bs) : bs[j].key \in Keys
    PROVE  /\ Entries(Put(bs, i, EmptyBucket)) = Entries(bs) \ {EntryOf(bs[i])}
           /\ Occupied(Put(bs, i, EmptyBucket)) = Occupied(bs) \ {i}
<1> DEFINE bs2 == Put(bs, i, EmptyBucket)
<1>1. /\ DOMAIN bs2 = DOMAIN bs /\ bs2[i] = EmptyBucket /\ i \in DOMAIN bs
      /\ \A j \in DOMAIN bs \ {i} : bs2[j] = bs[j]
  BY DEF Put, Occupied
<1> HIDE DEF bs2
<1>2. Occupied(bs2) = Occupied(bs) \ {i}
  BY <1>1, EmptyType DEF Occupied
<1>3. \A j \in Occupied(bs) \ {i} : bs2[j] = bs[j]
  BY <1>1 DEF Occupied
<1>4. ASSUME NEW j \in Occupied(bs), EntryOf(bs[j]) = EntryOf(bs[i])
      PROVE  j = i
  <2>1. bs[j].key = bs[i].key
    BY <1>4 DEF EntryOf
  <2>2. <<bs[j].key, bs[i].key>> \in compare_proc
    BY <2>1, CompareAssumption
  <2> QED BY <2>2 DEF Distinct
<1>5. ASSUME NEW e
      PROVE  e \in Entries(bs2) <=> e \in Entries(bs) \ {EntryOf(bs[i])}
  <2>1. CASE e \in Entries(bs2)
    <3>1. PICK j \in Occupied(bs) \ {i} : e = EntryOf(bs[j])
      BY <1>2, <1>3, <2>1, EntryIn
    <3> QED BY <1>4, <2>1, <3>1, EntryIn
  <2>2. CASE e \in Entries(bs) \ {EntryOf(bs[i])}
    <3>1. PICK j \in Occupied(bs) : e = EntryOf(bs[j])
      BY <2>2, EntryIn
    <3>2. j # i
      BY <2>2, <3>1
    <3> QED BY <1>2, <1>3, <2>2, <3>1, <3>2, EntryIn
  <2> QED BY <2>1, <2>2
<1> QED BY <1>2, <1>5 DEF bs2

\* A bucket written over another replaces its entry.
LEMMA EntriesReplace ==
    ASSUME NEW bs, NEW i \in Occupied(bs), Distinct(bs), \A j \in Occupied(bs) : bs[j].key \in Keys,
           NEW b, ~IsEmpty(b)
    PROVE  /\ Entries(Put(bs, i, b)) = (Entries(bs) \ {EntryOf(bs[i])}) \cup {EntryOf(b)}
           /\ Occupied(Put(bs, i, b)) = Occupied(bs)
<1> DEFINE mid == Put(bs, i, EmptyBucket)
<1>1. i \in DOMAIN mid /\ IsEmpty(mid[i])
  BY EmptyType DEF Put, Occupied
<1>2. Put(mid, i, b) = Put(bs, i, b)
  BY DEF Put
<1>3. Entries(mid) = Entries(bs) \ {EntryOf(bs[i])} /\ Occupied(mid) = Occupied(bs) \ {i}
  BY EntriesEmpty
<1> HIDE DEF mid
<1>4. Entries(Put(mid, i, b)) = Entries(mid) \cup {EntryOf(b)} /\ Occupied(Put(mid, i, b)) = Occupied(mid) \cup {i}
  BY <1>1, EntriesFill
<1> QED BY <1>2, <1>3, <1>4
-----------------------------------------------------------------------------
(* What the calls find                                                     *)

\* What a call between the steps of which nothing moves can rely on.
Rests == TypeOK /\ MapInv /\ InBounds /\ Settled

LEMMA RestFacts ==
    ASSUME Rests
    PROVE  /\ num_buckets \in Nat /\ alloc \in Nat /\ num_buckets <= alloc
           /\ buckets \in [0..(alloc - 1) -> Bucket]
           /\ WellKeyed(buckets, num_buckets) /\ Reachable(buckets, num_buckets, {})
           /\ size = Cardinality(Occupied(buckets))
           /\ Distinct(buckets)
           /\ \A i \in Occupied(buckets) :
                 /\ i \in 0..(num_buckets - 1) /\ i \in DOMAIN buckets /\ num_buckets # 0
                 /\ ~IsEmpty(buckets[i]) /\ buckets[i] \in Filled
                 /\ buckets[i].key \in Keys /\ buckets[i].value \in Values
                 /\ buckets[i].hash = hash_proc[buckets[i].key] /\ buckets[i].hash \in Nat
<1>1. /\ num_buckets \in Nat /\ alloc \in Nat /\ num_buckets <= alloc
      /\ buckets \in [0..(alloc - 1) -> Bucket] /\ TableRight
  BY DEF Rests, TypeOK, TableType, InBounds, MapInv
<1>2. ASSUME NEW i \in Occupied(buckets)
      PROVE  /\ i \in 0..(num_buckets - 1) /\ i \in DOMAIN buckets /\ num_buckets # 0
             /\ ~IsEmpty(buckets[i]) /\ buckets[i] \in Bucket
             /\ buckets[i].hash = hash_proc[buckets[i].key]
  BY <1>1 DEF TableRight, WellKeyed, HashesRight, Occupied
<1> QED BY <1>1, <1>2, BucketFacts DEF TableRight, WellKeyed

\* A probe that stops at a bucket with an equal key finds it, and it alone.
LEMMA ProbeFinds ==
    ASSUME Rests, NEW k \in Keys, NEW i \in Occupied(buckets), <<k, buckets[i].key>> \in compare_proc
    PROVE  FindAt(k) = {i} /\ i \in FirstIn(Stops(buckets, num_buckets, hash_proc[k], k), hash_proc[k], num_buckets)
<1> DEFINE n == num_buckets
           key == buckets[i].key
<1>1. /\ key \in Keys /\ Settled /\ TypeOK /\ MapInv
      /\ FindComplete /\ i \in 0..(n - 1) /\ ~IsEmpty(buckets[i])
  BY RestFacts, MapFindsAll DEF Rests
<1>2. hash_proc[k] = hash_proc[key]
  BY <1>1, CompareAssumption
<1>3. \A j : <<k, j>> \in compare_proc <=> <<key, j>> \in compare_proc
  BY <1>1, CompareAssumption, UserAssumption
<1>4. Stops(buckets, n, hash_proc[k], k) = Stops(buckets, n, hash_proc[key], key)
  BY <1>2, <1>3 DEF Stops, Matches
<1>5. FindAt(k) = FindAt(key)
  BY <1>2, <1>4 DEF FindAt
<1>6. FindAt(key) = {i}
  BY <1>1 DEF FindComplete
<1> QED BY <1>5, <1>6 DEF FindAt

Holding(k) == {e \in Entries(buckets) : <<k, e.key>> \in compare_proc}

\* What find_bucket finds is the one entry with an equal key.
LEMMA FindAtHolds ==
    ASSUME Rests, NEW k \in Keys
    PROVE  /\ FindAt(k) = {} => Holding(k) = {}
           /\ \A i \in FindAt(k) :
                 /\ i \in Occupied(buckets) /\ <<k, buckets[i].key>> \in compare_proc
                 /\ Holding(k) = {EntryOf(buckets[i])}
<1>1. ASSUME NEW e \in Holding(k)
      PROVE  \E i \in Occupied(buckets) : FindAt(k) = {i} /\ e = EntryOf(buckets[i])
  <2>1. PICK i \in Occupied(buckets) : e = EntryOf(buckets[i])
    BY EntryIn DEF Holding
  <2>2. <<k, buckets[i].key>> \in compare_proc
    BY <2>1 DEF Holding, EntryOf
  <2> QED BY <2>1, <2>2, ProbeFinds
<1>2. ASSUME NEW i \in FindAt(k)
      PROVE  /\ i \in Occupied(buckets) /\ <<k, buckets[i].key>> \in compare_proc
             /\ EntryOf(buckets[i]) \in Holding(k)
  <2>1. i \in 0..(num_buckets - 1) /\ ~IsEmpty(buckets[i]) /\ Matches(hash_proc[k], k, buckets[i])
    BY DEF FindAt, FirstIn, Stops
  <2>2. i \in Occupied(buckets) /\ <<k, buckets[i].key>> \in compare_proc
    BY <2>1, RestFacts DEF Occupied, Matches
  <2> QED BY <2>2, EntryIn DEF Holding, EntryOf
<1> QED BY <1>1, <1>2

\* What find_bucket_by_hash finds is an entry of that hash, if there is one.
LEMMA FindByHashAtHolds ==
    ASSUME Rests, NEW h \in Nat
    PROVE  /\ FindByHashAt(h) = {} => \A e \in Entries(buckets) : hash_proc[e.key] # h
           /\ \A i \in FindByHashAt(h) : i \in Occupied(buckets) /\ hash_proc[buckets[i].key] = h
<1> DEFINE n == num_buckets
           S == {i \in 0..(n - 1) : IsEmpty(buckets[i]) \/ buckets[i].hash = h}
<1>1. ASSUME NEW i \in FindByHashAt(h)
      PROVE  i \in Occupied(buckets) /\ hash_proc[buckets[i].key] = h
  <2>1. i \in 0..(n - 1) /\ ~IsEmpty(buckets[i]) /\ buckets[i].hash = h
    BY DEF FindByHashAt, FirstIn
  <2>2. i \in Occupied(buckets)
    BY <2>1, RestFacts DEF Occupied
  <2> QED BY <2>1, <2>2, RestFacts
<1>2. ASSUME NEW e \in Entries(buckets), hash_proc[e.key] = h
      PROVE  FindByHashAt(h) # {}
  <2>1. PICK i \in Occupied(buckets) : e = EntryOf(buckets[i])
    BY EntryIn
  <2>2. /\ i \in 0..(n - 1) /\ n \in Nat \ {0} /\ buckets[i].hash = h
        /\ Path(h % n, i, n) \subseteq Occupied(buckets) \cup {}
    BY <1>2, <2>1, RestFacts DEF EntryOf, Reachable
  <2>3. S \in SUBSET (0..(n - 1)) /\ i \in S
    BY <2>2
  <2>4. PICK j \in FirstIn(S, h, n) : TRUE
    BY <2>2, <2>3, FirstExists
  <2>5. j \in S /\ j \in 0..(n - 1) /\ \A x \in Path(h % n, j, n) : x \notin S
    BY <2>3, <2>4 DEF FirstIn
  <2>6. ~IsEmpty(buckets[j])
    <3> SUFFICES ASSUME IsEmpty(buckets[j]) PROVE FALSE
      OBVIOUS
    <3>1. j \notin Occupied(buckets) /\ j # i
      BY DEF Occupied
    <3>2. i \in Path(h % n, j, n)
      BY <2>2, <2>5, <3>1, PathOrder, ModRange
    <3> QED BY <2>3, <2>5, <3>2
  <2> QED BY <2>4, <2>6 DEF FindByHashAt
<1> QED BY <1>1, <1>2
-----------------------------------------------------------------------------
(* What the user sees of a step                                            *)

\* The view where it is not in the middle of something.
LEMMA View ==
    /\ call.op # "freed" => Dict = Entries(buckets)
    /\ call'.op # "freed" => Dict' = Entries(buckets')
    /\ call.op # "shift" => Answered = ret
    /\ call'.op # "shift" => Answered' = ret'
  BY DEF Dict, Answered, Freed

Live == call.op \notin {"freed", "shift"} /\ call'.op \notin {"freed", "shift"}

\* A step between calls changes what the buckets and ret do.
LEMMA ViewLive ==
    ASSUME Live
    PROVE  Dict = Entries(buckets) /\ Dict' = Entries(buckets') /\ Answered = ret /\ Answered' = ret'
  BY View DEF Live

Stutters == UNCHANGED <<Dict, Answered>>

\* The calls that leave the entries alone.
LEMMA SeenHousekeep ==
    ASSUME Live, UNCHANGED buckets, NEW fn \in {"resize", "configure", "set_resize_policy", "enumerate"},
           NEW r \in {"0", "stop", "LOAD_FACTOR", "NONE"}, Return(fn, NULL, r)
    PROVE  Map!Next
<1>1. Dict' = Dict /\ Answered' = [fn |-> fn, key |-> NULL, res |-> r]
  BY ViewLive DEF Return
<1>2. Map!Housekeep(fn)
  BY <1>1 DEF Map!Housekeep, Map!Answer
<1> QED BY <1>2 DEF Map!Next

LEMMA SeenRefuse ==
    ASSUME Live, Entries(buckets') = Entries(buckets), NEW fn, NEW k,
           \/ fn \in {"resize", "configure"} /\ k = NULL
           \/ fn = "insert" /\ k \in Keys,
           NEW r \in {"EINVAL", "ERANGE", "ENOMEM", "ENOSPC"}, Return(fn, k, r)
    PROVE  Map!Next
<1>1. Dict' = Dict /\ Answered' = [fn |-> fn, key |-> k, res |-> r]
  BY ViewLive DEF Return
<1>2. Map!Refuse(fn, k)
  BY <1>1 DEF Map!Refuse, Map!Answer
<1> QED BY <1>2 DEF Map!Next

LEMMA SeenEmpty ==
    ASSUME Dict' = {}, call'.op # "shift", NEW fn \in {"clear", "reset", "free", "alloc"}, Return(fn, NULL, "0")
    PROVE  Map!Next
<1>1. Map!Empty(fn)
  BY View DEF Map!Empty, Map!Answer, Return
<1> QED BY <1>1 DEF Map!Next

\* The entries the dictionary holds for a key.
LEMMA HoldsSeen == call.op # "freed" => \A k : Map!Holds(k) = Holding(k)
  BY View DEF Map!Holds, Holding

LEMMA SeenFind ==
    ASSUME Rests, Live, NEW k \in Keys, Find(k)
    PROVE  Map!Next
<1>1. Dict' = Dict /\ Answered' = ret' /\ Map!Holds(k) = Holding(k)
  BY ViewLive, HoldsSeen DEF Find, table, Live
<1>2. CASE FindAt(k) = {} /\ Return("find", k, NULL)
  BY <1>1, <1>2, FindAtHolds DEF Map!Next, Map!Find, Map!Answer, Return
<1>3. ASSUME NEW i \in FindAt(k), Return("find", k, buckets[i].value)
      PROVE  Map!Next
  <2>1. EntryOf(buckets[i]) \in Map!Holds(k) /\ EntryOf(buckets[i]).value = buckets[i].value
    <3>1. Holding(k) = {EntryOf(buckets[i])}
      BY FindAtHolds
    <3> QED BY <1>1, <3>1 DEF EntryOf
  <2>2. Map!Find(k)
    BY <1>1, <1>3, <2>1 DEF Map!Find, Map!Answer, Return
  <2> QED BY <2>2 DEF Map!Next
<1> QED BY <1>2, <1>3 DEF Find

LEMMA SeenFindByHash ==
    ASSUME Rests, Live, NEW h \in {hash_proc[k] : k \in Keys}, FindByHash(h)
    PROVE  Map!Next
<1>1. Dict' = Dict /\ Answered' = ret' /\ Dict = Entries(buckets) /\ h \in Nat
  BY ViewLive, UserAssumption DEF FindByHash, table
<1>2. CASE FindByHashAt(h) = {} /\ Return("find_by_hash", NULL, NULL)
  <2>1. {e \in Dict : hash_proc[e.key] = h} = {}
    BY <1>1, <1>2, FindByHashAtHolds
  <2>2. Map!FindByHash(h)
    BY <1>1, <1>2, <2>1 DEF Map!FindByHash, Map!Answer, Return
  <2> QED BY <2>2 DEF Map!Next
<1>3. ASSUME NEW i \in FindByHashAt(h), Return("find_by_hash", NULL, buckets[i].value)
      PROVE  Map!Next
  <2>1. i \in Occupied(buckets) /\ hash_proc[buckets[i].key] = h
    BY <1>1, FindByHashAtHolds
  <2>2. /\ EntryOf(buckets[i]) \in Dict /\ EntryOf(buckets[i]).value = buckets[i].value
        /\ hash_proc[EntryOf(buckets[i]).key] = h
    BY <1>1, <2>1, EntryIn DEF EntryOf
  <2>3. Map!FindByHash(h)
    BY <1>1, <1>3, <2>2 DEF Map!FindByHash, Map!Answer, Return
  <2> QED BY <2>3 DEF Map!Next
<1> QED BY <1>2, <1>3 DEF FindByHash

\* update, whether by the user or by a callback.
LEMMA SeenUpdate ==
    ASSUME Rests, Live, NEW k \in Keys, NEW v \in Values, UpdateValue(k, v)
    PROVE  Map!Next
<1>1. Dict = Entries(buckets) /\ Dict' = Entries(buckets') /\ Answered' = ret' /\ Map!Holds(k) = Holding(k)
  BY ViewLive, HoldsSeen DEF Live
<1>2. CASE FindAt(k) = {} /\ Return("update", k, "1") /\ UNCHANGED buckets
  <2>1. Map!Update(k, v)
    BY <1>1, <1>2, FindAtHolds DEF Map!Update, Map!Answer, Return
  <2> QED BY <2>1 DEF Map!Next
<1>3. ASSUME NEW i \in FindAt(k), buckets' = [buckets EXCEPT ![i].value = v], Return("update", k, "0")
      PROVE  Map!Next
  <2> DEFINE e == EntryOf(buckets[i])
             b == [buckets[i] EXCEPT !.value = v]
  <2>1. i \in Occupied(buckets) /\ e \in Map!Holds(k)
    BY <1>1, FindAtHolds
  <2>2. buckets' = Put(buckets, i, b)
    BY <1>3 DEF Put
  <2>3. ~IsEmpty(b) /\ EntryOf(b) = [e EXCEPT !.value = v]
    BY <2>1, RestFacts DEF EntryOf, IsEmpty, Filled
  <2>4. Entries(Put(buckets, i, b)) = (Entries(buckets) \ {e}) \cup {EntryOf(b)}
    BY <2>1, <2>3, RestFacts, EntriesReplace
  <2> HIDE DEF e, b
  <2>5. Dict' = (Dict \ {e}) \cup {[e EXCEPT !.value = v]}
    BY <1>1, <2>2, <2>3, <2>4
  <2>6. Map!Update(k, v)
    BY <1>1, <1>3, <2>1, <2>5 DEF Map!Update, Map!Answer, Return
  <2> QED BY <2>6 DEF Map!Next
<1> QED BY <1>2, <1>3 DEF UpdateValue

\* The bucket an insert writes: its key is new, or takes the place of an equal one.
LEMMA SeenAdd ==
    ASSUME Rests, Live, NEW b \in Filled, b.hash = hash_proc[b.key], Add(b)
    PROVE  Map!Next
<1> DEFINE k == b.key
<1>1. /\ Dict = Entries(buckets) /\ Dict' = Entries(buckets') /\ Answered' = ret' /\ Map!Holds(k) = Holding(k)
      /\ k \in Keys /\ b.value \in Values /\ ~IsEmpty(b) /\ EntryOf(b) = [key |-> k, value |-> b.value]
  BY ViewLive, HoldsSeen, BucketFacts DEF Live, Filled, Bucket, EntryOf
<1>2. CASE UNCHANGED buckets /\ Return("insert", k, "ENOSPC")
  BY <1>1, <1>2, SeenRefuse
<1>3. ASSUME NEW i \in AddAt(buckets, num_buckets, b),
             buckets' = [buckets EXCEPT ![i] = b], Return("insert", k, "0")
      PROVE  Map!Next
  <2>1. /\ i \in 0..(num_buckets - 1) /\ i \in DOMAIN buckets /\ buckets' = Put(buckets, i, b)
        /\ i \in FirstIn(Stops(buckets, num_buckets, hash_proc[k], k), hash_proc[k], num_buckets)
    <3>1. i \in 0..(num_buckets - 1) /\ i \in DOMAIN buckets
      BY <1>3, RestFacts, AddAtRange
    <3>2. i \in FirstIn(Stops(buckets, num_buckets, b.hash, k), b.hash, num_buckets)
      BY <1>3 DEF AddAt
    <3> QED BY <1>3, <3>1, <3>2 DEF Put
  <2>2. IsEmpty(buckets[i]) => Holding(k) = {}
    <3> SUFFICES ASSUME IsEmpty(buckets[i]), NEW e \in Holding(k) PROVE FALSE
      OBVIOUS
    <3>1. PICK j \in Occupied(buckets) : e = EntryOf(buckets[j])
      BY EntryIn DEF Holding
    <3>2. <<k, buckets[j].key>> \in compare_proc
      BY <3>1 DEF Holding, EntryOf
    <3>3. /\ j \in FirstIn(Stops(buckets, num_buckets, hash_proc[k], k), hash_proc[k], num_buckets)
          /\ ~IsEmpty(buckets[j])
      BY <1>1, <3>2, ProbeFinds, RestFacts
    <3>4. j \in AddAt(buckets, num_buckets, b)
      BY <3>3 DEF AddAt
    <3>5. i = j
      BY <3>4, RestFacts, AddAtUnique
    <3> QED BY <3>3, <3>5
  <2>3. ~IsEmpty(buckets[i]) => i \in Occupied(buckets) /\ Holding(k) = {EntryOf(buckets[i])}
    <3> SUFFICES ASSUME ~IsEmpty(buckets[i])
                 PROVE  i \in Occupied(buckets) /\ Holding(k) = {EntryOf(buckets[i])}
      OBVIOUS
    <3>1. i \in FindAt(k)
      BY <2>1 DEF FindAt
    <3> QED BY <1>1, <3>1, FindAtHolds
  <2>4. Entries(buckets') = (Entries(buckets) \ Holding(k)) \cup {EntryOf(b)}
    <3>1. CASE IsEmpty(buckets[i])
      BY <1>1, <2>1, <2>2, <3>1, EntriesFill
    <3>2. CASE ~IsEmpty(buckets[i])
      BY <1>1, <2>1, <2>3, <3>2, RestFacts, EntriesReplace
    <3> QED BY <3>1, <3>2
  <2>5. Map!Insert(k, b.value)
    BY <1>1, <1>3, <2>4 DEF Map!Insert, Map!Answer, Return
  <2> QED BY <1>1, <2>5 DEF Map!Next
<1> QED BY <1>2, <1>3 DEF Add
-----------------------------------------------------------------------------
(* Resizing                                                                *)

\* What resize answers its caller: an answer to the user, an error of the insert, or
\* nothing yet.
LEMMA SeenResizeReturns ==
    ASSUME call.op \notin {"freed", "shift"}, Entries(buckets') = Entries(buckets),
           NEW p \in Bucket, NEW res \in {"0", "EINVAL", "ERANGE", "ENOMEM"}, ResizeReturns(p, res)
    PROVE  Map!Next \/ Stutters
<1>1. CASE call' = Idle /\ Return("resize", NULL, res)
  <2>1. Live
    BY <1>1 DEF Live, Idle
  <2>2. CASE res = "0"
    <3>1. Dict' = Dict /\ Answered' = [fn |-> "resize", key |-> NULL, res |-> "0"]
      BY <1>1, <2>1, <2>2, ViewLive DEF Return
    <3>2. Map!Housekeep("resize")
      BY <3>1 DEF Map!Housekeep, Map!Answer
    <3> QED BY <3>2 DEF Map!Next
  <2>3. CASE res # "0"
    BY <1>1, <2>1, <2>3, SeenRefuse
  <2> QED BY <2>2, <2>3
<1>2. CASE p # EmptyBucket /\ res # "0" /\ call' = Idle /\ Return("insert", p.key, res)
  <2>1. Live /\ p.key \in Keys
    BY <1>2 DEF Live, Idle, Bucket, Filled
  <2> QED BY <1>2, <2>1, SeenRefuse
<1>3. CASE call' = [op |-> "add", pending |-> p] /\ UNCHANGED ret
  <2>1. Live
    BY <1>3 DEF Live
  <2> QED BY <1>3, <2>1, ViewLive DEF Stutters
<1> QED BY <1>1, <1>2, <1>3 DEF ResizeReturns

\* However far a resize goes, no entry is lost, as the table does not shrink.
LEMMA SeenResize ==
    ASSUME Rests, call.op = "idle", NEW n \in Nat, n >= num_buckets, NEW p \in Bucket, ResizeTo(n, p)
    PROVE  Map!Next \/ Stutters
<1>1. call.op \notin {"freed", "shift"}
  OBVIOUS
<1>2. CASE ResizeCheck(n) # "go" /\ ResizeReturns(p, ResizeCheck(n)) /\ UNCHANGED buckets
  <2>1. ResizeCheck(n) \in {"0", "EINVAL", "ERANGE", "ENOMEM"}
    BY <1>2 DEF ResizeCheck
  <2> QED BY <1>1, <1>2, <2>1, SeenResizeReturns
<1>3. CASE ResizeReturns(p, "ENOMEM") /\ UNCHANGED buckets
  BY <1>1, <1>3, SeenResizeReturns
<1>4. CASE ResizeReallocated(n, p)
  <2>1. buckets' = Reallocated(n) /\ Occupied(buckets) \subseteq 0..(num_buckets - 1)
    BY <1>4, RestFacts DEF ResizeReallocated
  <2>2. /\ \A i \in 0..(n - 1) : Reallocated(n)[i] = IF i < num_buckets THEN buckets[i] ELSE EmptyBucket
        /\ DOMAIN Reallocated(n) = 0..(n - 1)
    BY DEF Reallocated
  <2>3. Occupied(buckets') = Occupied(buckets)
    <3>1. ASSUME NEW i \in Occupied(buckets) PROVE i \in Occupied(Reallocated(n))
      BY <2>1, <2>2, RestFacts DEF Occupied
    <3>2. ASSUME NEW i \in Occupied(Reallocated(n)) PROVE i \in Occupied(buckets)
      BY <2>1, <2>2, RestFacts, EmptyType DEF Occupied
    <3> QED BY <2>1, <3>1, <3>2
  <2>4. Entries(buckets') = Entries(buckets)
    BY <2>1, <2>2, <2>3, RestFacts, SameEntries
  <2>5. CASE call' = Rehash(p, n) /\ UNCHANGED ret
    <3>1. Live
      BY <2>5 DEF Live, Rehash
    <3> QED BY <2>4, <2>5, <3>1, ViewLive DEF Stutters
  <2> QED BY <1>1, <1>4, <2>4, <2>5, SeenResizeReturns DEF ResizeReallocated
<1> QED BY <1>2, <1>3, <1>4 DEF ResizeTo

\* The temporary list that takes the place of the table has its entries.
LEMMA SeenRehashDone ==
    ASSUME TypeOK, MapInv, RehashDone
    PROVE  Map!Next \/ Stutters
<1>1. /\ call.op = "rehash" /\ call.cur = num_buckets /\ buckets' = call.tmp
      /\ ResizeReturns(call.pending, "0") /\ call.pending \in Bucket /\ RehashInv
  BY RehashCall DEF RehashDone, MapInv
<1>2. Occupied(buckets) \cap 0..(call.cur - 1) = Occupied(buckets)
  BY <1>1 DEF RehashInv, WellKeyed
<1>3. /\ \A i \in Occupied(call.tmp) : \E j \in Occupied(buckets) : call.tmp[i] = buckets[j]
      /\ \A j \in Occupied(buckets) : \E i \in Occupied(call.tmp) : call.tmp[i] = buckets[j]
  BY <1>1, <1>2 DEF RehashInv
<1>4. Entries(call.tmp) = Entries(buckets)
  <2>1. ASSUME NEW e \in Entries(call.tmp) PROVE e \in Entries(buckets)
    BY <1>3, EntryIn
  <2>2. ASSUME NEW e \in Entries(buckets) PROVE e \in Entries(call.tmp)
    BY <1>3, EntryIn
  <2> QED BY <2>1, <2>2
<1> QED BY <1>1, <1>4, SeenResizeReturns

LEMMA SeenInsert ==
    ASSUME Rests, MinReqFits, NEW k \in Keys, NEW v \in Values, Insert(k, v)
    PROVE  Map!Next \/ Stutters
<1> DEFINE b == [hash |-> hash_proc[k], key |-> k, value |-> v]
           n == Greater(MinReq, MIN_BUCKET_AUTO_ALLOCATION)
<1>1. /\ call = Idle /\ call.op = "idle" /\ b.hash = hash_proc[b.key]
      /\ b.hash # INVALID_HASH => b \in Filled /\ b \in Bucket
  BY UserAssumption, SizeAssumption DEF Insert, Ready, Idle, Filled, Bucket, INVALID_HASH
<1>2. CASE InsertRefused(k)
  <2>1. Live /\ UNCHANGED buckets /\ Return("insert", k, "ERANGE")
    BY <1>1, <1>2 DEF InsertRefused, Live, table
  <2> QED BY <2>1, SeenRefuse
<1>3. CASE b.hash # INVALID_HASH /\ Add(b)
  <2>1. Live
    BY <1>1, <1>3 DEF Live, Add, Idle
  <2> QED BY <1>1, <1>3, <2>1, SeenAdd
<1>4. CASE b.hash # INVALID_HASH /\ ~ThresholdOverflows /\ NeedsResize /\ ResizeTo(n, b)
  <2>1. n \in Nat /\ n >= num_buckets
    BY <1>4, MinReqNat, GrowOnly DEF Rests
  <2> QED BY <1>1, <1>4, <2>1, SeenResize
<1> QED BY <1>2, <1>3, <1>4 DEF Insert
-----------------------------------------------------------------------------
(* Removing                                                                *)

\* The entry is gone as soon as the key is found.
LEMMA SeenRemove ==
    ASSUME Rests, call.op = "idle", NEW k \in Keys, Remove(k)
    PROVE  Map!Next
<1>1. Map!Holds(k) = Holding(k) /\ Dict = Entries(buckets)
  BY View, HoldsSeen
<1>2. CASE FindAt(k) = {} /\ Return("remove", k, NULL) /\ UNCHANGED <<buckets, call>>
  <2>1. Live
    BY <1>2 DEF Live
  <2>2. Map!Remove(k)
    BY <1>1, <1>2, <2>1, ViewLive, FindAtHolds DEF Map!Remove, Map!Answer, Return
  <2> QED BY <2>2 DEF Map!Next
<1>3. ASSUME NEW i \in FindAt(k), buckets' = [buckets EXCEPT ![i] = EmptyBucket],
             call' = [op |-> "shift", gap |-> i, cur |-> (i + 1) % num_buckets,
                      left |-> num_buckets, key |-> k, val |-> buckets[i].value]
      PROVE  Map!Next
  <2> DEFINE e == EntryOf(buckets[i])
  <2>1. i \in Occupied(buckets) /\ e \in Map!Holds(k) /\ e.value = buckets[i].value
    <3>1. i \in Occupied(buckets) /\ Holding(k) = {e}
      BY FindAtHolds
    <3>2. e.value = buckets[i].value
      BY DEF EntryOf
    <3> QED BY <1>1, <3>1, <3>2
  <2>2. Entries(buckets') = Entries(buckets) \ {e}
    BY <1>3, <2>1, RestFacts, EntriesEmpty DEF Put
  <2>3. Dict' = Dict \ {e}
    BY <1>1, <1>3, <2>2, View
  <2>4. Answered' = [fn |-> "remove", key |-> k, res |-> e.value]
    BY <1>3, <2>1 DEF Answered
  <2> HIDE DEF e
  <2>5. Map!Remove(k)
    BY <2>1, <2>3, <2>4 DEF Map!Remove, Map!Answer
  <2> QED BY <2>5 DEF Map!Next
<1> QED BY <1>2, <1>3 DEF Remove

\* Moving the gap takes no entry out.
LEMMA SeenShiftMove ==
    ASSUME TypeOK, MapInv, ShiftMove
    PROVE  Stutters
<1> DEFINE g == call.gap
           c == call.cur
           bs2 == [buckets EXCEPT ![g] = buckets[c], ![c] = EmptyBucket]
<1>1. /\ call.op = "shift" /\ g \in DOMAIN buckets /\ c \in DOMAIN buckets
      /\ ~IsEmpty(buckets[c]) /\ IsEmpty(buckets[g])
  BY ShiftCall DEF ShiftMove, ShiftSteps, ShiftInv, Occupied
<1>2. g # c
  BY <1>1
<1>3. buckets' = bs2 /\ call'.op = "shift" /\ call'.key = call.key /\ call'.val = call.val
  BY ShiftCall, <1>1 DEF ShiftMove
<1>4. /\ DOMAIN bs2 = DOMAIN buckets /\ bs2[g] = buckets[c] /\ bs2[c] = EmptyBucket
      /\ \A i \in DOMAIN buckets \ {g, c} : bs2[i] = buckets[i]
  BY <1>1, <1>2
<1> HIDE DEF bs2, g, c
<1>5. Occupied(bs2) = (Occupied(buckets) \ {c}) \cup {g} /\ c \in Occupied(buckets) /\ g \notin Occupied(buckets)
  BY <1>1, <1>2, <1>4, EmptyType DEF Occupied
<1>6. \A i \in Occupied(buckets) \ {c} : bs2[i] = buckets[i]
  BY <1>4, <1>5 DEF Occupied
<1>7. Entries(bs2) = Entries(buckets)
  <2>1. ASSUME NEW e \in Entries(bs2) PROVE e \in Entries(buckets)
    BY <1>4, <1>5, <1>6, EntryIn
  <2>2. ASSUME NEW e \in Entries(buckets) PROVE e \in Entries(bs2)
    BY <1>4, <1>5, <1>6, EntryIn
  <2> QED BY <2>1, <2>2
<1> QED BY <1>1, <1>3, <1>7, View DEF Stutters, Answered

\* Neither does passing a bucket, or returning.
LEMMA SeenShiftSkip ==
    ASSUME TypeOK, MapInv, ShiftSkip
    PROVE  Stutters
<1>1. call.op = "shift" /\ call'.op = "shift" /\ call'.key = call.key /\ call'.val = call.val
  BY ShiftCall DEF ShiftSkip, ShiftSteps
<1> QED BY <1>1, View DEF Stutters, Answered, ShiftSkip, table

LEMMA SeenShiftEnd == ShiftEnd => Stutters
  BY View DEF ShiftEnd, Stutters, Answered, Idle, Return
-----------------------------------------------------------------------------
(* Every step                                                              *)

LEMMA RestsIdle == TypeOK /\ MapInv /\ Ready => Rests /\ call.op = "idle"
  BY DEF Rests, Ready, Settled, Idle

LEMMA SeenSimpleCall ==
    ASSUME TypeOK, MapInv, SimpleCall
    PROVE  Map!Next \/ Stutters
<1>1. Entries(NoBuckets) = {}
  BY DEF Entries, Occupied, NoBuckets
<1>2. CASE Alloc
  BY <1>1, <1>2, SeenEmpty, View DEF Alloc, Idle
<1>3. CASE Free
  BY <1>3, SeenEmpty DEF Free, Freed, Dict
<1>4. CASE Clear
  <2>1. Rests /\ call.op = "idle" /\ call'.op = "idle" /\ Return("clear", NULL, "0")
    BY <1>4, RestsIdle DEF Clear
  <2>2. Occupied(buckets') = {}
    BY <1>4, <2>1, RestFacts, EmptyType DEF Clear, Occupied
  <2>3. Dict' = {}
    BY <2>1, <2>2, View DEF Entries
  <2> QED BY <2>1, <2>3, SeenEmpty
<1>5. CASE EnumBegin
  <2>1. Live /\ UNCHANGED <<buckets, ret>>
    BY <1>5, RestsIdle DEF EnumBegin, Live, table
  <2> QED BY <2>1, ViewLive DEF Stutters
<1>6. ASSUME NEW f \in LoadFactors, Configure(f)
      PROVE  Map!Next
  <2>1. Live /\ UNCHANGED buckets
    BY <1>6 DEF Configure, Live, Idle, table
  <2>2. Return("configure", NULL, "0") \/ Return("configure", NULL, "EINVAL")
    BY <1>6 DEF Configure
  <2> QED BY <2>1, <2>2, SeenHousekeep, SeenRefuse
<1>7. ASSUME NEW p \in Policies, SetResizePolicy(p)
      PROVE  Map!Next
  <2>1. Live /\ UNCHANGED buckets /\ Return("set_resize_policy", NULL, resize_policy) /\ resize_policy \in Policies
    BY <1>7 DEF SetResizePolicy, Live, Idle, table, TypeOK, ConfigType
  <2> QED BY <2>1, SeenHousekeep DEF Policies
<1>8. ASSUME NEW k \in Keys, Find(k)
      PROVE  Map!Next
  <2>1. Rests /\ Live
    BY <1>8, RestsIdle DEF Find, Live
  <2> QED BY <1>8, <2>1, SeenFind
<1>9. ASSUME NEW k \in Keys, NEW v \in Values, Update(k, v)
      PROVE  Map!Next
  <2>1. Rests /\ Live /\ UpdateValue(k, v)
    BY <1>9, RestsIdle DEF Update, Live
  <2> QED BY <2>1, SeenUpdate
<1>10. ASSUME NEW h \in {hash_proc[k] : k \in Keys}, FindByHash(h)
       PROVE  Map!Next
  <2>1. Rests /\ Live
    BY <1>10, RestsIdle DEF FindByHash, Live
  <2> QED BY <1>10, <2>1, SeenFindByHash
<1> QED BY <1>2, <1>3, <1>4, <1>5, <1>6, <1>7, <1>8, <1>9, <1>10 DEF SimpleCall

LEMMA SeenContinue ==
    ASSUME TypeOK, MapInv, Continue
    PROVE  Map!Next \/ Stutters
<1>1. CASE RehashStep
  <2>1. Live /\ UNCHANGED <<buckets, ret>>
    BY <1>1, RehashCall DEF RehashStep, Live, table
  <2> QED BY <2>1, ViewLive DEF Stutters
<1>2. CASE RehashDone
  BY <1>2, SeenRehashDone
<1>3. CASE AddPending
  <2>1. call.pending \in Filled /\ Rests /\ call.op = "add" /\ call'.op = "idle"
    BY <1>3 DEF AddPending, Add, TypeOK, CallType, Idle, Freed, Settled, Rests
  <2>2. call.pending.hash = hash_proc[call.pending.key] /\ Live /\ Add(call.pending)
    BY <1>3, <2>1, EmptyType DEF AddPending, MapInv, PendingRight, Live
  <2> QED BY <2>1, <2>2, SeenAdd
<1>4. CASE ShiftMove \/ ShiftSkip \/ ShiftEnd
  BY <1>4, SeenShiftMove, SeenShiftSkip, SeenShiftEnd
<1>5. CASE EnumSkip
  <2>1. Live /\ UNCHANGED <<buckets, ret>>
    BY <1>5 DEF EnumSkip, Live, table
  <2> QED BY <2>1, ViewLive DEF Stutters
<1>6. CASE EnumCallback
  <2>1. call.op = "enum" /\ call'.op = "enum" /\ Live /\ Rests
    BY <1>6 DEF EnumCallback, Live, Rests, TypeOK, Settled, Idle, Freed
  <2>2. CASE UNCHANGED <<buckets, ret>>
    BY <2>1, <2>2, ViewLive DEF Stutters
  <2>3. ASSUME NEW k \in Keys, NEW v \in Values, UpdateValue(k, v)
        PROVE  Map!Next
    BY <2>1, <2>3, SeenUpdate
  <2> QED BY <1>6, <2>2, <2>3 DEF EnumCallback, table
<1>7. CASE EnumEnd
  <2>1. Live /\ UNCHANGED buckets /\ (Return("enumerate", NULL, "0") \/ Return("enumerate", NULL, "stop"))
    BY <1>7 DEF EnumEnd, Live, Idle, table
  <2> QED BY <2>1, SeenHousekeep
<1> QED BY <1>1, <1>2, <1>3, <1>4, <1>5, <1>6, <1>7 DEF Continue

LEMMA SeenNext == TypeOK /\ MapInv /\ [ContractNext]_vars => [Map!Next]_<<Dict, Answered>>
<1> SUFFICES ASSUME TypeOK, MapInv, [ContractNext]_vars PROVE Map!Next \/ Stutters
  BY DEF Stutters
<1>1. CASE SimpleCall
  BY <1>1, SeenSimpleCall
<1>2. CASE Continue
  BY <1>2, SeenContinue
<1>3. CASE Reset
  <2>1. Dict' = {} /\ call'.op = "idle" /\ Return("reset", NULL, "0")
    BY <1>3, View DEF Reset, ReleaseBuckets, Idle, Entries, Occupied, NoBuckets
  <2> QED BY <2>1, SeenEmpty
<1>4. ASSUME NEW n \in ResizeTargets, n >= num_buckets, Resize(n)
      PROVE  Map!Next \/ Stutters
  <2>1. Rests /\ call.op = "idle" /\ n \in Nat /\ ResizeTo(n, EmptyBucket)
    BY <1>4, RestsIdle, UserAssumption, SizeAssumption DEF Resize
  <2> QED BY <1>4, <2>1, SeenResize, EmptyType
<1>5. ASSUME NEW k \in Keys, NEW v \in Values, MinReqFits, Insert(k, v)
      PROVE  Map!Next \/ Stutters
  <2>1. Rests
    BY <1>5, RestsIdle DEF Insert
  <2> QED BY <1>5, <2>1, SeenInsert
<1>6. ASSUME NEW k \in Keys, Remove(k)
      PROVE  Map!Next
  <2>1. Rests /\ call.op = "idle"
    BY <1>6, RestsIdle DEF Remove
  <2> QED BY <1>6, <2>1, SeenRemove
<1>7. CASE UNCHANGED vars
  BY <1>7 DEF vars, Stutters, Dict, Answered
<1> QED BY <1>1, <1>2, <1>3, <1>4, <1>5, <1>6, <1>7 DEF ContractNext

LEMMA SeenInit == Init => Map!Init
  BY View DEF Init, Map!Init, Idle, Entries, Occupied, NoBuckets

\* For every table size, hash function and load factor the user of the contract sees a
\* dictionary: whatever the table does between two answers (hashmap.c:194-297,
\* 447-507), an insert, update or removal changes one entry at once, a find returns
\* what was stored last, and a refused call changes nothing.
THEOREM MapKeepsItsPromise == ContractSpec => ImplementsMap
<1> QED BY SeenInit, SeenNext, MapCorrect, ContractTypeCorrect, PTL DEF ContractSpec, ImplementsMap, Map!Spec
-----------------------------------------------------------------------------
(* Growth comes in time                                                    *)

\* An insert that waits for a resize will have a bucket.
RoomInv ==
    /\ call.op = "add" => size < num_buckets
    /\ call.op = "rehash" => call.pending = EmptyBucket \/ size < num_buckets

\* A table that is not full takes any bucket.
LEMMA RoomToAdd ==
    ASSUME Rests, size < num_buckets, NEW b \in Filled
    PROVE  AddAt(buckets, num_buckets, b) # {}
<1>1. PICK j \in 0..(num_buckets - 1) : j \notin Occupied(buckets)
  <2>1. Cardinality(Occupied(buckets)) # num_buckets /\ Occupied(buckets) \subseteq 0..(num_buckets - 1)
    BY RestFacts DEF WellKeyed
  <2>2. Cardinality(0..(num_buckets - 1)) = num_buckets
    BY RestFacts, CountBelow
  <2> QED BY <2>1, <2>2
<1>2. IsEmpty(buckets[j])
  BY <1>1, RestFacts DEF Occupied
<1> QED BY <1>2, RestFacts, AddFits

\* intceil of no more than n times the divisor is no more than n.
LEMMA CeilDivBelow ==
    ASSUME NEW a \in Nat, NEW d \in Nat \ {0}, NEW n \in Nat, a <= n * d
    PROVE  CeilDiv(a, d) <= n
<1> DEFINE q == a \div d
           r == a % d
<1>1. a = q * d + r /\ q \in Nat /\ r \in 0..(d - 1)
  BY DivMod
<1> HIDE DEF q, r
<1>2. CASE r = 0
  <2>1. q * d <= n * d
    BY <1>1, <1>2
  <2>2. q <= n
    BY <1>1, <2>1, MulCancel
  <2> QED BY <1>2, <2>2 DEF CeilDiv, q, r
<1>3. CASE r # 0
  <2>1. ~(n <= q)
    <3> SUFFICES ASSUME n <= q PROVE FALSE
      OBVIOUS
    <3>1. n * d <= q * d
      BY <1>1, MulMono
    <3>2. n * d \in Nat /\ q * d \in Nat
      BY <1>1
    <3> QED BY <1>1, <1>3, <3>1, <3>2
  <2>2. q + 1 <= n
    BY <1>1, <2>1
  <2> QED BY <1>3, <2>2 DEF CeilDiv, q, r
<1> QED BY <1>2, <1>3

\* A product modulo 2^w is no more than the product.
LEMMA MulBelow ==
    ASSUME NEW a \in Nat, NEW b \in Nat
    PROVE  Mul(a, b) \in Nat /\ Mul(a, b) <= a * b
<1> DEFINE m == SIZE_MAX + 1
           p == a * b
           q == p \div m
           r == p % m
<1>1. m \in Nat \ {0} /\ p \in Nat
  BY SizeAssumption
<1> HIDE DEF m, p
<1>2. p = q * m + r /\ q \in Nat /\ r \in 0..(m - 1)
  BY <1>1, DivMod
<1> HIDE DEF q, r
<1>3. q * m \in Nat
  BY <1>1, <1>2
<1>4. r \in Nat /\ r <= p
  BY <1>1, <1>2, <1>3
<1> QED BY <1>4 DEF Mul, m, p, r

\* The maximum load factor is below 1, so growth is due before the table is full.
LEMMA ThresholdBelow ==
    ASSUME TypeOK
    PROVE  Threshold \in Nat /\ Threshold <= num_buckets
<1> DEFINE n == num_buckets
           c == load_max.num
           d == load_max.den
<1>1. n \in Nat /\ c \in Nat /\ d \in Nat \ {0} /\ c <= d
  BY DEF TypeOK, TableType, ConfigType, Fraction
<1> HIDE DEF n, c, d
<1>2. Mul(n, c) \in Nat /\ Mul(n, c) <= n * c
  BY <1>1, MulBelow
<1>3. n * c <= n * d
  BY <1>1, MulMono
<1>4. n * c \in Nat /\ n * d \in Nat
  BY <1>1
<1>5. Mul(n, c) <= n * d
  BY <1>2, <1>3, <1>4
<1> QED BY <1>1, <1>2, <1>5, CeilDivBelow, CeilDivNat DEF Threshold, n, c, d

\* The minimum load factor is below 1, so it asks for more buckets than there will be
\* entries.
LEMMA MinReqAbove ==
    ASSUME TypeOK, MinReqFits
    PROVE  size < Greater(MinReq, MIN_BUCKET_AUTO_ALLOCATION)
<1> DEFINE s == size + 1
           a == load_min.num
           b == load_min.den
           r == CeilDiv(s * b, a)
<1>1. s \in Nat \ {0} /\ size \in Nat /\ a \in Nat \ {0} /\ b \in Nat /\ a <= b /\ s * b <= SIZE_MAX
  BY DEF TypeOK, TableType, ConfigType, Fraction, MinReqFits
<1> HIDE DEF a, b
<1>2. s * b \in Nat
  BY <1>1
<1>3. Mul(s, b) = s * b
  <2> DEFINE m == SIZE_MAX + 1
             p == s * b
  <2>1. p \in 0..(m - 1) /\ m \in Nat \ {0}
    BY <1>1, <1>2, SizeAssumption
  <2> HIDE DEF m, p
  <2>2. p % m = p
    BY <2>1, ModSmall
  <2> QED BY <2>2 DEF Mul, m, p
<1>4. r \in Nat /\ s * b <= r * a
  BY <1>1, <1>2, CeilDivNat, CeilDivAbove
<1>5. MinReq = r
  BY <1>3 DEF MinReq, a, b
<1> HIDE DEF r
<1>6. s * a <= s * b
  BY <1>1, MulMono
<1>7. s * a <= r * a
  <2>1. s * a \in Nat /\ r * a \in Nat
    BY <1>1, <1>4
  <2> QED BY <1>2, <1>4, <1>6, <2>1
<1>8. s <= r
  BY <1>1, <1>4, <1>7, MulCancel
<1> QED BY <1>1, <1>4, <1>5, <1>8, SizeAssumption DEF Greater

\* Every step keeps the room an insert waits for.
LEMMA RoomResize ==
    ASSUME NEW n \in Nat, NEW p \in Bucket, p = EmptyBucket \/ size < n, ResizeTo(n, p)
    PROVE  RoomInv'
<1>1. UNCHANGED size
  BY DEF ResizeTo
<1>2. ASSUME NEW res, ResizeReturns(p, res), res = "0" /\ p # EmptyBucket => size' < num_buckets'
      PROVE  RoomInv'
  BY <1>2 DEF ResizeReturns, RoomInv, Idle
<1>3. CASE ResizeCheck(n) # "go" /\ ResizeReturns(p, ResizeCheck(n))
  <2>1. CASE ResizeCheck(n) = "0"
    <3>1. n = size
      BY <2>1 DEF ResizeCheck
    <3>2. p = EmptyBucket
      BY <3>1
    <3> QED BY <1>2, <1>3, <3>2
  <2>2. CASE ResizeCheck(n) # "0"
    BY <1>2, <1>3, <2>2
  <2> QED BY <2>1, <2>2
<1>4. CASE ResizeReturns(p, "ENOMEM")
  BY <1>2, <1>4
<1>5. CASE ResizeReallocated(n, p)
  <2>1. CASE num_buckets' = n /\ ResizeReturns(p, "0")
    BY <1>1, <1>2, <2>1
  <2>2. CASE num_buckets' = n /\ call' = Rehash(p, n)
    BY <1>1, <2>2 DEF RoomInv, Rehash
  <2> QED BY <1>4, <1>5, <2>1, <2>2 DEF ResizeReallocated
<1> QED BY <1>3, <1>4, <1>5 DEF ResizeTo

LEMMA RoomNext == TypeOK /\ MapInv /\ RoomInv /\ [ContractNext]_vars => RoomInv'
<1> SUFFICES ASSUME TypeOK, MapInv, RoomInv, [ContractNext]_vars PROVE RoomInv'
  OBVIOUS
<1>1. ASSUME call'.op \notin {"add", "rehash"}
      PROVE  RoomInv'
  BY <1>1 DEF RoomInv
<1>2. CASE SimpleCall
  <2>1. call'.op \notin {"add", "rehash"}
    BY <1>2 DEF SimpleCall, Alloc, Free, Clear, EnumBegin, Configure, SetResizePolicy, Find, Update, FindByHash,
                Ready, Idle, Freed
  <2> QED BY <1>1, <2>1
<1>3. CASE RehashStep
  <2>1. call'.op = "rehash" /\ call'.pending = call.pending /\ UNCHANGED <<size, num_buckets>>
    BY <1>3, RehashCall DEF RehashStep, table
  <2> QED BY <1>3, <2>1 DEF RehashStep, RoomInv
<1>4. CASE RehashDone
  BY <1>4 DEF RehashDone, ResizeReturns, RoomInv, Idle
<1>5. CASE AddPending \/ ShiftEnd \/ EnumEnd
  <2>1. call'.op = "idle"
    BY <1>5 DEF AddPending, Add, ShiftEnd, EnumEnd, Idle
  <2> QED BY <1>1, <2>1
<1>6. CASE ShiftMove \/ ShiftSkip
  <2>1. call.op = "shift"
    BY <1>6 DEF ShiftMove, ShiftSkip, ShiftSteps
  <2>2. call \in [op : {"shift"}, gap : 0..(num_buckets - 1), cur : 0..(num_buckets - 1),
                  left : 0..num_buckets, key : Keys, val : Values]
    BY <2>1, ShiftCall
  <2>3. call'.op = "shift"
    <3>1. CASE ShiftMove
      BY <2>2, <3>1 DEF ShiftMove
    <3>2. CASE ShiftSkip
      BY <2>2, <3>2 DEF ShiftSkip
    <3> QED BY <1>6, <3>1, <3>2
  <2> QED BY <1>1, <2>3
<1>7. CASE EnumSkip \/ EnumCallback
  <2>1. call \in [op : {"enum"}, cur : 0..num_buckets, seen : SUBSET Keys]
    BY <1>7 DEF EnumSkip, EnumCallback, TypeOK, CallType, Idle, Freed
  <2>2. call'.op = "enum"
    <3>1. CASE EnumSkip
      BY <2>1, <3>1 DEF EnumSkip
    <3>2. CASE EnumCallback
      BY <2>1, <3>2 DEF EnumCallback
    <3> QED BY <1>7, <3>1, <3>2
  <2> QED BY <1>1, <2>2
<1>8. CASE Reset
  BY <1>1, <1>8 DEF Reset, Idle
<1>9. ASSUME NEW n \in ResizeTargets, Resize(n)
      PROVE  RoomInv'
  <2>1. n \in Nat /\ EmptyBucket \in Bucket /\ ResizeTo(n, EmptyBucket)
    BY <1>9, UserAssumption, SizeAssumption, EmptyType DEF Resize
  <2> QED BY <2>1, RoomResize
<1>10. ASSUME NEW k \in Keys, NEW v \in Values, MinReqFits, Insert(k, v)
       PROVE  RoomInv'
  <2> DEFINE b == [hash |-> hash_proc[k], key |-> k, value |-> v]
             n == Greater(MinReq, MIN_BUCKET_AUTO_ALLOCATION)
  <2>1. b.hash # INVALID_HASH => b \in Bucket
    BY UserAssumption, SizeAssumption DEF Filled, Bucket, INVALID_HASH
  <2>2. CASE InsertRefused(k) \/ Add(b)
    <3>1. call'.op = "idle"
      BY <1>10, <2>2 DEF Insert, InsertRefused, Add, Ready, Idle
    <3> QED BY <1>1, <3>1
  <2>3. CASE b.hash # INVALID_HASH /\ ResizeTo(n, b)
    BY <1>10, <2>1, <2>3, MinReqAbove, MinReqNat, RoomResize
  <2> QED BY <1>10, <2>2, <2>3 DEF Insert
<1>11. ASSUME NEW k \in Keys, Remove(k)
       PROVE  RoomInv'
  <2>1. call'.op \in {"idle", "shift"}
    BY <1>11 DEF Remove, Ready, Idle
  <2> QED BY <1>1, <2>1
<1>12. CASE UNCHANGED vars
  BY <1>12 DEF vars, RoomInv
<1> QED BY <1>2, <1>3, <1>4, <1>5, <1>6, <1>7, <1>8, <1>9, <1>10, <1>11, <1>12 DEF ContractNext, Continue

\* An insert that grows the table in time finds a bucket.
LEMMA NotFull ==
    ASSUME Rests, size < num_buckets, NEW b \in Filled, Add(b)
    PROVE  ret'.res # "ENOSPC"
  BY RoomToAdd DEF Add, Return

LEMMA InsertHasRoom ==
    TypeOK /\ MapInv /\ RoomInv /\ [ContractNext]_vars =>
        (ret'.fn = "insert" /\ ret'.res = "ENOSPC" /\ ret' # ret => resize_policy = "NONE")
<1> SUFFICES ASSUME TypeOK, MapInv, RoomInv, [ContractNext]_vars,
                    ret'.fn = "insert", ret'.res = "ENOSPC", ret' # ret
             PROVE  resize_policy = "NONE"
  OBVIOUS
<1>1. ASSUME NEW fn, NEW k, NEW res, Return(fn, k, res), fn # "insert" \/ res # "ENOSPC"
      PROVE  FALSE
  BY <1>1 DEF Return
<1>2. ASSUME NEW p, NEW res, ResizeReturns(p, res), res # "ENOSPC"
      PROVE  FALSE
  BY <1>1, <1>2 DEF ResizeReturns
<1>3. ASSUME NEW n, NEW p, ResizeTo(n, p)
      PROVE  FALSE
  <2>1. ResizeCheck(n) # "ENOSPC"
    BY DEF ResizeCheck
  <2> QED BY <1>2, <1>3, <2>1 DEF ResizeTo, ResizeReallocated
<1>4. ASSUME NEW k, NEW v, UpdateValue(k, v)
      PROVE  FALSE
  BY <1>1, <1>4 DEF UpdateValue
<1>5. ~SimpleCall
  BY <1>1, <1>4 DEF SimpleCall, Alloc, Free, Clear, EnumBegin, Configure, SetResizePolicy, Find, Update, FindByHash
<1>6. ~RehashDone
  BY <1>2 DEF RehashDone
<1>7. ~AddPending
  <2> SUFFICES ASSUME AddPending PROVE FALSE
    OBVIOUS
  <2>1. call.pending \in Filled /\ Rests /\ size < num_buckets
    BY DEF AddPending, TypeOK, CallType, Idle, Freed, Settled, Rests, RoomInv
  <2> QED BY <2>1, NotFull DEF AddPending
<1>8. ~ShiftEnd /\ ~EnumEnd /\ ~Reset
  BY <1>1 DEF ShiftEnd, EnumEnd, Reset
<1>9. ~EnumCallback
  BY <1>4 DEF EnumCallback
<1>10. ~(RehashStep \/ ShiftMove \/ ShiftSkip \/ EnumSkip \/ UNCHANGED vars)
  BY DEF RehashStep, ShiftMove, ShiftSkip, EnumSkip, vars
<1>11. \A n : ~Resize(n)
  BY <1>3 DEF Resize
<1>12. \A k : ~Remove(k)
  BY <1>1 DEF Remove
<1>13. PICK k \in Keys, v \in Values : Insert(k, v)
  BY <1>5, <1>6, <1>7, <1>8, <1>9, <1>10, <1>11, <1>12 DEF ContractNext, Continue
<1> DEFINE b == [hash |-> hash_proc[k], key |-> k, value |-> v]
<1>14. b.hash # INVALID_HASH => b \in Filled
  BY UserAssumption, SizeAssumption DEF Filled, INVALID_HASH
<1>15. ~NeedsResize /\ Add(b) /\ b.hash # INVALID_HASH
  BY <1>1, <1>3, <1>13 DEF Insert, InsertRefused
<1>16. CASE resize_policy = "LOAD_FACTOR"
  <2>1. ~(size >= Threshold)
    BY <1>15, <1>16 DEF NeedsResize
  <2>2. size < num_buckets
    BY <2>1, ThresholdBelow DEF TypeOK, TableType
  <2>3. Rests
    BY <1>13, RestsIdle DEF Insert
  <2> QED BY <1>14, <1>15, <2>2, <2>3, NotFull
<1> QED BY <1>16 DEF TypeOK, ConfigType, Policies

\* For every load factor the header allows, a map that grows by itself never answers
\* that it is full (hashmap.c:301-345).
THEOREM GrowsInTime == ContractSpec => InsertNeverFull
<1>1. Init => RoomInv
  BY DEF Init, RoomInv, Idle
<1>2. TypeOK /\ MapInv /\ RoomInv /\ [ContractNext]_vars =>
          [ret'.fn = "insert" /\ ret'.res = "ENOSPC" /\ ret' # ret => resize_policy = "NONE"]_vars
  BY InsertHasRoom
<1> QED BY <1>1, <1>2, RoomNext, MapCorrect, ContractTypeCorrect, PTL DEF ContractSpec, InsertNeverFull
-----------------------------------------------------------------------------
(* Each key once                                                           *)

\* The callback has seen the keys before the cursor.
SeenInv ==
    call.op = "enum" =>
        call.seen = {buckets[j].key : j \in Occupied(buckets) \cap 0..(call.cur - 1)}

\* An update in the callback moves no key.
LEMMA UpdateKeepsKeys ==
    ASSUME Rests, NEW k \in Keys, NEW v \in Values, UpdateValue(k, v)
    PROVE  Occupied(buckets') = Occupied(buckets) /\ \A j \in Occupied(buckets) : buckets'[j].key = buckets[j].key
<1>1. CASE UNCHANGED buckets
  BY <1>1
<1>2. ASSUME NEW i \in FindAt(k), buckets' = [buckets EXCEPT ![i].value = v]
      PROVE  Occupied(buckets') = Occupied(buckets) /\ \A j \in Occupied(buckets) : buckets'[j].key = buckets[j].key
  <2>1. i \in Occupied(buckets)
    BY FindAtHolds
  <2>2. /\ DOMAIN buckets' = DOMAIN buckets
        /\ \A j \in DOMAIN buckets : buckets'[j].key = buckets[j].key /\ buckets'[j].hash = buckets[j].hash
    <3>1. buckets[i] \in Filled
      BY <2>1, RestFacts
    <3>2. [buckets[i] EXCEPT !.value = v].key = buckets[i].key /\ [buckets[i] EXCEPT !.value = v].hash = buckets[i].hash
      BY <3>1 DEF Filled
    <3> QED BY <1>2, <3>2
  <2> QED BY <2>2 DEF Occupied, IsEmpty
<1> QED BY <1>1, <1>2 DEF UpdateValue

LEMMA SeenInvNext == TypeOK /\ MapInv /\ SeenInv /\ [ContractNext]_vars => SeenInv'
<1> SUFFICES ASSUME TypeOK, MapInv, SeenInv, [ContractNext]_vars, call'.op = "enum"
             PROVE  call'.seen = {buckets'[j].key : j \in Occupied(buckets') \cap 0..(call'.cur - 1)}
  BY DEF SeenInv
<1>1. CASE EnumBegin
  BY <1>1 DEF EnumBegin
<1>2. CASE EnumSkip \/ EnumCallback
  <2>1. /\ call.op = "enum" /\ call \in [op : {"enum"}, cur : 0..num_buckets, seen : SUBSET Keys]
        /\ Rests /\ call.cur \in 0..(num_buckets - 1)
    BY <1>2 DEF EnumSkip, EnumCallback, TypeOK, TableType, CallType, Idle, Freed, Rests, Settled
  <2>2. Occupied(buckets') = Occupied(buckets) /\ \A j \in Occupied(buckets) : buckets'[j].key = buckets[j].key
    BY <1>2, <2>1, UpdateKeepsKeys DEF EnumSkip, EnumCallback, table
  <2>3. call'.cur = call.cur + 1 /\ 0..(call'.cur - 1) = 0..(call.cur - 1) \cup {call.cur}
    <3>1. call'.cur = call.cur + 1
      <4>1. CASE EnumSkip
        BY <2>1, <4>1 DEF EnumSkip
      <4>2. CASE EnumCallback
        BY <2>1, <4>2 DEF EnumCallback
      <4> QED BY <1>2, <4>1, <4>2
    <3>2. call.cur \in Nat /\ num_buckets \in Nat
      BY <2>1 DEF TypeOK, TableType
    <3> QED BY <3>1, <3>2
  <2>4. call.seen = {buckets[j].key : j \in Occupied(buckets) \cap 0..(call.cur - 1)}
    BY <2>1 DEF SeenInv
  <2>5. CASE EnumSkip
    BY <2>2, <2>3, <2>4, <2>5 DEF EnumSkip, Occupied
  <2>6. CASE EnumCallback
    <3>1. call'.seen = call.seen \cup {buckets[call.cur].key} /\ call.cur \in Occupied(buckets)
      BY <2>1, <2>6, RestFacts DEF EnumCallback, Occupied
    <3> QED BY <2>2, <2>3, <2>4, <3>1
  <2> QED BY <1>2, <2>5, <2>6
<1>3. CASE UNCHANGED vars
  BY <1>3 DEF vars, SeenInv
<1>4. ~(SimpleCall /\ ~EnumBegin)
  BY DEF SimpleCall, Alloc, Free, Clear, Configure, SetResizePolicy, Find, Update, FindByHash, Ready, Idle, Freed
<1>5. ~RehashStep /\ ~ShiftMove /\ ~ShiftSkip
  BY RehashCall, ShiftCall DEF RehashStep, ShiftMove, ShiftSkip, ShiftSteps
<1>6. ~AddPending /\ ~ShiftEnd /\ ~EnumEnd /\ ~Reset
  BY DEF AddPending, Add, ShiftEnd, EnumEnd, Reset, Idle
<1>7. \A p, res : ~ResizeReturns(p, res)
  BY DEF ResizeReturns, Idle
<1>8. ~RehashDone
  BY <1>7 DEF RehashDone
<1>9. \A n, p : ~ResizeTo(n, p)
  BY <1>7 DEF ResizeTo, ResizeReallocated, Rehash
<1>10. \A n : ~Resize(n)
  BY <1>9 DEF Resize
<1>11. \A k, v : ~Insert(k, v)
  BY <1>9 DEF Insert, InsertRefused, Add, Ready, Idle
<1>12. \A k : ~Remove(k)
  BY DEF Remove, Ready, Idle
<1> QED BY <1>1, <1>2, <1>3, <1>4, <1>5, <1>6, <1>8, <1>10, <1>11, <1>12 DEF ContractNext, Continue

LEMMA SeenOnce ==
    ASSUME TypeOK, MapInv, SeenInv
    PROVE  /\ EnumCallback => buckets[call.cur].key \notin call.seen
           /\ EnumEnd /\ call.cur = num_buckets => call.seen = {e.key : e \in Entries(buckets)}
<1> SUFFICES ASSUME call.op = "enum"
             PROVE  /\ EnumCallback => buckets[call.cur].key \notin call.seen
                    /\ call.cur = num_buckets => call.seen = {e.key : e \in Entries(buckets)}
  BY DEF EnumCallback, EnumEnd
<1>1. Rests /\ call.seen = {buckets[j].key : j \in Occupied(buckets) \cap 0..(call.cur - 1)}
  BY DEF SeenInv, TypeOK, Idle, Freed, Rests, Settled
<1>2. ASSUME EnumCallback, buckets[call.cur].key \in call.seen
      PROVE  FALSE
  <2>1. call.cur \in Occupied(buckets) /\ call.cur \in Nat
    BY <1>1, <1>2, RestFacts DEF EnumCallback, Occupied, TypeOK, CallType, Idle, Freed
  <2>2. PICK j \in Occupied(buckets) \cap 0..(call.cur - 1) : buckets[j].key = buckets[call.cur].key
    BY <1>1, <1>2
  <2>3. <<buckets[j].key, buckets[call.cur].key>> \in compare_proc
    BY <1>1, <2>1, <2>2, RestFacts, CompareAssumption
  <2>4. j = call.cur
    BY <1>1, <2>1, <2>2, <2>3, RestFacts DEF Distinct
  <2> QED BY <2>1, <2>2, <2>4
<1>3. ASSUME call.cur = num_buckets
      PROVE  call.seen = {e.key : e \in Entries(buckets)}
  <2>1. call.seen = {buckets[j].key : j \in Occupied(buckets)}
    BY <1>1, <1>3, RestFacts
  <2>2. \A i : EntryOf(buckets[i]).key = buckets[i].key
    BY DEF EntryOf
  <2>3. {buckets[j].key : j \in Occupied(buckets)} \subseteq {e.key : e \in Entries(buckets)}
    <3> SUFFICES ASSUME NEW j \in Occupied(buckets)
                 PROVE  \E e \in Entries(buckets) : buckets[j].key = e.key
      OBVIOUS
    <3>1. EntryOf(buckets[j]) \in Entries(buckets)
      BY EntryIn
    <3> QED BY <2>2, <3>1
  <2>4. {e.key : e \in Entries(buckets)} \subseteq {buckets[j].key : j \in Occupied(buckets)}
    <3> SUFFICES ASSUME NEW e \in Entries(buckets)
                 PROVE  \E j \in Occupied(buckets) : e.key = buckets[j].key
      OBVIOUS
    <3>1. PICK j \in Occupied(buckets) : e = EntryOf(buckets[j])
      BY EntryIn
    <3> QED BY <2>2, <3>1
  <2> QED BY <2>1, <2>3, <2>4
<1> QED BY <1>2, <1>3

\* For every table, an enumeration hands each stored key to the callback and none
\* twice, whatever values the callback updates meanwhile (hashmap.c:547-564).
THEOREM EnumeratesOnce == ContractSpec => EnumVisitsOnce
<1>1. Init => SeenInv
  BY DEF Init, SeenInv, Idle
<1>2. TypeOK /\ MapInv /\ SeenInv =>
          [/\ EnumCallback => buckets[call.cur].key \notin call.seen
           /\ EnumEnd /\ call.cur = num_buckets =>
                 call.seen = {e.key : e \in Entries(buckets)}]_vars
  BY SeenOnce
<1> QED BY <1>1, <1>2, SeenInvNext, MapCorrect, ContractTypeCorrect, PTL DEF ContractSpec, EnumVisitsOnce
=============================================================================
