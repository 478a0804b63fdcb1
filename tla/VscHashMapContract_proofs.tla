---------------------- MODULE VscHashMapContract_proofs ----------------------
(***************************************************************************)
(* Proof that under the contract the table is a dictionary: MapInv is an   *)
(* inductive invariant, and FindComplete and SizeExact follow from it.     *)
(***************************************************************************)
EXTENDS VscHashMapContract, VscHashMap_proofs

-----------------------------------------------------------------------------
(* add_or_replace_bucket keeps a table well keyed and reachable *)

\* The table with b written at i.
Put(bs, i, b) == [bs EXCEPT ![i] = b]

\* Writing a bucket where its probe stops keeps the other buckets reachable, adds the
\* new one and stores no key twice.
LEMMA AddKeeps ==
    ASSUME NEW n \in Nat, NEW m \in Nat, n <= m, NEW bs \in [0..(m - 1) -> Bucket],
           WellKeyed(bs, n), Reachable(bs, n, {}),
           NEW b \in Filled, b.hash = hash_proc[b.key],
           NEW i \in AddAt(bs, n, b)
    PROVE  /\ WellKeyed(Put(bs, i, b), n) /\ Reachable(Put(bs, i, b), n, {})
           /\ Occupied(Put(bs, i, b)) = Occupied(bs) \cup {i}
<1> DEFINE h == b.hash % n
           bs2 == Put(bs, i, b)
<1>1. i \in 0..(n - 1) /\ i \in 0..(m - 1) /\ n \in Nat \ {0}
  BY AddAtRange
<1>2. b.hash \in Nat /\ b.key \in Keys /\ ~IsEmpty(b)
  BY BucketFacts DEF Bucket
<1>3. h \in 0..(n - 1)
  BY <1>1, <1>2, ModRange
<1>4. DOMAIN bs = 0..(m - 1) /\ DOMAIN bs2 = 0..(m - 1)
  BY DEF Put
<1>5. bs2[i] = b /\ \A j \in 0..(m - 1) : j # i => bs2[j] = bs[j]
  BY <1>1 DEF Put
<1> HIDE DEF bs2
<1>6. Occupied(bs2) = Occupied(bs) \cup {i}
  BY <1>1, <1>2, <1>4, <1>5 DEF Occupied
<1>7. IsEmpty(bs[i]) \/ Matches(b.hash, b.key, bs[i])
  BY DEF AddAt, FirstIn, Stops
<1>8. \A j \in Path(h, i, n) : ~IsEmpty(bs[j]) /\ ~Matches(b.hash, b.key, bs[j])
  BY <1>1, <1>3, PathRange DEF AddAt, FirstIn, Stops
<1>9. HashesRight(bs2)
  BY <1>5, <1>6, <1>4 DEF WellKeyed, HashesRight, Occupied
<1> HIDE DEF h
\* No other bucket has an equal key: its probe and b's are the same.
<1>10. ASSUME NEW j \in Occupied(bs), j # i,
              \/ <<b.key, bs[j].key>> \in compare_proc
              \/ <<bs[j].key, b.key>> \in compare_proc
       PROVE  FALSE
  <2>1. j \in 0..(n - 1) /\ bs[j].key \in Keys /\ bs[j].hash = hash_proc[bs[j].key]
    BY <1>10, BucketFacts DEF WellKeyed, HashesRight, Occupied
  <2>2. Matches(b.hash, b.key, bs[j]) /\ bs[j].hash % n = h
    BY <1>2, <1>10, <2>1, CompareAssumption DEF Matches, h
  <2>3. CASE j \in Path(h, i, n)
    BY <2>2, <2>3, <1>8
  <2>4. CASE i \in Path(h, j, n)
    <3>1. i \in Occupied(bs)
      BY <2>2, <2>4, <1>10 DEF Reachable
    <3>2. Matches(b.hash, b.key, bs[i]) /\ bs[i].key \in Keys
      BY <3>1, <1>7, BucketFacts DEF Occupied
    <3>3. <<bs[i].key, bs[j].key>> \in compare_proc
      <4>1. b.key \in Keys /\ bs[j].key \in Keys
        BY <2>1, <1>2
      <4>2. <<b.key, bs[i].key>> \in compare_proc /\ <<b.key, bs[j].key>> \in compare_proc
        BY <3>2, <2>2 DEF Matches
      <4>3. <<bs[i].key, b.key>> \in compare_proc
        BY <3>2, <4>1, <4>2, CompareAssumption
      <4> QED
        BY <3>2, <4>1, <4>2, <4>3, CompareAssumption
    <3> QED
      BY <3>1, <3>3, <1>10 DEF WellKeyed, Distinct
  <2> QED
    BY <2>1, <2>3, <2>4, <1>1, <1>3, <1>10, PathOrder
<1>11. Distinct(bs2)
  <2> SUFFICES ASSUME NEW x \in Occupied(bs2), NEW y \in Occupied(bs2),
                      <<bs2[x].key, bs2[y].key>> \in compare_proc
               PROVE  x = y
    BY DEF Distinct
  <2>1. CASE x = i \/ y = i
    BY <2>1, <1>5, <1>6, <1>10, <1>4 DEF Occupied
  <2>2. CASE x # i /\ y # i
    BY <2>2, <1>5, <1>6 DEF WellKeyed, Distinct, Occupied
  <2> QED
    BY <2>1, <2>2
<1>12. Reachable(bs2, n, {})
  <2> SUFFICES ASSUME NEW x \in Occupied(bs2)
               PROVE  Path(bs2[x].hash % n, x, n) \subseteq Occupied(bs2)
    BY DEF Reachable
  <2>1. CASE x = i
    <3>1. Path(h, i, n) \subseteq 0..(n - 1)
      BY <1>1, <1>3, PathRange
    <3>2. Path(h, i, n) \subseteq Occupied(bs)
      BY <3>1, <1>8 DEF Occupied
    <3> QED
      BY <2>1, <3>2, <1>5, <1>6 DEF h
  <2>2. CASE x # i
    BY <2>2, <1>5, <1>6 DEF Reachable, Occupied
  <2> QED
    BY <2>1, <2>2
<1> QED
  BY <1>1, <1>6, <1>9, <1>11, <1>12 DEF WellKeyed, bs2

-----------------------------------------------------------------------------
(* The automatic growth never asks for fewer buckets than there are *)

\* Multiplication is monotonic.
LEMMA MulMono ==
    ASSUME NEW a \in Nat, NEW b \in Nat, NEW c \in Nat, a <= b
    PROVE  a * c <= b * c
OBVIOUS

\* And cancels.
LEMMA MulCancel ==
    ASSUME NEW a \in Nat, NEW b \in Nat, NEW c \in Nat \ {0}, a * c <= b * c
    PROVE  a <= b
OBVIOUS

\* intceil rounds up.
LEMMA CeilDivAbove ==
    ASSUME NEW a \in Nat, NEW n \in Nat \ {0}
    PROVE  a <= CeilDiv(a, n) * n
<1> DEFINE q == a \div n
           r == a % n
<1>1. a = q * n + r /\ q \in Nat /\ r \in 0..(n - 1)
  BY DivMod
<1> HIDE DEF q, r
<1>2. CASE r = 0
  BY <1>1, <1>2 DEF CeilDiv, q, r
<1>3. CASE r # 0
  <2>1. CeilDiv(a, n) = q + 1
    BY <1>3 DEF CeilDiv, q, r
  <2>2. (q + 1) * n = q * n + n
    BY <1>1
  <2> QED
    BY <1>1, <2>1, <2>2
<1> QED
  BY <1>2, <1>3

\* Below the rounded quotient a product does not overflow: the two guards of
\* maybe_resize (hashmap.c:313-317, 331-335).
LEMMA BelowCeilDiv ==
    ASSUME NEW a \in Nat, NEW n \in Nat \ {0}, NEW x \in Nat, x < CeilDiv(a, n)
    PROVE  x * n < a
<1> DEFINE q == a \div n
           r == a % n
<1>1. a = q * n + r /\ q \in Nat /\ r \in 0..(n - 1)
  BY DivMod
<1> HIDE DEF q, r
<1>2. CASE r = 0
  <2>1. x + 1 <= q
    BY <1>1, <1>2 DEF CeilDiv, q, r
  <2>2. (x + 1) * n <= q * n
    BY <1>1, <2>1, MulMono
  <2>3. (x + 1) * n = x * n + n
    OBVIOUS
  <2> QED
    BY <1>1, <1>2, <2>2, <2>3
<1>3. CASE r # 0
  <2>1. x <= q
    BY <1>1, <1>3 DEF CeilDiv, q, r
  <2>2. x * n <= q * n
    BY <1>1, <2>1, MulMono
  <2> QED
    BY <1>1, <1>3, <2>2
<1> QED
  BY <1>2, <1>3

\* maybe_resize (hashmap.c:301-345) only grows the table: the minimum load factor
\* is not above the maximum, and neither product has wrapped.
LEMMA GrowOnly ==
    ASSUME TypeOK, ~ThresholdOverflows, NeedsResize, MinReqFits
    PROVE  Greater(MinReq, MIN_BUCKET_AUTO_ALLOCATION) >= num_buckets
<1> DEFINE nb == num_buckets
           s == size
           a == load_min.num
           b == load_min.den
           c == load_max.num
           d == load_max.den
<1>1. /\ nb \in Nat /\ s \in Nat
      /\ a \in Nat \ {0} /\ b \in Nat \ {0} /\ c \in Nat \ {0} /\ d \in Nat \ {0}
      /\ a * d <= c * b
  BY DEF TypeOK, TableType, ConfigType, Fraction
<1>2. nb * c < SIZE_MAX /\ Mul(nb, c) = nb * c
  <2>1. SIZE_MAX \in Nat /\ nb < CeilDiv(SIZE_MAX, c)
    <3>1. CeilDiv(SIZE_MAX, c) \in Nat
      BY <1>1, CeilDivNat, SizeAssumption
    <3> QED
      BY <1>1, <3>1, SizeAssumption DEF ThresholdOverflows
  <2>2. nb * c < SIZE_MAX /\ nb * c \in Nat
    BY <1>1, <2>1, BelowCeilDiv
  <2> QED
    BY <2>1, <2>2, ModSmall DEF Mul
<1>3. Mul(s + 1, b) = (s + 1) * b
  <2>1. (s + 1) * b \in 0..SIZE_MAX
    BY <1>1, SizeAssumption DEF MinReqFits
  <2> QED
    BY <2>1, ModSmall, SizeAssumption DEF Mul
<1>4. nb * c <= s * d
  <2>1. nb * c \in Nat
    BY <1>1
  <2>2. CeilDiv(nb * c, d) <= s /\ CeilDiv(nb * c, d) \in Nat
    BY <1>1, <1>2, <2>1, CeilDivNat DEF NeedsResize, Threshold
  <2>3. nb * c <= CeilDiv(nb * c, d) * d
    BY <1>1, <2>1, CeilDivAbove
  <2>4. CeilDiv(nb * c, d) * d <= s * d
    BY <1>1, <2>2, MulMono
  <2> QED
    BY <1>1, <2>1, <2>2, <2>3, <2>4
<1> DEFINE q == MinReq
<1>5. (s + 1) * b <= q * a /\ q \in Nat
  <2>1. (s + 1) * b \in Nat
    BY <1>1
  <2>2. q = CeilDiv((s + 1) * b, a)
    BY <1>3 DEF MinReq
  <2> QED
    BY <1>1, <2>1, <2>2, CeilDivAbove, CeilDivNat
<1> HIDE DEF nb, s, a, b, c, d, q
<1>6. (nb * c) * b <= (q * c) * b
  <2>1. nb * c \in Nat /\ s * d \in Nat /\ (s + 1) * b \in Nat /\ q * a \in Nat
        /\ a * d \in Nat /\ c * b \in Nat
    BY <1>1, <1>5
  <2>2. (nb * c) * b <= (s * d) * b
    BY <1>1, <1>4, <2>1, MulMono
  <2>3. (s * d) * b <= ((s + 1) * b) * d
    <3>1. (s * b) * d <= ((s + 1) * b) * d
      <4>1. s * b \in Nat /\ s * b <= (s + 1) * b
        BY <1>1
      <4> QED
        BY <1>1, <2>1, <4>1, MulMono
    <3>2. (s * d) * b = (s * b) * d
      BY <1>1
    <3> QED
      BY <3>1, <3>2
  <2>4. ((s + 1) * b) * d <= (q * a) * d
    BY <1>1, <1>5, <2>1, MulMono
  <2>5. (q * a) * d <= (q * c) * b
    <3>1. (a * d) * q <= (c * b) * q
      BY <1>1, <1>5, <2>1, MulMono
    <3>2. (a * d) * q = (q * a) * d /\ (c * b) * q = (q * c) * b
      BY <1>1, <1>5
    <3> QED
      BY <3>1, <3>2
  <2>6. /\ (nb * c) * b \in Nat /\ (s * d) * b \in Nat /\ ((s + 1) * b) * d \in Nat
        /\ (q * a) * d \in Nat /\ (q * c) * b \in Nat
    BY <1>1, <1>5
  <2> QED
    BY <2>2, <2>3, <2>4, <2>5, <2>6
<1>7. nb <= q
  <2>1. nb * c \in Nat /\ q * c \in Nat
    BY <1>1, <1>5
  <2>2. nb * c <= q * c
    BY <1>1, <1>6, <2>1, MulCancel
  <2> QED
    BY <1>1, <1>5, <2>2, MulCancel
<1> QED
  BY <1>1, <1>5, <1>7, SizeAssumption DEF Greater, nb, q
-----------------------------------------------------------------------------
(* Steps that keep the invariant, one lemma for each way of changing the table *)

\* A call that ends with a right table.
LEMMA SettledInv ==
    ASSUME InBounds', TableRight', call'.op \in {"idle", "enum", "freed"}
    PROVE  MapInv'
BY DEF MapInv, PendingRight, Settled

\* A step that leaves the table as it is, and starts or ends no loop over it.
LEMMA SameTable ==
    ASSUME MapInv, UNCHANGED table, Settled,
           call'.op \in {"idle", "enum", "freed"}
    PROVE  MapInv'
<1>1. InBounds' /\ TableRight'
  BY DEF MapInv, InBounds, TableRight, table
<1> QED
  BY <1>1, SettledInv

\* Buckets that hold the same keys at the same places.
LEMMA SameKeys ==
    ASSUME NEW n, NEW bs, NEW bs2, NEW gaps, Occupied(bs2) = Occupied(bs),
           \A i \in Occupied(bs) : bs2[i].hash = bs[i].hash /\ bs2[i].key = bs[i].key
    PROVE  /\ WellKeyed(bs, n) => WellKeyed(bs2, n)
           /\ Reachable(bs, n, gaps) => Reachable(bs2, n, gaps)
BY DEF WellKeyed, HashesRight, Distinct, Reachable

\* A table without entries is right.
LEMMA EmptyTable ==
    ASSUME NEW bs, Occupied(bs) = {}, NEW n, NEW gaps
    PROVE  WellKeyed(bs, n) /\ Reachable(bs, n, gaps) /\ Cardinality(Occupied(bs)) = 0
BY FS_EmptySet DEF WellKeyed, HashesRight, Distinct, Reachable

\* alloc, and reset of an empty map.
LEMMA ReleaseInv ==
    ASSUME buckets' = NoBuckets, num_buckets' = 0, alloc' = 0, size' = 0, call' = Idle
    PROVE  MapInv'
<1>1. Occupied(NoBuckets) = {}
  BY DEF Occupied, NoBuckets
<1>2. TableRight' /\ InBounds' /\ call'.op = "idle"
  BY <1>1, EmptyTable DEF TableRight, InBounds, Idle
<1> QED
  BY <1>2, SettledInv

\* clear empties every bucket of the table.
LEMMA ClearInv ==
    ASSUME TypeOK, MapInv, Clear
    PROVE  MapInv'
<1>1. Settled /\ call' = Idle
  BY DEF Clear, Ready, Settled, Idle
<1>2. Occupied(buckets) \subseteq 0..(num_buckets - 1)
  BY <1>1 DEF MapInv, TableRight, WellKeyed
<1>3. DOMAIN buckets' = DOMAIN buckets /\ DOMAIN buckets \subseteq Int /\ num_buckets \in Nat
  BY DEF Clear, TypeOK, TableType
<1>4. Occupied(buckets') = {}
  <2>1. ASSUME NEW i \in DOMAIN buckets PROVE IsEmpty(buckets'[i])
    <3>1. CASE i < num_buckets
      BY <3>1, EmptyType DEF Clear
    <3>2. CASE ~(i < num_buckets)
      BY <1>2, <1>3, <3>2 DEF Clear, Occupied
    <3> QED
      BY <3>1, <3>2
  <2> QED
    BY <1>3, <2>1 DEF Occupied
<1>5. TableRight' /\ InBounds' /\ call'.op = "idle"
  BY <1>1, <1>4, EmptyTable DEF TableRight, InBounds, Clear, MapInv, Idle
<1> QED
  BY <1>5, SettledInv

\* update changes no key and no hash.
LEMMA UpdateValueInv ==
    ASSUME TypeOK, MapInv, Settled, call'.op \in {"idle", "enum", "freed"},
           NEW k, NEW v, UpdateValue(k, v)
    PROVE  MapInv'
<1>1. CASE UNCHANGED buckets
  BY <1>1, SameTable DEF UpdateValue, table
<1>2. ASSUME NEW i \in FindAt(k), buckets' = [buckets EXCEPT ![i].value = v]
      PROVE  MapInv'
  <2>1. DOMAIN buckets' = DOMAIN buckets
    BY <1>2
  <2>2. \A j \in DOMAIN buckets :
           buckets'[j].hash = buckets[j].hash /\ buckets'[j].key = buckets[j].key
    <3>1. ASSUME NEW j \in DOMAIN buckets
          PROVE  buckets[j] \in Bucket /\ "hash" \in DOMAIN buckets[j] /\ "key" \in DOMAIN buckets[j]
      BY <3>1 DEF TypeOK, TableType, Bucket, Filled, EmptyBucket
    <3> QED
      BY <1>2, <3>1
  <2>3. Occupied(buckets') = Occupied(buckets)
    BY <2>1, <2>2 DEF Occupied, IsEmpty
  <2>4. TableRight' /\ InBounds'
    BY <2>2, <2>3, SameKeys DEF UpdateValue, MapInv, TableRight, InBounds, Occupied
  <2> QED
    BY <2>4, SettledInv
<1> QED
  BY <1>1, <1>2 DEF UpdateValue

\* The end of insert.
LEMMA AddInv ==
    ASSUME TypeOK, MapInv, Settled, NEW b \in Filled, b.hash = hash_proc[b.key], Add(b)
    PROVE  MapInv'
<1>1. call' = Idle /\ call'.op = "idle" /\ UNCHANGED <<num_buckets, alloc>>
  BY DEF Add, Idle
<1>2. CASE UNCHANGED <<size, buckets>>
  BY <1>1, <1>2, SameTable DEF table
<1>3. ASSUME NEW i \in AddAt(buckets, num_buckets, b),
             buckets' = [buckets EXCEPT ![i] = b],
             size' = IF IsEmpty(buckets[i]) THEN (size + 1) % (SIZE_MAX + 1) ELSE size
      PROVE  MapInv'
  <2>1. /\ num_buckets \in Nat /\ alloc \in Nat /\ num_buckets <= alloc
        /\ num_buckets <= SIZE_MAX /\ size \in Nat
        /\ buckets \in [0..(alloc - 1) -> Bucket]
    BY SizeAssumption DEF TypeOK, TableType, MapInv, InBounds
  <2>2. /\ WellKeyed(buckets', num_buckets) /\ Reachable(buckets', num_buckets, {})
        /\ Occupied(buckets') = Occupied(buckets) \cup {i}
    <3>1. WellKeyed(buckets, num_buckets) /\ Reachable(buckets, num_buckets, {})
      BY DEF MapInv, TableRight
    <3>2. buckets' = Put(buckets, i, b)
      BY <1>3 DEF Put
    <3> QED
      BY <2>1, <3>1, <3>2, AddKeeps
  <2>3. /\ IsFiniteSet(Occupied(buckets)) /\ size = Cardinality(Occupied(buckets))
        /\ Cardinality(Occupied(buckets')) <= num_buckets
    <3>1. /\ Occupied(buckets) \subseteq 0..(num_buckets - 1)
          /\ Occupied(buckets') \subseteq 0..(num_buckets - 1)
          /\ size = Cardinality(Occupied(buckets))
      BY <2>2 DEF MapInv, TableRight, WellKeyed
    <3> QED
      BY <2>1, <3>1, OccupiedCount
  <2>4. size' = Cardinality(Occupied(buckets'))
    <3>1. i \in Occupied(buckets) <=> ~IsEmpty(buckets[i])
      BY <2>1, AddAtRange DEF Occupied
    <3>2. CASE IsEmpty(buckets[i])
      <4>1. Cardinality(Occupied(buckets')) = size + 1
        BY <2>2, <2>3, <3>1, <3>2, FS_AddElement
      <4>2. size + 1 \in 0..SIZE_MAX
        BY <2>1, <2>3, <4>1, SizeAssumption
      <4>3. (size + 1) % (SIZE_MAX + 1) = size + 1
        <5>1. SIZE_MAX + 1 \in Nat \ {0} /\ size + 1 \in 0..((SIZE_MAX + 1) - 1)
          BY <4>2, SizeAssumption
        <5> QED
          BY <5>1, ModSmall
      <4> QED
        BY <1>3, <3>2, <4>1, <4>3
    <3>3. CASE ~IsEmpty(buckets[i])
      BY <1>3, <2>2, <2>3, <3>1, <3>3, FS_AddElement
    <3> QED
      BY <3>2, <3>3
  <2> QED
    BY <1>1, <2>1, <2>2, <2>4, SettledInv DEF TableRight, InBounds
<1> QED
  BY <1>2, <1>3 DEF Add

\* resize returns, to the user or to insert, and the table is right.
LEMMA ResizeReturnsInv ==
    ASSUME NEW p, p = EmptyBucket \/ p.hash = hash_proc[p.key],
           NEW res, ResizeReturns(p, res), InBounds', TableRight'
    PROVE  MapInv'
<1>1. CASE call' = Idle
  BY <1>1, SettledInv DEF Idle
<1>2. CASE call' = [op |-> "add", pending |-> p]
  BY <1>2 DEF MapInv, PendingRight
<1> QED
  BY <1>1, <1>2 DEF ResizeReturns

\* resize to no fewer buckets, up to the redistribution.
LEMMA ResizeInv ==
    ASSUME TypeOK, MapInv, Ready, NEW n \in Nat, n >= num_buckets,
           NEW p, p = EmptyBucket \/ p.hash = hash_proc[p.key], ResizeTo(n, p)
    PROVE  MapInv'
<1>1. /\ num_buckets \in Nat /\ alloc \in Nat /\ num_buckets <= alloc
      /\ DOMAIN buckets = 0..(alloc - 1)
  BY DEF TypeOK, TableType, Ready, InBounds
<1>2. /\ WellKeyed(buckets, num_buckets) /\ Reachable(buckets, num_buckets, {})
      /\ size = Cardinality(Occupied(buckets))
      /\ Occupied(buckets) \subseteq 0..(num_buckets - 1)
  BY DEF MapInv, TableRight, Ready, Settled, Idle, WellKeyed
<1>3. CASE UNCHANGED <<num_buckets, buckets, alloc>> /\ \E res : ResizeReturns(p, res)
  <2>1. TableRight' /\ InBounds'
    BY <1>1, <1>2, <1>3 DEF ResizeTo, TableRight, InBounds
  <2> QED
    BY <1>3, <2>1, ResizeReturnsInv
<1>4. CASE ResizeReallocated(n, p)
  <2>1. buckets' = Reallocated(n) /\ alloc' = n /\ size' = size
    BY <1>4 DEF ResizeReallocated, ResizeTo
  <2>2. /\ DOMAIN buckets' = 0..(n - 1)
        /\ \A i \in 0..(n - 1) :
              buckets'[i] = IF i < num_buckets THEN buckets[i] ELSE EmptyBucket
    BY <2>1 DEF Reallocated
  <2>3. Occupied(buckets') = Occupied(buckets)
    BY <1>1, <1>2, <2>2, EmptyType DEF Occupied
  <2>4. \A i \in Occupied(buckets) : buckets'[i] = buckets[i]
    BY <1>1, <1>2, <2>2
  <2>5. WellKeyed(buckets', num_buckets) /\ Reachable(buckets', num_buckets, {})
    BY <1>2, <2>3, <2>4, SameKeys
  <2>6. CASE size = 0 /\ num_buckets' = n /\ ResizeReturns(p, "0")
    <3>1. Occupied(buckets') = {}
      <4>1. IsFiniteSet(Occupied(buckets)) /\ Cardinality(Occupied(buckets)) = 0
        BY <1>1, <1>2, <2>6, OccupiedCount
      <4> QED
        BY <2>3, <4>1, FS_EmptySet
    <3>2. TableRight' /\ InBounds'
      BY <2>1, <2>6, <3>1, EmptyTable DEF TableRight, InBounds
    <3> QED
      BY <2>6, <3>2, ResizeReturnsInv
  <2>7. CASE num_buckets' = num_buckets /\ ResizeReturns(p, "ENOMEM")
    <3>1. TableRight' /\ InBounds'
      BY <1>2, <2>1, <2>3, <2>5, <2>7 DEF TableRight, InBounds
    <3> QED
      BY <2>7, <3>1, ResizeReturnsInv
  <2>8. CASE num_buckets' = n /\ call' = Rehash(p, n)
    <3>1. /\ call'.op = "rehash" /\ call'.cur = 0 /\ call'.pending = p
          /\ call'.tmp = [i \in 0..(n - 1) |-> EmptyBucket]
      BY <2>8 DEF Rehash
    <3>2. Occupied(call'.tmp) = {}
      BY <3>1, EmptyType DEF Occupied
    <3>3. Occupied(buckets') \cap 0..(call'.cur - 1) = {}
      BY <3>1
    <3>4. WellKeyed(buckets', n)
      BY <1>1, <1>2, <2>3, <2>5 DEF WellKeyed
    <3>5. RehashInv'
      BY <1>2, <2>1, <2>3, <2>8, <3>2, <3>3, <3>4, EmptyTable DEF RehashInv
    <3> QED
      BY <2>1, <2>8, <3>1, <3>5 DEF MapInv, InBounds, PendingRight, Settled
  <2> QED
    BY <1>4, <2>6, <2>7, <2>8 DEF ResizeReallocated
<1> QED
  BY <1>3, <1>4 DEF ResizeTo

\* The types while resize redistributes.
LEMMA RehashCall ==
    ASSUME TypeOK, call.op = "rehash"
    PROVE  /\ call \in [op : {"rehash"}, tmp : [0..(num_buckets - 1) -> Bucket],
                        cur : 0..num_buckets, pending : Bucket]
           /\ num_buckets \in Nat /\ alloc = num_buckets
           /\ buckets \in [0..(num_buckets - 1) -> Bucket]
BY DEF TypeOK, TableType, CallType, Idle, Freed

\* One bucket is redistributed: there is room for it, and its place is empty.
LEMMA RehashStepInv ==
    ASSUME TypeOK, MapInv, RehashStep
    PROVE  MapInv'
<1> DEFINE n == num_buckets
           cur == call.cur
           tmp == call.tmp
           b == buckets[cur]
           done == Occupied(buckets) \cap 0..(cur - 1)
<1>1. /\ call.op = "rehash" /\ cur \in 0..(n - 1) /\ n \in Nat
      /\ tmp \in [0..(n - 1) -> Bucket] /\ buckets \in [0..(n - 1) -> Bucket]
      /\ UNCHANGED table
      /\ call' = [call EXCEPT !.cur = cur + 1,
                              !.tmp = IF IsEmpty(b) THEN tmp ELSE Placed(tmp, n, b)]
  BY RehashCall DEF RehashStep
<1>2. /\ call'.op = "rehash" /\ call'.cur = cur + 1 /\ call'.pending = call.pending
      /\ call'.tmp = IF IsEmpty(b) THEN tmp ELSE Placed(tmp, n, b)
  BY <1>1, RehashCall
<1>3. /\ WellKeyed(buckets, n) /\ size = Cardinality(Occupied(buckets))
      /\ WellKeyed(tmp, n) /\ Reachable(tmp, n, {})
      /\ Cardinality(Occupied(tmp)) = Cardinality(done)
      /\ \A i \in Occupied(tmp) : \E j \in done : tmp[i] = buckets[j]
      /\ \A j \in done : \E i \in Occupied(tmp) : tmp[i] = buckets[j]
  BY <1>1 DEF MapInv, RehashInv
<1>4. /\ buckets' = buckets /\ num_buckets' = n /\ size' = size /\ InBounds'
      /\ PendingRight' /\ Settled' = FALSE /\ call'.op # "shift"
  BY <1>1, <1>2 DEF MapInv, PendingRight, InBounds, table, Settled
<1> HIDE DEF tmp, cur
<1> DEFINE tmp2 == call'.tmp
           done2 == Occupied(buckets) \cap 0..cur
<1> SUFFICES /\ WellKeyed(tmp2, n) /\ Reachable(tmp2, n, {})
             /\ Cardinality(Occupied(tmp2)) = Cardinality(done2)
             /\ \A i \in Occupied(tmp2) : \E j \in done2 : tmp2[i] = buckets[j]
             /\ \A j \in done2 : \E i \in Occupied(tmp2) : tmp2[i] = buckets[j]
  <2>1. 0..((cur + 1) - 1) = 0..cur
    BY <1>1
  <2>2. Occupied(buckets') \cap 0..(call'.cur - 1) = done2
    BY <1>2, <1>4, <2>1
  <2> HIDE DEF done2
  <2>3. RehashInv'
    BY <1>3, <1>4, <2>2 DEF RehashInv
  <2> QED
    BY <1>2, <1>4, <2>3 DEF MapInv
<1>5. CASE IsEmpty(b)
  <2>1. done2 = done
    BY <1>1, <1>5 DEF Occupied
  <2>2. tmp2 = tmp
    BY <1>2, <1>5
  <2> HIDE DEF done, done2, tmp2
  <2> QED
    BY <1>3, <2>1, <2>2
<1>6. CASE ~IsEmpty(b)
  <2>1. /\ b \in Filled /\ b.hash = hash_proc[b.key] /\ b.key \in Keys
        /\ cur \in Occupied(buckets)
    BY <1>1, <1>3, <1>6, BucketFacts DEF WellKeyed, HashesRight, Occupied
  <2>2. done2 = done \cup {cur} /\ cur \notin done
    BY <1>1, <2>1
  <2>3. IsFiniteSet(done) /\ Cardinality(done) <= cur
    <3>1. IsFiniteSet(0..(cur - 1)) /\ Cardinality(0..(cur - 1)) = cur
      <4>1. cur \in Nat
        BY <1>1
      <4> QED
        BY <4>1, CountBelow
    <3>2. done \subseteq 0..(cur - 1)
      OBVIOUS
    <3> HIDE DEF done
    <3> QED
      BY <3>1, <3>2, FS_Subset, FS_CardinalityType
  <2>4. /\ IsFiniteSet(Occupied(tmp)) /\ Cardinality(Occupied(tmp)) < n
        /\ Occupied(tmp) \subseteq 0..(n - 1)
    <3>1. Occupied(tmp) \subseteq 0..(n - 1)
      BY <1>3 DEF WellKeyed
    <3>2. Cardinality(done) \in Nat
      BY <2>3, FS_CardinalityType
    <3> QED
      BY <1>1, <1>3, <2>3, <3>1, <3>2, OccupiedCount
  <2>5. PICK e \in 0..(n - 1) : e \notin Occupied(tmp)
    <3> SUFFICES ASSUME 0..(n - 1) \subseteq Occupied(tmp) PROVE FALSE
      OBVIOUS
    <3>1. Occupied(tmp) = 0..(n - 1)
      BY <2>4
    <3>2. Cardinality(Occupied(tmp)) = n
      BY <1>1, <3>1, CountBelow
    <3> QED
      BY <1>1, <2>4, <3>2
  <2>6. PICK i : i \in AddAt(tmp, n, b)
    <3>1. IsEmpty(tmp[e])
      BY <1>1, <2>5 DEF Occupied
    <3> QED
      BY <1>1, <2>1, <3>1, AddFits
  <2>7. tmp2 = Put(tmp, i, b)
    <3>1. AddAt(tmp, n, b) = {i}
      BY <1>1, <2>1, <2>6, AddAtUnique
    <3> QED
      BY <1>1, <1>2, <1>6, <3>1 DEF Placed, Put
  <2>8. /\ WellKeyed(tmp2, n) /\ Reachable(tmp2, n, {})
        /\ Occupied(tmp2) = Occupied(tmp) \cup {i}
    BY <1>1, <1>3, <2>1, <2>6, <2>7, AddKeeps
  <2>9. i \in 0..(n - 1) /\ tmp2[i] = b /\ \A x \in 0..(n - 1) : x # i => tmp2[x] = tmp[x]
    BY <1>1, <2>6, <2>7, AddAtRange DEF Put
  <2>10. i \notin Occupied(tmp)
    <3> SUFFICES ASSUME i \in Occupied(tmp) PROVE FALSE
      OBVIOUS
    <3>1. <<b.key, tmp[i].key>> \in compare_proc
      BY <2>6 DEF AddAt, FirstIn, Stops, Matches, Occupied
    <3>2. PICK j \in done : tmp[i] = buckets[j]
      BY <1>3
    <3> QED
      BY <1>3, <2>1, <2>2, <3>1, <3>2 DEF WellKeyed, Distinct
  <2>11. Cardinality(Occupied(tmp2)) = Cardinality(done2)
    <3> HIDE DEF done, done2, tmp2
    <3>1. Cardinality(done2) = Cardinality(done) + 1
      BY <2>2, <2>3, FS_AddElement
    <3>2. Cardinality(Occupied(tmp2)) = Cardinality(Occupied(tmp)) + 1
      BY <2>4, <2>8, <2>10, FS_AddElement
    <3> QED
      BY <1>3, <3>1, <3>2
  <2>12. \A x \in Occupied(tmp2) : \E j \in done2 : tmp2[x] = buckets[j]
    BY <1>3, <2>2, <2>4, <2>8, <2>9
  <2>13. \A j \in done2 : \E x \in Occupied(tmp2) : tmp2[x] = buckets[j]
    BY <1>3, <2>2, <2>4, <2>8, <2>9, <2>10
  <2> QED
    BY <2>8, <2>11, <2>12, <2>13
<1> QED
  BY <1>5, <1>6

\* The temporary list, with every entry in it, becomes the table.
LEMMA RehashDoneInv ==
    ASSUME TypeOK, MapInv, RehashDone
    PROVE  MapInv'
<1>1. /\ num_buckets \in Nat /\ alloc = num_buckets /\ call.cur = num_buckets
      /\ buckets' = call.tmp /\ UNCHANGED <<size, num_buckets, alloc>>
      /\ ResizeReturns(call.pending, "0") /\ call.op = "rehash"
  BY RehashCall DEF RehashDone
<1>2. /\ RehashInv
      /\ call.pending = EmptyBucket \/ call.pending.hash = hash_proc[call.pending.key]
  BY <1>1 DEF MapInv, PendingRight
<1>3. Occupied(buckets) \cap 0..(call.cur - 1) = Occupied(buckets)
  BY <1>1, <1>2 DEF RehashInv, WellKeyed
<1>4. TableRight' /\ InBounds'
  <2>1. /\ WellKeyed(call.tmp, num_buckets) /\ Reachable(call.tmp, num_buckets, {})
        /\ size = Cardinality(Occupied(call.tmp))
    BY <1>2, <1>3 DEF RehashInv
  <2> QED
    BY <1>1, <2>1 DEF TableRight, InBounds
<1> QED
  BY <1>1, <1>2, <1>4, ResizeReturnsInv

-----------------------------------------------------------------------------
(* Removal: the gap that remove opens moves back along the cluster *)

\* The position LOOP_BUCKETS goes to next.
LEMMA NextPosition ==
    ASSUME NEW n \in Nat, NEW c \in 0..(n - 1)
    PROVE  (c + 1) % n = IF c = n - 1 THEN 0 ELSE c + 1
<1>1. CASE c = n - 1
  BY <1>1
<1>2. CASE c # n - 1
  <2>1. n \in Nat \ {0} /\ c + 1 \in 0..(n - 1)
    BY <1>2
  <2> QED
    BY <1>2, <2>1, ModSmall
<1> QED
  BY <1>1, <1>2

\* The types while remove closes the gap.
LEMMA ShiftCall ==
    ASSUME TypeOK, MapInv, call.op = "shift"
    PROVE  /\ num_buckets \in Nat /\ alloc \in Nat /\ num_buckets <= alloc
           /\ buckets \in [0..(alloc - 1) -> Bucket]
           /\ call \in [op : {"shift"}, gap : 0..(num_buckets - 1),
                        cur : 0..(num_buckets - 1), left : 0..num_buckets,
                        key : Keys, val : Values]
           /\ ShiftInv /\ InBounds
BY DEF TypeOK, TableType, CallType, Idle, Freed, MapInv, InBounds

\* A bucket is emptied: the others stay reachable but for the gap it leaves.
LEMMA TakeOut ==
    ASSUME NEW n \in Nat, NEW m \in Nat, n <= m, NEW bs \in [0..(m - 1) -> Bucket],
           WellKeyed(bs, n), Reachable(bs, n, {}), NEW i \in Occupied(bs)
    PROVE  /\ WellKeyed(Put(bs, i, EmptyBucket), n)
           /\ Reachable(Put(bs, i, EmptyBucket), n, {i})
           /\ Occupied(Put(bs, i, EmptyBucket)) = Occupied(bs) \ {i}
           /\ Cardinality(Occupied(bs)) = Cardinality(Occupied(bs) \ {i}) + 1
<1> DEFINE bs2 == Put(bs, i, EmptyBucket)
<1>1. DOMAIN bs2 = DOMAIN bs /\ i \in DOMAIN bs
  BY DEF Put, Occupied
<1>2. IsEmpty(bs2[i]) /\ \A j \in DOMAIN bs : j # i => bs2[j] = bs[j]
  BY <1>1, EmptyType DEF Put
<1> HIDE DEF bs2
<1>3. Occupied(bs2) = Occupied(bs) \ {i}
  BY <1>1, <1>2 DEF Occupied
<1>4. \A j \in Occupied(bs2) : bs2[j] = bs[j] /\ j \in Occupied(bs)
  BY <1>2, <1>3 DEF Occupied
<1>5. WellKeyed(bs2, n)
  BY <1>3, <1>4 DEF WellKeyed, HashesRight, Distinct
<1>6. Reachable(bs2, n, {i})
  BY <1>3, <1>4 DEF Reachable
<1>7. Cardinality(Occupied(bs)) = Cardinality(Occupied(bs) \ {i}) + 1
  <2>1. IsFiniteSet(Occupied(bs))
    BY OccupiedCount DEF WellKeyed
  <2>2. Cardinality(Occupied(bs) \ {i}) = Cardinality(Occupied(bs)) - 1
    BY <2>1, FS_RemoveElement
  <2>3. Cardinality(Occupied(bs)) \in Nat
    BY <2>1, FS_CardinalityType
  <2> QED
    BY <2>2, <2>3
<1> QED
  BY <1>3, <1>5, <1>6, <1>7 DEF bs2

\* remove takes the bucket out, in a cluster that does not wrap.
LEMMA RemoveInv ==
    ASSUME TypeOK, MapInv, NEW k, Remove(k), \A i \in FindAt(k) : LinearCluster(i)
    PROVE  MapInv'
<1>1. /\ num_buckets \in Nat /\ alloc \in Nat /\ num_buckets <= alloc
      /\ buckets \in [0..(alloc - 1) -> Bucket]
      /\ WellKeyed(buckets, num_buckets) /\ Reachable(buckets, num_buckets, {})
      /\ size = Cardinality(Occupied(buckets)) /\ Settled
  BY DEF TypeOK, TableType, Remove, Ready, InBounds, MapInv, TableRight, Settled, Idle
<1>2. CASE UNCHANGED <<buckets, call>>
  BY <1>1, <1>2, SameTable DEF Remove, Ready, Idle, table
<1>3. ASSUME NEW i \in FindAt(k),
             buckets' = [buckets EXCEPT ![i] = EmptyBucket],
             call' = [op |-> "shift", gap |-> i, cur |-> (i + 1) % num_buckets,
                      left |-> num_buckets, key |-> k, val |-> buckets[i].value]
      PROVE  MapInv'
  <2> DEFINE n == num_buckets
  <2>1. i \in 0..(n - 1) /\ ~IsEmpty(buckets[i]) /\ i \in Occupied(buckets)
    BY <1>1, FindAtRange DEF Occupied
  <2>2. /\ num_buckets' = n /\ alloc' = alloc /\ size' = size /\ InBounds'
        /\ buckets' = Put(buckets, i, EmptyBucket)
    BY <1>1, <1>3 DEF Remove, InBounds, Put
  <2>3. /\ WellKeyed(buckets', n) /\ Reachable(buckets', n, {i})
        /\ Occupied(buckets') = Occupied(buckets) \ {i}
        /\ size = Cardinality(Occupied(buckets')) + 1
    BY <1>1, <2>1, <2>2, TakeOut
  <2>4. \A j \in 0..(n - 1) : IsEmpty(buckets[j]) => IsEmpty(buckets'[j])
    BY <1>1, <1>3, EmptyType
  <2>5. /\ call'.op = "shift" /\ call'.gap = i /\ call'.left = n
        /\ call'.cur = IF i = n - 1 THEN 0 ELSE i + 1
    BY <1>1, <1>3, <2>1, NextPosition
  <2>6. LinearCluster(i)
    BY <1>3
  <2>7. EmptyIn(0..(i - 1))' \/ (i # n - 1 /\ EmptyIn({n - 1})')
    <3>1. PICK e \in 0..(i - 1) \cup {n - 1} : IsEmpty(buckets[e])
      BY <2>6 DEF LinearCluster, EmptyIn
    <3>2. e \in 0..(n - 1) /\ e # i
      BY <1>1, <2>1, <3>1
    <3>3. IsEmpty(buckets'[e])
      BY <2>4, <3>1, <3>2
    <3> QED
      BY <2>2, <3>1, <3>2, <3>3 DEF EmptyIn
  <2>8. CASE i = n - 1
    <3>1. IsEmpty(buckets[0])
      BY <1>1, <2>1, <2>6, <2>8 DEF LinearCluster, EmptyIn
    <3>2. EmptyIn({0})' /\ i # 0 /\ n > 0
      BY <1>1, <2>1, <2>4, <3>1 DEF EmptyIn
    <3>3. ShiftInv'
      BY <1>1, <2>1, <2>2, <2>3, <2>5, <2>7, <2>8, <3>2 DEF ShiftInv, EmptyIn
    <3> QED
      BY <2>2, <2>5, <3>3 DEF MapInv, PendingRight, Settled
  <2>9. CASE i # n - 1
    <3>1. \/ EmptyIn((i + 1)..(n - 1))'
          \/ i # 0 /\ EmptyIn({0})'
      <4>1. PICK e \in (i + 1)..(n - 1) \cup {0} : IsEmpty(buckets[e])
        BY <2>6 DEF LinearCluster, EmptyIn
      <4>2. e \in 0..(n - 1) /\ e # i
        BY <1>1, <2>1, <4>1
      <4>3. IsEmpty(buckets'[e])
        BY <2>4, <4>1, <4>2
      <4> QED
        BY <2>2, <4>1, <4>2, <4>3 DEF EmptyIn
    <3>2. ShiftInv'
      BY <1>1, <2>1, <2>2, <2>3, <2>5, <2>7, <2>9, <3>1 DEF ShiftInv, EmptyIn
    <3> QED
      BY <2>2, <2>5, <3>2 DEF MapInv, PendingRight, Settled
  <2> QED
    BY <2>8, <2>9
<1> QED
  BY <1>2, <1>3 DEF Remove

\* A bucket the gap reaches lies beyond it: the cluster never wraps.
LEMMA ShiftForward ==
    ASSUME TypeOK, MapInv, call.op = "shift", ~IsEmpty(buckets[call.cur])
    PROVE  call.cur > call.gap /\ call.left + call.cur > num_buckets
BY ShiftCall DEF ShiftInv, EmptyIn

\* A bucket beyond the gap whose home is beyond it too stays where it is.
LEMMA ShiftSkipInv ==
    ASSUME TypeOK, MapInv, ShiftSkip
    PROVE  MapInv'
<1> DEFINE n == num_buckets
           g == call.gap
           c == call.cur
<1>1. /\ call.op = "shift" /\ n \in Nat /\ g \in 0..(n - 1) /\ c \in 0..(n - 1)
      /\ call.left \in 0..n /\ c > g /\ call.left + c > n
      /\ ~IsEmpty(buckets[c]) /\ buckets[c].hash % n > g
      /\ ShiftInv /\ InBounds
  <2>1. buckets[c].hash % n \in Nat
    BY ShiftCall, FilledValue, ModRange DEF ShiftSkip, ShiftSteps
  <2> QED
    BY <2>1, ShiftCall, ShiftForward DEF ShiftSkip, ShiftSteps, MovesBack
<1>2. /\ UNCHANGED table /\ call'.op = "shift" /\ call'.gap = g /\ call'.left = call.left - 1
      /\ call'.cur = IF c = n - 1 THEN 0 ELSE c + 1
  BY <1>1, ShiftCall, NextPosition DEF ShiftSkip
<1>3. \A p \in (g + 1)..c : ~IsEmpty(buckets[p]) /\ buckets[p].hash % n > g
  BY <1>1 DEF ShiftInv
<1>4. EmptyIn(0..(g - 1)) \/ (g # n - 1 /\ EmptyIn({n - 1}))
  BY <1>1 DEF ShiftInv
<1>5. EmptyIn(c..(n - 1)) \/ (g # 0 /\ EmptyIn({0}))
  BY <1>1 DEF ShiftInv
<1>6. UNCHANGED buckets /\ n' = n /\ InBounds'
  BY <1>1, <1>2 DEF table, InBounds
<1>7. CASE c = n - 1
  <2>1. g # 0 /\ EmptyIn({0})
    BY <1>1, <1>5, <1>7 DEF EmptyIn
  <2>2. ShiftInv'
    BY <1>1, <1>2, <1>3, <1>4, <1>6, <1>7, <2>1 DEF ShiftInv, EmptyIn, table
  <2> QED
    BY <1>2, <1>6, <2>2 DEF MapInv, PendingRight, Settled
<1>8. CASE c # n - 1
  <2>1. EmptyIn((c + 1)..(n - 1)) \/ (g # 0 /\ EmptyIn({0}))
    BY <1>1, <1>5, <1>8 DEF EmptyIn
  <2>2. ShiftInv'
    BY <1>1, <1>2, <1>3, <1>4, <1>6, <1>8, <2>1 DEF ShiftInv, EmptyIn, table
  <2> QED
    BY <1>2, <1>6, <2>2 DEF MapInv, PendingRight, Settled
<1> QED
  BY <1>7, <1>8

\* The loop ends at an empty bucket, and no probe passes the gap any more.
LEMMA ShiftEndInv ==
    ASSUME TypeOK, MapInv, ShiftEnd
    PROVE  MapInv'
<1> DEFINE n == num_buckets
           g == call.gap
           c == call.cur
<1>1. /\ call.op = "shift" /\ n \in Nat /\ g \in 0..(n - 1) /\ c \in 0..(n - 1)
      /\ n <= SIZE_MAX /\ ShiftInv /\ InBounds
      /\ DOMAIN buckets = 0..(alloc - 1) /\ n <= alloc /\ alloc \in Nat
  BY ShiftCall DEF ShiftEnd, TypeOK, TableType
\* The loop has not run out of steps: it has met an empty bucket.
<1>2. IsEmpty(buckets[c])
  BY <1>1, ShiftCall DEF ShiftInv, ShiftEnd
<1>3. c # g => c \notin Occupied(buckets) \cup {g}
  BY <1>2 DEF Occupied
<1>4. Reachable(buckets, n, {})
  <2> SUFFICES ASSUME NEW x \in Occupied(buckets)
               PROVE  g \notin Path(buckets[x].hash % n, x, n)
    BY <1>1 DEF ShiftInv, Reachable
  <2> DEFINE h == buckets[x].hash % n
  <2>1. x \in 0..(n - 1) /\ h \in 0..(n - 1) /\ x # g /\ ~IsEmpty(buckets[x])
    <3>1. x \in 0..(n - 1) /\ ~IsEmpty(buckets[x]) /\ x # g
      BY <1>1 DEF ShiftInv, WellKeyed, Occupied
    <3>2. buckets[x].hash \in Nat /\ n \in Nat \ {0}
      BY <1>1, <3>1, FilledValue
    <3> QED
      BY <3>1, <3>2, ModRange
  <2>2. \A e \in 0..(n - 1) : IsEmpty(buckets[e]) /\ e # g => e \notin Path(h, x, n)
    BY <1>1 DEF ShiftInv, Reachable, Occupied
  <2>3. \A p \in (g + 1)..((IF c > g THEN c ELSE n) - 1) : buckets[p].hash % n > g
    BY <1>1 DEF ShiftInv
  <2> HIDE DEF h
  <2>4. ASSUME g \in Path(h, x, n), h <= x
        PROVE  FALSE
    <3>1. h <= g /\ g < x
      BY <1>1, <2>1, <2>4 DEF Path
    <3>2. CASE c > g
      <4>1. ~(c < x)
        BY <1>1, <1>2, <2>1, <2>2, <2>4, <3>1, <3>2 DEF Path
      <4>2. x # c
        BY <1>2, <2>1
      <4>3. h > g
        BY <1>1, <2>1, <2>3, <3>1, <3>2, <4>1, <4>2 DEF h
      <4> QED
        BY <1>1, <2>1, <3>1, <4>3
    <3>3. CASE ~(c > g)
      <4>1. h > g
        BY <1>1, <2>1, <2>3, <3>1, <3>3 DEF h
      <4> QED
        BY <1>1, <2>1, <3>1, <4>1
    <3> QED
      BY <3>2, <3>3
  <2>5. ASSUME g \in Path(h, x, n), h > x, h <= g
        PROVE  FALSE
    <3>1. CASE c > g /\ EmptyIn(c..(n - 1))
      <4>1. PICK e \in c..(n - 1) : IsEmpty(buckets[e])
        BY <3>1 DEF EmptyIn
      <4> QED
        BY <1>1, <2>1, <2>2, <2>5, <3>1, <4>1 DEF Path
    <3>2. CASE g # 0 /\ EmptyIn({0})
      <4>1. IsEmpty(buckets[0])
        BY <3>2 DEF EmptyIn
      <4>2. x # 0
        BY <2>1, <4>1
      <4> QED
        BY <1>1, <2>1, <2>2, <2>5, <3>2, <4>1, <4>2 DEF Path
    <3> QED
      BY <1>1, <3>1, <3>2 DEF ShiftInv
  <2>6. ASSUME g \in Path(h, x, n), h > x, g < h
        PROVE  FALSE
    <3>1. g < x
      BY <1>1, <2>1, <2>6 DEF Path
    <3>2. CASE EmptyIn(0..(g - 1))
      <4>1. PICK e \in 0..(g - 1) : IsEmpty(buckets[e])
        BY <3>2 DEF EmptyIn
      <4> QED
        BY <1>1, <2>1, <2>2, <2>6, <3>1, <4>1 DEF Path
    <3>3. CASE g # n - 1 /\ EmptyIn({n - 1})
      <4>1. IsEmpty(buckets[n - 1])
        BY <3>3 DEF EmptyIn
      <4> QED
        BY <1>1, <2>1, <2>2, <2>6, <3>3, <4>1 DEF Path
    <3> QED
      BY <1>1, <3>2, <3>3 DEF ShiftInv
  <2> QED
    BY <1>1, <2>1, <2>4, <2>5, <2>6 DEF h
<1>5. size' = size - 1 /\ size = Cardinality(Occupied(buckets)) + 1
  <2>1. size = Cardinality(Occupied(buckets)) + 1 /\ Cardinality(Occupied(buckets)) \in Nat
    BY <1>1, OccupiedCount DEF ShiftInv, WellKeyed
  <2> DEFINE m == SIZE_MAX + 1
             a == size - 1
  <2>2. m \in Nat \ {0} /\ a \in 0..(m - 1) /\ a + m = size + SIZE_MAX
    BY <2>1, SizeAssumption DEF TypeOK, TableType
  <2> HIDE DEF m, a
  <2>3. (a + m) % m = a
    BY <2>2, ModSmall
  <2> QED
    BY <2>1, <2>2, <2>3 DEF ShiftEnd, m, a
<1>6. /\ call' = Idle /\ UNCHANGED <<num_buckets, buckets, alloc>>
  BY DEF ShiftEnd
<1>7. TableRight' /\ InBounds' /\ call'.op = "idle"
  <2>1. Cardinality(Occupied(buckets)) \in Nat
    BY <1>1, OccupiedCount DEF ShiftInv, WellKeyed
  <2> QED
    BY <1>1, <1>4, <1>5, <1>6, <2>1 DEF TableRight, InBounds, ShiftInv, Idle
<1> QED
  BY <1>7, SettledInv

\* A bucket moves back into the gap, no further than its home, and leaves one.
LEMMA ShiftMoveInv ==
    ASSUME TypeOK, MapInv, ShiftMove
    PROVE  MapInv'
<1> DEFINE n == num_buckets
           g == call.gap
           c == call.cur
<1>1. /\ call.op = "shift" /\ n \in Nat /\ g \in 0..(n - 1) /\ c \in 0..(n - 1)
      /\ call.left \in 0..n /\ c > g /\ call.left + c > n
      /\ ~IsEmpty(buckets[c]) /\ buckets[c].hash % n \in 0..g
      /\ ShiftInv /\ InBounds /\ alloc \in Nat /\ n <= alloc
      /\ DOMAIN buckets = 0..(alloc - 1)
  <2>1. buckets[c].hash % n \in Nat
    <3>1. c \in 0..(n - 1) /\ n \in Nat \ {0} /\ ~IsEmpty(buckets[c]) /\ InBounds
      BY ShiftCall DEF ShiftMove, ShiftSteps
    <3>2. buckets[c].hash \in Nat
      BY <3>1, FilledValue
    <3> QED
      BY <3>1, <3>2, ModRange
  <2> QED
    BY <2>1, ShiftCall, ShiftForward DEF ShiftMove, ShiftSteps, MovesBack
<1>2. /\ call'.op = "shift" /\ call'.gap = c /\ call'.left = call.left - 1
      /\ call'.cur = IF c = n - 1 THEN 0 ELSE c + 1
      /\ n' = n /\ alloc' = alloc /\ size' = size /\ InBounds'
  BY <1>1, ShiftCall, NextPosition DEF ShiftMove, InBounds
<1>3. /\ DOMAIN buckets' = 0..(alloc - 1)
      /\ buckets'[g] = buckets[c] /\ IsEmpty(buckets'[c])
      /\ \A j \in 0..(alloc - 1) : j # g /\ j # c => buckets'[j] = buckets[j]
  BY <1>1, EmptyType DEF ShiftMove
<1>4. /\ WellKeyed(buckets, n) /\ Reachable(buckets, n, {g}) /\ g \notin Occupied(buckets)
      /\ size = Cardinality(Occupied(buckets)) + 1
  BY <1>1 DEF ShiftInv
<1>5. c \in Occupied(buckets)
  BY <1>1 DEF Occupied
<1>6. Occupied(buckets') = (Occupied(buckets) \ {c}) \cup {g}
  BY <1>1, <1>3, <1>4 DEF Occupied
<1>7. \A x \in Occupied(buckets) : x # c => x # g /\ x \in 0..(alloc - 1) /\ buckets'[x] = buckets[x]
  BY <1>1, <1>3, <1>4 DEF Occupied
<1>8. WellKeyed(buckets', n)
  <2>1. Occupied(buckets') \subseteq 0..(n - 1)
    BY <1>1, <1>4, <1>6 DEF WellKeyed
  <2>2. HashesRight(buckets')
    BY <1>3, <1>4, <1>5, <1>6, <1>7 DEF WellKeyed, HashesRight
  <2>3. Distinct(buckets')
    BY <1>3, <1>4, <1>5, <1>6, <1>7 DEF WellKeyed, Distinct
  <2> QED
    BY <2>1, <2>2, <2>3 DEF WellKeyed
<1>9. Reachable(buckets', n, {c})
  <2> SUFFICES ASSUME NEW x \in Occupied(buckets')
               PROVE  Path(buckets'[x].hash % n, x, n) \subseteq Occupied(buckets') \cup {c}
    BY DEF Reachable
  <2>1. CASE x = g
    <3> DEFINE h == buckets[c].hash % n
    <3>1. Path(h, c, n) \subseteq Occupied(buckets) \cup {g}
      BY <1>4, <1>5 DEF Reachable
    <3>2. Path(h, g, n) \subseteq Path(h, c, n) /\ g \notin Path(h, g, n)
      BY <1>1 DEF Path
    <3> QED
      BY <1>3, <1>6, <2>1, <3>1, <3>2
  <2>2. CASE x # g
    BY <1>4, <1>6, <1>7, <2>2 DEF Reachable
  <2> QED
    BY <2>1, <2>2
<1>10. Cardinality(Occupied(buckets')) = Cardinality(Occupied(buckets))
  <2>1. IsFiniteSet(Occupied(buckets)) /\ Cardinality(Occupied(buckets)) \in Nat
    BY <1>1, <1>4, OccupiedCount DEF WellKeyed
  <2> DEFINE rest == Occupied(buckets) \ {c}
  <2>2. IsFiniteSet(rest) /\ Cardinality(rest) = Cardinality(Occupied(buckets)) - 1 /\ g \notin rest
    BY <1>4, <1>5, <2>1, FS_RemoveElement
  <2> HIDE DEF rest
  <2>3. Cardinality(rest \cup {g}) = Cardinality(rest) + 1
    BY <2>2, FS_AddElement
  <2> QED
    BY <1>6, <2>1, <2>2, <2>3 DEF rest
<1>11. c \notin Occupied(buckets') /\ size' = Cardinality(Occupied(buckets')) + 1
  BY <1>1, <1>2, <1>4, <1>6, <1>10
<1>12. \A j \in 0..(n - 1) : IsEmpty(buckets[j]) /\ j # g => IsEmpty(buckets'[j])
  BY <1>1, <1>3
<1>13. \/ \E e \in 0..(c - 1) : IsEmpty(buckets'[e])
       \/ c # n - 1 /\ IsEmpty(buckets'[n - 1])
  <2>1. CASE EmptyIn(0..(g - 1))
    <3>1. PICK e \in 0..(g - 1) : IsEmpty(buckets[e])
      BY <2>1 DEF EmptyIn
    <3>2. e \in 0..(c - 1) /\ IsEmpty(buckets'[e])
      BY <1>1, <1>12, <3>1
    <3> QED
      BY <3>2
  <2>2. CASE g # n - 1 /\ EmptyIn({n - 1})
    BY <1>1, <1>12, <2>2 DEF EmptyIn
  <2> QED
    BY <1>1, <2>1, <2>2 DEF ShiftInv
<1>14. \/ c # n - 1 /\ \E e \in (c + 1)..(n - 1) : IsEmpty(buckets'[e])
       \/ c # 0 /\ IsEmpty(buckets'[0])
  <2>1. CASE EmptyIn(c..(n - 1))
    <3>1. PICK e \in c..(n - 1) : IsEmpty(buckets[e])
      BY <2>1 DEF EmptyIn
    <3>2. e \in (c + 1)..(n - 1) /\ IsEmpty(buckets'[e]) /\ c # n - 1
      BY <1>1, <1>12, <3>1
    <3> QED
      BY <3>2
  <2>2. CASE g # 0 /\ EmptyIn({0})
    BY <1>1, <1>12, <2>2 DEF EmptyIn
  <2> QED
    BY <1>1, <2>1, <2>2 DEF ShiftInv
<1>15. ShiftInv'
  <2>1. CASE c = n - 1
    BY <1>1, <1>2, <1>8, <1>9, <1>11, <1>13, <1>14, <2>1 DEF ShiftInv, EmptyIn
  <2>2. CASE c # n - 1
    BY <1>1, <1>2, <1>8, <1>9, <1>11, <1>13, <1>14, <2>2 DEF ShiftInv, EmptyIn
  <2> QED
    BY <2>1, <2>2
<1> QED
  BY <1>2, <1>15 DEF MapInv, PendingRight, Settled
-----------------------------------------------------------------------------
(* Inserting *)

\* insert, up to the redistribution when it grows the table.
LEMMA InsertInv ==
    ASSUME TypeOK, MapInv, MinReqFits, NEW k \in Keys, NEW v \in Values, Insert(k, v)
    PROVE  MapInv'
<1> DEFINE b == [hash |-> hash_proc[k], key |-> k, value |-> v]
           n == Greater(MinReq, MIN_BUCKET_AUTO_ALLOCATION)
<1>1. Ready /\ Settled /\ call.op = "idle"
  BY DEF Insert, Ready, Settled, Idle
<1>2. b.hash = hash_proc[b.key] /\ (b.hash # INVALID_HASH => b \in Filled)
  BY UserAssumption, SizeAssumption DEF Filled, INVALID_HASH
<1>3. CASE InsertRefused(k)
  BY <1>1, <1>3, SameTable DEF InsertRefused
<1>4. CASE b.hash # INVALID_HASH /\ Add(b)
  <2> HIDE DEF b
  <2> QED
    BY <1>1, <1>2, <1>4, AddInv
<1>5. CASE ~ThresholdOverflows /\ NeedsResize /\ ResizeTo(n, b)
  <2>1. n \in Nat /\ n >= num_buckets
    BY <1>5, MinReqNat, GrowOnly
  <2> HIDE DEF b, n
  <2> QED
    BY <1>1, <1>2, <1>5, <2>1, ResizeInv
<1> QED
  BY <1>3, <1>4, <1>5 DEF Insert
-----------------------------------------------------------------------------
(* The invariant *)

\* A new map has an empty table.
LEMMA MapInit == Init => MapInv
<1> SUFFICES ASSUME Init PROVE MapInv
  OBVIOUS
<1>1. Occupied(buckets) = {}
  BY DEF Init, Occupied, NoBuckets
<1>2. TableRight /\ InBounds
  BY <1>1, EmptyTable DEF Init, TableRight, InBounds
<1> QED
  BY <1>2 DEF Init, MapInv, PendingRight, Idle

\* The calls under the contract are calls of the map.
LEMMA ContractIsNext == [ContractNext]_vars => [Next]_vars
BY DEF ContractNext, Next

\* The calls that do not move an entry.
LEMMA SimpleCallInv ==
    ASSUME TypeOK, MapInv, SimpleCall
    PROVE  MapInv'
<1>1. CASE Alloc
  BY <1>1, ReleaseInv DEF Alloc
<1>2. CASE Free
  <2>1. TypeOK /\ Settled /\ call'.op = "freed" /\ Occupied(NoBuckets) = {}
    BY <1>2 DEF Free, Freed, Idle, Settled, Occupied, NoBuckets
  <2> QED
    BY <1>2, <2>1 DEF Free, ReleaseBuckets, MapInv, Settled, PendingRight, InBounds
<1>3. CASE Clear
  BY <1>3, ClearInv
<1>4. CASE EnumBegin
  BY <1>4, SameTable DEF EnumBegin, Ready, Idle, Settled
<1>5. CASE \E f \in LoadFactors : Configure(f)
  BY <1>5, SameTable DEF Configure, Idle, Settled
<1>6. CASE \E p \in Policies : SetResizePolicy(p)
  BY <1>6, SameTable DEF SetResizePolicy, Idle, Settled
<1>7. CASE \E k \in Keys : Find(k)
  BY <1>7, SameTable DEF Find, Ready, Idle, Settled
<1>8. ASSUME NEW k \in Keys, NEW v \in Values, Update(k, v)
      PROVE  MapInv'
  BY <1>8, UpdateValueInv DEF Update, Ready, Idle, Settled
<1>9. CASE \E h \in {hash_proc[k] : k \in Keys} : FindByHash(h)
  BY <1>9, SameTable DEF FindByHash, Ready, Idle, Settled
<1> QED
  BY <1>1, <1>2, <1>3, <1>4, <1>5, <1>6, <1>7, <1>8, <1>9 DEF SimpleCall

\* The steps of the calls that loop.
LEMMA ContinueInv ==
    ASSUME TypeOK, MapInv, Continue
    PROVE  MapInv'
<1>1. CASE AddPending
  <2>1. call.pending \in Filled /\ Settled
    BY <1>1 DEF AddPending, TypeOK, CallType, Idle, Freed, Settled
  <2>2. call.pending.hash = hash_proc[call.pending.key]
    BY <1>1, <2>1, EmptyType DEF AddPending, MapInv, PendingRight
  <2> QED
    BY <1>1, <2>1, <2>2, AddInv DEF AddPending
<1>2. CASE EnumSkip
  <2>1. call'.op = "enum"
    BY <1>2 DEF EnumSkip, TypeOK, CallType, Idle, Freed
  <2> QED
    BY <1>2, <2>1, SameTable DEF EnumSkip, Settled
<1>3. CASE EnumCallback
  <2>1. call'.op = "enum" /\ Settled
    BY <1>3 DEF EnumCallback, TypeOK, CallType, Idle, Freed, Settled
  <2> QED
    BY <1>3, <2>1, SameTable, UpdateValueInv DEF EnumCallback
<1>4. CASE EnumEnd
  BY <1>4, SameTable DEF EnumEnd, Settled, Idle
<1> QED
  BY <1>1, <1>2, <1>3, <1>4, RehashStepInv, RehashDoneInv, ShiftMoveInv, ShiftSkipInv,
     ShiftEndInv DEF Continue

\* Every call the contract allows, and every step of one, keeps the invariant.
LEMMA MapNext == TypeOK /\ MapInv /\ [ContractNext]_vars => MapInv'
<1> SUFFICES ASSUME TypeOK, MapInv, [ContractNext]_vars PROVE MapInv'
  OBVIOUS
<1>1. CASE SimpleCall
  BY <1>1, SimpleCallInv
<1>2. CASE Continue
  BY <1>2, ContinueInv
<1>3. CASE size = 0 /\ Reset
  BY <1>3, ReleaseInv DEF Reset, ReleaseBuckets
<1>4. ASSUME NEW n \in ResizeTargets, n >= num_buckets, Resize(n)
      PROVE  MapInv'
  <2>1. n \in Nat
    BY UserAssumption, SizeAssumption
  <2> QED
    BY <1>4, <2>1, ResizeInv DEF Resize
<1>5. ASSUME MinReqFits, NEW k \in Keys, NEW v \in Values, Insert(k, v)
      PROVE  MapInv'
  BY <1>5, InsertInv
<1>6. ASSUME NEW k \in Keys, \A i \in FindAt(k) : LinearCluster(i), Remove(k)
      PROVE  MapInv'
  BY <1>6, RemoveInv
<1>7. CASE UNCHANGED vars
  BY <1>7 DEF vars, MapInv, InBounds, PendingRight, Settled, TableRight, RehashInv, ShiftInv,
     EmptyIn
<1> QED
  BY <1>1, <1>2, <1>3, <1>4, <1>5, <1>6, <1>7 DEF ContractNext

\* The types hold under the contract too: its calls are calls of the map.
THEOREM ContractTypeCorrect == ContractSpec => []TypeOK
<1>1. Init => TypeOK
  BY TypeInit
<1>2. TypeOK /\ [ContractNext]_vars => TypeOK'
  BY TypeNext, ContractIsNext
<1> QED
  BY <1>1, <1>2, PTL DEF ContractSpec

\* Under the contract the table is well keyed and reachable between calls, and
\* resize and remove keep it so while they loop (hashmap.c:194-297, 447-507).
THEOREM MapCorrect == ContractSpec => []MapInv
<1>1. Init => MapInv
  BY MapInit
<1>2. TypeOK /\ MapInv /\ [ContractNext]_vars => MapInv'
  BY MapNext
<1> QED
  BY <1>1, <1>2, ContractTypeCorrect, PTL DEF ContractSpec

\* In a right table the probe for a stored key stops where it is stored.
LEMMA MapFindsAll == TypeOK /\ MapInv => FindComplete
<1> SUFFICES ASSUME TypeOK, MapInv, Settled, NEW i \in Occupied(buckets)
             PROVE  FindAt(buckets[i].key) = {i}
  BY DEF FindComplete
<1> DEFINE n == num_buckets
           k == buckets[i].key
           h == hash_proc[k]
           S == Stops(buckets, n, h, k)
<1>1. /\ n \in Nat /\ InBounds
      /\ WellKeyed(buckets, n) /\ Reachable(buckets, n, {})
  BY DEF TypeOK, TableType, MapInv, TableRight
<1>2. i \in 0..(n - 1) /\ ~IsEmpty(buckets[i]) /\ n \in Nat \ {0}
  BY <1>1 DEF WellKeyed, Occupied
<1>3. k \in Keys /\ h \in Nat /\ buckets[i].hash = h /\ h % n \in 0..(n - 1)
  <2>1. k \in Keys /\ h \in Nat /\ buckets[i].hash = h
    BY <1>1, <1>2, FilledValue DEF WellKeyed, HashesRight
  <2> QED
    BY <1>2, <2>1, ModRange
<1>4. i \in S
  BY <1>2, <1>3, CompareAssumption DEF Stops, Matches
\* No bucket on the way is empty, and none but i has an equal key.
<1>5. \A j \in Path(h % n, i, n) : j \notin S
  <2> SUFFICES ASSUME NEW j \in Path(h % n, i, n), j \in S PROVE FALSE
    OBVIOUS
  <2>1. j \in Occupied(buckets) /\ j # i
    BY <1>1, <1>2, <1>3, PathRange DEF Reachable
  <2>2. <<k, buckets[j].key>> \in compare_proc
    BY <2>1 DEF Stops, Matches, Occupied
  <2> QED
    BY <1>1, <2>1, <2>2 DEF WellKeyed, Distinct
<1>6. S \in SUBSET (0..(n - 1))
  BY DEF Stops
<1> HIDE DEF S
<1>7. FirstIn(S, h, n) = {i}
  <2>1. i \in FirstIn(S, h, n)
    BY <1>4, <1>5 DEF FirstIn
  <2> QED
    BY <1>2, <1>3, <1>6, <2>1, FirstUnique
<1> QED
  BY <1>2, <1>7 DEF FindAt, S

\* Under the contract every stored key is found, whatever the sequence of calls.
THEOREM FindsEveryKey == ContractSpec => []FindComplete
BY MapCorrect, ContractTypeCorrect, MapFindsAll, PTL

\* Under the contract the size counts the stored entries.
THEOREM CountsEntries == ContractSpec => []SizeExact
<1>1. MapInv => SizeExact
  BY DEF MapInv, TableRight, SizeExact
<1> QED
  BY <1>1, MapCorrect, PTL
=============================================================================
