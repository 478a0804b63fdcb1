-------------------------- MODULE VscHashMap_proofs --------------------------
(***************************************************************************)
(* For every hash, comparison, load factor and sequence of calls, whatever *)
(* becomes of the entries: the types hold, the size counter never says too *)
(* little, and a redistribution has room.                                  *)
(***************************************************************************)
EXTENDS VscHashMap, FiniteSetTheorems, TLAPS

-----------------------------------------------------------------------------
(* Arithmetic *)

\* A remainder is below its divisor.
LEMMA ModRange ==
    ASSUME NEW a \in Nat, NEW n \in Nat \ {0}
    PROVE  a % n \in 0..(n - 1)
OBVIOUS

\* Arithmetic modulo 2^w yields a size_t.
LEMMA WrapRange ==
    ASSUME NEW a \in Nat
    PROVE  a % (SIZE_MAX + 1) \in 0..SIZE_MAX
<1>1. SIZE_MAX + 1 \in Nat \ {0}
  BY SizeAssumption
<1> QED
  BY <1>1, ModRange, SizeAssumption

\* The next position in a ring is in the ring.
LEMMA NextRange ==
    ASSUME NEW n \in Nat, NEW i \in 0..(n - 1)
    PROVE  (i + 1) % n \in 0..(n - 1)
<1>1. i + 1 \in Nat /\ n \in Nat \ {0}
  OBVIOUS
<1> QED
  BY <1>1, ModRange

\* A quotient is no greater than the dividend.
LEMMA DivRange ==
    ASSUME NEW a \in Nat, NEW n \in Nat \ {0}
    PROVE  a \div n \in 0..a
OBVIOUS

\* intceil returns a natural number.
LEMMA CeilDivNat ==
    ASSUME NEW a \in Nat, NEW n \in Nat \ {0}
    PROVE  CeilDiv(a, n) \in Nat
BY DivRange DEF CeilDiv

\* So does a product of two size_t.
LEMMA MulNat ==
    ASSUME NEW a \in Nat, NEW b \in Nat
    PROVE  Mul(a, b) \in Nat
<1>1. a * b \in Nat
  OBVIOUS
<1> QED
  BY <1>1, ModRange, SizeAssumption DEF Mul

\* And so does the capacity maybe_resize asks for.
LEMMA MinReqNat ==
    ASSUME TypeOK
    PROVE  Greater(MinReq, MIN_BUCKET_AUTO_ALLOCATION) \in Nat
<1>1. size + 1 \in Nat /\ load_min.den \in Nat /\ load_min.num \in Nat \ {0}
  BY DEF TypeOK, TableType, ConfigType, Fraction
<1>2. Mul(size + 1, load_min.den) \in Nat
  BY <1>1, MulNat
<1>3. MinReq \in Nat
  BY <1>1, <1>2, CeilDivNat DEF MinReq
<1> QED
  BY <1>3, SizeAssumption DEF Greater
-----------------------------------------------------------------------------
(* Type correctness *)

\* A new map has the right types.
LEMMA TypeInit == Init => TypeOK
BY SizeAssumption
   DEF Init, TypeOK, TableType, ConfigType, AnswerType, Half, ThreeQuarters, Fraction,
       Policies, NoBuckets, CallType, Idle, ApiFunctions, Codes

\* What reset_bucket writes is a bucket, and is empty.
LEMMA EmptyType == EmptyBucket \in Bucket /\ IsEmpty(EmptyBucket) /\ EmptyBucket \notin Filled
BY SizeAssumption DEF EmptyBucket, Bucket, IsEmpty, INVALID_HASH, Filled

\* A call that leaves the configuration alone.
LEMMA ConfigUnchanged == ConfigType /\ UNCHANGED config => ConfigType'
BY DEF ConfigType, config

\* A call that answers one of the known answers.
LEMMA AnswerChange ==
    ASSUME AnswerType,
           NEW fn \in ApiFunctions, NEW k \in Keys \cup {NULL},
           NEW res \in Codes \cup Policies \cup Values \cup {NULL},
           Return(fn, k, res) \/ UNCHANGED ret
    PROVE  AnswerType'
BY DEF AnswerType, Return

\* An idle map, or one that stays as it is.
LEMMA IdleType ==
    call' \in {Idle, Freed} => /\ call' \in CallType'
                              /\ (call \notin {Idle, Freed} => InBounds)'
                              /\ (call.op = "rehash" => alloc = num_buckets)'
BY DEF CallType, Idle, Freed

\* add_or_replace_bucket writes buckets into an array of buckets.
LEMMA PlacedType ==
    ASSUME NEW n \in Nat, NEW bs \in [0..(n - 1) -> Bucket], NEW b \in Bucket
    PROVE  Placed(bs, n, b) \in [0..(n - 1) -> Bucket]
BY DEF Placed

\* The answers resize gives, whoever called it.
LEMMA ResizeReturnsType ==
    ASSUME AnswerType, NEW p \in Bucket, NEW res \in Codes, ResizeReturns(p, res)
    PROVE  /\ call' = Idle \/ (call' \in [op : {"add"}, pending : Filled] /\ res = "0")
           /\ AnswerType'
<1>1. p # EmptyBucket => p \in Filled /\ p.key \in Keys
  BY DEF Bucket, Filled
<1> QED
  BY <1>1 DEF ResizeReturns, Return, AnswerType, ApiFunctions

\* What every call that resizes keeps: resize itself and the insert that grows.
LEMMA ResizeType ==
    ASSUME TypeOK, Ready, NEW n \in Nat, NEW p \in Bucket, ResizeTo(n, p)
    PROVE  TypeOK'
<1>1. UNCHANGED size /\ ConfigType'
  BY ConfigUnchanged DEF ResizeTo, TypeOK
<1>2. CASE UNCHANGED <<num_buckets, buckets, alloc>> /\ \E res \in Codes : ResizeReturns(p, res)
  BY <1>1, <1>2, ResizeReturnsType DEF CallType, Ready, TypeOK, TableType, InBounds
<1>3. CASE ResizeCheck(n) = "go" /\ ResizeReallocated(n, p)
  <2>1. n \in 0..SIZE_MAX
    BY <1>3, DivRange, SizeAssumption DEF ResizeCheck, TypeOK, TableType
  <2>2. buckets' \in [0..(n - 1) -> Bucket] /\ alloc' = n
    BY <1>3, EmptyType
       DEF ResizeReallocated, Reallocated, Ready, TypeOK, TableType, InBounds
  <2>3. CASE num_buckets' = n /\ ResizeReturns(p, "0")
    BY <1>1, <2>1, <2>2, <2>3, ResizeReturnsType
       DEF CallType, Codes, TypeOK, TableType, InBounds
  <2>4. CASE UNCHANGED num_buckets /\ ResizeReturns(p, "ENOMEM")
    <3>1. call' = Idle /\ AnswerType'
      BY <2>4, ResizeReturnsType DEF TypeOK, Codes
    <3> QED
      BY <1>1, <2>1, <2>2, <2>4, <3>1, IdleType DEF TypeOK, TableType
  <2>5. CASE num_buckets' = n /\ call' = Rehash(p, n) /\ UNCHANGED ret
    <3>1. call' \in [op : {"rehash"}, tmp : [0..(n - 1) -> Bucket], cur : 0..n, pending : Bucket]
      BY <2>1, <2>5, EmptyType DEF Rehash
    <3> QED
      BY <1>1, <2>1, <2>2, <2>5, <3>1 DEF CallType, TypeOK, TableType, AnswerType, InBounds
  <2> QED
    BY <1>3, <2>3, <2>4, <2>5 DEF ResizeReallocated
<1>4. ResizeCheck(n) # "go" => ResizeCheck(n) \in Codes
  BY DEF ResizeCheck, Codes
<1> QED
  BY <1>2, <1>3, <1>4 DEF ResizeTo, Codes

\* add_or_replace_bucket and find_bucket stay inside the table.
LEMMA AddAtRange ==
    ASSUME NEW n, NEW bs, NEW b
    PROVE  AddAt(bs, n, b) \subseteq 0..(n - 1)
BY DEF AddAt, FirstIn, Stops

\* find_bucket returns an occupied bucket of the table.
LEMMA FindAtRange ==
    ASSUME NEW k
    PROVE  FindAt(k) \subseteq {i \in 0..(num_buckets - 1) : ~IsEmpty(buckets[i])}
BY DEF FindAt, FirstIn, Stops

\* An occupied bucket holds what a user inserted.
LEMMA FilledValue ==
    ASSUME TypeOK, InBounds, NEW i \in 0..(num_buckets - 1), ~IsEmpty(buckets[i])
    PROVE  /\ buckets[i] \in Filled /\ i \in 0..(alloc - 1)
           /\ buckets[i].key \in Keys /\ buckets[i].value \in Values
           /\ buckets[i].hash \in 0..(SIZE_MAX - 1)
BY EmptyType DEF TypeOK, TableType, InBounds, Bucket, Filled

\* The end of insert, with or without a resize before it.
LEMMA AddType ==
    ASSUME TypeOK, InBounds, NEW b \in Filled, Add(b)
    PROVE  TypeOK'
<1>1. b \in Bucket /\ b.key \in Keys
  BY DEF Bucket, Filled
<1>2. buckets' \in [0..(alloc - 1) -> Bucket]
  BY <1>1, AddAtRange DEF Add, TypeOK, TableType, InBounds
<1>3. size' \in 0..SIZE_MAX
  <2>1. size + 1 \in Nat
    BY DEF TypeOK, TableType
  <2> QED
    BY <2>1, WrapRange DEF Add, TypeOK, TableType
<1>4. AnswerType'
  BY <1>1, AnswerChange DEF Add, TypeOK, ApiFunctions, Codes
<1> QED
  BY <1>2, <1>3, <1>4, IdleType, ConfigUnchanged DEF Add, TypeOK, TableType

\* update, called by the user or by a callback of enumerate.
LEMMA UpdateValueType ==
    ASSUME TypeOK, InBounds, NEW k \in Keys, NEW v \in Values, UpdateValue(k, v)
    PROVE  TableType' /\ ConfigType' /\ AnswerType' /\ UNCHANGED <<num_buckets, alloc>>
<1>1. ASSUME NEW i \in FindAt(k), buckets' = [buckets EXCEPT ![i].value = v]
      PROVE  buckets' \in [0..(alloc - 1) -> Bucket]
  <2>1. buckets[i] \in Filled /\ i \in 0..(alloc - 1)
    BY FindAtRange, FilledValue
  <2>2. [buckets[i] EXCEPT !.value = v] \in Bucket
    BY <2>1 DEF Bucket, Filled
  <2>3. buckets' = [buckets EXCEPT ![i] = [buckets[i] EXCEPT !.value = v]]
    BY <1>1
  <2> QED
    BY <2>1, <2>2, <2>3 DEF TypeOK, TableType
<1>2. buckets' \in [0..(alloc - 1) -> Bucket]
  BY <1>1 DEF UpdateValue, TypeOK, TableType
<1>3. AnswerType'
  BY AnswerChange DEF UpdateValue, TypeOK, ApiFunctions, Codes
<1> QED
  BY <1>2, <1>3, ConfigUnchanged DEF UpdateValue, TypeOK, TableType

\* Every call, and every step of one, keeps the types.
LEMMA TypeNext == TypeOK /\ [Next]_vars => TypeOK'
<1> SUFFICES ASSUME TypeOK, [Next]_vars PROVE TypeOK'
  OBVIOUS
<1> USE DEF TypeOK
<1>1. CASE Alloc
  BY <1>1, SizeAssumption, IdleType
     DEF Alloc, TableType, ConfigType, AnswerType, Half, ThreeQuarters, Fraction, Policies,
         NoBuckets, Return, ApiFunctions, Codes
<1>2. CASE Reset \/ Free
  <2>1. ReleaseBuckets /\ call' \in {Idle, Freed}
    BY <1>2 DEF Reset, Free
  <2>2. TableType' /\ ConfigType'
    BY <2>1, SizeAssumption, ConfigUnchanged DEF ReleaseBuckets, TableType, NoBuckets
  <2>3. AnswerType'
    BY <1>2, AnswerChange DEF Reset, Free, ApiFunctions, Codes
  <2> QED
    BY <2>1, <2>2, <2>3, IdleType
<1>3. CASE Clear
  <2>1. buckets' \in [0..(alloc - 1) -> Bucket]
    BY <1>3, EmptyType DEF Clear, TableType
  <2>2. AnswerType'
    BY <1>3, AnswerChange DEF Clear, ApiFunctions, Codes
  <2> QED
    BY <1>3, <2>1, <2>2, IdleType, ConfigUnchanged, SizeAssumption
       DEF Clear, Ready, TableType
<1>4. ASSUME NEW f \in LoadFactors, Configure(f)
      PROVE  TypeOK'
  <2>1. f[1] \in Nat /\ f[2] \in Nat /\ f[3] \in Nat /\ f[4] \in Nat
    BY UserAssumption
  <2>2. TableType' /\ call' = Idle
    BY <1>4 DEF Configure, TableType, table
  <2>3. AnswerType'
    BY <1>4, AnswerChange DEF Configure, ApiFunctions, Codes
  <2>4. CASE ValidFactors(f)
    <3>1. /\ load_min' = [num |-> f[1], den |-> f[2]]
          /\ load_max' = [num |-> f[3], den |-> f[4]]
          /\ UNCHANGED resize_policy
      BY <1>4, <2>4 DEF Configure
    <3>2. ConfigType'
      BY <2>1, <2>4, <3>1 DEF ValidFactors, ConfigType, Fraction
    <3> QED
      BY <2>2, <2>3, <3>2, IdleType
  <2>5. CASE ~ValidFactors(f)
    BY <1>4, <2>2, <2>3, <2>5, IdleType, ConfigUnchanged DEF Configure, config
  <2> QED
    BY <2>4, <2>5
<1>5. ASSUME NEW p \in Policies, SetResizePolicy(p)
      PROVE  TypeOK'
  <2>1. AnswerType'
    BY <1>5, AnswerChange DEF SetResizePolicy, ApiFunctions, ConfigType
  <2> QED
    BY <1>5, <2>1, IdleType DEF SetResizePolicy, TableType, ConfigType, table
<1>6. ASSUME NEW k \in Keys, Find(k)
      PROVE  TypeOK'
  <2>1. AnswerType'
    BY <1>6, AnswerChange, FindAtRange, FilledValue DEF Find, Ready, ApiFunctions
  <2> QED
    BY <1>6, <2>1, IdleType, ConfigUnchanged DEF Find, Ready, TableType, table
<1>7. ASSUME NEW h, FindByHash(h)
      PROVE  TypeOK'
  <2>1. AnswerType'
    BY <1>7, AnswerChange, FilledValue
       DEF FindByHash, FindByHashAt, FirstIn, Ready, ApiFunctions
  <2> QED
    BY <1>7, <2>1, IdleType, ConfigUnchanged DEF FindByHash, Ready, TableType, table
<1>8. ASSUME NEW k \in Keys, NEW v \in Values, Update(k, v)
      PROVE  TypeOK'
  BY <1>8, UpdateValueType, IdleType DEF Update, Ready
<1>9. ASSUME NEW n \in ResizeTargets, Resize(n)
      PROVE  TypeOK'
  BY <1>9, ResizeType, EmptyType, UserAssumption DEF Resize
<1>10. ASSUME NEW k \in Keys, NEW v \in Values, Insert(k, v)
       PROVE  TypeOK'
  <2> DEFINE b == [hash |-> hash_proc[k], key |-> k, value |-> v]
  <2>1. CASE InsertRefused(k)
    <3>1. AnswerType'
      BY <2>1, AnswerChange DEF InsertRefused, ApiFunctions, Codes
    <3> QED
      BY <2>1, <3>1, <1>10, IdleType, ConfigUnchanged
         DEF Insert, InsertRefused, Ready, TableType, table
  <2>2. ASSUME b.hash # INVALID_HASH PROVE b \in Filled /\ b \in Bucket
    BY <2>2, UserAssumption, SizeAssumption DEF Filled, Bucket, INVALID_HASH
  <2>3. CASE b.hash # INVALID_HASH /\ Add(b)
    BY <2>2, <2>3, <1>10, AddType DEF Insert, Ready
  <2>4. CASE /\ b.hash # INVALID_HASH
             /\ ResizeTo(Greater(MinReq, MIN_BUCKET_AUTO_ALLOCATION), b)
    BY <2>2, <2>4, <1>10, MinReqNat, ResizeType DEF Insert
  <2> QED
    BY <1>10, <2>1, <2>3, <2>4 DEF Insert
<1>11. ASSUME NEW k \in Keys, Remove(k)
       PROVE  TypeOK'
  <2>1. CASE UNCHANGED <<buckets, call>> /\ Return("remove", k, NULL)
    <3>1. AnswerType'
      BY <2>1, AnswerChange DEF ApiFunctions
    <3> QED
      BY <1>11, <2>1, <3>1, IdleType, ConfigUnchanged DEF Remove, Ready, TableType
  <2>2. ASSUME NEW i \in FindAt(k),
               buckets' = [buckets EXCEPT ![i] = EmptyBucket],
               call' = [op |-> "shift", gap |-> i, cur |-> (i + 1) % num_buckets,
                        left |-> num_buckets, key |-> k, val |-> buckets[i].value],
               UNCHANGED ret
        PROVE  TypeOK'
    <3>1. i \in 0..(num_buckets - 1) /\ buckets[i].value \in Values
      BY <1>11, FindAtRange, FilledValue DEF Remove, Ready
    <3>2. (i + 1) % num_buckets \in 0..(num_buckets - 1)
      BY <3>1, NextRange DEF TableType
    <3>3. call' \in [op : {"shift"}, gap : 0..(num_buckets - 1), cur : 0..(num_buckets - 1),
                     left : 0..num_buckets, key : Keys, val : Values]
      BY <2>2, <3>1, <3>2 DEF TableType
    <3>4. buckets' \in [0..(alloc - 1) -> Bucket]
      BY <2>2, EmptyType DEF TableType
    <3> QED
      BY <1>11, <2>2, <3>3, <3>4, ConfigUnchanged
         DEF Remove, Ready, InBounds, TableType, AnswerType, CallType
  <2> QED
    BY <1>11, <2>1, <2>2 DEF Remove
<1>12. CASE RehashStep
  <2>1. call \in [op : {"rehash"}, tmp : [0..(num_buckets - 1) -> Bucket],
                  cur : 0..num_buckets, pending : Bucket]
    BY <1>12 DEF RehashStep, CallType, Idle, Freed
  <2>2. InBounds /\ buckets[call.cur] \in Bucket /\ num_buckets \in Nat
    BY <1>12, <2>1 DEF RehashStep, TableType, Idle, Freed, InBounds
  <2>3. Placed(call.tmp, num_buckets, buckets[call.cur]) \in [0..(num_buckets - 1) -> Bucket]
    BY <2>1, <2>2, PlacedType
  <2>4. call' \in [op : {"rehash"}, tmp : [0..(num_buckets - 1) -> Bucket],
                   cur : 0..num_buckets, pending : Bucket]
    <3>1. call.cur + 1 \in 0..num_buckets
      BY <1>12, <2>1, <2>2 DEF RehashStep
    <3> HIDE DEF TypeOK
    <3> QED
      BY <1>12, <2>1, <2>3, <3>1 DEF RehashStep
  <2> QED
    BY <1>12, <2>1, <2>2, <2>4, ConfigUnchanged
       DEF RehashStep, CallType, table, InBounds, TableType, AnswerType
<1>13. CASE RehashDone
  <2>1. call \in [op : {"rehash"}, tmp : [0..(num_buckets - 1) -> Bucket],
                  cur : 0..num_buckets, pending : Bucket]
    BY <1>13 DEF RehashDone, CallType, Idle, Freed
  <2>2. TableType' /\ ConfigType' /\ num_buckets' = alloc'
    BY <1>13, <2>1, ConfigUnchanged DEF RehashDone, TableType
  <2> QED
    BY <1>13, <2>1, <2>2, ResizeReturnsType
       DEF RehashDone, CallType, Codes, TableType, InBounds
<1>14. CASE AddPending
  <2>1. call \in [op : {"add"}, pending : Filled]
    BY <1>14 DEF AddPending, CallType, Idle, Freed
  <2> QED
    BY <1>14, <2>1, AddType DEF AddPending, Idle, Freed
<1>15. CASE ShiftMove \/ ShiftSkip \/ ShiftEnd
  <2>1. call \in [op : {"shift"}, gap : 0..(num_buckets - 1), cur : 0..(num_buckets - 1),
                  left : 0..num_buckets, key : Keys, val : Values]
    BY <1>15 DEF ShiftMove, ShiftSkip, ShiftEnd, ShiftSteps, CallType, Idle, Freed
  <2>2. InBounds /\ num_buckets \in Nat /\ alloc \in Nat
    BY <2>1 DEF TableType, Idle, Freed
  <2>3. (call.cur + 1) % num_buckets \in 0..(num_buckets - 1)
    BY <2>1, <2>2, NextRange
  <2>4. CASE ShiftMove
    <3>1. buckets' \in [0..(alloc - 1) -> Bucket]
      BY <2>1, <2>2, <2>4, EmptyType DEF ShiftMove, TableType, InBounds
    <3>2. call' \in [op : {"shift"}, gap : 0..(num_buckets - 1), cur : 0..(num_buckets - 1),
                     left : 0..num_buckets, key : Keys, val : Values]
      <4>1. call.left - 1 \in 0..num_buckets
        BY <2>1, <2>2, <2>4 DEF ShiftMove, ShiftSteps
      <4> HIDE DEF TypeOK
      <4> QED
        BY <2>1, <2>3, <2>4, <4>1 DEF ShiftMove
    <3> QED
      BY <2>1, <2>2, <2>4, <3>1, <3>2, ConfigUnchanged
         DEF ShiftMove, CallType, InBounds, TableType, AnswerType
  <2>5. CASE ShiftSkip
    <3>1. call' \in [op : {"shift"}, gap : 0..(num_buckets - 1), cur : 0..(num_buckets - 1),
                     left : 0..num_buckets, key : Keys, val : Values]
      <4>1. call.left - 1 \in 0..num_buckets
        BY <2>1, <2>2, <2>5 DEF ShiftSkip, ShiftSteps
      <4> HIDE DEF TypeOK
      <4> QED
        BY <2>1, <2>3, <2>5, <4>1 DEF ShiftSkip
    <3> QED
      BY <2>1, <2>2, <2>5, <3>1, ConfigUnchanged
         DEF ShiftSkip, CallType, InBounds, TableType, AnswerType, table
  <2>6. CASE ShiftEnd
    <3>1. size' \in 0..SIZE_MAX
      <4>1. size + SIZE_MAX \in Nat
        BY SizeAssumption DEF TableType
      <4> QED
        BY <2>6, <4>1, WrapRange DEF ShiftEnd
    <3>2. AnswerType'
      BY <2>1, <2>6, AnswerChange DEF ShiftEnd, ApiFunctions
    <3> QED
      BY <2>6, <3>1, <3>2, IdleType, ConfigUnchanged DEF ShiftEnd, TableType, Idle
  <2> QED
    BY <1>15, <2>4, <2>5, <2>6
<1>16. CASE EnumBegin
  BY <1>16, ConfigUnchanged
     DEF EnumBegin, Ready, CallType, TableType, AnswerType, table, InBounds
<1>17. CASE EnumSkip \/ EnumCallback
  <2>1. call \in [op : {"enum"}, cur : 0..num_buckets, seen : SUBSET Keys]
    BY <1>17 DEF EnumSkip, EnumCallback, CallType, Idle, Freed
  <2>2. InBounds /\ num_buckets \in Nat
    BY <2>1 DEF TableType, Idle, Freed
  <2>3. call' \in [op : {"enum"}, cur : 0..num_buckets, seen : SUBSET Keys]
    <3>1. call.cur + 1 \in 0..num_buckets
      BY <1>17, <2>1, <2>2 DEF EnumSkip, EnumCallback
    <3>2. EnumCallback => buckets[call.cur].key \in Keys
      BY <2>1, <2>2, FilledValue DEF EnumCallback
    <3> HIDE DEF TypeOK
    <3> QED
      BY <1>17, <2>1, <3>1, <3>2 DEF EnumSkip, EnumCallback
  <2>4. /\ TableType' /\ ConfigType' /\ AnswerType'
        /\ UNCHANGED <<num_buckets, alloc>>
    BY <1>17, <2>2, UpdateValueType, ConfigUnchanged
       DEF EnumSkip, EnumCallback, TableType, AnswerType, table
  <2> QED
    BY <2>2, <2>3, <2>4 DEF CallType, InBounds
<1>18. CASE EnumEnd
  <2>1. AnswerType'
    BY <1>18, AnswerChange DEF EnumEnd, ApiFunctions, Codes
  <2> QED
    BY <1>18, <2>1, IdleType, ConfigUnchanged DEF EnumEnd, TableType, table, Idle
<1>19. CASE UNCHANGED vars
  BY <1>19, ConfigUnchanged
     DEF vars, config, TableType, AnswerType, CallType, InBounds
<1> QED
  BY <1>1, <1>2, <1>3, <1>4, <1>5, <1>6, <1>7, <1>8, <1>9, <1>10, <1>11, <1>12, <1>13,
     <1>14, <1>15, <1>16, <1>17, <1>18, <1>19
     DEF Next, SimpleCall, Continue

\* The types hold in every state, whatever functions the user gave and whatever
\* the order of the calls: every index stays inside the table while a call runs,
\* and the load factors stay ordered.
THEOREM TypeCorrect == Spec => []TypeOK
<1>1. Init => TypeOK
  BY TypeInit
<1>2. TypeOK /\ [Next]_vars => TypeOK'
  BY TypeNext
<1> QED
  BY <1>1, <1>2, PTL DEF Spec
-----------------------------------------------------------------------------
(* The ring of buckets, and how many a table holds *)

\* A set of natural numbers that is not empty has a least one.
LEMMA LeastNat ==
    ASSUME NEW S \in SUBSET Nat, S # {}
    PROVE  \E x \in S : \A y \in S : x <= y
<1> DEFINE R == OpToRel(<, Nat)
<1>1. IsWellFoundedOn(R, Nat)
  BY NatLessThanWellFounded
<1> HIDE DEF R
<1>2. PICK x \in S : \A y \in S : <<y, x>> \notin R
  BY <1>1, WFMin
<1>3. \A y \in S : ~(y < x)
  BY <1>2 DEF R, OpToRel
<1> QED
  BY <1>2, <1>3

\* A path is inside the ring and does not contain the position it leads to.
LEMMA PathRange ==
    ASSUME NEW n \in Nat, NEW h \in 0..(n - 1), NEW i \in 0..(n - 1)
    PROVE  Path(h, i, n) \subseteq 0..(n - 1) /\ i \notin Path(h, i, n)
BY DEF Path

\* Of two positions, a probe meets one before the other.
LEMMA PathOrder ==
    ASSUME NEW n \in Nat, NEW h \in 0..(n - 1),
           NEW i \in 0..(n - 1), NEW j \in 0..(n - 1), i # j
    PROVE  i \in Path(h, j, n) \/ j \in Path(h, i, n)
BY DEF Path

\* A probe stops at one position.
LEMMA FirstUnique ==
    ASSUME NEW n \in Nat \ {0}, NEW S \in SUBSET (0..(n - 1)), NEW hash \in Nat,
           NEW i \in FirstIn(S, hash, n), NEW j \in FirstIn(S, hash, n)
    PROVE  i = j
<1>1. hash % n \in 0..(n - 1)
  BY ModRange
<1> QED
  BY <1>1, PathOrder DEF FirstIn

\* A probe that goes round the ring meets every set that is not empty.
LEMMA FirstExists ==
    ASSUME NEW n \in Nat \ {0}, NEW S \in SUBSET (0..(n - 1)), S # {}, NEW hash \in Nat
    PROVE  FirstIn(S, hash, n) # {}
<1> DEFINE h == hash % n
           Dist(i) == IF h <= i THEN i - h ELSE i + n - h
           D == {Dist(i) : i \in S}
<1>1. h \in 0..(n - 1)
  BY ModRange
<1> HIDE DEF h
<1>2. D \in SUBSET Nat /\ D # {}
  <2>1. \A i \in S : Dist(i) \in Nat
    BY <1>1
  <2> HIDE DEF Dist
  <2> QED
    BY <2>1
<1>3. PICK d \in D : \A e \in D : d <= e
  BY <1>2, LeastNat
<1>4. PICK i \in S : d = Dist(i)
  BY <1>3
<1>5. ASSUME NEW j \in Path(h, i, n), j \in S
      PROVE  FALSE
  <2>1. Dist(j) < Dist(i)
    BY <1>1, <1>5, <1>4 DEF Path
  <2>2. Dist(j) \in D /\ Dist(j) \in Nat
    BY <1>5, <1>2
  <2> QED
    BY <2>1, <2>2, <1>3, <1>4, <1>2
<1> QED
  BY <1>4, <1>5 DEF FirstIn, h

\* A bucket is empty or holds what a user inserted.
LEMMA BucketFacts ==
    ASSUME NEW b \in Bucket
    PROVE  /\ IsEmpty(b) <=> b = EmptyBucket
           /\ ~IsEmpty(b) <=> b \in Filled
           /\ b \in Filled => b.key \in Keys /\ b.hash \in Nat /\ b.value \in Values
BY SizeAssumption DEF Bucket, Filled, IsEmpty, EmptyBucket, INVALID_HASH

\* add_or_replace_bucket writes one position.
LEMMA AddAtUnique ==
    ASSUME NEW n \in Nat, NEW bs, NEW b \in Filled,
           NEW i \in AddAt(bs, n, b), NEW j \in AddAt(bs, n, b)
    PROVE  i = j
<1>1. Stops(bs, n, b.hash, b.key) \in SUBSET (0..(n - 1)) /\ n # 0
  BY AddAtRange DEF Stops
<1>2. b.hash \in Nat
  BY SizeAssumption DEF Filled
<1> QED
  BY <1>1, <1>2, FirstUnique DEF AddAt

\* A table with an empty bucket takes any bucket.
LEMMA AddFits ==
    ASSUME NEW n \in Nat, NEW bs, NEW b \in Filled,
           NEW j \in 0..(n - 1), IsEmpty(bs[j])
    PROVE  AddAt(bs, n, b) # {}
<1> DEFINE S == Stops(bs, n, b.hash, b.key)
<1>1. S \in SUBSET (0..(n - 1)) /\ S # {} /\ n \in Nat \ {0}
  BY DEF Stops
<1>2. b.hash \in Nat
  BY SizeAssumption DEF Filled
<1> HIDE DEF S
<1>3. FirstIn(S, b.hash, n) # {}
  BY <1>1, <1>2, FirstExists
<1> QED
  BY <1>3 DEF AddAt, S

\* Quotient and remainder.
LEMMA DivMod ==
    ASSUME NEW a \in Nat, NEW n \in Nat \ {0}, NEW q, q = a \div n, NEW r, r = a % n
    PROVE  a = q * n + r /\ q \in Nat /\ r \in 0..(n - 1)
<1>1. q \in Nat
  BY DivRange
<1>2. r \in 0..(n - 1)
  BY ModRange
<1>3. a = n * q + r
  OBVIOUS
<1> QED
  BY <1>1, <1>2, <1>3

\* Remainders of small numbers.
LEMMA ModSmall ==
    ASSUME NEW m \in Nat \ {0}, NEW a \in 0..(m - 1)
    PROVE  a % m = a /\ (a + m) % m = a
OBVIOUS

\* There are n positions in a ring of n.
LEMMA CountBelow ==
    ASSUME NEW n \in Nat
    PROVE  IsFiniteSet(0..(n - 1)) /\ Cardinality(0..(n - 1)) = n
BY FS_Interval

\* A table of n buckets holds at most n entries, and n only when it is full.
LEMMA OccupiedCount ==
    ASSUME NEW n \in Nat, NEW bs, Occupied(bs) \subseteq 0..(n - 1)
    PROVE  /\ IsFiniteSet(Occupied(bs))
           /\ Cardinality(Occupied(bs)) \in Nat
           /\ Cardinality(Occupied(bs)) <= n
           /\ Cardinality(Occupied(bs)) = n => Occupied(bs) = 0..(n - 1)
<1>1. IsFiniteSet(0..(n - 1)) /\ Cardinality(0..(n - 1)) = n
  BY CountBelow
<1> QED
  BY <1>1, FS_Subset, FS_CardinalityType
-----------------------------------------------------------------------------
(* The size counter and the redistribution: SizeCoversEntries, RehashFits *)

(* The inductive invariant.  The size is at least the number of occupied    *)
(* buckets; that it exceeds it by less than the greatest number of buckets  *)
(* is why it never wraps.                                                   *)

MaxBuckets == SIZE_MAX \div BUCKET_SIZE
Stored == Cardinality(Occupied(buckets))
Removing == IF call.op = "shift" THEN 1 ELSE 0

Counted ==
    /\ Occupied(buckets) \subseteq 0..(num_buckets - 1)
    /\ Stored + Removing <= size
    /\ num_buckets # 0 => num_buckets < MaxBuckets /\ size < MaxBuckets + Stored + Removing

Redistributed ==
    call.op = "rehash" =>
        /\ num_buckets # 0 /\ size < MaxBuckets
        /\ Cardinality(Occupied(call.tmp)) <= Cardinality(Occupied(buckets) \cap 0..(call.cur - 1))

GapEmpty == call.op = "shift" => call.gap \notin Occupied(buckets)

SizeInv == TypeOK /\ Counted /\ Redistributed /\ GapEmpty
-----------------------------------------------------------------------------
(* Counting                                                                *)

\* Two tables full of entries are no more than a size_t counts.
LEMMA TwiceFits == MaxBuckets \in Nat /\ MaxBuckets + MaxBuckets <= SIZE_MAX
<1> DEFINE q == SIZE_MAX \div BUCKET_SIZE
           r == SIZE_MAX % BUCKET_SIZE
<1>1. SIZE_MAX \in Nat /\ BUCKET_SIZE \in Nat \ {0}
  BY SizeAssumption
<1>2. SIZE_MAX = q * BUCKET_SIZE + r /\ q \in Nat /\ r \in 0..(BUCKET_SIZE - 1)
  BY <1>1, DivMod
<1>3. 2 <= BUCKET_SIZE
  BY SizeAssumption
<1> HIDE DEF q, r
<1>4. 2 * q <= BUCKET_SIZE * q
  BY <1>1, <1>2, <1>3
<1>5. q + q = 2 * q /\ BUCKET_SIZE * q = q * BUCKET_SIZE
  BY <1>1, <1>2
<1> QED
  BY <1>1, <1>2, <1>4, <1>5 DEF MaxBuckets, q

LEMMA Numbers ==
    ASSUME SizeInv
    PROVE  /\ num_buckets \in Nat /\ alloc \in Nat /\ size \in Nat /\ size <= SIZE_MAX
           /\ SIZE_MAX \in Nat /\ MaxBuckets \in Nat
           /\ buckets \in [0..(alloc - 1) -> Bucket]
           /\ IsFiniteSet(Occupied(buckets)) /\ Stored \in Nat /\ Stored <= num_buckets
           /\ Occupied(buckets) \subseteq 0..(num_buckets - 1)
           /\ Stored + Removing <= size
           /\ Removing \in {0, 1}
           /\ num_buckets # 0 => num_buckets < MaxBuckets /\ size < MaxBuckets + Stored + Removing
<1>1. /\ num_buckets \in Nat /\ alloc \in Nat /\ size \in Nat /\ size <= SIZE_MAX /\ SIZE_MAX \in Nat
      /\ buckets \in [0..(alloc - 1) -> Bucket]
  BY SizeAssumption DEF SizeInv, TypeOK, TableType
<1>2. /\ Occupied(buckets) \subseteq 0..(num_buckets - 1)
      /\ Stored + Removing <= size
      /\ num_buckets # 0 => num_buckets < MaxBuckets /\ size < MaxBuckets + Stored + Removing
  BY Zenon DEF SizeInv, Counted
<1>3. IsFiniteSet(Occupied(buckets)) /\ Stored \in Nat /\ Stored <= num_buckets
  BY <1>1, <1>2, OccupiedCount DEF Stored
<1> QED
  BY <1>1, <1>2, <1>3, TwiceFits DEF Removing

\* A step that leaves the counter and the occupied buckets as they were, outside
\* resize and remove.
LEMMA Quiet ==
    ASSUME SizeInv, TypeOK', size' = size, num_buckets' = num_buckets,
           Occupied(buckets)' = Occupied(buckets),
           call.op # "shift", call'.op \notin {"shift", "rehash"}
    PROVE  SizeInv'
<1>1. Stored' = Stored /\ Removing' = 0 /\ Removing = 0
  BY DEF Stored, Removing
<1>2. Counted'
  BY <1>1 DEF SizeInv, Counted
<1> QED
  BY <1>2 DEF SizeInv, Redistributed, GapEmpty

\* A step after which nothing is stored.
LEMMA NothingStored ==
    ASSUME TypeOK', Occupied(buckets)' = {}, num_buckets' = 0 \/ (num_buckets' < MaxBuckets /\ size' < MaxBuckets),
           call'.op \notin {"shift", "rehash"}
    PROVE  SizeInv'
<1>1. Stored' = 0 /\ Removing' = 0
  BY FS_EmptySet DEF Stored, Removing
<1>2. size' \in Nat /\ num_buckets' \in Nat
  BY SizeAssumption DEF TypeOK, TableType
<1>3. Counted'
  BY <1>1, <1>2, TwiceFits DEF Counted
<1> QED
  BY <1>3 DEF SizeInv, Redistributed, GapEmpty

\* bs2 is bs with an entry at i.
SetAt(bs, bs2, i) ==
    /\ DOMAIN bs2 = DOMAIN bs /\ i \in DOMAIN bs /\ ~IsEmpty(bs2[i])
    /\ \A j \in DOMAIN bs : j # i => bs2[j] = bs[j]

LEMMA SetAtPut ==
    ASSUME NEW m, NEW bs \in [0..(m - 1) -> Bucket], NEW i \in 0..(m - 1), NEW b \in Filled
    PROVE  SetAt(bs, [bs EXCEPT ![i] = b], i)
<1>1. ~IsEmpty(b)
  BY BucketFacts DEF Bucket
<1> QED
  BY <1>1 DEF SetAt

\* What is written at positions that are not occupied.
LEMMA OneMoreStored ==
    ASSUME NEW bs, NEW bs2, IsFiniteSet(Occupied(bs)), NEW i, SetAt(bs, bs2, i)
    PROVE  /\ Occupied(bs2) = Occupied(bs) \cup {i}
           /\ IsEmpty(bs[i]) => Cardinality(Occupied(bs2)) = Cardinality(Occupied(bs)) + 1
           /\ ~IsEmpty(bs[i]) => Cardinality(Occupied(bs2)) = Cardinality(Occupied(bs))
<1>1. Occupied(bs2) = Occupied(bs) \cup {i}
  BY DEF SetAt, Occupied
<1>2. i \in Occupied(bs) <=> ~IsEmpty(bs[i])
  BY DEF SetAt, Occupied
<1>3. /\ i \notin Occupied(bs) => Cardinality(Occupied(bs2)) = Cardinality(Occupied(bs)) + 1
      /\ i \in Occupied(bs) => Cardinality(Occupied(bs2)) = Cardinality(Occupied(bs))
  BY <1>1, FS_AddElement
<1> QED
  BY <1>1, <1>2, <1>3
-----------------------------------------------------------------------------
(* Calls that resize                                                       *)

\* What becomes of the entries when the array is reallocated.
LEMMA ReallocatedKeeps ==
    ASSUME SizeInv, InBounds, NEW n \in Nat
    PROVE  /\ Occupied(Reallocated(n)) \subseteq Occupied(buckets) \cap 0..(n - 1)
           /\ IsFiniteSet(Occupied(Reallocated(n)))
           /\ Cardinality(Occupied(Reallocated(n))) \in Nat
           /\ Cardinality(Occupied(Reallocated(n))) <= Stored
<1>1. ASSUME NEW i \in Occupied(Reallocated(n))
      PROVE  i \in Occupied(buckets) /\ i \in 0..(n - 1)
  <2>1. i \in 0..(n - 1) /\ ~IsEmpty(Reallocated(n)[i])
    BY <1>1 DEF Occupied, Reallocated
  <2>2. Reallocated(n)[i] = IF i < num_buckets THEN buckets[i] ELSE EmptyBucket
    BY <2>1 DEF Reallocated
  <2>3. i < num_buckets /\ ~IsEmpty(buckets[i])
    BY <2>1, <2>2, EmptyType
  <2>4. i \in 0..(alloc - 1) /\ DOMAIN buckets = 0..(alloc - 1)
    <3>1. num_buckets \in Nat /\ alloc \in Nat /\ num_buckets <= alloc /\ buckets \in [0..(alloc - 1) -> Bucket]
      BY Numbers DEF InBounds
    <3> QED
      BY <2>1, <2>3, <3>1
  <2> QED
    BY <2>1, <2>3, <2>4, Zenon DEF Occupied
<1> QED
  BY <1>1, Numbers, FS_Subset, FS_CardinalityType DEF Stored

\* resize returns, to the user or to insert.
LEMMA ReturnsIdle ==
    ASSUME NEW p, NEW res, ResizeReturns(p, res)
    PROVE  call'.op \notin {"shift", "rehash"}
BY DEF ResizeReturns, Idle

\* The size that resize accepts is above the counter and below the limit.
LEMMA GoesOn ==
    ASSUME NEW n \in Nat, size \in Nat, ResizeCheck(n) = "go"
    PROVE  size < n /\ n < MaxBuckets
<1>1. ~(n = 0 \/ n < size) /\ ~(n # 0 /\ n = size)
  BY DEF ResizeCheck
<1>2. ~(n > size /\ n >= SIZE_MAX \div BUCKET_SIZE)
  BY <1>1 DEF ResizeCheck
<1> QED
  BY <1>1, <1>2, TwiceFits DEF MaxBuckets

LEMMA ResizeKeepsSize ==
    ASSUME SizeInv, Ready, NEW n \in Nat, NEW p \in Bucket, ResizeTo(n, p), TypeOK'
    PROVE  SizeInv'
<1>1. size' = size /\ call.op = "idle" /\ Removing = 0
  BY DEF ResizeTo, Ready, Idle, Removing
<1>2. CASE UNCHANGED <<num_buckets, buckets, alloc>> /\ \E res : ResizeReturns(p, res)
  BY <1>1, <1>2, Quiet, ReturnsIdle
<1>3. CASE ResizeCheck(n) = "go" /\ ResizeReallocated(n, p)
  <2>1. size < n /\ n < MaxBuckets
    BY <1>3, Numbers, GoesOn
  <2>2. buckets' = Reallocated(n)
    BY <1>3 DEF ResizeReallocated
  <2>3. /\ Occupied(buckets)' \subseteq Occupied(buckets) \cap 0..(n - 1)
        /\ Stored' \in Nat /\ Stored' <= Stored
    BY <2>2, ReallocatedKeeps DEF Ready, Stored
  <2>4. /\ num_buckets \in Nat /\ size \in Nat /\ Stored \in Nat /\ Stored <= size /\ MaxBuckets \in Nat
        /\ Occupied(buckets) \subseteq 0..(num_buckets - 1)
        /\ num_buckets # 0 => num_buckets < MaxBuckets
    BY <1>1, Numbers
  <2>7. /\ size' \in Nat /\ size' < MaxBuckets /\ Stored' <= size' /\ Stored' \in Nat /\ MaxBuckets \in Nat
        /\ \A r : r = 0 => Stored' + r <= size' /\ size' < MaxBuckets + Stored' + r
    <3>1. size' \in Nat /\ size' < MaxBuckets /\ Stored' <= size' /\ Stored' \in Nat /\ MaxBuckets \in Nat
      <4>1. size \in Nat /\ n \in Nat /\ MaxBuckets \in Nat /\ size < n /\ n < MaxBuckets
        BY <2>1, <2>4, Zenon
      <4>2. Stored' \in Nat /\ Stored \in Nat /\ Stored' <= Stored /\ Stored <= size
        BY <2>3, <2>4, Zenon
      <4>3. size < MaxBuckets /\ Stored' <= size
        BY <4>1, <4>2
      <4> QED
        BY <1>1, <4>1, <4>2, <4>3, Zenon
    <3> QED
      BY <3>1
  <2>5. CASE \E res : ResizeReturns(p, res) /\ num_buckets' \in {n, num_buckets}
    <3>1. call'.op \notin {"shift", "rehash"} /\ Removing' = 0
      BY <2>5, ReturnsIdle DEF Removing
    <3>2. Counted'
      <4>1. Occupied(buckets)' \subseteq 0..(num_buckets' - 1)
        BY <2>3, <2>4, <2>5
      <4>2. num_buckets' # 0 => num_buckets' < MaxBuckets /\ size' < MaxBuckets + Stored' + Removing'
        <5>1. num_buckets' # 0 => num_buckets' < MaxBuckets
          BY <2>1, <2>4, <2>5
        <5>2. size' < MaxBuckets + Stored' + Removing'
          BY <2>7, <3>1, Zenon
        <5> QED
          BY <5>1, <5>2
      <4>3. Stored' + Removing' <= size'
        BY <2>7, <3>1, Zenon
      <4> QED
        BY <4>1, <4>2, <4>3 DEF Counted
    <3> QED
      BY <3>1, <3>2 DEF SizeInv, Redistributed, GapEmpty
  <2>6. CASE num_buckets' = n /\ call' = Rehash(p, n)
    <3>1. call'.op = "rehash" /\ call'.cur = 0 /\ call'.tmp = [i \in 0..(n - 1) |-> EmptyBucket] /\ Removing' = 0
      BY <2>6 DEF Rehash, Removing
    <3>2. Counted'
      <4>1. Occupied(buckets)' \subseteq 0..(num_buckets' - 1)
        BY <2>3, <2>6
      <4>2. num_buckets' < MaxBuckets /\ size' < MaxBuckets + Stored' + Removing'
        BY <2>1, <2>6, <2>7, <3>1, Zenon
      <4>3. Stored' + Removing' <= size'
        BY <2>7, <3>1, Zenon
      <4> QED
        BY <4>1, <4>2, <4>3 DEF Counted
    <3>3. Redistributed'
      <4>1. Occupied(call'.tmp) = {}
        BY <3>1, EmptyType DEF Occupied
      <4>2. Occupied(buckets)' \cap 0..(call'.cur - 1) = {}
        BY <3>1
      <4>3. n # 0 /\ size < MaxBuckets
        BY <2>1, <2>4
      <4>4. Cardinality(Occupied(call'.tmp)) <= Cardinality(Occupied(buckets)' \cap 0..(call'.cur - 1))
        <5>1. Cardinality({}) <= Cardinality({})
          BY FS_EmptySet
        <5> QED
          BY <4>1, <4>2, <5>1, Zenon
      <4>5. num_buckets' # 0 /\ size' < MaxBuckets
        BY <2>6, <2>7, <4>3, Zenon
      <4> QED
        BY <4>4, <4>5, Zenon DEF Redistributed
    <3> QED
      BY <3>1, <3>2, <3>3 DEF SizeInv, GapEmpty
  <2> QED
    BY <1>3, <2>5, <2>6 DEF ResizeReallocated
<1> QED
  BY <1>2, <1>3 DEF ResizeTo
-----------------------------------------------------------------------------
(* The redistribution                                                      *)

LEMMA RehashFacts ==
    ASSUME SizeInv, call.op = "rehash"
    PROVE  /\ call \in [op : {"rehash"}, tmp : [0..(num_buckets - 1) -> Bucket],
                        cur : 0..num_buckets, pending : Bucket]
           /\ num_buckets \in Nat /\ alloc = num_buckets /\ call.cur \in Nat
           /\ buckets \in [0..(num_buckets - 1) -> Bucket]
           /\ call.tmp \in [0..(num_buckets - 1) -> Bucket]
           /\ Occupied(call.tmp) \subseteq 0..(num_buckets - 1)
           /\ IsFiniteSet(Occupied(call.tmp)) /\ Cardinality(Occupied(call.tmp)) \in Nat
           /\ IsFiniteSet(Occupied(buckets) \cap 0..(call.cur - 1))
           /\ Cardinality(Occupied(buckets) \cap 0..(call.cur - 1)) \in 0..call.cur
           /\ Cardinality(Occupied(call.tmp)) <= Cardinality(Occupied(buckets) \cap 0..(call.cur - 1))
           /\ size < MaxBuckets /\ num_buckets # 0
<1>1. /\ call \in [op : {"rehash"}, tmp : [0..(num_buckets - 1) -> Bucket],
                   cur : 0..num_buckets, pending : Bucket]
      /\ num_buckets \in Nat /\ alloc = num_buckets
      /\ buckets \in [0..(num_buckets - 1) -> Bucket]
  BY DEF SizeInv, TypeOK, TableType, CallType, Idle, Freed
<1>2. call.tmp \in [0..(num_buckets - 1) -> Bucket] /\ call.cur \in Nat
  BY <1>1
<1>3. Occupied(call.tmp) \subseteq 0..(num_buckets - 1)
  BY <1>2 DEF Occupied
<1>4. IsFiniteSet(Occupied(call.tmp)) /\ Cardinality(Occupied(call.tmp)) \in Nat
  BY <1>1, <1>3, OccupiedCount
<1>5. IsFiniteSet(0..(call.cur - 1)) /\ Cardinality(0..(call.cur - 1)) = call.cur
  BY <1>2, CountBelow
<1>6. /\ IsFiniteSet(Occupied(buckets) \cap 0..(call.cur - 1))
      /\ Cardinality(Occupied(buckets) \cap 0..(call.cur - 1)) \in 0..call.cur
  BY <1>2, <1>5, FS_Subset, FS_CardinalityType
<1>7. /\ Cardinality(Occupied(call.tmp)) <= Cardinality(Occupied(buckets) \cap 0..(call.cur - 1))
      /\ size < MaxBuckets /\ num_buckets # 0
  BY DEF SizeInv, Redistributed
<1> QED
  BY <1>1, <1>2, <1>3, <1>4, <1>6, <1>7

\* There always is a bucket for the next entry.
LEMMA RoomInTmp ==
    ASSUME SizeInv, call.op = "rehash", call.cur < num_buckets, NEW b \in Filled
    PROVE  AddAt(call.tmp, num_buckets, b) # {}
<1>1. PICK e \in 0..(num_buckets - 1) : e \notin Occupied(call.tmp)
  <2> SUFFICES ASSUME 0..(num_buckets - 1) \subseteq Occupied(call.tmp) PROVE FALSE
    OBVIOUS
  <2>1. Occupied(call.tmp) = 0..(num_buckets - 1)
    BY RehashFacts
  <2>2. Cardinality(Occupied(call.tmp)) = num_buckets
    BY <2>1, RehashFacts, CountBelow
  <2> QED
    BY <2>2, RehashFacts
<1>2. IsEmpty(call.tmp[e])
  BY <1>1, RehashFacts DEF Occupied
<1> QED
  BY <1>2, RehashFacts, AddFits

LEMMA RehashStepKeepsSize ==
    ASSUME SizeInv, RehashStep, TypeOK'
    PROVE  SizeInv'
<1> DEFINE n == num_buckets
           cur == call.cur
           tmp == call.tmp
           b == buckets[cur]
           done == Occupied(buckets) \cap 0..(cur - 1)
           done2 == Occupied(buckets) \cap 0..cur
<1>1. /\ call.op = "rehash" /\ cur < n /\ UNCHANGED table
      /\ call' = [call EXCEPT !.cur = cur + 1,
                              !.tmp = IF IsEmpty(b) THEN tmp ELSE Placed(tmp, n, b)]
  BY DEF RehashStep
<1>2. /\ call'.op = "rehash" /\ call'.cur = cur + 1
      /\ call'.tmp = IF IsEmpty(b) THEN tmp ELSE Placed(tmp, n, b)
  BY <1>1, RehashFacts
<1>3. /\ n \in Nat /\ cur \in Nat /\ buckets \in [0..(n - 1) -> Bucket] /\ tmp \in [0..(n - 1) -> Bucket]
      /\ IsFiniteSet(done) /\ Cardinality(done) \in Nat /\ IsFiniteSet(Occupied(tmp))
      /\ Cardinality(Occupied(tmp)) \in Nat /\ Cardinality(Occupied(tmp)) <= Cardinality(done)
      /\ size < MaxBuckets /\ n # 0
  BY <1>1, RehashFacts
<1>4. /\ buckets' = buckets /\ num_buckets' = n /\ size' = size /\ Stored' = Stored
      /\ Removing' = Removing /\ Removing = 0
  BY <1>1, <1>2 DEF table, Stored, Removing
<1>5. Counted' /\ GapEmpty'
  BY <1>2, <1>4 DEF SizeInv, Counted, GapEmpty
<1> HIDE DEF tmp, cur
<1>6. Cardinality(Occupied(call'.tmp)) <= Cardinality(done2)
  <2>1. CASE IsEmpty(b)
    <3>1. done2 = done
      BY <1>3, <2>1 DEF Occupied
    <3> QED
      BY <1>2, <1>3, <2>1, <3>1
  <2>2. CASE ~IsEmpty(b)
    <3>1. b \in Filled /\ cur \in 0..(n - 1) /\ cur \in Occupied(buckets)
      BY <1>1, <1>3, <2>2, BucketFacts DEF Occupied
    <3>2. done2 = done \cup {cur} /\ cur \notin done
      BY <1>3, <3>1
    <3> HIDE DEF done, done2
    <3>3. Cardinality(done2) = Cardinality(done) + 1
      BY <1>3, <3>2, FS_AddElement
    <3>4. PICK i : i \in AddAt(tmp, n, b)
      BY <1>1, <3>1, RoomInTmp DEF tmp, cur
    <3>5. i \in 0..(n - 1) /\ Placed(tmp, n, b) = [tmp EXCEPT ![i] = b]
      <4>1. AddAt(tmp, n, b) = {i}
        BY <1>3, <3>1, <3>4, AddAtUnique
      <4>2. i \in 0..(n - 1)
        BY <3>4, AddAtRange
      <4> QED
        BY <1>3, <4>1, <4>2 DEF Placed
    <3>7. call'.tmp = [tmp EXCEPT ![i] = b]
      BY <1>2, <2>2, <3>5
    <3> HIDE DEF b, n
    <3>9. /\ Occupied(call'.tmp) = Occupied(tmp) \cup {i}
          /\ IsEmpty(tmp[i]) => Cardinality(Occupied(call'.tmp)) = Cardinality(Occupied(tmp)) + 1
          /\ ~IsEmpty(tmp[i]) => Cardinality(Occupied(call'.tmp)) = Cardinality(Occupied(tmp))
      <4>1. /\ n \in Nat /\ tmp \in [0..(n - 1) -> Bucket] /\ IsFiniteSet(Occupied(tmp))
            /\ i \in 0..(n - 1) /\ b \in Filled
        BY <1>3, <3>1, <3>5, Zenon
      <4> HIDE DEF tmp
      <4>2. SetAt(tmp, [tmp EXCEPT ![i] = b], i)
        BY <4>1, SetAtPut
      <4>3. SetAt(tmp, call'.tmp, i)
        BY <3>7, <4>2, Zenon
      <4> QED
        BY <4>1, <4>3, OneMoreStored
    <3>6. Cardinality(Occupied(call'.tmp)) <= Cardinality(Occupied(tmp)) + 1
      <4>1. CASE IsEmpty(tmp[i])
        BY <1>3, <3>9, <4>1
      <4>2. CASE ~IsEmpty(tmp[i])
        BY <1>3, <3>9, <4>2
      <4> QED
        BY <4>1, <4>2, Zenon
    <3>8. IsFiniteSet(Occupied(call'.tmp)) /\ Cardinality(Occupied(call'.tmp)) \in Nat
      <4>1. IsFiniteSet(Occupied(tmp) \cup {i})
        BY <1>3, FS_AddElement
      <4>2. Occupied(call'.tmp) = Occupied(tmp) \cup {i}
        BY <3>7, <3>9
      <4> QED
        BY <4>1, <4>2, FS_CardinalityType
    <3> QED
      BY <1>3, <3>3, <3>6, <3>7, <3>8
  <2> QED
    BY <2>1, <2>2
<1>7. 0..(call'.cur - 1) = 0..cur
  BY <1>2, <1>3
<1>8. Redistributed'
  BY <1>2, <1>3, <1>4, <1>6, <1>7 DEF Redistributed
<1> QED
  BY <1>5, <1>8 DEF SizeInv

LEMMA RehashDoneKeepsSize ==
    ASSUME SizeInv, RehashDone, TypeOK'
    PROVE  SizeInv'
<1>1. /\ call.op = "rehash" /\ buckets' = call.tmp /\ size' = size /\ num_buckets' = num_buckets
      /\ call'.op \notin {"shift", "rehash"}
  BY ReturnsIdle DEF RehashDone
<1>2. Removing' = 0 /\ Removing = 0
  BY <1>1 DEF Removing
<1>3. Occupied(buckets)' \subseteq 0..(num_buckets - 1) /\ Stored' \in Nat
  BY <1>1, RehashFacts DEF Stored
<1>4. Stored' <= Stored
  <2>1. Cardinality(Occupied(buckets) \cap 0..(call.cur - 1)) <= Stored
    BY Numbers, FS_Subset DEF Stored
  <2> QED
    BY <1>1, <1>3, <2>1, RehashFacts, Numbers DEF Stored
<1>5. Counted'
  BY <1>1, <1>2, <1>3, <1>4, RehashFacts, Numbers DEF Counted
<1> QED
  BY <1>1, <1>5 DEF SizeInv, Redistributed, GapEmpty
-----------------------------------------------------------------------------
(* Insert, update and remove                                               *)

LEMMA UpdateKeepsOccupied ==
    ASSUME TypeOK, InBounds, NEW k, NEW v, UpdateValue(k, v)
    PROVE  Occupied(buckets)' = Occupied(buckets) /\ size' = size /\ num_buckets' = num_buckets
<1>1. CASE UNCHANGED buckets
  BY <1>1 DEF UpdateValue
<1>2. ASSUME NEW i \in FindAt(k), buckets' = [buckets EXCEPT ![i].value = v]
      PROVE  Occupied(buckets)' = Occupied(buckets)
  <2>1. i \in 0..(alloc - 1) /\ buckets \in [0..(alloc - 1) -> Bucket]
    BY FindAtRange, FilledValue DEF TypeOK, TableType
  <2>2. DOMAIN buckets' = DOMAIN buckets /\ \A j \in DOMAIN buckets : buckets'[j].hash = buckets[j].hash
    <3>1. buckets[i] \in Filled
      BY FindAtRange, FilledValue
    <3>2. [buckets[i] EXCEPT !.value = v].hash = buckets[i].hash
      BY <3>1 DEF Filled
    <3>3. buckets' = [buckets EXCEPT ![i] = [buckets[i] EXCEPT !.value = v]]
      BY <1>2
    <3> QED
      BY <2>1, <3>2, <3>3
  <2> QED
    BY <2>2 DEF Occupied, IsEmpty
<1> QED
  BY <1>1, <1>2 DEF UpdateValue

LEMMA AddKeepsSize ==
    ASSUME SizeInv, InBounds, call.op \notin {"shift", "rehash"}, NEW b \in Filled, Add(b), TypeOK'
    PROVE  SizeInv'
<1>1. call'.op \notin {"shift", "rehash"} /\ num_buckets' = num_buckets
  BY DEF Add, Idle
<1>2. CASE UNCHANGED <<size, buckets>>
  BY <1>1, <1>2, Quiet
<1>3. ASSUME NEW i \in AddAt(buckets, num_buckets, b),
             buckets' = [buckets EXCEPT ![i] = b],
             size' = IF IsEmpty(buckets[i]) THEN (size + 1) % (SIZE_MAX + 1) ELSE size
      PROVE  SizeInv'
  <2>1. i \in 0..(num_buckets - 1) /\ i \in 0..(alloc - 1) /\ num_buckets # 0
    BY AddAtRange, Numbers DEF InBounds
  <2>2. /\ num_buckets \in Nat /\ alloc \in Nat /\ size \in Nat /\ SIZE_MAX \in Nat /\ MaxBuckets \in Nat
        /\ buckets \in [0..(alloc - 1) -> Bucket]
        /\ IsFiniteSet(Occupied(buckets)) /\ Stored \in Nat
        /\ Occupied(buckets) \subseteq 0..(num_buckets - 1)
        /\ Stored <= size /\ num_buckets < MaxBuckets /\ size < MaxBuckets + Stored
        /\ MaxBuckets + MaxBuckets <= SIZE_MAX
    <3>1. Removing = 0
      BY DEF Removing
    <3> QED
      BY <2>1, <3>1, Numbers, TwiceFits
  <2>3. /\ Occupied(buckets)' = Occupied(buckets) \cup {i}
        /\ IsEmpty(buckets[i]) => Stored' = Stored + 1
        /\ ~IsEmpty(buckets[i]) => Stored' = Stored
    <3>1. alloc \in Nat /\ i \in 0..(alloc - 1) /\ buckets \in [0..(alloc - 1) -> Bucket] /\ IsFiniteSet(Occupied(buckets))
      BY <2>1, <2>2, Zenon
    <3>2. /\ Occupied(buckets') = Occupied(buckets) \cup {i}
          /\ IsEmpty(buckets[i]) => Cardinality(Occupied(buckets')) = Cardinality(Occupied(buckets)) + 1
          /\ ~IsEmpty(buckets[i]) => Cardinality(Occupied(buckets')) = Cardinality(Occupied(buckets))
      <4> HIDE DEF Stored, Removing
      <4>1. SetAt(buckets, buckets', i)
        BY <1>3, <3>1, SetAtPut
      <4> QED BY <3>1, <4>1, OneMoreStored
    <3> QED
      BY <1>3, <3>2, Zenon DEF Stored
  <2>4. Occupied(buckets)' \subseteq 0..(num_buckets - 1) /\ Removing' = 0
    BY <1>1, <2>1, <2>2, <2>3 DEF Removing
  <2>5. Stored' \in Nat /\ Stored' <= num_buckets
    BY <2>2, <2>4, OccupiedCount DEF Stored
  <2>6. CASE IsEmpty(buckets[i])
    <3>1. Stored' = Stored + 1
      BY <2>3, <2>6
    <3>2. size + 1 \in 0..SIZE_MAX
      BY <2>2, <2>5, <3>1
    <3>3. size' = size + 1
      <4>1. SIZE_MAX + 1 \in Nat \ {0} /\ size + 1 \in 0..((SIZE_MAX + 1) - 1)
        BY <2>2, <3>2
      <4> QED
        BY <1>3, <2>6, <4>1, ModSmall
    <3>4. Stored' + Removing' <= size' /\ size' < MaxBuckets + Stored' + Removing'
      BY <2>2, <2>4, <3>1, <3>3
    <3> QED
      BY <1>1, <2>2, <2>4, <3>4 DEF SizeInv, Counted, Redistributed, GapEmpty
  <2>7. CASE ~IsEmpty(buckets[i])
    <3>1. Stored' = Stored /\ size' = size
      BY <1>3, <2>2, <2>3, <2>7
    <3>2. Stored' + Removing' <= size' /\ size' < MaxBuckets + Stored' + Removing'
      BY <2>2, <2>4, <3>1
    <3> QED
      BY <1>1, <2>2, <2>4, <3>2 DEF SizeInv, Counted, Redistributed, GapEmpty
  <2> QED
    BY <2>6, <2>7
<1> QED
  BY <1>2, <1>3 DEF Add

LEMMA RemoveKeepsSize ==
    ASSUME SizeInv, NEW k, Remove(k), TypeOK'
    PROVE  SizeInv'
<1>1. call.op = "idle" /\ InBounds /\ size' = size /\ num_buckets' = num_buckets
  BY DEF Remove, Ready, Idle
<1>2. CASE UNCHANGED <<buckets, call>>
  BY <1>1, <1>2, Quiet
<1>3. ASSUME NEW i \in FindAt(k), buckets' = [buckets EXCEPT ![i] = EmptyBucket],
             call'.op = "shift", call'.gap = i
      PROVE  SizeInv'
  <2>1. i \in 0..(num_buckets - 1) /\ ~IsEmpty(buckets[i]) /\ num_buckets # 0
    BY FindAtRange, Numbers
  <2>2. /\ num_buckets \in Nat /\ alloc \in Nat /\ num_buckets <= alloc
        /\ buckets \in [0..(alloc - 1) -> Bucket]
    BY <1>1, Numbers DEF InBounds
  <2>3. i \in Occupied(buckets) /\ Occupied(buckets)' = Occupied(buckets) \ {i}
    <3>1. i \in 0..(alloc - 1) /\ DOMAIN buckets = 0..(alloc - 1) /\ DOMAIN buckets' = 0..(alloc - 1)
      BY <1>3, <2>1, <2>2
    <3>2. buckets'[i] = EmptyBucket /\ \A j \in 0..(alloc - 1) : j # i => buckets'[j] = buckets[j]
      BY <1>3, <2>2, <3>1
    <3> QED
      BY <2>1, <3>1, <3>2, EmptyType DEF Occupied
  <2>4. Stored' = Stored - 1 /\ Removing' = 1 /\ Removing = 0
    <3>1. IsFiniteSet(Occupied(buckets))
      BY Numbers
    <3>2. Cardinality(Occupied(buckets) \ {i}) = Cardinality(Occupied(buckets)) - 1
      BY <2>3, <3>1, FS_RemoveElement
    <3> QED
      BY <1>1, <1>3, <2>3, <3>2 DEF Stored, Removing
  <2>5. Counted'
    BY <1>1, <2>1, <2>3, <2>4, Numbers DEF Counted
  <2>6. GapEmpty' /\ Redistributed'
    BY <1>3, <2>3 DEF GapEmpty, Redistributed
  <2> QED
    BY <2>5, <2>6 DEF SizeInv
<1> QED
  BY <1>2, <1>3 DEF Remove

LEMMA ShiftFacts ==
    ASSUME SizeInv, call.op = "shift"
    PROVE  /\ call \in [op : {"shift"}, gap : 0..(num_buckets - 1), cur : 0..(num_buckets - 1),
                        left : 0..num_buckets, key : Keys, val : Values]
           /\ num_buckets <= alloc /\ call.gap \notin Occupied(buckets) /\ num_buckets # 0 /\ Removing = 1
<1>1. /\ call \in [op : {"shift"}, gap : 0..(num_buckets - 1), cur : 0..(num_buckets - 1),
                   left : 0..num_buckets, key : Keys, val : Values]
      /\ InBounds
  BY DEF SizeInv, TypeOK, CallType, Idle, Freed
<1> QED
  BY <1>1, Numbers DEF SizeInv, GapEmpty, InBounds, Removing

LEMMA ShiftKeepsSize ==
    ASSUME SizeInv, ShiftMove \/ ShiftSkip \/ ShiftEnd, TypeOK'
    PROVE  SizeInv'
<1>1. call.op = "shift" /\ num_buckets' = num_buckets
  BY DEF ShiftMove, ShiftSkip, ShiftEnd, ShiftSteps, table
<1>2. CASE ShiftMove
  <2>1. /\ buckets' = [buckets EXCEPT ![call.gap] = buckets[call.cur], ![call.cur] = EmptyBucket]
        /\ call'.op = "shift" /\ call'.gap = call.cur /\ size' = size /\ ~IsEmpty(buckets[call.cur])
    BY <1>1, <1>2, ShiftFacts DEF ShiftMove, ShiftSteps
  <2>2. /\ call.gap \in 0..(alloc - 1) /\ call.cur \in 0..(alloc - 1) /\ buckets \in [0..(alloc - 1) -> Bucket]
        /\ call.gap \in 0..(num_buckets - 1)
    BY <1>1, ShiftFacts, Numbers
  <2>3. call.gap \notin Occupied(buckets) /\ call.cur \in Occupied(buckets) /\ call.gap # call.cur
    BY <1>1, <2>1, <2>2, ShiftFacts DEF Occupied
  <2>4. Occupied(buckets)' = (Occupied(buckets) \ {call.cur}) \cup {call.gap}
    <3>1. DOMAIN buckets = 0..(alloc - 1) /\ DOMAIN buckets' = 0..(alloc - 1)
      BY <2>1, <2>2
    <3>2. /\ buckets'[call.cur] = EmptyBucket /\ buckets'[call.gap] = buckets[call.cur]
          /\ \A j \in 0..(alloc - 1) : j # call.cur /\ j # call.gap => buckets'[j] = buckets[j]
      BY <2>1, <2>2, <2>3
    <3> QED
      BY <2>1, <2>2, <2>3, <3>1, <3>2, EmptyType DEF Occupied
  <2>5. Stored' = Stored
    <3>1. IsFiniteSet(Occupied(buckets)) /\ Stored \in Nat
      BY Numbers
    <3>2. /\ IsFiniteSet(Occupied(buckets) \ {call.cur})
          /\ Cardinality(Occupied(buckets) \ {call.cur}) = Stored - 1
      BY <2>3, <3>1, FS_RemoveElement DEF Stored
    <3>3. call.gap \notin Occupied(buckets) \ {call.cur}
      BY <2>3
    <3>4. Cardinality((Occupied(buckets) \ {call.cur}) \cup {call.gap}) = (Stored - 1) + 1
      BY <3>2, <3>3, FS_AddElement
    <3> QED
      BY <2>4, <3>1, <3>4 DEF Stored
  <2>6. call.cur \notin Occupied(buckets)'
    BY <2>3, <2>4
  <2>7. Removing' = Removing
    BY <1>1, <2>1 DEF Removing
  <2>8. Counted'
    <3>1. Occupied(buckets)' \subseteq 0..(num_buckets' - 1)
      BY <1>1, <2>2, <2>4, Numbers
    <3> QED
      BY <1>1, <2>1, <2>5, <2>7, <3>1, Numbers DEF Counted
  <2> QED
    BY <2>1, <2>6, <2>8 DEF SizeInv, Redistributed, GapEmpty
<1>3. CASE ShiftSkip
  <2>1. call'.op = "shift" /\ call'.gap = call.gap /\ size' = size /\ buckets' = buckets
    BY <1>1, <1>3, ShiftFacts DEF ShiftSkip, table
  <2>2. Stored' = Stored /\ Removing' = Removing
    BY <1>1, <2>1 DEF Stored, Removing
  <2> QED
    BY <1>1, <2>1, <2>2 DEF SizeInv, Counted, Redistributed, GapEmpty
<1>4. CASE ShiftEnd
  <2>1. call'.op = "idle" /\ buckets' = buckets /\ size' = (size + SIZE_MAX) % (SIZE_MAX + 1)
    BY <1>4 DEF ShiftEnd, Idle
  <2>2. Removing' = 0 /\ Removing = 1 /\ Stored' = Stored
    BY <1>1, <2>1 DEF Removing, Stored
  <2>3. size \in Nat /\ Stored \in Nat /\ Stored + 1 <= size /\ size <= SIZE_MAX /\ SIZE_MAX \in Nat
    BY <2>2, Numbers
  <2>4. size' = size - 1
    <3>1. SIZE_MAX + 1 \in Nat \ {0} /\ size - 1 \in 0..((SIZE_MAX + 1) - 1)
      BY <2>3
    <3>2. ((size - 1) + (SIZE_MAX + 1)) % (SIZE_MAX + 1) = size - 1
      BY <3>1, ModSmall
    <3>3. size + SIZE_MAX = (size - 1) + (SIZE_MAX + 1)
      BY <2>3
    <3> QED
      BY <2>1, <3>2, <3>3
  <2>5. Counted'
    BY <1>1, <2>1, <2>2, <2>3, <2>4, Numbers DEF Counted
  <2> QED
    BY <2>1, <2>5 DEF SizeInv, Redistributed, GapEmpty
<1> QED
  BY <1>2, <1>3, <1>4
-----------------------------------------------------------------------------
(* The theorems                                                            *)

LEMMA SizeInit == Init => SizeInv
<1> SUFFICES ASSUME Init PROVE SizeInv
  OBVIOUS
<1>1. TypeOK
  BY TypeInit
<1>2. Occupied(buckets) = {} /\ call.op = "idle" /\ num_buckets = 0 /\ size = 0
  BY DEF Init, NoBuckets, Occupied, Idle
<1>3. Stored = 0 /\ Removing = 0
  BY <1>2, FS_EmptySet DEF Stored, Removing
<1> QED
  BY <1>1, <1>2, <1>3 DEF SizeInv, Counted, Redistributed, GapEmpty

LEMMA SimpleCallKeepsSize ==
    ASSUME SizeInv, SimpleCall, TypeOK'
    PROVE  SizeInv'
<1> USE DEF Ready, Idle, Freed
<1>1. CASE Alloc
  BY <1>1, NothingStored DEF Alloc, NoBuckets, Occupied
<1>2. CASE Free
  BY <1>2, NothingStored DEF Free, ReleaseBuckets, NoBuckets, Occupied
<1>3. CASE Clear
  <2>1. Occupied(buckets)' = {}
    <3>1. buckets' = [i \in DOMAIN buckets |-> IF i < num_buckets THEN EmptyBucket ELSE buckets[i]]
      BY <1>3 DEF Clear
    <3>2. \A i \in Occupied(buckets) : i < num_buckets
      BY Numbers
    <3> QED
      BY <3>1, <3>2, EmptyType DEF Occupied
  <2>2. size' = 0 /\ num_buckets' = num_buckets /\ call'.op = "idle"
    BY <1>3 DEF Clear
  <2>3. num_buckets' = 0 \/ (num_buckets' < MaxBuckets /\ size' < MaxBuckets)
    BY <2>2, Numbers
  <2> QED
    BY <2>1, <2>2, <2>3, NothingStored
<1>4. CASE EnumBegin \/ (\E f \in LoadFactors : Configure(f)) \/ (\E p \in Policies : SetResizePolicy(p))
           \/ (\E k \in Keys : Find(k)) \/ (\E h \in {hash_proc[k] : k \in Keys} : FindByHash(h))
  <2>1. UNCHANGED table /\ call.op = "idle" /\ call'.op \in {"idle", "enum"}
    BY <1>4 DEF EnumBegin, Configure, SetResizePolicy, Find, FindByHash
  <2> QED
    BY <2>1, Quiet DEF table
<1>5. CASE \E k \in Keys, v \in Values : Update(k, v)
  <2>1. PICK k \in Keys, v \in Values : Update(k, v)
    BY <1>5
  <2>2. InBounds /\ call.op = "idle" /\ call'.op = "idle" /\ UpdateValue(k, v)
    BY <2>1 DEF Update
  <2>3. Occupied(buckets)' = Occupied(buckets) /\ size' = size /\ num_buckets' = num_buckets
    BY <2>2, UpdateKeepsOccupied DEF SizeInv
  <2> QED
    BY <2>2, <2>3, Quiet
<1> QED
  BY <1>1, <1>2, <1>3, <1>4, <1>5 DEF SimpleCall

LEMMA EnumKeepsSize ==
    ASSUME SizeInv, EnumSkip \/ EnumCallback \/ EnumEnd, TypeOK'
    PROVE  SizeInv'
<1>1. call.op = "enum" /\ InBounds
  BY DEF EnumSkip, EnumCallback, EnumEnd, SizeInv, TypeOK, Idle, Freed
<1>2. call'.op \in {"enum", "idle"}
  <2>1. call \in [op : {"enum"}, cur : 0..num_buckets, seen : SUBSET Keys]
    BY <1>1 DEF SizeInv, TypeOK, CallType, Idle, Freed
  <2>2. CASE EnumSkip
    BY <2>1, <2>2 DEF EnumSkip
  <2>3. CASE EnumCallback
    <3>1. call' = [call EXCEPT !.cur = call.cur + 1, !.seen = call.seen \cup {buckets[call.cur].key}]
      BY <2>3 DEF EnumCallback
    <3> QED
      BY <2>1, <3>1
  <2>4. CASE EnumEnd
    BY <2>4 DEF EnumEnd, Idle
  <2> QED
    BY <2>2, <2>3, <2>4
<1>3. CASE UNCHANGED table
  BY <1>1, <1>2, <1>3, Quiet DEF table
<1>4. CASE \E k \in Keys, v \in Values : UpdateValue(k, v)
  <2>1. Occupied(buckets)' = Occupied(buckets) /\ size' = size /\ num_buckets' = num_buckets
    BY <1>1, <1>4, UpdateKeepsOccupied DEF SizeInv
  <2> QED
    BY <1>1, <1>2, <2>1, Quiet
<1> QED
  BY <1>3, <1>4 DEF EnumSkip, EnumCallback, EnumEnd

LEMMA SizeNext == SizeInv /\ [Next]_vars => SizeInv'
<1> SUFFICES ASSUME SizeInv, [Next]_vars PROVE SizeInv'
  OBVIOUS
<1>1. TypeOK'
  BY TypeNext DEF SizeInv
<1>2. CASE SimpleCall
  BY <1>1, <1>2, SimpleCallKeepsSize
<1>3. CASE RehashStep \/ RehashDone
  BY <1>1, <1>3, RehashStepKeepsSize, RehashDoneKeepsSize
<1>4. CASE AddPending
  <2>1. call \in [op : {"add"}, pending : Filled] /\ InBounds
    BY <1>4 DEF AddPending, SizeInv, TypeOK, CallType, Idle, Freed
  <2> QED
    BY <1>1, <1>4, <2>1, AddKeepsSize DEF AddPending
<1>5. CASE ShiftMove \/ ShiftSkip \/ ShiftEnd
  BY <1>1, <1>5, ShiftKeepsSize
<1>6. CASE EnumSkip \/ EnumCallback \/ EnumEnd
  BY <1>1, <1>6, EnumKeepsSize
<1>7. CASE Reset
  BY <1>1, <1>7, NothingStored DEF Reset, ReleaseBuckets, NoBuckets, Occupied, Idle
<1>8. CASE \E n \in ResizeTargets : Resize(n)
  BY <1>1, <1>8, ResizeKeepsSize, EmptyType, UserAssumption DEF Resize
<1>9. ASSUME NEW k \in Keys, NEW v \in Values, Insert(k, v)
      PROVE  SizeInv'
  <2> DEFINE b == [hash |-> hash_proc[k], key |-> k, value |-> v]
  <2>1. Ready /\ call.op = "idle"
    BY <1>9 DEF Insert, Ready, Idle
  <2>2. CASE InsertRefused(k)
    BY <1>1, <2>1, <2>2, Quiet DEF InsertRefused, table
  <2>3. ASSUME b.hash # INVALID_HASH PROVE b \in Filled /\ b \in Bucket
    BY <2>3, UserAssumption, SizeAssumption DEF Filled, Bucket, INVALID_HASH
  <2>4. CASE b.hash # INVALID_HASH /\ Add(b)
    BY <1>1, <2>1, <2>3, <2>4, AddKeepsSize DEF Ready
  <2>5. CASE b.hash # INVALID_HASH /\ ResizeTo(Greater(MinReq, MIN_BUCKET_AUTO_ALLOCATION), b)
    BY <1>1, <2>1, <2>3, <2>5, MinReqNat, ResizeKeepsSize DEF SizeInv
  <2> QED
    BY <1>9, <2>2, <2>4, <2>5 DEF Insert
<1>10. CASE \E k \in Keys : Remove(k)
  BY <1>1, <1>10, RemoveKeepsSize
<1>11. CASE UNCHANGED vars
  <2>1. UNCHANGED <<size, num_buckets, buckets, call>>
    BY <1>11 DEF vars
  <2>2. Stored' = Stored /\ Removing' = Removing
    BY <2>1 DEF Stored, Removing
  <2> QED
    BY <1>1, <2>1, <2>2 DEF SizeInv, Counted, Redistributed, GapEmpty
<1> QED
  BY <1>2, <1>3, <1>4, <1>5, <1>6, <1>7, <1>8, <1>9, <1>10, <1>11 DEF Next, Continue

\* Whatever is done with the map, the counter never wraps and never falls below the
\* number of entries (hashmap.c:377, :504).
THEOREM SizeNeverTooLow == Spec => []SizeCoversEntries
<1>1. SizeInv => SizeCoversEntries
  BY Numbers DEF SizeCoversEntries, Stored, Removing
<1> QED
  BY SizeInit, SizeNext, <1>1, PTL DEF Spec

\* The redistribution always finds a bucket, also with a comparison that is no
\* equivalence (hashmap.c:277).
THEOREM RedistributionFits == Spec => []RehashFits
<1>1. SizeInv => RehashFits
  <2> SUFFICES ASSUME SizeInv, call.op = "rehash", call.cur < num_buckets, ~IsEmpty(buckets[call.cur])
               PROVE  AddAt(call.tmp, num_buckets, buckets[call.cur]) # {}
    BY DEF RehashFits
  <2>1. buckets[call.cur] \in Filled
    BY RehashFacts, BucketFacts
  <2> QED
    BY <2>1, RoomInTmp
<1> QED
  BY SizeInit, SizeNext, <1>1, PTL DEF Spec
=============================================================================
