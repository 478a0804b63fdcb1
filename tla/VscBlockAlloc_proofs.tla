------------------------ MODULE VscBlockAlloc_proofs ------------------------
(***************************************************************************)
(* What vsc_block_xalloc hands out is placed right, nothing leaks, and the *)
(* two passes agree when the first array is aligned most strictly: for     *)
(* every request, size_t, alignment and allocator.                         *)
(***************************************************************************)
EXTENDS VscBlockAlloc, TLAPS

(* Arithmetic *)

LEMMA ModRange ==
    ASSUME NEW n \in Int, NEW b \in Nat \ {0}
    PROVE  n % b \in 0..(b - 1)
  OBVIOUS

\* A quotient and a remainder determine each other.
LEMMA ModUnique ==
    ASSUME NEW a \in Nat, NEW b \in Nat \ {0}, NEW q \in Int, NEW r \in 0..(b - 1),
           a = b * q + r
    PROVE  a % b = r
  OBVIOUS

LEMMA ModFacts ==
    ASSUME NEW a \in Nat, NEW b \in Nat \ {0}
    PROVE  /\ a = b * (a \div b) + (a % b)
           /\ a \div b \in Nat /\ a % b \in 0..(b - 1)
  OBVIOUS

LEMMA Divides ==
    ASSUME NEW a \in Nat, NEW b \in Nat \ {0}, a % b = 0
    PROVE  \E m \in Nat : a = b * m
<1>1. a = b * (a \div b) /\ a \div b \in Nat
  BY ModFacts
<1> QED BY <1>1

\* A value in range is what it is modulo the width.
LEMMA ModSmall ==
    ASSUME NEW a \in Nat, NEW b \in Nat \ {0}, a < b
    PROVE  a % b = a
<1>1. a = b * 0 + a
  OBVIOUS
<1> QED BY <1>1, ModUnique

\* Rounding up moves an address by less than the alignment, to a multiple of it.
LEMMA GapAligns ==
    ASSUME NEW p \in Nat, NEW a \in Nat \ {0}
    PROVE  Gap(p, a) \in 0..(a - 1) /\ (p + Gap(p, a)) % a = 0
<1>1. CASE p % a = 0
  <2>1. a % a = 0
    BY ModUnique, a = a * 1 + 0
  <2> QED BY <1>1, <2>1 DEF Gap
<1>2. CASE p % a # 0
  <2>1. PICK q \in Nat : p = a * q + (p % a)
    BY ModFacts
  <2>2. a - (p % a) \in 1..(a - 1)
    BY <1>2, ModFacts
  <2>3. Gap(p, a) = a - (p % a)
    BY <2>2, ModUnique, a - (p % a) = a * 0 + (a - (p % a)) DEF Gap
  <2>4. p + Gap(p, a) = a * (q + 1) + 0
    BY <2>1, <2>2, <2>3
  <2> QED BY <2>2, <2>3, <2>4, ModUnique
<1> QED BY <1>1, <1>2

LEMMA GapNat ==
    ASSUME NEW p \in Nat, NEW a \in Nat \ {0}
    PROVE  Gap(p, a) \in Nat
<1>1. Gap(p, a) \in 0..(a - 1)
  BY GapAligns
<1> QED BY <1>1

\* An address rounded up stays before a later one rounded up.
LEMMA GapMonotone ==
    ASSUME NEW x \in Nat, NEW y \in Nat, NEW a \in Nat \ {0}, x <= y
    PROVE  x + Gap(x, a) <= y + Gap(y, a)
<1> DEFINE u == x + Gap(x, a)
           v == y + Gap(y, a)
<1>1. /\ Gap(x, a) \in 0..(a - 1) /\ (x + Gap(x, a)) % a = 0
      /\ Gap(y, a) \in 0..(a - 1) /\ (y + Gap(y, a)) % a = 0
  BY GapAligns
<1>2. u \in Nat /\ u % a = 0 /\ v \in Nat /\ v % a = 0
  BY <1>1
<1>3. PICK m \in Nat : u = a * m
  BY <1>2, Divides
<1>4. PICK n \in Nat : v = a * n
  BY <1>2, Divides
<1>5. a * (m - 1) < a * n
  <2>1. a * (m - 1) = a * m - a
    OBVIOUS
  <2> QED BY <1>3, <1>4, <1>1, <2>1
<1>6. m - 1 < n
  <2> SUFFICES ASSUME m - 1 >= n PROVE FALSE
    OBVIOUS
  <2>1. PICK d \in Nat : m - 1 = n + d
    OBVIOUS
  <2>2. a * (m - 1) = a * n + a * d /\ a * d \in Nat
    BY <2>1
  <2> QED BY <1>5, <2>2
<1>7. PICK e \in Nat : n = m + e
  BY <1>6
<1>8. a * n = a * m + a * e /\ a * e \in Nat
  BY <1>7
<1> QED BY <1>3, <1>4, <1>8

LEMMA Distribute ==
    ASSUME NEW a \in Nat, NEW m \in Nat, NEW n \in Nat
    PROVE  a * (m + n) = a * m + a * n
  OBVIOUS

LEMMA SeqElement ==
    ASSUME NEW S, NEW s \in Seq(S), NEW k \in 1..Len(s)
    PROVE  s[k] \in S
  OBVIOUS

LEMMA SumBound ==
    ASSUME NEW base \in Nat, NEW x \in Nat, NEW g \in Nat, NEW s \in Nat,
           NEW e \in Nat, NEW h \in Nat, x + g <= e + h
    PROVE  (base + x) + g + s - base <= e + s + h
  OBVIOUS

LEMMA FitsInRest ==
    ASSUME NEW base \in Nat, NEW n \in Nat, NEW g \in Nat, NEW s \in Nat,
           NEW e \in Nat, NEW total \in Nat, n + g + s - base <= e, e <= total, n >= base
    PROVE  /\ s <= total - (n - base) /\ g <= total - (n - base) - s
           /\ n + g <= base + total
  OBVIOUS

LEMMA EndInside ==
    ASSUME NEW n \in Nat, NEW base \in Nat, NEW total \in Nat, NEW g \in Nat, NEW s \in Nat,
           NEW space, space = total - (n - base), s <= space, g <= space - s
    PROVE  n + g + s <= base + total
  OBVIOUS

\* Rounding up does not depend on a base that is aligned already.
LEMMA GapFromBase ==
    ASSUME NEW p \in Nat, NEW x \in Nat, NEW a \in Nat \ {0}, p % a = 0
    PROVE  Gap(p + x, a) = Gap(x, a)
<1>1. PICK m \in Nat : p = a * m
  BY Divides
<1>2. PICK n \in Nat : x = a * n + (x % a)
  BY ModFacts
<1>3. a * (m + n) = a * m + a * n
  BY Distribute
<1>4. x % a \in 0..(a - 1)
  BY ModFacts
<1>5. p + x = a * (m + n) + (x % a)
  BY <1>1, <1>2, <1>3, <1>4
<1>6. (p + x) % a = x % a
  <2> DEFINE s == p + x
             q == m + n
             r == x % a
  <2>1. s \in Nat /\ q \in Int /\ r \in 0..(a - 1) /\ s = a * q + r
    BY <1>4, <1>5
  <2> HIDE DEF s, q, r
  <2>2. s % a = r
    BY <2>1, ModUnique
  <2> QED BY <2>2 DEF s, r
<1> QED BY <1>6 DEF Gap

\* What is aligned strictly is aligned less strictly.
LEMMA AlignedLess ==
    ASSUME NEW p \in Nat, NEW a \in Nat \ {0}, NEW b \in Nat \ {0}, p % b = 0, b % a = 0
    PROVE  p % a = 0
<1>1. PICK m \in Nat : p = b * m
  BY Divides
<1>2. PICK n \in Nat : b = a * n
  BY Divides
<1>3. p = a * (n * m) + 0
  BY <1>1, <1>2
<1> QED BY <1>3, ModUnique
-----------------------------------------------------------------------------
(* The model's operators *)

LEMMA SizeType ==
    ASSUME NEW b \in BlockInfo
    PROVE  /\ Size(b) \in 0..SIZE_MAX
           /\ Alignment(b) \in 1..SIZE_MAX
<1>1. b.element_size \in Nat /\ b.count \in Nat /\ SIZE_MAX + 1 \in Nat \ {0}
  BY BlockAssumption DEF BlockInfo
<1>2. b.element_size * b.count \in Nat
  BY <1>1
<1>3. Size(b) \in 0..((SIZE_MAX + 1) - 1)
  <2> DEFINE n == b.element_size * b.count
  <2> HIDE DEF n
  <2>1. n \in Nat
    BY <1>2 DEF n
  <2>2. n % (SIZE_MAX + 1) \in 0..((SIZE_MAX + 1) - 1)
    BY <2>1, <1>1, ModFacts
  <2> QED BY <2>2 DEF Size, n
<1>4. Alignment(b) \in 1..SIZE_MAX
  BY BlockAssumption DEF Alignment, BlockInfo
<1> QED BY <1>3, <1>4, BlockAssumption

\* Arithmetic modulo 2^w yields a size_t.
LEMMA WrapType ==
    ASSUME NEW n \in Int
    PROVE  n % (SIZE_MAX + 1) \in 0..SIZE_MAX
<1>1. SIZE_MAX + 1 \in Nat \ {0}
  BY BlockAssumption
<1>2. n % (SIZE_MAX + 1) \in 0..((SIZE_MAX + 1) - 1)
  BY <1>1, ModRange
<1> QED BY <1>2, BlockAssumption

\* So does vsc_align, and what it returns, unless NULL, is p rounded up.
LEMMA AlignType ==
    ASSUME NEW b \in BlockInfo, NEW p \in 0..SIZE_MAX, NEW space
    PROVE  /\ Align(b, p, space) \in 0..SIZE_MAX
           /\ Gap(p, Alignment(b)) \in 0..(Alignment(b) - 1)
<1>1. p \in Nat /\ Alignment(b) \in Nat \ {0}
  BY SizeType, BlockAssumption
<1>2. Gap(p, Alignment(b)) \in 0..(Alignment(b) - 1)
  BY <1>1, GapAligns
<1>3. p + Gap(p, Alignment(b)) \in Int
  BY <1>1, <1>2
<1>4. (p + Gap(p, Alignment(b))) % (SIZE_MAX + 1) \in 0..SIZE_MAX
  BY <1>3, WrapType
<1> QED BY <1>2, <1>4, BlockAssumption DEF Align, NULL

LEMMA FirstSizeType ==
    ASSUME NEW b \in BlockInfo
    PROVE  FirstSize(b) \in Nat /\ Size(b) <= FirstSize(b)
BY SizeType, BlockAssumption DEF FirstSize

LEMMA PadType ==
    ASSUME NEW b \in BlockInfo, reqsize \in 0..SIZE_MAX
    PROVE  Pad(b) \in Nat
BY SizeType, AlignType, BlockAssumption DEF Pad

\* While a call runs there is at least one array, and each is a BlockInfo.
LEMMA InfoType ==
    ASSUME TypeOK, pc # "idle"
    PROVE  /\ info \in Requests /\ info \in Seq(BlockInfo) /\ Len(info) \in Nat \ {0}
           /\ DOMAIN info = 1..Len(info)
           /\ \A j \in 1..Len(info) : info[j] \in BlockInfo
<1>1. info \in Requests /\ info \in Seq(BlockInfo) /\ info # <<>>
  BY BlockAssumption DEF TypeOK
<1> QED BY <1>1

-----------------------------------------------------------------------------
(* Type correctness *)

\* Between calls the caller holds no pointers.
LEMMA NoPointers == <<>> \in [DOMAIN <<>> -> Pointer] /\ <<>> \in Seq(0..SIZE_MAX)
<1>1. <<>> \in Seq(Pointer) /\ Len(<<>>) = 0
  OBVIOUS
<1>2. <<>> \in [1..Len(<<>>) -> Pointer]
  BY <1>1
<1> QED BY <1>1, <1>2

LEMMA TypeInit == Init => TypeOK
<1> SUFFICES ASSUME Init PROVE TypeOK
  OBVIOUS
<1>1. ptr \in [DOMAIN info -> Pointer] /\ out \in [DOMAIN info -> Pointer]
      /\ ends \in Seq(0..SIZE_MAX)
  BY NoPointers, Zenon DEF Init
<1>2. reqsize \in 0..SIZE_MAX
  BY BlockAssumption DEF Init
<1>3. info \in Requests \cup {<<>>} /\ pc = "idle" /\ wrapped \in BOOLEAN /\ ret = "none"
  BY Zenon DEF Init
<1>4. i \in Nat \ {0} /\ last \in Nat \ {0} /\ heap = {} /\ pc # "measure"
  BY <1>3 DEF Init
<1> QED BY <1>1, <1>2, <1>3, <1>4, Zenon DEF TypeOK

LEMMA TypeNext == TypeOK /\ [Next]_vars => TypeOK'
<1> SUFFICES ASSUME TypeOK, [Next]_vars PROVE TypeOK'
  OBVIOUS
<1> USE DEF measured
<1>1. CASE Refuse
  BY <1>1 DEF Refuse, TypeOK
<1>2. ASSUME NEW r \in Requests, Begin(r) PROVE TypeOK'
  <2>1. r \in Seq(BlockInfo) /\ r # <<>> /\ Len(r) \in Nat \ {0} /\ DOMAIN r = 1..Len(r)
    BY BlockAssumption
  <2>2. r[1] \in BlockInfo
    BY <2>1
  <2>3. reqsize' \in 0..SIZE_MAX /\ ends' = <<reqsize'>>
    BY <1>2, <2>2, FirstSizeType, WrapType DEF Begin
  <2>4. ptr' \in [DOMAIN info' -> Pointer] /\ out' \in [DOMAIN info' -> Pointer]
    BY <1>2 DEF Begin, Pointer
  <2>5. ends' \in Seq(0..SIZE_MAX)
    BY <2>3
  <2> QED BY <1>2, <2>1, <2>3, <2>4, <2>5 DEF Begin, TypeOK
<1>3. CASE Measure
  <2>1. info[i] \in BlockInfo /\ i \in 2..Len(info)
    BY <1>3, InfoType DEF Measure, TypeOK
  <2>2. reqsize + Size(info[i]) + Pad(info[i]) \in Int
    BY <2>1, SizeType, PadType, BlockAssumption DEF TypeOK
  <2>3. reqsize' \in 0..SIZE_MAX
    BY <1>3, <2>2, WrapType DEF Measure
  <2>4. ends' \in Seq(0..SIZE_MAX)
    BY <1>3, <2>3 DEF Measure, TypeOK
  <2> QED BY <1>3, <2>1, <2>3, <2>4, InfoType DEF Measure, TypeOK
<1>4. CASE NoMemory
  BY <1>4 DEF NoMemory, TypeOK
<1>5. ASSUME NEW block \in Addresses, Allocate(block) PROVE TypeOK'
  <2>1. block \in 1..SIZE_MAX
    BY BlockAssumption
  <2>2. ptr' \in [DOMAIN info -> Pointer] /\ out' \in [DOMAIN info -> Pointer]
    BY <1>5, <2>1 DEF Allocate, TypeOK, Pointer
  <2>3. i' \in 2..(Len(info) + 1) /\ last' \in 1..(i' - 1)
    BY <1>5, InfoType DEF Allocate, TypeOK
  <2>4. heap' \subseteq [addr : 1..SIZE_MAX, size : 0..SIZE_MAX]
    BY <1>5, <2>1 DEF Allocate, TypeOK
  <2> QED BY <1>5, <2>2, <2>3, <2>4 DEF Allocate, TypeOK
<1>6. CASE PlaceEmpty
  <2>1. ptr' \in [DOMAIN info -> Pointer] /\ out' \in [DOMAIN info -> Pointer]
    BY <1>6 DEF PlaceEmpty, TypeOK, Pointer
  <2> QED BY <1>6, <2>1, InfoType DEF PlaceEmpty, TypeOK
<1>7. CASE Place
  <2>1. info[i] \in BlockInfo /\ info[last] \in BlockInfo /\ i \in 2..Len(info)
        /\ last \in DOMAIN info
    BY <1>7, InfoType DEF Place, TypeOK
  <2>2. ptr[last] + Size(info[last]) \in Int
    <3>1. Size(info[last]) \in Int
      BY <2>1, SizeType, BlockAssumption
    <3>2. ptr[last] \in Pointer
      BY <2>1 DEF TypeOK
    <3>3. ptr[last] \in Int
      BY <3>2, BlockAssumption DEF Pointer, UNSET, NULL
    <3> QED BY <3>1, <3>3
  <2>3. Next2 \in 0..SIZE_MAX
    BY <2>2, WrapType DEF Next2
  <2>4. Aligned2 \in Pointer
    BY <2>1, <2>3, AlignType, BlockAssumption DEF Aligned2, Pointer, NULL
  <2>5. ptr' \in [DOMAIN info -> Pointer] /\ out' \in [DOMAIN info -> Pointer]
    BY <1>7, <2>4 DEF Place, TypeOK
  <2> QED BY <1>7, <2>1, <2>5, InfoType DEF Place, TypeOK
<1>8. CASE RunsOut
  BY <1>8 DEF RunsOut, TypeOK, Pointer
<1>9. CASE Finish
  BY <1>9 DEF Finish, TypeOK
<1>10. CASE Release
  <2>1. heap' \subseteq [addr : 1..SIZE_MAX, size : 0..SIZE_MAX]
    BY <1>10 DEF Release, TypeOK
  <2>2. ptr' \in [DOMAIN info' -> Pointer] /\ out' \in [DOMAIN info' -> Pointer]
    BY <1>10, NoPointers DEF Release
  <2>3. ends' \in Seq(0..SIZE_MAX)
    BY <1>10, NoPointers, Zenon DEF Release
  <2>4. reqsize' \in 0..SIZE_MAX
    BY <1>10, BlockAssumption DEF Release
  <2>5. info' \in Requests \cup {<<>>} /\ pc' = "idle" /\ wrapped' \in BOOLEAN
        /\ ret' = "none"
    BY <1>10, Zenon DEF Release
  <2>6. i' \in Nat \ {0} /\ last' \in Nat \ {0} /\ pc' # "measure"
    BY <1>10, <2>5 DEF Release
  <2> QED BY <2>1, <2>2, <2>3, <2>4, <2>5, <2>6, Zenon DEF TypeOK
<1>11. CASE UNCHANGED vars
  BY <1>11 DEF vars, TypeOK
<1> QED BY <1>1, <1>2, <1>3, <1>4, <1>5, <1>6, <1>7, <1>8, <1>9, <1>10, <1>11 DEF Next

\* Every step of a call leaves sizes, addresses and positions in their ranges
\* (memory.c:174-268), however the sums wrap.
THEOREM TypeCorrect == Spec => []TypeOK
BY TypeInit, TypeNext, PTL DEF Spec
-----------------------------------------------------------------------------
(* Pass 2 against pass 1 *)

\* The last array placed ends inside the allocation: nothing wraps.
LEMMA NextFacts ==
    ASSUME TypeOK, BlockInv, pc = "place", i <= Len(info), ~wrapped
    PROVE  /\ i \in 2..Len(info) /\ info[i] \in BlockInfo /\ info[last] \in BlockInfo
           /\ ptr[1] \in 1..SIZE_MAX /\ ptr[last] \in Nat /\ reqsize \in Nat
           /\ ptr[1] + reqsize <= SIZE_MAX
           /\ Next2 = ptr[last] + Size(info[last]) /\ Next2 \in Nat
           /\ Next2 - ptr[1] \in 0..reqsize
           /\ Space2 = reqsize - (Next2 - ptr[1])
<1>1. /\ i \in 2..Len(info) /\ last \in DOMAIN info
      /\ info[i] \in BlockInfo /\ info[last] \in BlockInfo
  BY InfoType DEF TypeOK
<1>2. reqsize \in Nat /\ SIZE_MAX \in Nat /\ SIZE_MAX + 1 \in Nat \ {0}
  BY BlockAssumption DEF TypeOK
<1>3. /\ ptr[1] \in 1..SIZE_MAX /\ ptr[1] + reqsize <= SIZE_MAX
      /\ last \in PlacedSoFar
  BY DEF BlockInv, PlaceInv
<1>4. /\ ptr[last] >= ptr[1]
      /\ ptr[last] + Size(info[last]) <= ptr[1] + reqsize
  BY <1>3 DEF BlockInv, ArraysPlaced
<1>5. ptr[last] \in Nat
  <2>1. ptr[last] \in Pointer
    BY <1>1 DEF TypeOK
  <2>2. ptr[last] \in Int
    BY <2>1, <1>2 DEF Pointer, UNSET, NULL
  <2> QED BY <2>2, <1>3, <1>4
<1>6. Size(info[last]) \in Nat
  BY <1>1, <1>2, SizeType
<1>7. Next2 = ptr[last] + Size(info[last])
  <2> DEFINE n == ptr[last] + Size(info[last])
  <2>1. n \in Nat /\ n < SIZE_MAX + 1
    BY <1>2, <1>3, <1>4, <1>5, <1>6
  <2> HIDE DEF n
  <2>2. n % (SIZE_MAX + 1) = n
    BY <2>1, <1>2, ModSmall
  <2> QED BY <2>2 DEF Next2, n
<1>8. Next2 \in Nat /\ Next2 - ptr[1] \in 0..reqsize
  BY <1>2, <1>3, <1>4, <1>5, <1>6, <1>7
<1>9. Space2 = reqsize - (Next2 - ptr[1])
  <2> DEFINE n == reqsize - (Next2 - ptr[1])
  <2>1. n \in Nat /\ n < SIZE_MAX + 1
    BY <1>2, <1>3, <1>8
  <2> HIDE DEF n
  <2>2. n % (SIZE_MAX + 1) = n
    BY <2>1, <1>2, ModSmall
  <2> QED BY <2>2 DEF Space2, n
<1> QED BY <1>1, <1>2, <1>3, <1>5, <1>7, <1>8, <1>9

\* Where vsc_align finds room, the array is aligned and inside the allocation.
LEMMA RoomFacts ==
    ASSUME TypeOK, BlockInv, pc = "place", i <= Len(info), ~wrapped, Aligned2 # NULL
    PROVE  /\ Aligned2 = Next2 + Gap(Next2, Alignment(info[i]))
           /\ Aligned2 \in Nat /\ Aligned2 >= Next2
           /\ Aligned2 % Alignment(info[i]) = 0
           /\ Aligned2 + Size(info[i]) <= ptr[1] + reqsize
<1> DEFINE g == Gap(Next2, Alignment(info[i]))
<1>1. /\ Next2 \in Nat /\ info[i] \in BlockInfo /\ Space2 = reqsize - (Next2 - ptr[1])
      /\ ptr[1] \in Nat /\ reqsize \in Nat /\ ptr[1] + reqsize <= SIZE_MAX
      /\ SIZE_MAX + 1 \in Nat \ {0} /\ SIZE_MAX \in Nat
  BY NextFacts, BlockAssumption
<1>2. Alignment(info[i]) \in Nat \ {0} /\ Size(info[i]) \in Nat
  BY <1>1, SizeType
<1>3. g \in Nat /\ (Next2 + g) % Alignment(info[i]) = 0
  BY <1>1, <1>2, GapNat, GapAligns, Zenon
<1>4. /\ Fits(info[i], Next2, Space2)
      /\ Aligned2 = (Next2 + g) % (SIZE_MAX + 1)
  BY DEF Aligned2, Align
<1>5. Size(info[i]) <= Space2 /\ g <= Space2 - Size(info[i])
  BY <1>4 DEF Fits
<1> HIDE DEF g
<1>6. Next2 + g + Size(info[i]) <= ptr[1] + reqsize
  BY <1>1, <1>2, <1>3, <1>5, EndInside
<1>7. Next2 + g \in Nat /\ Next2 + g < SIZE_MAX + 1
  BY <1>1, <1>2, <1>3, <1>6
<1>8. (Next2 + g) % (SIZE_MAX + 1) = Next2 + g
  BY <1>1, <1>7, ModSmall
<1>9. Aligned2 = Next2 + g
  BY <1>4, <1>8
<1> QED BY <1>1, <1>3, <1>6, <1>7, <1>9 DEF g

\* Pass 1 reserved for the array what it needs after the one before it.
LEMMA Reserved ==
    ASSUME TypeOK, BlockInv, pc = "place", i <= Len(info), ~wrapped, FirstIsStrictest
    PROVE  /\ ends[i - 1] \in Nat /\ ends[i] \in Nat /\ ends[i] <= reqsize
           /\ ends[i] = ends[i - 1] + Size(info[i])
                            + Gap(ends[i - 1], Alignment(info[i]))
<1>1. /\ i \in 2..Len(info) /\ Len(info) \in Nat /\ info[1] \in BlockInfo
      /\ Len(ends) = Len(info) /\ ends \in Seq(0..SIZE_MAX) /\ DOMAIN ends = 1..Len(ends)
  BY NextFacts, InfoType DEF BlockInv, MeasureInv, TypeOK
<1>2. ends[i - 1] \in 0..SIZE_MAX /\ ends[i] \in 0..SIZE_MAX
  <2>1. i - 1 \in 1..Len(ends) /\ i \in 1..Len(ends)
    BY <1>1
  <2> QED BY <1>1, <2>1, SeqElement
<1>3. ends[i] <= reqsize
  BY <1>1 DEF BlockInv, MeasureInv
<1>4. ~(reqsize > SIZE_MAX - Alignment(info[1]))
  <2>1. ptr[1] \in Nat \ {0} /\ ptr[1] % Alignment(info[1]) = 0
        /\ ptr[1] + reqsize <= SIZE_MAX /\ reqsize \in Nat /\ SIZE_MAX \in Nat
    BY BlockAssumption DEF BlockInv, PlaceInv, TypeOK
  <2>2. Alignment(info[1]) \in Nat \ {0}
    BY <1>1, SizeType
  <2>3. Alignment(info[1]) <= ptr[1]
    BY <2>1, <2>2, ModSmall
  <2> QED BY <2>1, <2>2, <2>3
<1>5. ends[i] = ends[i - 1] + Size(info[i]) + Gap(ends[i - 1], Alignment(info[i]))
  BY <1>1, <1>4 DEF BlockInv, MeasureInv
<1> QED BY <1>2, <1>3, <1>5, BlockAssumption

\* Both passes pad alike, so pass 2 is no further than pass 1 was.
LEMMA Agrees ==
    ASSUME TypeOK, BlockInv, pc = "place", i <= Len(info), ~wrapped, FirstIsStrictest
    PROVE  Next2 + Gap(Next2, Alignment(info[i])) + Size(info[i]) - ptr[1] <= ends[i]
<1> DEFINE a == Alignment(info[i])
           x == Next2 - ptr[1]
<1>1. /\ info[i] \in BlockInfo /\ i \in 2..Len(info) /\ info[1] \in BlockInfo
      /\ info \in Requests /\ DOMAIN info = 1..Len(info)
  BY NextFacts, InfoType
<1>2. /\ a \in Nat \ {0} /\ Alignment(info[1]) \in Nat \ {0} /\ Size(info[i]) \in Nat
      /\ ends[i] \in Nat
  BY <1>1, SizeType, Reserved
<1>3. ptr[1] \in Nat /\ x \in Nat /\ Next2 = ptr[1] + x
  BY NextFacts
<1>4. ptr[1] % a = 0
  <2>1. ptr[1] % Alignment(info[1]) = 0
    BY DEF BlockInv, PlaceInv
  <2>2. Alignment(info[1]) % a = 0
    BY <1>1, AlignmentAssumption DEF FirstIsStrictest
  <2> QED BY <1>2, <1>3, <2>1, <2>2, AlignedLess
<1>5. ends[i - 1] \in Nat /\ x <= ends[i - 1]
  <2>1. ptr[last] + Size(info[last]) - ptr[1] <= ends[i - 1]
    BY DEF BlockInv, PlaceInv
  <2>2. Next2 = ptr[last] + Size(info[last])
    BY NextFacts
  <2>3. ends[i - 1] \in Nat
    BY Reserved
  <2>4. x = ptr[last] + Size(info[last]) - ptr[1]
    <3>1. ptr[last] \in Int /\ ptr[1] \in Int /\ Size(info[last]) \in Int
      BY NextFacts, SizeType, BlockAssumption
    <3> QED BY <2>2, <3>1
  <2> HIDE DEF x
  <2> QED BY <2>1, <2>3, <2>4, Zenon
<1>6. ends[i] = ends[i - 1] + Size(info[i]) + Gap(ends[i - 1], a)
  BY Reserved
<1> HIDE DEF a, x
<1>7. Gap(Next2, a) = Gap(x, a)
  BY <1>2, <1>3, <1>4, GapFromBase
<1>8. x + Gap(x, a) <= ends[i - 1] + Gap(ends[i - 1], a)
  BY <1>2, <1>3, <1>5, GapMonotone
<1>9. Gap(x, a) \in Nat /\ Gap(ends[i - 1], a) \in Nat
  BY <1>2, <1>3, <1>5, GapNat
<1>10. (ptr[1] + x) + Gap(x, a) + Size(info[i]) - ptr[1]
           <= ends[i - 1] + Size(info[i]) + Gap(ends[i - 1], a)
  BY <1>2, <1>3, <1>5, <1>8, <1>9, SumBound
<1>11. Next2 + Gap(Next2, a) + Size(info[i]) - ptr[1] <= ends[i]
  BY <1>3, <1>6, <1>7, <1>10
<1> QED BY <1>11 DEF a

\* Then pass 2 finds the room: "this should never happen" is right.
LEMMA HasRoom ==
    ASSUME TypeOK, BlockInv, pc = "place", i <= Len(info), ~wrapped, FirstIsStrictest
    PROVE  Aligned2 # NULL
<1> DEFINE g == Gap(Next2, Alignment(info[i]))
<1>1. /\ Next2 \in Nat /\ info[i] \in BlockInfo /\ Space2 = reqsize - (Next2 - ptr[1])
      /\ ptr[1] \in Nat \ {0} /\ reqsize \in Nat /\ ptr[1] + reqsize <= SIZE_MAX
      /\ Next2 - ptr[1] \in Nat
      /\ SIZE_MAX + 1 \in Nat \ {0} /\ SIZE_MAX \in Nat
  <2>1. SIZE_MAX + 1 \in Nat \ {0} /\ SIZE_MAX \in Nat
    BY BlockAssumption
  <2>2. /\ Next2 \in Nat /\ info[i] \in BlockInfo /\ Space2 = reqsize - (Next2 - ptr[1])
        /\ ptr[1] \in 1..SIZE_MAX /\ reqsize \in Nat /\ ptr[1] + reqsize <= SIZE_MAX
        /\ Next2 - ptr[1] \in 0..reqsize
    BY NextFacts, Zenon
  <2> QED BY <2>1, <2>2
<1>2. Alignment(info[i]) \in Nat \ {0} /\ Size(info[i]) \in Nat
  BY <1>1, SizeType
<1>3. g \in Nat
  BY <1>1, <1>2, GapNat
<1>4. Next2 + g + Size(info[i]) - ptr[1] <= ends[i] /\ ends[i] <= reqsize /\ ends[i] \in Nat
  BY Agrees, Reserved
<1>5. Aligned2 = IF Fits(info[i], Next2, Space2) THEN (Next2 + g) % (SIZE_MAX + 1) ELSE NULL
  BY DEF Aligned2, Align
<1>6. /\ Size(info[i]) <= Space2 /\ g <= Space2 - Size(info[i])
      /\ Next2 + g <= ptr[1] + reqsize
  <2> HIDE DEF g
  <2>1. Next2 >= ptr[1]
    BY <1>1
  <2> QED BY <1>1, <1>2, <1>3, <1>4, <2>1, FitsInRest
<1>9. Fits(info[i], Next2, Space2)
  BY <1>6 DEF Fits
<1> HIDE DEF g
<1>7. Next2 + g \in Nat \ {0} /\ Next2 + g < SIZE_MAX + 1
  BY <1>1, <1>3, <1>6
<1>8. (Next2 + g) % (SIZE_MAX + 1) = Next2 + g
  BY <1>1, <1>7, ModSmall
<1> QED BY <1>5, <1>9, <1>7, <1>8 DEF NULL
-----------------------------------------------------------------------------
(* The invariant, one lemma for each action that disturbs it *)

LEMMA BlockInit == Init => BlockInv
BY DEF Init, BlockInv, MeasureInv, PlaceInv, ArraysPlaced, NothingLeaks,
       PassesAgreeWhenFirstIsStrictest, PlacedSoFar

LEMMA BeginKeeps ==
    ASSUME TypeOK, TypeOK', BlockInv, NEW r \in Requests, Begin(r)
    PROVE  BlockInv'
<1>1. r \in Seq(BlockInfo) /\ Len(r) \in Nat \ {0} /\ DOMAIN r = 1..Len(r)
  BY BlockAssumption
<1>2. r[1] \in BlockInfo
  BY <1>1
<1>3. /\ pc' = "measure" /\ info' = r /\ i' = 2 /\ ret' = "none" /\ heap' = heap
      /\ ends' = <<reqsize'>> /\ reqsize' = FirstSize(r[1]) % (SIZE_MAX + 1)
      /\ wrapped' = (FirstSize(r[1]) > SIZE_MAX)
      /\ ptr' = [j \in DOMAIN r |-> UNSET]
  BY DEF Begin
<1>4. heap = {}
  BY DEF Begin, BlockInv, NothingLeaks
<1>5. ~wrapped' => Size(r[1]) <= reqsize'
  <2> SUFFICES ASSUME ~wrapped' PROVE Size(r[1]) <= reqsize'
    OBVIOUS
  <2> DEFINE n == FirstSize(r[1])
  <2>1. n \in Nat /\ Size(r[1]) <= n
    BY <1>2, FirstSizeType
  <2>2. ~(n > SIZE_MAX)
    BY <1>3, Zenon
  <2> HIDE DEF n
  <2>3. n < SIZE_MAX + 1 /\ SIZE_MAX + 1 \in Nat \ {0}
    BY <2>1, <2>2, BlockAssumption
  <2>4. n % (SIZE_MAX + 1) = n
    BY <2>1, <2>3, ModSmall
  <2> QED BY <1>3, <2>1, <2>4 DEF n
<1>6. Len(ends') = 1 /\ ends'[1] = reqsize' /\ DOMAIN ends' = {1} /\ reqsize' \in Nat
  BY <1>3, BlockAssumption DEF TypeOK
<1>7. MeasureInv'
  <2>1. \A j, k \in DOMAIN ends' : j <= k => ends'[j] <= ends'[k]
    BY <1>6
  <2>2. \A k \in 2..Len(ends') : FALSE
    BY <1>6
  <2>3. heap' = {} /\ \A j \in DOMAIN ptr' : ptr'[j] = UNSET
    BY <1>3, <1>4
  <2> QED BY <1>3, <1>5, <1>6, <2>1, <2>2, <2>3 DEF MeasureInv
<1> QED BY <1>3, <1>7 DEF BlockInv, PlaceInv, ArraysPlaced, NothingLeaks,
                          PassesAgreeWhenFirstIsStrictest, PlacedSoFar

\* What pass 1 adds for an array, when the sum does not wrap.
LEMMA MeasureFacts ==
    ASSUME TypeOK, BlockInv, Measure, ~wrapped'
    PROVE  /\ ~wrapped /\ reqsize \in Nat /\ reqsize' \in Nat
           /\ reqsize <= reqsize'
           /\ \/ reqsize' = reqsize + Size(info[i]) + Gap(reqsize, Alignment(info[i]))
              \/ reqsize' > SIZE_MAX - Alignment(info[i])
<1> DEFINE total == reqsize + Size(info[i]) + Pad(info[i])
<1>1. info[i] \in BlockInfo
  BY InfoType DEF Measure, TypeOK
<1>2. /\ Size(info[i]) \in 0..SIZE_MAX /\ Alignment(info[i]) \in Nat \ {0}
      /\ Pad(info[i]) \in Nat
      /\ reqsize \in Nat /\ SIZE_MAX \in Nat /\ SIZE_MAX + 1 \in Nat \ {0}
  BY <1>1, SizeType, PadType, BlockAssumption DEF TypeOK
<1>3. ~wrapped /\ ~(total > SIZE_MAX) /\ reqsize' = total % (SIZE_MAX + 1)
  BY Zenon DEF Measure
<1>4. total \in Nat /\ total < SIZE_MAX + 1 /\ reqsize <= total /\ Size(info[i]) <= total
  BY <1>2, <1>3
<1>5. reqsize' = total
  <2> HIDE DEF total
  <2>1. total % (SIZE_MAX + 1) = total
    BY <1>2, <1>4, ModSmall
  <2> QED BY <1>3, <2>1
<1>6. CASE Fits(info[i], reqsize, SIZE_MAX)
  BY <1>2, <1>3, <1>4, <1>5, <1>6 DEF Pad
<1>7. CASE ~Fits(info[i], reqsize, SIZE_MAX)
  <2> DEFINE g == Gap(reqsize, Alignment(info[i]))
  <2>1. g \in 0..(Alignment(info[i]) - 1)
    BY <1>2, GapAligns
  <2>2. ~(Size(info[i]) <= SIZE_MAX /\ g <= SIZE_MAX - Size(info[i]))
    BY <1>7 DEF Fits
  <2> HIDE DEF g, total
  <2>3. total > SIZE_MAX - Alignment(info[i])
    BY <1>2, <1>4, <2>1, <2>2
  <2> QED BY <1>2, <1>3, <1>4, <1>5, <2>3
<1> QED BY <1>6, <1>7

LEMMA MeasureKeeps ==
    ASSUME TypeOK, TypeOK', BlockInv, Measure
    PROVE  BlockInv'
<1>1. /\ pc = "measure" /\ pc' = "measure" /\ i <= Len(info) /\ i' = i + 1
      /\ info' = info /\ heap' = heap /\ ptr' = ptr /\ ret' = ret
      /\ ends' = Append(ends, reqsize')
  BY DEF Measure
<1>2. /\ i \in 2..Len(info) /\ info[i] \in BlockInfo /\ info[1] \in BlockInfo
      /\ Len(info) \in Nat /\ DOMAIN info = 1..Len(info)
  BY <1>1, InfoType DEF TypeOK
<1>3. /\ ret = "none" /\ Len(ends) = i - 1 /\ reqsize = ends[Len(ends)]
      /\ heap = {} /\ \A j \in DOMAIN ptr : ptr[j] = UNSET
  BY <1>1 DEF BlockInv, MeasureInv
<1>4. /\ ends \in Seq(0..SIZE_MAX) /\ reqsize' \in 0..SIZE_MAX
      /\ DOMAIN ends = 1..(i - 1) /\ DOMAIN ends' = 1..i /\ Len(ends') = i
      /\ ends'[i] = reqsize' /\ \A k \in 1..(i - 1) : ends'[k] = ends[k]
  BY <1>1, <1>2, <1>3 DEF TypeOK
<1>5. ASSUME ~wrapped'
      PROVE  /\ Size(info'[1]) <= ends'[1]
             /\ \A j, k \in DOMAIN ends' : j <= k => ends'[j] <= ends'[k]
             /\ FirstIsStrictest' =>
                   \/ reqsize' > SIZE_MAX - Alignment(info'[1])
                   \/ \A k \in 2..Len(ends') :
                         ends'[k] = ends'[k - 1] + Size(info'[k])
                                      + Gap(ends'[k - 1], Alignment(info'[k]))
  <2>1. /\ ~wrapped /\ reqsize \in Nat /\ reqsize' \in Nat /\ reqsize <= reqsize'
        /\ \/ reqsize' = reqsize + Size(info[i]) + Gap(reqsize, Alignment(info[i]))
           \/ reqsize' > SIZE_MAX - Alignment(info[i])
    BY <1>5, MeasureFacts
  <2>2. /\ Size(info[1]) <= ends[1]
        /\ \A j, k \in DOMAIN ends : j <= k => ends[j] <= ends[k]
    BY <1>1, <2>1 DEF BlockInv, MeasureInv
  <2>3. \A k \in 1..(i - 1) : ends[k] \in Nat /\ ends[k] <= reqsize'
    <3> SUFFICES ASSUME NEW k \in 1..(i - 1)
                 PROVE  ends[k] \in Nat /\ ends[k] <= reqsize'
      OBVIOUS
    <3>1. ends[k] \in 0..SIZE_MAX
      BY <1>3, <1>4, SeqElement
    <3>2. ends[k] <= reqsize
      BY <1>2, <1>3, <1>4, <2>2
    <3> QED BY <2>1, <3>1, <3>2, BlockAssumption
  <2>4. Size(info'[1]) <= ends'[1]
    BY <1>1, <1>2, <1>4, <2>2
  <2>5. \A j, k \in DOMAIN ends' : j <= k => ends'[j] <= ends'[k]
    <3> SUFFICES ASSUME NEW j \in 1..i, NEW k \in 1..i, j <= k
                 PROVE  ends'[j] <= ends'[k]
      BY <1>4
    <3>1. CASE k < i
      BY <1>2, <1>4, <2>2, <3>1
    <3>2. CASE k = i /\ j < i
      <4>1. j \in 1..(i - 1)
        BY <1>2, <3>2
      <4> QED BY <1>4, <2>3, <3>2, <4>1
    <3>3. CASE k = i /\ j = i
      BY <1>4, <2>1, <3>3
    <3> QED BY <1>2, <3>1, <3>2, <3>3
  <2>6. ASSUME FirstIsStrictest', ~(reqsize' > SIZE_MAX - Alignment(info'[1]))
        PROVE  \A k \in 2..Len(ends') :
                  ends'[k] = ends'[k - 1] + Size(info'[k])
                               + Gap(ends'[k - 1], Alignment(info'[k]))
    <3>1. FirstIsStrictest /\ ~(reqsize' > SIZE_MAX - Alignment(info[1]))
      BY <1>1, <2>6 DEF FirstIsStrictest
    <3>2. /\ Alignment(info[i]) \in Nat /\ Alignment(info[1]) \in Nat
          /\ Alignment(info[i]) <= Alignment(info[1]) /\ SIZE_MAX \in Nat
      BY <1>2, <3>1, SizeType, BlockAssumption DEF FirstIsStrictest
    <3>3. reqsize' = reqsize + Size(info[i]) + Gap(reqsize, Alignment(info[i]))
      BY <2>1, <3>1, <3>2
    <3>4. ~(reqsize > SIZE_MAX - Alignment(info[1]))
      BY <2>1, <3>1, <3>2
    <3>5. \A k \in 2..(i - 1) :
             ends[k] = ends[k - 1] + Size(info[k]) + Gap(ends[k - 1], Alignment(info[k]))
      BY <1>1, <1>3, <2>1, <3>1, <3>4 DEF BlockInv, MeasureInv
    <3> SUFFICES ASSUME NEW k \in 2..i
                 PROVE  ends'[k] = ends'[k - 1] + Size(info[k])
                                     + Gap(ends'[k - 1], Alignment(info[k]))
      BY <1>1, <1>4
    <3>6. k - 1 \in 1..(i - 1) /\ ends'[k - 1] = ends[k - 1]
      BY <1>2, <1>4
    <3>7. CASE k < i
      <4>1. k \in 2..(i - 1) /\ ends'[k] = ends[k]
        BY <1>2, <1>4, <3>7
      <4> QED BY <3>5, <3>6, <4>1
    <3>8. CASE k = i
      BY <1>3, <1>4, <3>3, <3>6, <3>8
    <3> QED BY <1>2, <3>7, <3>8
  <2> QED BY <2>4, <2>5, <2>6
<1>6. MeasureInv'
  <2>1. i' - 1 = i
    BY <1>1, <1>2
  <2> QED BY <1>1, <1>3, <1>4, <1>5, <2>1 DEF MeasureInv
<1> QED BY <1>1, <1>3, <1>6 DEF BlockInv, PlaceInv, ArraysPlaced, NothingLeaks,
                          PassesAgreeWhenFirstIsStrictest, PlacedSoFar

LEMMA AllocateKeeps ==
    ASSUME TypeOK, TypeOK', BlockInv, NEW block \in Addresses, Allocate(block)
    PROVE  BlockInv'
<1>1. /\ pc = "measure" /\ pc' = "place" /\ i > Len(info) /\ i' = 2
      /\ info' = info /\ last' = last /\ ret' = ret /\ reqsize' = reqsize
      /\ ends' = ends /\ wrapped' = wrapped
      /\ block % Alignment(info[1]) = 0 /\ block + reqsize <= SIZE_MAX
      /\ heap' = heap \cup {[addr |-> block, size |-> reqsize]}
      /\ ptr' = [ptr EXCEPT ![1] = block]
  BY DEF Allocate, measured
<1>2. /\ Len(info) \in Nat \ {0} /\ DOMAIN info = 1..Len(info) /\ info[1] \in BlockInfo
      /\ i \in Nat /\ i = Len(info) + 1 /\ last = 1
  BY <1>1, InfoType DEF TypeOK
<1>3. /\ ret = "none" /\ Len(ends) = Len(info) /\ reqsize = ends[Len(ends)] /\ heap = {}
      /\ ends \in Seq(0..SIZE_MAX) /\ DOMAIN ends = 1..Len(info)
  BY <1>1, <1>2 DEF BlockInv, MeasureInv, TypeOK
<1>4. /\ block \in 1..SIZE_MAX /\ ptr'[1] = block
      /\ heap' = {[addr |-> ptr'[1], size |-> reqsize]}
  BY <1>1, <1>2, <1>3, BlockAssumption DEF TypeOK
<1>5. PlacedSoFar' = {1}
  BY <1>1, <1>2 DEF PlacedSoFar
<1>6. /\ Size(info[1]) \in Nat /\ ends[1] \in Nat /\ reqsize \in Nat /\ block \in Nat
  <2>1. ends[1] \in 0..SIZE_MAX
    <3>1. 1 \in 1..Len(ends)
      BY <1>2, <1>3
    <3> QED BY <1>3, <3>1, SeqElement
  <2>2. Size(info[1]) \in 0..SIZE_MAX
    BY <1>2, SizeType
  <2> QED BY <1>4, <2>1, <2>2, BlockAssumption DEF TypeOK
<1>7. ~wrapped => Size(info[1]) <= ends[1] /\ ends[1] <= reqsize
  BY <1>1, <1>2, <1>3 DEF BlockInv, MeasureInv
<1>8. MeasureInv'
  BY <1>1, <1>3 DEF BlockInv, MeasureInv, FirstIsStrictest
<1>9. PlaceInv'
  <2>1. ~wrapped' => ptr'[last'] + Size(info'[last']) - ptr'[1] <= ends'[i' - 1]
    BY <1>1, <1>2, <1>4, <1>6, <1>7
  <2> QED BY <1>1, <1>2, <1>4, <1>5, <2>1 DEF PlaceInv
<1>10. ArraysPlaced'
  <2>1. ~wrapped' => ptr'[1] + Size(info'[1]) <= ptr'[1] + reqsize'
    BY <1>1, <1>4, <1>6, <1>7
  <2> QED BY <1>1, <1>4, <1>5, <1>6, <2>1 DEF ArraysPlaced
<1> QED BY <1>1, <1>3, <1>8, <1>9, <1>10
        DEF BlockInv, NothingLeaks, PassesAgreeWhenFirstIsStrictest

\* The pointers of the arrays placed before i, and the first, do not change.
LEMMA PlacedBefore ==
    ASSUME TypeOK, BlockInv, pc = "place", i <= Len(info)
    PROVE  /\ i \in 2..Len(info) /\ last \in 1..(i - 1)
           /\ DOMAIN info = 1..Len(info) /\ Len(info) \in Nat /\ DOMAIN ptr = 1..Len(info)
           /\ info[i] \in BlockInfo
           /\ PlacedSoFar = {j \in DOMAIN info : j < i /\ (j = 1 \/ Size(info[j]) # 0)}
           /\ 1 \in PlacedSoFar /\ PlacedSoFar \subseteq 1..(i - 1)
           /\ last \in PlacedSoFar /\ \A j \in PlacedSoFar : j <= last
           /\ Len(ends) = Len(info) /\ ends \in Seq(0..SIZE_MAX)
           /\ DOMAIN ends = 1..Len(info) /\ ret = "none"
<1>1. /\ i \in 2..Len(info) /\ last \in 1..(i - 1) /\ info[i] \in BlockInfo
      /\ DOMAIN info = 1..Len(info) /\ Len(info) \in Nat /\ DOMAIN ptr = 1..Len(info)
  BY InfoType DEF TypeOK
<1>2. PlacedSoFar = {j \in DOMAIN info : j < i /\ (j = 1 \/ Size(info[j]) # 0)}
  BY DEF PlacedSoFar
<1>3. last \in PlacedSoFar /\ \A j \in PlacedSoFar : j <= last
  BY DEF BlockInv, PlaceInv
<1>4. Len(ends) = Len(info) /\ ends \in Seq(0..SIZE_MAX) /\ ret = "none"
  BY DEF BlockInv, MeasureInv, TypeOK
<1> QED BY <1>1, <1>2, <1>3, <1>4

LEMMA PlaceEmptyKeeps ==
    ASSUME TypeOK, TypeOK', BlockInv, PlaceEmpty
    PROVE  BlockInv'
<1>1. /\ pc = "place" /\ pc' = "place" /\ i <= Len(info) /\ i' = i + 1
      /\ Size(info[i]) = 0 /\ ptr' = [ptr EXCEPT ![i] = NULL]
      /\ info' = info /\ last' = last /\ ret' = ret /\ reqsize' = reqsize
      /\ ends' = ends /\ wrapped' = wrapped /\ heap' = heap
  BY DEF PlaceEmpty, measured
<1>2. /\ i \in 2..Len(info) /\ last \in 1..(i - 1)
      /\ DOMAIN info = 1..Len(info) /\ Len(info) \in Nat /\ DOMAIN ptr = 1..Len(info)
      /\ PlacedSoFar = {j \in DOMAIN info : j < i /\ (j = 1 \/ Size(info[j]) # 0)}
      /\ 1 \in PlacedSoFar /\ PlacedSoFar \subseteq 1..(i - 1)
      /\ last \in PlacedSoFar /\ \A j \in PlacedSoFar : j <= last
      /\ Len(ends) = Len(info) /\ ends \in Seq(0..SIZE_MAX)
      /\ DOMAIN ends = 1..Len(info) /\ ret = "none"
  BY <1>1, PlacedBefore
<1>3. PlacedSoFar' = PlacedSoFar
  <2>1. PlacedSoFar' = {j \in DOMAIN info : j < i + 1 /\ (j = 1 \/ Size(info[j]) # 0)}
    BY <1>1 DEF PlacedSoFar
  <2> QED BY <1>1, <1>2, <2>1
<1>4. \A j \in PlacedSoFar : ptr'[j] = ptr[j]
  BY <1>1, <1>2
<1>5. MeasureInv'
  BY <1>1, <1>2 DEF BlockInv, MeasureInv, FirstIsStrictest
<1>6. PlaceInv'
  <2>1. ASSUME FirstIsStrictest', ~wrapped'
        PROVE  ptr'[last'] + Size(info'[last']) - ptr'[1] <= ends'[i' - 1]
    <3>1. FirstIsStrictest /\ ~wrapped
      BY <1>1, <2>1 DEF FirstIsStrictest
    <3>2. ptr[last] + Size(info[last]) - ptr[1] <= ends[i - 1]
      BY <1>1, <3>1 DEF BlockInv, PlaceInv
    <3>3. ends[i - 1] <= ends[i]
      BY <1>1, <1>2, <3>1 DEF BlockInv, MeasureInv
    <3>4. /\ ends[i - 1] \in Nat /\ ends[i] \in Nat /\ Size(info[last]) \in Int
          /\ ptr[last] \in Int /\ ptr[1] \in Int
      <4>1. ends[i - 1] \in Nat /\ ends[i] \in Nat
        BY <1>1, <3>1, Reserved
      <4>2. /\ ptr[last] \in Nat /\ ptr[1] \in 1..SIZE_MAX /\ info[last] \in BlockInfo
            /\ SIZE_MAX \in Nat
        BY <1>1, <3>1, NextFacts, BlockAssumption
      <4>3. Size(info[last]) \in 0..SIZE_MAX
        BY <4>2, SizeType
      <4> QED BY <4>1, <4>2, <4>3
    <3>5. i' - 1 = i
      BY <1>1, <1>2
    <3> QED BY <1>1, <1>2, <1>4, <3>2, <3>3, <3>4, <3>5
  <2> QED BY <1>1, <1>2, <1>3, <1>4, <2>1 DEF BlockInv, PlaceInv
<1>7. ArraysPlaced'
  BY <1>1, <1>2, <1>3, <1>4 DEF BlockInv, ArraysPlaced
<1> QED BY <1>1, <1>2, <1>5, <1>6, <1>7
        DEF BlockInv, NothingLeaks, PassesAgreeWhenFirstIsStrictest

LEMMA PlaceKeeps ==
    ASSUME TypeOK, TypeOK', BlockInv, Place
    PROVE  BlockInv'
<1>1. /\ pc = "place" /\ pc' = "place" /\ i <= Len(info) /\ i' = i + 1
      /\ Size(info[i]) # 0 /\ Aligned2 # NULL /\ ptr' = [ptr EXCEPT ![i] = Aligned2]
      /\ info' = info /\ last' = i /\ ret' = ret /\ reqsize' = reqsize
      /\ ends' = ends /\ wrapped' = wrapped /\ heap' = heap
  BY DEF Place, measured
<1>2. /\ i \in 2..Len(info) /\ last \in 1..(i - 1) /\ info[i] \in BlockInfo
      /\ DOMAIN info = 1..Len(info) /\ Len(info) \in Nat /\ DOMAIN ptr = 1..Len(info)
      /\ PlacedSoFar = {j \in DOMAIN info : j < i /\ (j = 1 \/ Size(info[j]) # 0)}
      /\ 1 \in PlacedSoFar /\ PlacedSoFar \subseteq 1..(i - 1)
      /\ last \in PlacedSoFar /\ \A j \in PlacedSoFar : j <= last
      /\ Len(ends) = Len(info) /\ ends \in Seq(0..SIZE_MAX)
      /\ DOMAIN ends = 1..Len(info) /\ ret = "none"
  BY <1>1, PlacedBefore
<1>3. PlacedSoFar' = PlacedSoFar \cup {i}
  <2>1. PlacedSoFar' = {j \in DOMAIN info : j < i + 1 /\ (j = 1 \/ Size(info[j]) # 0)}
    BY <1>1 DEF PlacedSoFar
  <2> QED BY <1>1, <1>2, <2>1
<1>4. ptr'[i] = Aligned2 /\ \A j \in PlacedSoFar : j # i /\ ptr'[j] = ptr[j]
  BY <1>1, <1>2
<1>5. MeasureInv'
  BY <1>1, <1>2 DEF BlockInv, MeasureInv, FirstIsStrictest
<1>6. ~wrapped =>
        /\ Aligned2 = Next2 + Gap(Next2, Alignment(info[i])) /\ Aligned2 \in Nat
        /\ Aligned2 >= Next2 /\ Aligned2 % Alignment(info[i]) = 0
        /\ Aligned2 + Size(info[i]) <= ptr[1] + reqsize
        /\ Next2 = ptr[last] + Size(info[last]) /\ ptr[1] \in Nat /\ Next2 \in Nat
        /\ Next2 >= ptr[1] /\ ptr[last] \in Nat /\ reqsize \in Nat
        /\ Size(info[i]) \in Nat /\ Size(info[last]) \in Nat
  <2> SUFFICES ASSUME ~wrapped
               PROVE  /\ Next2 = ptr[last] + Size(info[last]) /\ ptr[1] \in Nat
                      /\ Next2 \in Nat /\ Next2 >= ptr[1] /\ ptr[last] \in Nat
                      /\ reqsize \in Nat /\ Size(info[i]) \in Nat
                      /\ Size(info[last]) \in Nat
    BY <1>1, RoomFacts
  <2>1. /\ Next2 = ptr[last] + Size(info[last]) /\ Next2 \in Nat /\ ptr[last] \in Nat
        /\ reqsize \in Nat /\ ptr[1] \in Nat /\ Next2 - ptr[1] \in Nat
        /\ info[i] \in BlockInfo /\ info[last] \in BlockInfo
    BY <1>1, NextFacts
  <2> QED BY <2>1, SizeType
<1>7. PlaceInv'
  <2>1. ASSUME FirstIsStrictest', ~wrapped'
        PROVE  ptr'[last'] + Size(info'[last']) - ptr'[1] <= ends'[i' - 1]
    <3>1. FirstIsStrictest /\ ~wrapped
      BY <1>1, <2>1 DEF FirstIsStrictest
    <3>2. Next2 + Gap(Next2, Alignment(info[i])) + Size(info[i]) - ptr[1] <= ends[i]
      BY <1>1, <3>1, Agrees
    <3>3. Gap(Next2, Alignment(info[i])) \in Nat
      <4>1. Next2 \in Nat
        BY <1>6, <3>1
      <4>2. Alignment(info[i]) \in Nat \ {0}
        BY <1>2, SizeType
      <4> QED BY <4>1, <4>2, GapNat
    <3>4. Aligned2 + Size(info[i]) - ptr[1] <= ends[i]
      BY <1>6, <3>1, <3>2, <3>3
    <3>5. i' - 1 = i
      BY <1>1, <1>2
    <3> QED BY <1>1, <1>2, <1>4, <3>4, <3>5
  <2>2. last' \in PlacedSoFar' /\ \A j \in PlacedSoFar' : j <= last'
    BY <1>1, <1>2, <1>3
  <2>3. ptr'[1] = ptr[1]
    BY <1>2, <1>4
  <2> QED BY <1>1, <2>1, <2>2, <2>3 DEF BlockInv, PlaceInv
<1>8. ArraysPlaced'
  <2> SUFFICES ASSUME ~wrapped'
               PROVE  /\ \A j \in PlacedSoFar \cup {i} :
                            /\ [addr |-> ptr'[1], size |-> reqsize] \in heap
                            /\ ptr'[j] % Alignment(info[j]) = 0
                            /\ ptr'[j] >= ptr'[1]
                            /\ ptr'[j] + Size(info[j]) <= ptr'[1] + reqsize
                      /\ \A j, k \in PlacedSoFar \cup {i} :
                            j < k => ptr'[j] + Size(info[j]) <= ptr'[k]
    BY <1>1, <1>3 DEF ArraysPlaced
  <2>1. ~wrapped /\ ptr'[1] = ptr[1]
    BY <1>1, <1>2, <1>4
  <2>2. /\ \A j \in PlacedSoFar :
              /\ [addr |-> ptr[1], size |-> reqsize] \in heap
              /\ ptr[j] % Alignment(info[j]) = 0
              /\ ptr[j] >= ptr[1] /\ ptr[j] + Size(info[j]) <= ptr[1] + reqsize
        /\ \A j, k \in PlacedSoFar : j < k => ptr[j] + Size(info[j]) <= ptr[k]
    BY <2>1 DEF BlockInv, ArraysPlaced
  <2>3. \A j \in PlacedSoFar : ptr[j] + Size(info[j]) <= Aligned2
    <3> SUFFICES ASSUME NEW j \in PlacedSoFar PROVE ptr[j] + Size(info[j]) <= Aligned2
      OBVIOUS
    <3>1. CASE j = last
      BY <1>6, <2>1, <3>1
    <3>2. CASE j < last
      <4>1. ptr[j] + Size(info[j]) <= ptr[last]
        BY <1>2, <2>2, <3>2
      <4>2. ptr[j] \in Int /\ Size(info[j]) \in Int
        <5>1. ptr[j] \in Pointer /\ info[j] \in BlockInfo
          BY <1>1, <1>2, InfoType DEF TypeOK
        <5>2. Size(info[j]) \in Int
          BY <5>1, SizeType, BlockAssumption
        <5>3. ptr[j] \in Int
          BY <5>1, BlockAssumption DEF Pointer, UNSET, NULL
        <5> QED BY <5>2, <5>3
      <4> QED BY <1>6, <2>1, <4>1, <4>2
    <3> QED BY <1>2, <3>1, <3>2
  <2>4. ASSUME NEW j \in PlacedSoFar \cup {i}
        PROVE  /\ [addr |-> ptr'[1], size |-> reqsize] \in heap
               /\ ptr'[j] % Alignment(info[j]) = 0
               /\ ptr'[j] >= ptr'[1]
               /\ ptr'[j] + Size(info[j]) <= ptr'[1] + reqsize
    <3>1. CASE j \in PlacedSoFar
      BY <1>4, <2>1, <2>2, <3>1
    <3>2. CASE j = i
      BY <1>2, <1>4, <1>6, <2>1, <2>2, <3>2
    <3> QED BY <3>1, <3>2
  <2>5. ASSUME NEW j \in PlacedSoFar \cup {i}, NEW k \in PlacedSoFar \cup {i}, j < k
        PROVE  ptr'[j] + Size(info[j]) <= ptr'[k]
    <3>1. j \in PlacedSoFar
      BY <1>2, <2>5
    <3>2. CASE k \in PlacedSoFar
      BY <1>4, <2>2, <2>5, <3>1, <3>2
    <3>3. CASE k = i
      BY <1>4, <2>3, <3>1, <3>3
    <3> QED BY <3>2, <3>3
  <2> QED BY <2>4, <2>5
<1> QED BY <1>1, <1>2, <1>5, <1>7, <1>8
        DEF BlockInv, NothingLeaks, PassesAgreeWhenFirstIsStrictest

LEMMA RunsOutKeeps ==
    ASSUME TypeOK, TypeOK', BlockInv, RunsOut
    PROVE  BlockInv'
<1>1. /\ pc = "place" /\ i <= Len(info) /\ Aligned2 = NULL
      /\ heap' = {h \in heap : h.addr # ptr[1]} /\ ptr' = [j \in DOMAIN info |-> NULL]
      /\ pc' = "idle" /\ ret' = "ENOSPC" /\ info' = info /\ wrapped' = wrapped
  BY DEF RunsOut, measured
<1>2. heap = {[addr |-> ptr[1], size |-> reqsize]}
  BY <1>1 DEF BlockInv, PlaceInv
<1>3. heap' = {} /\ \A j \in DOMAIN ptr' : ptr'[j] \in {NULL, UNSET}
  BY <1>1, <1>2
<1>4. ~(FirstIsStrictest /\ ~wrapped)
  BY <1>1, HasRoom
<1>5. PassesAgreeWhenFirstIsStrictest'
  BY <1>1, <1>4 DEF PassesAgreeWhenFirstIsStrictest, FirstIsStrictest
<1> QED BY <1>1, <1>3, <1>5
        DEF BlockInv, MeasureInv, PlaceInv, ArraysPlaced, NothingLeaks, PlacedSoFar

LEMMA FinishKeeps ==
    ASSUME TypeOK, TypeOK', BlockInv, Finish
    PROVE  BlockInv'
<1>1. /\ pc = "place" /\ i > Len(info) /\ pc' = "idle" /\ ret' = "0"
      /\ info' = info /\ i' = i /\ reqsize' = reqsize /\ wrapped' = wrapped
      /\ heap' = heap /\ ptr' = ptr
  BY DEF Finish, measured
<1>2. PlacedSoFar' = PlacedSoFar
  BY <1>1 DEF PlacedSoFar
<1>3. ArraysPlaced'
  BY <1>1, <1>2 DEF BlockInv, ArraysPlaced
<1> QED BY <1>1, <1>3 DEF BlockInv, MeasureInv, PlaceInv, NothingLeaks,
                          PassesAgreeWhenFirstIsStrictest

LEMMA ReleaseKeeps ==
    ASSUME TypeOK, TypeOK', BlockInv, Release
    PROVE  BlockInv'
<1>1. /\ pc = "idle" /\ pc' = "idle" /\ ret' = "none" /\ ptr' = <<>>
      /\ heap' = IF ret = "0" THEN {h \in heap : h.addr # ptr[1]} ELSE heap
  BY DEF Release
<1>2. heap' = {}
  BY <1>1 DEF BlockInv, NothingLeaks
<1> QED BY <1>1, <1>2 DEF BlockInv, MeasureInv, PlaceInv, ArraysPlaced, NothingLeaks,
                          PassesAgreeWhenFirstIsStrictest, PlacedSoFar

\* A refusal, or no memory: nothing was allocated.
LEMMA FailureKeeps ==
    ASSUME TypeOK, TypeOK', BlockInv, Refuse \/ NoMemory
    PROVE  BlockInv'
<1>1. /\ pc' = "idle" /\ ret' \in {"EINVAL", "ENOMEM"} /\ heap' = heap /\ ptr' = ptr
      /\ pc = "measure" \/ (pc = "idle" /\ ret = "none")
  BY DEF Refuse, NoMemory
<1>2. heap = {} /\ \A j \in DOMAIN ptr : ptr[j] \in {NULL, UNSET}
  BY <1>1 DEF BlockInv, MeasureInv, NothingLeaks
<1> QED BY <1>1, <1>2 DEF BlockInv, MeasureInv, PlaceInv, ArraysPlaced, NothingLeaks,
                          PassesAgreeWhenFirstIsStrictest, PlacedSoFar

LEMMA BlockNext == TypeOK /\ TypeOK' /\ BlockInv /\ [Next]_vars => BlockInv'
<1> SUFFICES ASSUME TypeOK, TypeOK', BlockInv, [Next]_vars PROVE BlockInv'
  OBVIOUS
<1>1. CASE Refuse \/ NoMemory
  BY <1>1, FailureKeeps
<1>2. ASSUME NEW r \in Requests, Begin(r) PROVE BlockInv'
  BY <1>2, BeginKeeps
<1>3. CASE Measure
  BY <1>3, MeasureKeeps
<1>4. ASSUME NEW block \in Addresses, Allocate(block) PROVE BlockInv'
  BY <1>4, AllocateKeeps
<1>5. CASE PlaceEmpty
  BY <1>5, PlaceEmptyKeeps
<1>6. CASE Place
  BY <1>6, PlaceKeeps
<1>7. CASE RunsOut
  BY <1>7, RunsOutKeeps
<1>8. CASE Finish
  BY <1>8, FinishKeeps
<1>9. CASE Release
  BY <1>9, ReleaseKeeps
<1>10. CASE UNCHANGED vars
  BY <1>10 DEF vars, measured, BlockInv, MeasureInv, PlaceInv, ArraysPlaced,
               NothingLeaks, PassesAgreeWhenFirstIsStrictest, PlacedSoFar,
               FirstIsStrictest
<1> QED BY <1>1, <1>2, <1>3, <1>4, <1>5, <1>6, <1>7, <1>8, <1>9, <1>10 DEF Next
-----------------------------------------------------------------------------
(* The theorems *)

\* The two passes of vsc_block_xalloc (memory.c:186-268) keep the invariant.
THEOREM Invariant == Spec => []BlockInv
<1>1. Init => TypeOK /\ BlockInv
  BY TypeInit, BlockInit
<1>2. (TypeOK /\ BlockInv) /\ [Next]_vars => (TypeOK /\ BlockInv)'
  BY TypeNext, BlockNext
<1> QED BY <1>1, <1>2, PTL DEF Spec

\* Every array handed out is aligned, inside the allocation, and disjoint from
\* the others, wherever the allocator puts it (memory.c:240-264).
THEOREM PlacedRight == Spec => []ArraysPlaced
<1>1. BlockInv => ArraysPlaced
  BY DEF BlockInv
<1> QED BY <1>1, Invariant, PTL

\* A failed call keeps no memory, a successful one a single allocation that its
\* first pointer frees (memory.c:212-255).
THEOREM NoLeak == Spec => []NothingLeaks
<1>1. BlockInv => NothingLeaks
  BY DEF BlockInv
<1> QED BY <1>1, Invariant, PTL

\* Pass 2 runs out of space only if some array is aligned more strictly than the
\* first, or the sum has wrapped (memory.c:205, 247).
THEOREM PassesDoAgree == Spec => []PassesAgreeWhenFirstIsStrictest
<1>1. BlockInv => PassesAgreeWhenFirstIsStrictest
  BY DEF BlockInv
<1> QED BY <1>1, Invariant, PTL
=============================================================================
