------------------------ MODULE VscMemoryHeap_proofs ------------------------
(***************************************************************************)
(* vsclib's memory functions keep the promise of VscHeap, within the terms *)
(* of use: where the words of a block are after each write malloc_ makes,  *)
(* and that every step is one of VscHeap or a stutter.                     *)
(***************************************************************************)
EXTENDS VscMemory_proofs

\* The words of h2 from p2 on are n of those of h from p on.
Copies(h, h2, p, p2, n) == \A k \in 1..n : h2.mem[p2 + k - 1] = h.mem[p + k - 1]
-----------------------------------------------------------------------------
(* malloc_                                                                 *)

LEMMA MovedCopies ==
    ASSUME NEW h \in Heaps, NEW old \in Bases, NEW new \in Bases, NEW n \in 1..Room,
           NEW k \in 1..n, k <= h.chunk[old]
    PROVE  Moved(h, old, new, n).mem[new + k - 1] = h.mem[old + k - 1]
<1> DEFINE left == IF old = NULL THEN h ELSE Free(h, old)
           kept(j) == IF old # NULL /\ j <= h.chunk[old] THEN h.mem[old + j - 1] ELSE Junk
           words == [j \in 1..n |-> kept(j)]
<1>1. Moved(h, old, new, n).mem = Put(left.mem, new, n, words)
  BY DEF Moved
<1>2. /\ new \in Nat /\ Room \in Nat /\ n <= Room /\ n \in Nat /\ new..(new + Room - 1) \subseteq Addresses
      /\ old # NULL
  BY BaseFacts, MemoryAssumption DEF NULL
<1>3. words[k] = h.mem[old + k - 1]
  BY <1>2
<1>4. new + k - 1 \in Addresses /\ new + k - 1 \in new..(new + n - 1) /\ (new + k - 1) - new + 1 = k
  BY <1>2
<1> HIDE DEF words, left
<1>5. Put(left.mem, new, n, words)[new + k - 1] = words[k]
  BY <1>4 DEF Put
<1> QED BY <1>1, <1>3, <1>5

LEMMA ZeroFromZeroes ==
    ASSUME NEW h \in Heaps, NEW p \in Nat, NEW from \in Nat, NEW to \in Nat, NEW x \in Addresses,
           x \in (p + from)..(p + to - 1)
    PROVE  ZeroFrom(h, p, from, to).mem[x] = Word(0)
<1> DEFINE words == [k \in 1..(to - from) |-> Word(0)]
<1>1. ~(from >= to) /\ x - (p + from) + 1 \in 1..(to - from)
      /\ x \in (p + from)..(p + from + (to - from) - 1)
  OBVIOUS
<1>2. ZeroFrom(h, p, from, to) = [h EXCEPT !.mem = Put(h.mem, p + from, to - from, words)]
  BY <1>1 DEF ZeroFrom
<1>3. words[x - (p + from) + 1] = Word(0)
  BY <1>1
<1> HIDE DEF words
<1>4. ZeroFrom(h, p, from, to).mem = Put(h.mem, p + from, to - from, words)
  BY <1>2 DEF Heaps
<1>5. Put(h.mem, p + from, to - from, words)[x] = words[x - (p + from) + 1]
  BY <1>1 DEF Put
<1> QED BY <1>3, <1>4, <1>5

FilledWith(h, r, size, from, zero) ==
    \A k \in 1..size :
       r.heap.mem[r.ptr + k - 1] = IF zero /\ k > from THEN Word(0) ELSE h.mem[r.ptr + k - 1]

\* Where the padding stays the same, malloc_ leaves the words its chunk had, and
\* zeroes those behind the old size if asked to.
LEMMA FillChunkData ==
    ASSUME NEW h \in Heaps, NEW hdr \in Bases, NEW size \in 0..SIZE_MAX, NEW alignment \in Nat \ {0},
           NEW zero \in BOOLEAN, NEW moves \in BOOLEAN, NEW old, old.size \in Nat,
           h.chunk[hdr] = HEADER + size + alignment,
           moves => old.shift = Mem(hdr, alignment) - hdr,
           NEW r, r = FillChunk(h, hdr, size, alignment, zero, old, moves)
    PROVE  r.ptr = Mem(hdr, alignment) /\ FilledWith(h, r, size, old.size, zero)
<1> DEFINE p     == Mem(hdr, alignment)
           space == h.chunk[hdr] - (p - hdr)
           used  == IF moves /\ old.shift # p - hdr THEN old.size ELSE 0
           top   == IF zero /\ size > old.size THEN size ELSE 0
           m1    == WriteHeader(h, hdr, size, alignment)
           m2    == IF moves THEN MoveData(m1, hdr, old.shift, p, old.size) ELSE m1
           m3    == IF zero THEN ZeroFrom(m2, p, old.size, size) ELSE m2
           bad   == \/ used > space \/ top > space \/ space < 0
                    \/ used > 0 /\ old.shift + used > h.chunk[hdr]
<1>1. FillChunk(h, hdr, size, alignment, zero, old, moves).ret = "0"
  BY FillChunkDefined
<1>2. r = Outcome("0", p, Tidied(m3, hdr, p, size))
  <2>1. CASE bad
    <3>1. r = Outcome("undefined", NULL, h)
      BY <2>1 DEF FillChunk
    <3>2. r.ret = "undefined" /\ r.ret = "0"
      BY <1>1, <3>1, OutcomeParts
    <3> QED BY <3>2
  <2>2. CASE ~bad
    BY <2>2 DEF FillChunk
  <2> QED BY <2>1, <2>2
<1>3. /\ hdr \in Nat /\ p \in Nat /\ hdr + HEADER <= p /\ p < hdr + HEADER + alignment /\ HEADER = 3 /\ Room \in Nat
      /\ hdr..(hdr + Room - 1) \subseteq Addresses /\ SIZE_MAX \in Nat /\ size \in Nat
      /\ h.chunk[hdr] \in Nat /\ h.chunk[hdr] <= Room
  BY BaseFacts, MemRange, HeapParts, MemoryAssumption DEF HEADER
<1>4. /\ m1 \in Heaps /\ m1.chunk = h.chunk
      /\ \A x \in Addresses : x \notin hdr..(p - 1) => m1.mem[x] = h.mem[x]
  <2> HIDE DEF m1, p
  <2>1. m1 = WriteHeader(h, hdr, size, alignment) /\ p = Mem(hdr, alignment)
    BY DEF m1, p
  <2> QED BY <2>1, WriteHeaderFacts
<1>5. m2 = m1
  BY DEF MoveData
<1> HIDE DEF m1, m2, p
<1>6. /\ m3 \in Heaps /\ m3.chunk = h.chunk
      /\ \A x \in Addresses :
            m3.mem[x] = IF zero /\ x \in (p + old.size)..(p + size - 1) THEN Word(0) ELSE m1.mem[x]
  <2>1. CASE ~zero
    <3>1. m3 = m1
      BY <1>5, <2>1
    <3> HIDE DEF m3
    <3> QED BY <1>4, <2>1, <3>1
  <2>2. CASE zero
    <3>1. m3 = ZeroFrom(m1, p, old.size, size)
      BY <1>5, <2>2
    <3> HIDE DEF m3
    <3>2. Touches(m1, m3, p + old.size, IF old.size >= size THEN 0 ELSE size - old.size)
      BY <1>3, <1>4, <3>1, ZeroFromFacts
    <3>3. ASSUME NEW x \in Addresses
          PROVE  m3.mem[x] = IF x \in (p + old.size)..(p + size - 1) THEN Word(0) ELSE m1.mem[x]
      <4>1. CASE x \in (p + old.size)..(p + size - 1)
        <5>1. m1 \in Heaps /\ p \in Nat /\ old.size \in Nat /\ size \in Nat
          BY <1>3, <1>4, Zenon
        <5> HIDE DEF m1, p
        <5> QED BY <3>1, <4>1, <5>1, ZeroFromZeroes
      <4>2. CASE x \notin (p + old.size)..(p + size - 1)
        <5>1. x \notin (p + old.size)..(p + old.size + (IF old.size >= size THEN 0 ELSE size - old.size) - 1)
          BY <1>3, <4>2, AddressNat
        <5> QED BY <3>2, <4>2, <5>1 DEF Touches
      <4> QED BY <4>1, <4>2
    <3> QED BY <1>4, <2>2, <3>2, <3>3 DEF Touches
  <2> QED BY <2>1, <2>2
<1> HIDE DEF m3
<1>7. r.ptr = p /\ r.heap = Tidied(m3, hdr, p, size)
  BY <1>2, OutcomeParts
<1>8. ASSUME NEW k \in 1..size
      PROVE  r.heap.mem[r.ptr + k - 1] = IF zero /\ k > old.size THEN Word(0) ELSE h.mem[r.ptr + k - 1]
  <2> DEFINE x == p + k - 1
  <2>1. /\ x \in Addresses /\ x \in (p - 1)..(p + size - 1) /\ x \notin hdr..(p - 1)
        /\ x \in (p + old.size)..(p + size - 1) <=> k > old.size
    BY <1>3
  <2> HIDE DEF x
  <2>2. Tidied(m3, hdr, p, size).mem[x] = m3.mem[x]
    <3> DEFINE t == Tidied(m3, hdr, p, size)
    <3>1. \A y \in Addresses : y \in (hdr..(hdr + HEADER - 1)) \cup ((p - 1)..(p + size - 1)) => t.mem[y] = m3.mem[y]
      <4>1. m3 \in Heaps /\ p \in Nat /\ size \in Nat /\ hdr + HEADER <= p
        BY <1>3, <1>6
      <4> HIDE DEF t
      <4>2. t = Tidied(m3, hdr, p, size)
        BY DEF t
      <4> QED BY <4>1, <4>2, TidiedFacts
    <3> HIDE DEF t
    <3>2. t.mem[x] = m3.mem[x]
      BY <2>1, <3>1
    <3> QED BY <3>2 DEF t
  <2>3. r.heap.mem[x] = IF zero /\ k > old.size THEN Word(0) ELSE h.mem[x]
    BY <1>4, <1>6, <1>7, <2>1, <2>2
  <2> QED BY <1>7, <2>3 DEF x
<1> QED BY <1>7, <1>8 DEF p, FilledWith

\* The first had words at p2 are those that were at p, and zeros follow if asked for.
Grown(h, h2, p, p2, had, size, zero) ==
    \A k \in 1..size :
        IF k <= had THEN h2.mem[p2 + k - 1] = h.mem[p + k - 1] ELSE zero => h2.mem[p2 + k - 1] = Word(0)

Had(h, ptr, flags) == IF Reallocs(ptr, flags) THEN HdrSize(h, Hdr(h, ptr)) ELSE 0

LEMMA MallocData ==
    ASSUME NEW h \in Heaps, NEW ptr, NEW size \in 0..SIZE_MAX, NEW alignment \in Nat \ {0}, NEW flags,
           Reallocs(ptr, flags) => /\ Describes(h, Hdr(h, ptr), ptr) /\ Fitting(h, ptr)
                                   /\ KeepsPadding(h, ptr, alignment),
           HEADER + size + alignment <= SIZE_MAX,
           NEW r \in malloc_(h, ptr, size, alignment, flags), r.ret = "0"
    PROVE  Grown(h, r.heap, ptr, r.ptr, Had(h, ptr, flags), size, "ZERO" \in flags)
<1> DEFINE reallocs == Reallocs(ptr, flags)
           hdr      == IF reallocs THEN Hdr(h, ptr) ELSE NULL
           old      == IF reallocs THEN [shift |-> ptr - hdr, size |-> HdrSize(h, hdr)]
                                   ELSE [shift |-> 0, size |-> 0]
           reqsize  == Reqsize(size, alignment)
           zero     == "ZERO" \in flags
<1>1. HEADER = 3 /\ SIZE_MAX \in Nat /\ size \in Nat
  BY MemoryAssumption DEF HEADER
<1>2. reqsize = HEADER + size + alignment /\ reqsize # 0
  <2>1. size + HEADER + alignment <= SIZE_MAX
    BY <1>1
  <2> QED BY <1>1, <2>1, ReqsizeFacts
<1>3. /\ reallocs => ~(alignment < HdrAlignment(h, hdr))
      /\ \E q \in Reallocated(h, hdr, reqsize) :
            r = FillChunk(q.heap, q.base, size, alignment, zero, old, reallocs)
  <2>1. \/ r = Outcome("EINVAL", ptr, h) \/ r = Outcome("ENOMEM", ptr, h)
        \/ /\ reallocs => ~(alignment < HdrAlignment(h, hdr))
           /\ \E q \in Reallocated(h, hdr, reqsize) :
                 r = FillChunk(q.heap, q.base, size, alignment, zero, old, reallocs)
    BY <1>2, Zenon DEF malloc_, Reallocs
  <2>2. ~(r = Outcome("EINVAL", ptr, h)) /\ ~(r = Outcome("ENOMEM", ptr, h))
    BY OutcomeParts
  <2> HIDE DEF reallocs, hdr, reqsize, zero, old
  <2> QED BY <2>1, <2>2, Zenon
<1>4. PICK q \in Reallocated(h, hdr, reqsize) :
         r = FillChunk(q.heap, q.base, size, alignment, zero, old, reallocs)
  BY <1>3, Zenon
<1>5. PICK b \in Bases : /\ reqsize \in 1..Room /\ (h.chunk[b] = 0 \/ b = hdr)
                         /\ q.base = b /\ q.heap = Moved(h, hdr, b, reqsize)
  <2>1. PICK b \in {c \in Bases : reqsize \in 1..Room /\ (h.chunk[c] = 0 \/ c = hdr)} :
           q = [base |-> b, heap |-> Moved(h, hdr, b, reqsize)]
    BY Zenon DEF Reallocated
  <2> HIDE DEF reqsize, hdr
  <2> QED BY <2>1
<1>6. CASE reallocs
  <2>1. /\ Describes(h, hdr, ptr) /\ hdr = Hdr(h, ptr) /\ KeepsPadding(h, ptr, alignment) /\ Fitting(h, ptr)
        /\ old = [shift |-> ptr - hdr, size |-> HdrSize(h, hdr)] /\ Had(h, ptr, flags) = HdrSize(h, hdr)
        /\ reallocs \in BOOLEAN /\ zero \in BOOLEAN
    BY <1>6 DEF Had, Reallocs
  <2>2. ~(alignment < HdrAlignment(h, hdr))
    BY <1>3, <1>6
  <2> HIDE DEF hdr, old, reallocs, reqsize, zero
  <2>3. /\ hdr \in Bases /\ HdrSize(h, hdr) \in 0..SIZE_MAX /\ HdrAlignment(h, hdr) \in Nat \ {0}
        /\ ptr = Mem(hdr, HdrAlignment(h, hdr)) /\ hdr \in Nat /\ h.chunk[hdr] \in Nat /\ ptr \in Nat
        /\ hdr + HEADER <= ptr
    BY <2>1, Find
  <2>4. HdrAlignment(h, hdr) = alignment /\ DefaultAlignment % alignment = 0
    BY <2>1, <2>2, <2>3 DEF KeepsPadding
  <2>5. ptr - hdr = AlignUp(HEADER, alignment) /\ Mem(b, alignment) - b = AlignUp(HEADER, alignment)
    BY <2>3, <2>4, SamePadding
  <2>6. old.shift = Mem(b, alignment) - b /\ old.size = HdrSize(h, hdr) /\ old.size \in Nat
    BY <1>1, <2>1, <2>3, <2>5
  <2>7. q.heap \in Heaps /\ q.heap.chunk[b] = HEADER + size + alignment
    BY <1>2, <1>5, <2>3, MovedFacts
  <2>8. /\ r.ptr = Mem(b, alignment)
        /\ \A k \in 1..size :
              r.heap.mem[r.ptr + k - 1] = IF zero /\ k > old.size THEN Word(0) ELSE q.heap.mem[r.ptr + k - 1]
    <3>1. r = FillChunk(q.heap, b, size, alignment, zero, old, reallocs)
      BY <1>4, <1>5
    <3>2. alignment \in Nat \ {0} /\ size \in 0..SIZE_MAX
      OBVIOUS
    <3>3. reallocs => old.shift = Mem(b, alignment) - b
      BY <2>6
    <3>4. r.ptr = Mem(b, alignment) /\ FilledWith(q.heap, r, size, old.size, zero)
      BY <2>1, <2>6, <2>7, <3>1, <3>2, <3>3, FillChunkData
    <3> QED BY <3>4 DEF FilledWith
  <2>9. ptr + HdrSize(h, hdr) <= hdr + h.chunk[hdr]
    BY <2>1, Zenon DEF Describes, Fitting
  <2>10. ASSUME NEW k \in 1..size, k <= HdrSize(h, hdr)
         PROVE  q.heap.mem[r.ptr + k - 1] = h.mem[ptr + k - 1]
    <3> DEFINE j == ptr - hdr + k
    <3>1. Mem(b, alignment) \in Nat /\ b \in Nat /\ Mem(b, alignment) < b + HEADER + alignment
      BY MemRange, BaseFacts
    <3>2. j \in 1..reqsize /\ j <= h.chunk[hdr] /\ b + j - 1 = r.ptr + k - 1 /\ hdr + j - 1 = ptr + k - 1
      BY <1>1, <1>2, <2>3, <2>5, <2>8, <2>9, <2>10, <3>1
    <3> HIDE DEF j
    <3>3. Moved(h, hdr, b, reqsize).mem[b + j - 1] = h.mem[hdr + j - 1]
      <4>1. hdr \in Bases /\ b \in Bases /\ reqsize \in 1..Room
        BY <1>5, <2>3, Zenon
      <4> QED BY <3>2, <4>1, MovedCopies
    <3> QED BY <1>5, <3>2, <3>3
  <2>11. ASSUME NEW k \in 1..size
         PROVE  IF k <= HdrSize(h, hdr) THEN r.heap.mem[r.ptr + k - 1] = h.mem[ptr + k - 1]
                ELSE zero => r.heap.mem[r.ptr + k - 1] = Word(0)
    <3>1. CASE k <= HdrSize(h, hdr)
      <4>1. ~(k > old.size)
        BY <2>3, <2>6, <3>1
      <4> QED BY <2>8, <2>10, <3>1, <4>1
    <3>2. CASE ~(k <= HdrSize(h, hdr))
      <4>1. k > old.size
        BY <2>3, <2>6, <3>2
      <4> QED BY <2>8, <3>2, <4>1
    <3> QED BY <3>1, <3>2
  <2> QED BY <2>1, <2>11 DEF Grown, zero
<1>7. CASE ~reallocs
  <2>1. /\ hdr = NULL /\ old = [shift |-> 0, size |-> 0] /\ Had(h, ptr, flags) = 0
        /\ reallocs = FALSE /\ zero \in BOOLEAN
    BY <1>7 DEF Had, Reallocs
  <2> HIDE DEF hdr, old, reallocs, reqsize, zero
  <2>2. q.heap \in Heaps /\ q.heap.chunk[b] = HEADER + size + alignment
    BY <1>2, <1>5, <2>1, MovedFacts
  <2>3. old.size = 0
    BY <2>1
  <2>4. \A k \in 1..size :
           r.heap.mem[r.ptr + k - 1] = IF zero /\ k > old.size THEN Word(0) ELSE q.heap.mem[r.ptr + k - 1]
    <3>1. r = FillChunk(q.heap, b, size, alignment, zero, old, reallocs)
      BY <1>4, <1>5
    <3>2. old.size \in Nat /\ reallocs \in BOOLEAN /\ ~reallocs
      BY <1>7, <2>1, <2>3
    <3>3. alignment \in Nat \ {0} /\ size \in 0..SIZE_MAX
      OBVIOUS
    <3>4. reallocs => old.shift = Mem(b, alignment) - b
      BY <2>1
    <3>5. FilledWith(q.heap, r, size, old.size, zero)
      BY <2>1, <2>2, <3>1, <3>2, <3>3, <3>4, FillChunkData
    <3> QED BY <3>5 DEF FilledWith
  <2>5. ASSUME NEW k \in 1..size
        PROVE  /\ ~(k <= 0)
               /\ zero => r.heap.mem[r.ptr + k - 1] = Word(0)
    <3>1. k > old.size /\ ~(k <= 0)
      BY <2>3
    <3> QED BY <2>4, <3>1
  <2> QED BY <2>1, <2>5 DEF Grown, zero
<1> QED BY <1>6, <1>7
-----------------------------------------------------------------------------
(* vsc_xalloc_ex                                                           *)

\* The copy of an emulated realloc arrives before the first block is freed.
LEMMA CopyThenFreeData ==
    ASSUME NEW h \in Heaps, NEW p, Describes(h, Hdr(h, p), p),
           NEW q, q = Outcome("0", q.ptr, q.heap), NEW size, NEW alignment,
           Obtains(h, q.heap, {}, q.ptr, size, alignment),
           NEW r, r = CopyThenFree(q, p, size_(h, p)), r.ret = "0"
    PROVE  Copies(h, r.heap, p, r.ptr, size_(h, p))
<1> DEFINE hdr    == Hdr(h, p)
           msize  == size_(h, p)
           words  == [k \in 1..msize |-> q.heap.mem[p + k - 1]]
           copied == Put(q.heap.mem, q.ptr, msize, words)
           mid    == [q.heap EXCEPT !.mem = copied]
           fits   == FitsIn(q.heap, q.ptr, msize) /\ FitsIn(q.heap, p, msize)
<1>1. PICK b \in Bases : Placed(h, q.heap, {}, b, q.ptr) /\ HdrSize(q.heap, b) = size /\ HdrAlignment(q.heap, b) = alignment
  BY Zenon DEF Obtains
<1>2. /\ q.heap \in Heaps /\ Describes(q.heap, b, q.ptr) /\ h.chunk[b] = 0
      /\ \A c \in Bases \ {b} : Untouched(h, q.heap, c)
  BY <1>1 DEF Placed
<1>3. /\ hdr \in Bases /\ h.chunk[hdr] \in Nat /\ HEADER <= h.chunk[hdr] /\ HEADER = 3
      /\ HdrSize(h, hdr) \in 0..SIZE_MAX /\ SIZE_MAX \in Nat /\ hdr \in Nat /\ p \in Nat /\ hdr + HEADER <= p
  BY Find, MemoryAssumption DEF HEADER
<1>4. /\ b \in Nat /\ q.ptr \in Nat /\ b + HEADER <= q.ptr /\ Room \in Nat
      /\ q.heap.chunk[b] \in Nat /\ q.heap.chunk[b] <= Room
  BY <1>2, Find, HeapParts, MemoryAssumption
<1> HIDE DEF hdr
<1>5. hdr # b /\ msize \in Nat
  <2>1. hdr # b
    BY <1>2, <1>3
  <2>2. msize = HdrSize(h, hdr)
    BY DEF hdr, msize, size_
  <2> QED BY <1>3, <2>1, <2>2
<1>6. Untouched(h, q.heap, hdr)
  BY <1>2, <1>3, <1>5
<1>7. Describes(q.heap, hdr, p) /\ Hdr(q.heap, p) = hdr /\ Hdr(q.heap, q.ptr) = b
  <2>1. Describes(h, hdr, p)
    BY DEF hdr
  <2>2. Describes(q.heap, hdr, p) /\ Hdr(q.heap, p) = hdr
    BY <1>2, <1>6, <2>1, UntouchedDescribes
  <2> QED BY <1>2, <2>2, Find
<1> HIDE DEF msize
<1>8. fits
  <2> SUFFICES ASSUME ~fits PROVE FALSE
    OBVIOUS
  <2>1. r = Outcome("undefined", NULL, q.heap)
    BY Zenon DEF CopyThenFree, msize
  <2> QED BY <2>1, OutcomeParts
<1>9. r.ptr = q.ptr /\ r.heap = free_(mid, p)
  <2>1. r = [q EXCEPT !.heap = free_(mid, p)]
    BY <1>8, Zenon DEF CopyThenFree, msize
  <2> HIDE DEF mid
  <2> QED BY <2>1 DEF Outcome
<1>10. q.ptr + msize <= b + q.heap.chunk[b] /\ p + msize <= hdr + q.heap.chunk[hdr]
  BY <1>7, <1>8 DEF FitsIn
<1>11. q.heap.chunk[hdr] \in Nat /\ q.heap.chunk[hdr] <= Room
  BY <1>2, <1>3, HeapParts
<1>12. ASSUME NEW k \in 1..msize
       PROVE  /\ words[k] = h.mem[p + k - 1] /\ words[k] \in Words
              /\ q.ptr + k - 1 \in b..(b + Room - 1)
  <2>1. p + k - 1 \in hdr..(hdr + Room - 1) /\ q.ptr + k - 1 \in b..(b + Room - 1)
    BY <1>3, <1>4, <1>5, <1>10, <1>11
  <2>2. q.heap.mem[p + k - 1] = h.mem[p + k - 1]
    BY <1>6, <2>1 DEF Untouched
  <2>3. q.heap.mem[p + k - 1] \in Words
    BY <1>2, <1>3, <2>1, BaseFacts, HeapParts
  <2> QED BY <2>1, <2>2, <2>3
<1> HIDE DEF words
<1>13. Touches(q.heap, mid, q.ptr, msize) /\ mid.mem = copied
  <2>1. Touches(q.heap, mid, q.ptr, msize)
    BY <1>2, <1>4, <1>5, <1>12, PutTouches
  <2>2. mid.mem = copied
    BY <1>2 DEF Heaps
  <2> QED BY <2>1, <2>2
<1>14. ASSUME NEW k \in 1..msize
       PROVE  mid.mem[q.ptr + k - 1] = h.mem[p + k - 1]
  <2>1. /\ q.ptr + k - 1 \in Addresses /\ (q.ptr + k - 1) - q.ptr + 1 = k
        /\ q.ptr + k - 1 \in q.ptr..(q.ptr + msize - 1)
    <3>1. q.ptr + k - 1 \in Addresses
      BY <1>12, BaseFacts, Zenon
    <3>2. q.ptr \in Nat /\ msize \in Nat
      BY <1>4, <1>5
    <3> QED BY <3>1, <3>2
  <2>2. copied[q.ptr + k - 1] = words[k]
    BY <2>1 DEF Put
  <2> QED BY <1>12, <1>13, <2>2
<1> HIDE DEF mid, copied
<1>15. /\ mid \in Heaps /\ mid.chunk = q.heap.chunk
       /\ \A c \in Bases \ {b} : Untouched(q.heap, mid, c)
  BY <1>2, <1>5, <1>10, <1>13, DataWritten
<1>16. Hdr(mid, p) = hdr
  BY <1>2, <1>3, <1>5, <1>7, <1>15, UntouchedDescribes
<1>17. Untouched(mid, r.heap, b)
  <2>1. r.heap = Free(mid, hdr)
    BY <1>9, <1>16 DEF free_
  <2>2. mid \in Heaps /\ hdr \in Bases
    BY <1>3, <1>15
  <2>3. \A c \in Bases \ {hdr} : Untouched(mid, Free(mid, hdr), c)
    BY <2>2, FreeFacts, Zenon
  <2>4. b \in Bases \ {hdr}
    BY <1>5
  <2> QED BY <2>1, <2>3, <2>4, Zenon
<1>18. ASSUME NEW k \in 1..msize
       PROVE  r.heap.mem[r.ptr + k - 1] = h.mem[p + k - 1]
  <2>1. r.heap.mem[q.ptr + k - 1] = mid.mem[q.ptr + k - 1]
    BY <1>12, <1>17 DEF Untouched
  <2> QED BY <1>9, <1>14, <2>1
<1> QED BY <1>18 DEF msize, Copies

HadAt(h, p) == IF p # NULL THEN size_(h, p) ELSE 0

\* What the terms of use ask of the block at p.
Usable(h, p, flags, alignment) ==
    p # NULL => /\ "REALLOC" \in flags /\ Describes(h, Hdr(h, p), p) /\ Fitting(h, p)
                /\ IF emulates THEN "ZERO" \notin flags ELSE KeepsPadding(h, p, Alignment(alignment))

LEMMA XallocData ==
    ASSUME NEW h \in Heaps, NEW p, NEW size \in 0..SIZE_MAX, NEW alignment \in Nat, NEW flags,
           Usable(h, p, flags, alignment), HEADER + size + Alignment(alignment) <= SIZE_MAX,
           NEW r \in vsc_xalloc_ex(h, p, size, flags, alignment), r.ret = "0"
    PROVE  Grown(h, r.heap, p, r.ptr, HadAt(h, p), size, "ZERO" \in flags)
<1>1. Alignment(alignment) \in Nat \ {0}
  BY CallAssumption DEF Alignment
<1>2. p # NULL => "REALLOC" \in flags /\ Describes(h, Hdr(h, p), p) /\ Fitting(h, p)
  BY Zenon DEF Usable
<1>3. CASE emulates /\ "REALLOC" \in flags /\ p # NULL
  <2>1. r \in Emulated(h, p, size, Alignment(alignment), flags)
    BY <1>3, Zenon DEF vsc_xalloc_ex
  <2>2. HadAt(h, p) = size_(h, p) /\ "ZERO" \notin flags /\ size_(h, p) \in Nat
    <3>1. size_(h, p) \in Nat
      BY <1>2, <1>3, Find, MemoryAssumption DEF size_
    <3> QED BY <1>3, <3>1, Zenon DEF HadAt, Usable
  <2>3. CASE size <= size_(h, p)
    <3>1. r = Outcome("0", p, h)
      BY <2>1, <2>3, Zenon DEF Emulated
    <3>2. r.heap = h /\ r.ptr = p
      BY <3>1, OutcomeParts
    <3>3. size \in Nat
      BY MemoryAssumption
    <3> QED BY <2>2, <2>3, <3>2, <3>3 DEF Grown
  <2>4. CASE ~(size <= size_(h, p))
    <3> DEFINE fresh == flags \ {"REALLOC"}
    <3>1. PICK q \in malloc_(h, p, size, Alignment(alignment), fresh) :
             r = IF q.ret = "0" THEN CopyThenFree(q, p, size_(h, p)) ELSE q
      BY <2>1, <2>4, Zenon DEF Emulated
    <3>2. ~Reallocs(p, fresh)
      BY DEF Reallocs
    <3> HIDE DEF fresh
    <3>3. q.ret = "0" /\ r = CopyThenFree(q, p, size_(h, p))
      BY <3>1, Zenon
    <3>4. Obtains(h, q.heap, {}, q.ptr, size, Alignment(alignment))
      <4>1. \/ q.ret \in {"ENOMEM", "EINVAL"} /\ q.heap = h
            \/ q.ret = "undefined"
            \/ q.ret = "0" /\ Obtains(h, q.heap, {}, q.ptr, size, Alignment(alignment))
        BY <1>1, <3>2, MallocFacts
      <4> QED BY <3>3, <4>1
    <3>5. q = Outcome("0", q.ptr, q.heap)
      <4>1. q = Outcome(q.ret, q.ptr, q.heap)
        BY MallocShape
      <4> QED BY <3>3, <4>1
    <3>6. Copies(h, r.heap, p, r.ptr, size_(h, p))
      <4>1. Describes(h, Hdr(h, p), p)
        BY <1>2, <1>3
      <4> QED BY <3>3, <3>4, <3>5, <4>1, CopyThenFreeData
    <3>7. ASSUME NEW k \in 1..size
          PROVE  IF k <= HadAt(h, p) THEN r.heap.mem[r.ptr + k - 1] = h.mem[p + k - 1]
                 ELSE "ZERO" \in flags => r.heap.mem[r.ptr + k - 1] = Word(0)
      <4>1. size \in Nat
        BY MemoryAssumption
      <4> QED BY <2>2, <3>6, <4>1 DEF Copies
    <3> QED BY <3>7 DEF Grown
  <2> QED BY <2>3, <2>4
<1>4. CASE ~(emulates /\ "REALLOC" \in flags /\ p # NULL)
  <2>1. PICK q \in malloc_(h, p, size, Alignment(alignment), flags) : r = OrAbort(q, flags)
    BY <1>4, Zenon DEF vsc_xalloc_ex
  <2>2. r = q
    <3>1. r = q \/ r = Outcome("abort", q.ptr, q.heap)
      BY <2>1, Zenon DEF OrAbort
    <3> QED BY <3>1, OutcomeParts
  <2>3. Reallocs(p, flags) => /\ Describes(h, Hdr(h, p), p) /\ Fitting(h, p)
                              /\ KeepsPadding(h, p, Alignment(alignment))
    BY <1>2, <1>4, Zenon DEF Reallocs, Usable
  <2>4. Grown(h, q.heap, p, q.ptr, Had(h, p, flags), size, "ZERO" \in flags)
    BY <1>1, <2>2, <2>3, MallocData
  <2>5. Had(h, p, flags) = HadAt(h, p)
    BY <1>2, Zenon DEF Had, HadAt, Reallocs, size_
  <2> QED BY <2>2, <2>4, <2>5
<1> QED BY <1>3, <1>4
-----------------------------------------------------------------------------
(* What VscHeap sees of the memory, within the terms of use                *)

Shown(h, block) ==
    IF block.ptr = NULL THEN [held |-> FALSE, words |-> <<>>]
    ELSE [held |-> TRUE, words |-> [k \in 1..block.size |-> h.mem[block.ptr + k - 1]]]

AllFitting(h, bl) == \A i \in Holders(bl) : Fitting(h, bl[i].ptr)

\* The words of a block lie in its own chunk.
LEMMA WordsInChunk ==
    ASSUME NEW h \in Heaps, NEW em, NEW bl \in BlockStates, HeapInv(h, bl, em), AllFitting(h, bl),
           NEW i \in Holders(bl)
    PROVE  /\ FitsIn(h, bl[i].ptr, bl[i].size) /\ bl[i].size \in Nat
           /\ bl[i].size <= size_(h, bl[i].ptr) /\ size_(h, bl[i].ptr) \in Nat
           /\ em = FALSE => bl[i].size = size_(h, bl[i].ptr)
           /\ \A k \in 1..bl[i].size : bl[i].ptr + k - 1 \in Hdr(h, bl[i].ptr)..(Hdr(h, bl[i].ptr) + Room - 1)
<1> DEFINE p == bl[i].ptr
           n == bl[i].size
           hdr == Hdr(h, p)
<1>1. Kept(h, bl[i], em) /\ Fitting(h, p)
  BY Zenon DEF HeapInv, AllFitting
<1>2. n \in Nat
  BY MemoryAssumption DEF BlockStates, Holders
<1>3. Describes(h, hdr, p)
  BY <1>1, Zenon DEF Kept
<1>4. IF em THEN HdrSize(h, hdr) >= n ELSE HdrSize(h, hdr) = n
  BY <1>1, Zenon DEF Kept
<1>5. p + HdrSize(h, hdr) <= hdr + h.chunk[hdr]
  BY <1>1, <1>3, Zenon DEF Describes, Fitting
<1> HIDE DEF hdr, n, p
<1>6. /\ hdr \in Nat /\ p \in Nat /\ h.chunk[hdr] \in Nat /\ HdrSize(h, hdr) \in Nat /\ hdr <= p
      /\ h.chunk[hdr] <= Room /\ Room \in Nat
  <2>1. hdr \in Bases
    BY <1>3, Find
  <2> QED BY <1>3, <2>1, Find, HeapParts, MemoryAssumption DEF HEADER
<1>7. n <= HdrSize(h, hdr) /\ (em = FALSE => n = HdrSize(h, hdr))
  BY <1>2, <1>4, <1>6
<1>8. p + n <= hdr + h.chunk[hdr]
  BY <1>2, <1>5, <1>6, <1>7
<1>9. \A k \in 1..n : p + k - 1 \in hdr..(hdr + Room - 1)
  BY <1>2, <1>6, <1>8
<1> QED BY <1>2, <1>6, <1>7, <1>8, <1>9, Zenon DEF FitsIn, hdr, n, p, size_

LEMMA ShownFacts ==
    ASSUME NEW h \in Heaps, NEW em, NEW bl \in BlockStates, HeapInv(h, bl, em), AllFitting(h, bl),
           NEW i \in Blocks
    PROVE  Shown(h, bl[i]) =
               (IF i \notin Holders(bl) THEN [held |-> FALSE, words |-> <<>>]
                ELSE [held |-> TRUE, words |-> IF FitsIn(h, bl[i].ptr, bl[i].size)
                                               THEN [k \in 1..bl[i].size |-> h.mem[bl[i].ptr + k - 1]]
                                               ELSE <<>>])
<1>1. CASE i \in Holders(bl)
  <2>1. FitsIn(h, bl[i].ptr, bl[i].size)
    BY <1>1, WordsInChunk
  <2>2. bl[i].ptr # NULL
    BY <1>1 DEF Holders
  <2> QED BY <1>1, <2>1, <2>2, Zenon DEF Shown
<1>2. CASE i \notin Holders(bl)
  <2>1. bl[i].ptr = NULL
    BY <1>2 DEF Holders
  <2> QED BY <1>2, <2>1, Zenon DEF Shown
<1> QED BY <1>1, <1>2

LEMMA ShownStays ==
    ASSUME NEW h \in Heaps, NEW em, NEW bl \in BlockStates, HeapInv(h, bl, em), AllFitting(h, bl),
           NEW i \in Holders(bl), NEW h2, SameBlock(h, h2, bl[i].ptr)
    PROVE  Shown(h2, bl[i]) = Shown(h, bl[i])
<1>1. Untouched(h, h2, Hdr(h, bl[i].ptr))
  BY Zenon DEF SameBlock
<1>2. \A k \in 1..bl[i].size : bl[i].ptr + k - 1 \in Hdr(h, bl[i].ptr)..(Hdr(h, bl[i].ptr) + Room - 1)
  BY WordsInChunk
<1>3. \A k \in 1..bl[i].size : h2.mem[bl[i].ptr + k - 1] = h.mem[bl[i].ptr + k - 1]
  BY <1>1, <1>2, Zenon DEF Untouched
<1> QED BY <1>3 DEF Shown

\* A state in which the promise holds.
Within == MemInv /\ TermsInv /\ ~outside

WithinFacts ==
    /\ heap \in Heaps /\ blocks \in BlockStates /\ HeapInv(heap, blocks, emulates)
    /\ AllFitting(heap, blocks) /\ Held = Holders(blocks) /\ emulates \in BOOLEAN
    /\ status # "undefined" /\ TypeOK

LEMMA WithinParts == Within => WithinFacts
  BY TypeParts, Zenon DEF Within, WithinFacts, MemInv, TermsInv, AllFitting

LEMMA SeenNow == ASSUME Within, NEW i \in Blocks PROVE Contents[i] = Shown(heap, blocks[i])
  BY WithinParts, ShownFacts DEF WithinFacts, Contents

LEMMA SeenNext == ASSUME Within', NEW i \in Blocks PROVE Contents'[i] = Shown(heap', blocks'[i])
<1>1. WithinFacts'
  BY WithinParts, PTL
<1> QED BY <1>1, ShownFacts DEF WithinFacts, Contents
-----------------------------------------------------------------------------
(* The steps                                                               *)

LEMMA OthersSeen ==
    ASSUME Within, Within', NEW i \in Blocks, \A j \in Blocks \ {i} : blocks'[j] = blocks[j],
           \A j \in Holders(blocks) \ {i} : SameBlock(heap, heap', blocks[j].ptr)
    PROVE  Heap!Others(i)
<1>1. WithinFacts
  BY WithinParts
<1>2. ASSUME NEW j \in Blocks \ {i}
      PROVE  Contents'[j] = Contents[j]
  <2>1. Contents[j] = Shown(heap, blocks[j]) /\ Contents'[j] = Shown(heap', blocks[j])
    BY <1>2, SeenNow, SeenNext
  <2>2. CASE j \in Holders(blocks)
    <3>1. SameBlock(heap, heap', blocks[j].ptr)
      BY <2>2
    <3>2. Shown(heap', blocks[j]) = Shown(heap, blocks[j])
      BY <1>1, <2>2, <3>1, ShownStays DEF WithinFacts
    <3> QED BY <2>1, <3>2
  <2>3. CASE j \notin Holders(blocks)
    <3>1. blocks[j].ptr = NULL
      BY <2>3 DEF Holders
    <3> QED BY <2>1, <3>1 DEF Shown
  <2> QED BY <2>2, <2>3
<1> QED BY <1>2 DEF Heap!Others

LEMMA NothingSeen == UNCHANGED <<heap, blocks>> => UNCHANGED Contents
  BY DEF Contents, Held

\* A block obtained or resized, in place or not.
LEMMA GrownIsResize ==
    ASSUME Within, Within', NEW i \in Blocks, NEW p, NEW size \in Nat, NEW flags, NEW alignment,
           p # NULL, last'.result = "0", "ZERO" \in last'.flags <=> "ZERO" \in flags,
           blocks' = [blocks EXCEPT ![i] = [ptr |-> p, size |-> size, alignment |-> alignment]],
           Grown(heap, heap', blocks[i].ptr, p, HadAt(heap, blocks[i].ptr), size, "ZERO" \in flags),
           i \in Held => IF emulates THEN "ZERO" \notin flags ELSE TRUE,
           \A j \in Holders(blocks) \ {i} : SameBlock(heap, heap', blocks[j].ptr)
    PROVE  Heap!Resize(i)
<1>1. WithinFacts
  BY WithinParts
<1>2. /\ \A j \in Blocks \ {i} : blocks'[j] = blocks[j]
      /\ blocks'[i].ptr = p /\ blocks'[i].size = size
  BY <1>1 DEF WithinFacts, BlockStates
<1>3. Heap!Others(i)
  BY <1>2, OthersSeen
<1>4. Contents[i] = Shown(heap, blocks[i]) /\ Contents'[i] = Shown(heap', blocks'[i])
  BY SeenNow, SeenNext
<1>5. Contents'[i].held /\ Contents'[i].words = [k \in 1..size |-> heap'.mem[p + k - 1]]
  <2>1. Contents'[i] = [held |-> TRUE, words |-> [k \in 1..size |-> heap'.mem[p + k - 1]]]
    BY <1>2, <1>4 DEF Shown
  <2> QED BY <2>1
<1> DEFINE old == Contents[i].words
           had == HadAt(heap, blocks[i].ptr)
<1>6. /\ Len(old) \in Nat /\ had \in Nat /\ Len(old) <= had
      /\ \A k \in 1..Len(old) : old[k] = heap.mem[blocks[i].ptr + k - 1]
      /\ Len(old) # had => "ZERO" \notin flags
  <2>1. CASE i \in Holders(blocks)
    <3>1. /\ blocks[i].size \in Nat /\ blocks[i].size <= had /\ had \in Nat
          /\ emulates = FALSE => blocks[i].size = had
      <4>1. /\ heap \in Heaps /\ blocks \in BlockStates /\ HeapInv(heap, blocks, emulates)
            /\ AllFitting(heap, blocks)
        BY <1>1 DEF WithinFacts
      <4>2. had = size_(heap, blocks[i].ptr)
        BY <2>1 DEF HadAt, Holders
      <4> HIDE DEF had
      <4> QED BY <2>1, <4>1, <4>2, WordsInChunk
    <3>2. old = [k \in 1..blocks[i].size |-> heap.mem[blocks[i].ptr + k - 1]]
      BY <1>4, <2>1 DEF Shown, Holders
    <3>3. Len(old) = blocks[i].size
      <4> HIDE DEF old
      <4> QED BY <3>1, <3>2
    <3>4. emulates => "ZERO" \notin flags
      BY <1>1, <2>1, Zenon DEF WithinFacts
    <3>5. emulates = FALSE \/ emulates = TRUE
      BY <1>1 DEF WithinFacts
    <3> HIDE DEF old, had
    <3>6. \A k \in 1..Len(old) : old[k] = heap.mem[blocks[i].ptr + k - 1]
      BY <3>2, <3>3
    <3> QED BY <3>1, <3>3, <3>4, <3>5, <3>6
  <2>2. CASE i \notin Holders(blocks)
    <3>1. blocks[i].ptr = NULL
      BY <2>2 DEF Holders
    <3>2. had = 0
      BY <3>1 DEF HadAt
    <3>3. old = <<>>
      BY <1>4, <3>1 DEF Shown
    <3> HIDE DEF old, had
    <3> QED BY <3>2, <3>3
  <2> QED BY <2>1, <2>2
<1> HIDE DEF old, had
<1>7. ASSUME NEW k \in 1..size
      PROVE  IF k <= Len(old) THEN Contents'[i].words[k] = old[k]
             ELSE "ZERO" \in last'.flags => Contents'[i].words[k] = Word(0)
  <2>1. Contents'[i].words[k] = heap'.mem[p + k - 1]
    BY <1>5
  <2>2. IF k <= had THEN heap'.mem[p + k - 1] = heap.mem[blocks[i].ptr + k - 1]
        ELSE "ZERO" \in flags => heap'.mem[p + k - 1] = Word(0)
    BY DEF Grown, had
  <2>3. CASE k <= Len(old)
    <3>1. k <= had /\ k \in 1..Len(old)
      BY <1>6, <2>3
    <3> QED BY <1>6, <2>1, <2>2, <2>3, <3>1
  <2>4. CASE ~(k <= Len(old))
    <3>1. CASE "ZERO" \in flags
      <4>1. ~(k <= had)
        BY <1>6, <2>4, <3>1
      <4> QED BY <2>1, <2>2, <2>4, <3>1, <4>1
    <3>2. CASE "ZERO" \notin flags
      BY <2>4, <3>2
    <3> QED BY <3>1, <3>2
  <2> QED BY <2>3, <2>4
<1>8. DOMAIN Contents'[i].words = 1..size
  BY <1>5
<1> QED BY <1>3, <1>5, <1>7, <1>8 DEF Heap!Resize, old

LEMMA ObtainSeen ==
    ASSUME Within, Within', status = "running",
           NEW i \in Blocks, NEW size \in 0..SIZE_MAX, NEW flags \in SUBSET Flags, NEW alignment \in Alignments \cup {0},
           i \in Held => "REALLOC" \in flags, Obtain(i, size, flags, alignment)
    PROVE  Heap!Resize(i) \/ Heap!Fail
<1> DEFINE p == blocks[i].ptr
           new(r) == [ptr |-> r.ptr, size |-> size, alignment |-> Alignment(alignment)]
<1>1. PICK r \in vsc_xalloc_ex(heap, p, size, flags, alignment) :
         /\ heap' = IF r.ret = "undefined" THEN heap ELSE r.heap
         /\ blocks' = IF r.ret # "0" THEN blocks ELSE [blocks EXCEPT ![i] = new(r)]
         /\ last' = [flags |-> Effective(i, flags), result |-> r.ret]
         /\ status' = IF r.ret \in {"undefined", "abort"} THEN r.ret ELSE status
  BY Zenon DEF Obtain
<1>2. WithinFacts /\ WithinFacts'
  BY WithinParts, PTL
<1>3. /\ heap \in Heaps /\ blocks \in BlockStates /\ Held = Holders(blocks) /\ alignment \in Nat
      /\ HeapInv(heap, blocks, emulates) /\ AllFitting(heap, blocks) /\ (i \in Held <=> p # NULL)
      /\ Alignment(alignment) \in Nat \ {0}
  BY <1>2, CallAssumption DEF WithinFacts, Alignment, Holders
<1>4. WithinTerms(i, size, flags, alignment)
  BY Zenon DEF Obtain, Within
<1>5. HEADER + size + Alignment(alignment) <= SIZE_MAX
  BY <1>4, Zenon DEF WithinTerms
<1>6. Usable(heap, p, flags, alignment)
  <2> SUFFICES ASSUME p # NULL
               PROVE  /\ "REALLOC" \in flags /\ Describes(heap, Hdr(heap, p), p) /\ Fitting(heap, p)
                      /\ IF emulates THEN "ZERO" \notin flags ELSE KeepsPadding(heap, p, Alignment(alignment))
    BY Zenon DEF Usable
  <2>1. "REALLOC" \in flags /\ i \in Holders(blocks) /\ i \in Held
    BY <1>3
  <2>2. Kept(heap, blocks[i], emulates)
    BY <1>3, <2>1, Zenon DEF HeapInv
  <2>3. Describes(heap, Hdr(heap, p), p) /\ Fitting(heap, p)
    BY <1>3, <2>1, <2>2, Zenon DEF Kept, AllFitting
  <2>4. ASSUME ~emulates
        PROVE  KeepsPadding(heap, p, Alignment(alignment))
    <3>1. /\ HdrAlignment(heap, Hdr(heap, p)) = blocks[i].alignment
          /\ Alignment(alignment) <= blocks[i].alignment /\ Alignment(alignment) <= DefaultAlignment
      BY <1>4, <2>1, <2>2, <2>4, Zenon DEF Kept, WithinTerms
    <3>2. Alignment(alignment) \in (Alignments \cup {DefaultAlignment}) \ {0} /\ DefaultAlignment \in (Alignments \cup {DefaultAlignment}) \ {0}
      BY CallAssumption DEF Alignment
    <3>3. DefaultAlignment % Alignment(alignment) = 0
      BY <3>1, <3>2, PowerOfTwoAssumption
    <3> QED BY <3>1, <3>3 DEF KeepsPadding
  <2>5. emulates => "ZERO" \notin flags
    BY <1>4, <2>1, Zenon DEF WithinTerms
  <2> QED BY <2>1, <2>3, <2>4, <2>5, Zenon
<1>7. r.ret # "undefined"
  BY <1>1, <1>2 DEF WithinFacts
<1>8. p # NULL => "REALLOC" \in flags /\ Describes(heap, Hdr(heap, p), p)
  BY <1>6, Zenon DEF Usable
<1>9. \/ Fails(heap, p, r, flags)
      \/ Stays(heap, p, r, size)
      \/ r.ret = "0" /\ Obtains(heap, r.heap, Gone(heap, p), r.ptr, size, Alignment(alignment))
  <2> HIDE DEF p
  <2> QED BY <1>3, <1>7, <1>8, XallocFacts
<1>10. CASE Fails(heap, p, r, flags)
  <2>1. r.heap = heap /\ r.ret \in {"ENOMEM", "EINVAL", "abort"}
    BY <1>10, Zenon DEF Fails
  <2>2. heap' = heap /\ blocks' = blocks /\ last'.result \notin {"0", "freed"}
    BY <1>1, <2>1
  <2>3. UNCHANGED Contents
    BY <2>2, NothingSeen
  <2> QED BY <2>2, <2>3, Zenon DEF Heap!Fail
<1>11. CASE r.ret = "0"
  <2>1. /\ heap' = r.heap /\ last'.result = "0"
        /\ blocks' = [blocks EXCEPT ![i] = [ptr |-> r.ptr, size |-> size, alignment |-> Alignment(alignment)]]
    BY <1>1, <1>11
  <2>2. Grown(heap, heap', p, r.ptr, HadAt(heap, p), size, "ZERO" \in flags)
    <3>1. Grown(heap, r.heap, p, r.ptr, HadAt(heap, p), size, "ZERO" \in flags)
      <4> HIDE DEF p
      <4> QED BY <1>3, <1>5, <1>6, <1>11, XallocData
    <3> QED BY <2>1, <3>1
  <2>3. r.ptr # NULL /\ \A j \in Holders(blocks) \ {i} : SameBlock(heap, heap', blocks[j].ptr)
    <3>1. CASE Stays(heap, p, r, size)
      <4>1. r.ptr # NULL /\ heap' = heap
        BY <2>1, <3>1, Zenon DEF Stays
      <4> QED BY <4>1 DEF SameBlock, SameHeader, Untouched
    <3>2. CASE Obtains(heap, r.heap, Gone(heap, p), r.ptr, size, Alignment(alignment))
      <4>1. Obtains(heap, heap', Gone(heap, blocks[i].ptr), r.ptr, size, Alignment(alignment))
        BY <2>1, <3>2
      <4>2. Obtained(heap, heap', emulates, blocks, blocks', i, r.ptr, size, Alignment(alignment))
        BY <1>3, <2>1, <4>1, ObtainKeeps, Zenon
      <4>3. PICK b \in Bases : heap' \in Heaps /\ Describes(heap', b, r.ptr)
        BY <4>1, Zenon DEF Obtains, Placed
      <4>4. r.ptr # NULL
        BY <4>3, Find DEF HEADER, NULL
      <4> QED BY <4>2, <4>4, Zenon DEF Obtained
    <3>3. ~Fails(heap, p, r, flags)
      BY <1>11 DEF Fails
    <3> QED BY <1>9, <3>1, <3>2, <3>3
  <2>4. "ZERO" \in last'.flags <=> "ZERO" \in flags
    BY <1>1 DEF Effective
  <2>5. i \in Held => IF emulates THEN "ZERO" \notin flags ELSE TRUE
    BY <1>4, Zenon DEF WithinTerms
  <2>6. size \in Nat
    BY MemoryAssumption
  <2>7. Heap!Resize(i)
    BY <2>1, <2>2, <2>3, <2>4, <2>5, <2>6, GrownIsResize DEF p
  <2> QED BY <2>7
<1>12. r.ret = "0" \/ Fails(heap, p, r, flags)
  BY <1>9, Zenon DEF Stays
<1> QED BY <1>10, <1>11, <1>12

LEMMA ReleaseSeen ==
    ASSUME Within, Within', NEW i \in Blocks, Release(i)
    PROVE  Heap!Release(i)
<1>1. WithinFacts
  BY WithinParts
<1>2. /\ heap' = (IF blocks[i].ptr # NULL THEN free_(heap, blocks[i].ptr) ELSE heap)
      /\ blocks' = [blocks EXCEPT ![i] = NotHeld] /\ last'.result = "freed"
  BY <1>1 DEF Release, Held
<1>3. \A j \in Holders(blocks) \ {i} : SameBlock(heap, heap', blocks[j].ptr)
  <2>1. heap \in Heaps /\ blocks \in BlockStates /\ HeapInv(heap, blocks, emulates)
    BY <1>1, Zenon DEF WithinFacts
  <2>2. /\ heap' \in Heaps /\ blocks' \in BlockStates /\ HeapInv(heap', blocks', emulates)
        /\ \A j \in Holders(blocks) \ {i} : SameBlock(heap, heap', blocks[j].ptr)
    BY <1>2, <2>1, FreeKeeps, Zenon
  <2> QED BY <2>2, Zenon
<1>4. blocks'[i].ptr = NULL /\ \A j \in Blocks \ {i} : blocks'[j] = blocks[j]
  BY <1>1, <1>2 DEF WithinFacts, BlockStates, NotHeld
<1>5. ~Contents'[i].held
  <2>1. Contents'[i] = [held |-> FALSE, words |-> <<>>]
    BY <1>4, SeenNext DEF Shown
  <2> QED BY <2>1
<1>6. Heap!Others(i)
  BY <1>3, <1>4, OthersSeen
<1> QED BY <1>2, <1>5, <1>6, Zenon DEF Heap!Release

LEMMA WriteSeen ==
    ASSUME Within, Within', NEW i \in Blocks, Write(i)
    PROVE  Heap!Write(i)
<1>1. WithinFacts
  BY WithinParts
<1>2. blocks' = blocks /\ last' = last /\ blocks[i].ptr # NULL /\ blocks[i].size \in Nat
  BY <1>1, MemoryAssumption DEF Write, WithinFacts, BlockStates, Holders
<1>3. \A j \in Holders(blocks) \ {i} : SameBlock(heap, heap', blocks[j].ptr)
  <2>1. TypeOK /\ HeapInv(heap, blocks, emulates)
    BY <1>1, Zenon DEF WithinFacts
  <2> QED BY <2>1, WriteStep, Zenon
<1>4. Heap!Others(i)
  BY <1>2, <1>3, OthersSeen
<1>5. /\ Contents[i].held /\ Contents'[i].held
      /\ Contents[i].words = [k \in 1..blocks[i].size |-> heap.mem[blocks[i].ptr + k - 1]]
      /\ Contents'[i].words = [k \in 1..blocks[i].size |-> heap'.mem[blocks[i].ptr + k - 1]]
  <2>1. Contents[i] = Shown(heap, blocks[i]) /\ Contents'[i] = Shown(heap', blocks[i])
    BY <1>2, SeenNow, SeenNext
  <2> QED BY <1>2, <2>1 DEF Shown
<1>6. Len(Contents[i].words) = blocks[i].size /\ Len(Contents'[i].words) = blocks[i].size
  <2> HIDE DEF Contents
  <2> QED BY <1>2, <1>5
<1> QED BY <1>2, <1>4, <1>5, <1>6 DEF Heap!Write

LEMMA NextSeen == Within /\ Within' /\ [Next]_vars => [Heap!Next]_<<Contents, last, outside>>
<1> SUFFICES ASSUME Within, Within', [Next]_vars PROVE [Heap!Next]_<<Contents, last, outside>>
  OBVIOUS
<1>1. ASSUME NEW i \in Blocks, Heap!Resize(i) \/ Heap!Fail \/ Heap!Release(i) \/ Heap!Write(i)
      PROVE  Heap!Next
  BY <1>1, Zenon DEF Heap!Next
<1>2. CASE Next
  <2>1. PICK i \in Blocks :
           \/ XFree(i) \/ Write(i)
           \/ \E size \in Sizes \cup {0} : XRealloc(i, size)
           \/ \E size \in Sizes :
                 \/ \E n \in Counts : XCalloc(i, n, size) \/ XCallocRefused(i, n, size)
                 \/ \E flags \in FlagSets, a \in Alignments : XAllocEx(i, size, flags, a)
    BY <1>2, Zenon DEF Next
  <2>2. CASE XFree(i)
    BY <1>1, <2>2, ReleaseSeen, Zenon DEF XFree
  <2>3. CASE Write(i)
    BY <1>1, <2>3, WriteSeen, Zenon
  <2>4. ASSUME NEW size \in Sizes \cup {0}, XRealloc(i, size)
        PROVE  Heap!Next
    <3>1. size \in 0..SIZE_MAX /\ {"REALLOC"} \in SUBSET Flags /\ 0 \in Alignments \cup {0}
      BY CallAssumption, MemoryAssumption DEF Flags
    <3>2. status = "running" /\ (Release(i) \/ Obtain(i, size, {"REALLOC"}, 0))
      BY <2>4, Zenon DEF XRealloc
    <3>3. CASE Release(i)
      BY <1>1, <3>3, ReleaseSeen, Zenon
    <3>4. CASE Obtain(i, size, {"REALLOC"}, 0)
      <4>1. Heap!Resize(i) \/ Heap!Fail
        BY <3>1, <3>2, <3>4, ObtainSeen
      <4> QED BY <1>1, <4>1, Zenon
    <3> QED BY <3>2, <3>3, <3>4
  <2>5. ASSUME NEW size \in Sizes, NEW n \in Counts, XCalloc(i, n, size)
        PROVE  Heap!Next
    <3>1. /\ status = "running" /\ i \notin Held /\ Obtain(i, size * n, {"ZERO"}, 0)
          /\ ~(size > 0 /\ n > SIZE_MAX \div size)
      BY <2>5, Zenon DEF XCalloc
    <3>2. n \in Nat /\ size \in 0..SIZE_MAX /\ {"ZERO"} \in SUBSET Flags /\ 0 \in Alignments \cup {0}
      BY CallAssumption DEF Flags
    <3>3. size * n \in 0..SIZE_MAX
      BY <3>1, <3>2, ProductFits
    <3> HIDE DEF Flags
    <3>4. Heap!Resize(i) \/ Heap!Fail
      BY <3>1, <3>2, <3>3, ObtainSeen
    <3> QED BY <1>1, <3>4, Zenon
  <2>6. ASSUME NEW size \in Sizes, NEW n \in Counts, XCallocRefused(i, n, size)
        PROVE  Heap!Next
    <3>1. heap' = heap /\ blocks' = blocks /\ last'.result = "NULL"
      BY <2>6 DEF XCallocRefused
    <3>2. Heap!Fail
      BY <3>1, NothingSeen DEF Heap!Fail
    <3> QED BY <1>1, <3>2, Zenon
  <2>7. ASSUME NEW size \in Sizes, NEW flags \in FlagSets, NEW a \in Alignments, XAllocEx(i, size, flags, a)
        PROVE  Heap!Next
    <3>1. size \in 0..SIZE_MAX /\ flags \in SUBSET Flags /\ a \in Alignments \cup {0}
      BY CallAssumption
    <3>2. status = "running" /\ (i \in Held => "REALLOC" \in flags) /\ Obtain(i, size, flags, a)
      BY <2>7, Zenon DEF XAllocEx
    <3>3. Heap!Resize(i) \/ Heap!Fail
      BY <3>1, <3>2, ObtainSeen
    <3> QED BY <1>1, <3>3, Zenon
  <2> QED BY <2>1, <2>2, <2>3, <2>4, <2>5, <2>6, <2>7, Zenon
<1>3. CASE UNCHANGED vars
  <2>1. UNCHANGED <<heap, blocks>> /\ last' = last /\ outside' = outside
    BY <1>3, Zenon DEF vars
  <2> QED BY <2>1, NothingSeen
<1> QED BY <1>2, <1>3, Zenon

\* A call may leave the terms of use, none comes back.
LEMMA OutsideStays == [Next]_vars => (outside => outside')
<1>1. ASSUME NEW i, NEW size, NEW flags, NEW alignment, Obtain(i, size, flags, alignment)
      PROVE  outside => outside'
  BY <1>1, Zenon DEF Obtain
<1>2. ASSUME NEW i, Release(i)
      PROVE  outside' = outside
  BY <1>2, Zenon DEF Release
<1>3. ASSUME NEW i, XFree(i) \/ Write(i) PROVE outside => outside'
  BY <1>2, <1>3, Zenon DEF XFree, Write
<1>4. ASSUME NEW i, NEW size, XRealloc(i, size) PROVE outside => outside'
  BY <1>1, <1>2, <1>4, Zenon DEF XRealloc
<1>5. ASSUME NEW i, NEW n, NEW size, XCalloc(i, n, size) \/ XCallocRefused(i, n, size)
      PROVE  outside => outside'
  BY <1>1, <1>5, Zenon DEF XCalloc, XCallocRefused
<1>6. ASSUME NEW i, NEW size, NEW flags, NEW a, XAllocEx(i, size, flags, a)
      PROVE  outside => outside'
  BY <1>1, <1>6, Zenon DEF XAllocEx
<1>7. Next => (outside => outside')
  BY <1>3, <1>4, <1>5, <1>6, Zenon DEF Next
<1> QED BY <1>7, Zenon DEF vars

LEMMA InitSeen == Init => Heap!Init
<1> SUFFICES ASSUME Init PROVE Heap!Init
  OBVIOUS
<1>1. blocks = [i \in Blocks |-> NotHeld] /\ outside = FALSE
  BY DEF Init
<1>2. Held = {}
  BY <1>1 DEF Held, NotHeld
<1> QED BY <1>1, <1>2 DEF Heap!Init, Heap!NoBlock, Contents

\* For any blocks, sizes and alignments, and wherever the C library puts a chunk, a
\* program within the terms of use sees its words survive every realloc, in place,
\* moved or emulated, and every failure (memory.c:40, allocator.cpp:93).
THEOREM MemoryKeepsItsPromise == Spec => ImplementsHeap
<1>1. ASSUME MemInv, TermsInv, MemInv', TermsInv', [Next]_vars
      PROVE  [outside' \/ Heap!Next]_<<Contents, last, outside>>
  <2>1. CASE outside'
    BY <2>1
  <2>2. CASE ~outside'
    <3>1. Within'
      BY <1>1, <2>2, Zenon DEF Within
    <3>2. Within
      BY <1>1, <2>2, OutsideStays, Zenon DEF Within
    <3>3. [Heap!Next]_<<Contents, last, outside>>
      BY <1>1, <3>1, <3>2, NextSeen
    <3> QED BY <3>3
  <2> QED BY <2>1, <2>2
<1>2. Init => TermsInv
  <2> SUFFICES ASSUME Init PROVE TermsInv
    OBVIOUS
  <2>1. status = "running" /\ blocks = [i \in Blocks |-> NotHeld]
    BY DEF Init
  <2>2. Holders(blocks) = {}
    BY <2>1 DEF Holders, NotHeld
  <2> QED BY <2>1, <2>2 DEF TermsInv
<1> QED BY <1>1, <1>2, TermsNext, NextInv, InitInv, InitSeen, PTL DEF Spec, ImplementsHeap, Heap!Spec, Heap!heapVars
=============================================================================
