--------------------------- MODULE VscMemory_proofs ---------------------------
(***************************************************************************)
(* vsclib's allocator finds the header of every block from its pointer     *)
(* alone and loses no chunk: for every memory, alignment, size and order   *)
(* of calls, with the system's realloc and with the emulated one.          *)
(***************************************************************************)
EXTENDS VscMemory, TLAPS

(* What is known of the block at p whose header is at hdr.                  *)

HeaderAt(mem, hdr, p) ==
    /\ mem[hdr] \in {Num(s) : s \in 0..SIZE_MAX} /\ mem[hdr + 1] \in {Num(a) : a \in Nat \ {0}}
    /\ mem[hdr + 2] = Sig
    /\ p = Mem(hdr, mem[hdr + 1].val)
    /\ p = hdr + HEADER \/ mem[p - 1] = Ptr(hdr)

Describes(h, hdr, p) ==
    /\ hdr \in Bases /\ HeaderAt(h.mem, hdr, p) /\ p - hdr <= h.chunk[hdr]
    /\ HdrSize(h, hdr) + HEADER + HdrAlignment(h, hdr) <= SIZE_MAX =>
           p + HdrSize(h, hdr) <= hdr + h.chunk[hdr]
-----------------------------------------------------------------------------
(* Addresses and words                                                     *)

LEMMA BaseFacts ==
    ASSUME NEW b \in Bases
    PROVE  /\ b \in Nat /\ b # 0 /\ Room \in Nat /\ b..(b + Room - 1) \subseteq Addresses
  BY MemoryAssumption DEF Addresses, NULL

LEMMA AddressNat == Addresses \subseteq Nat
<1> SUFFICES ASSUME NEW x \in Addresses PROVE x \in Nat
  OBVIOUS
<1>1. PICK b \in Bases : x \in b..(b + Room - 1)
  BY DEF Addresses
<1> QED BY <1>1, BaseFacts

\* The room of two bases is disjoint.
LEMMA Apart ==
    ASSUME NEW b \in Bases, NEW c \in Bases, b # c, NEW x \in b..(b + Room - 1)
    PROVE  x \notin c..(c + Room - 1)
<1>1. b < c \/ c < b
  BY BaseFacts
<1>2. b + Room <= c \/ c + Room <= b
  BY <1>1, MemoryAssumption
<1> QED BY <1>2, BaseFacts

LEMMA WordFacts ==
    ASSUME NEW m \in Nat
    PROVE  /\ Sig \in Words /\ Junk \in Words /\ Ptr(m) \in Words /\ Num(m) \in Words /\ Word(m) \in Words
           /\ Ptr(m).val = m /\ Num(m).val = m /\ Ptr(m) # Sig
  BY DEF Sig, Junk, Ptr, Num, Word, Words

LEMMA AlignRange ==
    ASSUME NEW p \in Nat, NEW a \in Nat \ {0}
    PROVE  AlignUp(p, a) \in p..(p + a - 1)
<1>1. p % a \in 0..(a - 1)
  OBVIOUS
<1>2. a - (p % a) \in Nat
  BY <1>1
<1>3. (a - (p % a)) % a \in 0..(a - 1)
  BY <1>2
<1> QED BY <1>3 DEF AlignUp

LEMMA MemRange ==
    ASSUME NEW b \in Bases, NEW a \in Nat \ {0}
    PROVE  Mem(b, a) \in Nat /\ b + HEADER <= Mem(b, a) /\ Mem(b, a) < b + HEADER + a
<1>1. b + HEADER \in Nat
  BY BaseFacts DEF HEADER
<1> QED BY <1>1, AlignRange DEF Mem

LEMMA HeapParts ==
    ASSUME NEW h \in Heaps
    PROVE  /\ h.mem \in [Addresses -> Words] /\ h.chunk \in [Bases -> 0..Room]
           /\ \A x \in Addresses : h.mem[x] \in Words
           /\ \A b \in Bases : h.chunk[b] \in Nat /\ h.chunk[b] <= Room
  BY MemoryAssumption DEF Heaps

LEMMA HeapWith ==
    ASSUME NEW h \in Heaps, NEW m \in [Addresses -> Words]
    PROVE  /\ [h EXCEPT !.mem = m] \in Heaps
           /\ [h EXCEPT !.mem = m].mem = m /\ [h EXCEPT !.mem = m].chunk = h.chunk
  BY DEF Heaps

\* Words written.
LEMMA PutFacts ==
    ASSUME NEW mem \in [Addresses -> Words], NEW p \in Nat, NEW n \in Nat, NEW words,
           \A k \in 1..n : words[k] \in Words
    PROVE  /\ Put(mem, p, n, words) \in [Addresses -> Words]
           /\ \A x \in Addresses : x \notin p..(p + n - 1) => Put(mem, p, n, words)[x] = mem[x]
           /\ \A x \in Addresses : x \in p..(p + n - 1) => Put(mem, p, n, words)[x] = words[x - p + 1]
<1>1. ASSUME NEW x \in Addresses, x \in p..(p + n - 1)
      PROVE  words[x - p + 1] \in Words
  <2>1. x - p + 1 \in 1..n
    BY <1>1
  <2> QED BY <2>1
<1> QED BY <1>1 DEF Put
-----------------------------------------------------------------------------
(* The header                                                              *)

LEMMA Find ==
    ASSUME NEW h \in Heaps, NEW hdr, NEW p, Describes(h, hdr, p)
    PROVE  /\ Hdr(h, p) = hdr /\ hdr \in Bases
           /\ p \in Nat /\ hdr + HEADER <= p /\ p <= hdr + h.chunk[hdr] /\ p <= hdr + Room
           /\ HEADER <= h.chunk[hdr] /\ h.chunk[hdr] \in Nat /\ hdr \in Nat
           /\ HdrSize(h, hdr) \in 0..SIZE_MAX /\ HdrAlignment(h, hdr) \in Nat \ {0}
           /\ p = Mem(hdr, HdrAlignment(h, hdr)) /\ h.mem[hdr + 2] = Sig
           /\ p < hdr + HEADER + HdrAlignment(h, hdr)
<1>1. /\ hdr \in Bases /\ HeaderAt(h.mem, hdr, p) /\ p - hdr <= h.chunk[hdr]
  BY Zenon DEF Describes
<1>2. hdr \in Nat /\ h.chunk[hdr] \in Nat /\ h.chunk[hdr] <= Room
  BY <1>1, BaseFacts, HeapParts
<1>3. PICK s \in 0..SIZE_MAX : h.mem[hdr] = Num(s)
  BY <1>1, Zenon DEF HeaderAt
<1>4. PICK a \in Nat \ {0} : h.mem[hdr + 1] = Num(a)
  BY <1>1, Zenon DEF HeaderAt
<1>5. HdrSize(h, hdr) = s /\ HdrAlignment(h, hdr) = a
  BY <1>3, <1>4, WordFacts, MemoryAssumption DEF HdrSize, HdrAlignment
<1>6. p = Mem(hdr, a) /\ h.mem[hdr + 2] = Sig /\ (p = hdr + HEADER \/ h.mem[p - 1] = Ptr(hdr))
  BY <1>1, <1>5, Zenon DEF HeaderAt, HdrAlignment
<1>7. p \in Nat /\ hdr + HEADER <= p /\ p < hdr + HEADER + a
  BY <1>1, <1>6, MemRange
<1>8. Hdr(h, p) = hdr
  <2>1. CASE p = hdr + HEADER
    <3>1. p - 1 = hdr + 2 /\ p - HEADER = hdr
      BY <1>2, <2>1 DEF HEADER
    <3> QED BY <1>6, <3>1 DEF Hdr
  <2>2. CASE h.mem[p - 1] = Ptr(hdr)
    BY <1>2, <2>2, WordFacts DEF Hdr
  <2> QED BY <1>6, <2>1, <2>2
<1>9. p <= hdr + h.chunk[hdr] /\ p <= hdr + Room /\ HEADER <= h.chunk[hdr]
  <2>1. Room \in Nat
    BY MemoryAssumption
  <2> QED BY <1>1, <1>2, <1>7, <2>1 DEF HEADER
<1> QED BY <1>1, <1>2, <1>5, <1>6, <1>7, <1>8, <1>9

\* A block is described by what is at its own base.
LEMMA StillDescribes ==
    ASSUME NEW h \in Heaps, NEW h2 \in Heaps, NEW hdr, NEW p, Describes(h, hdr, p),
           h2.chunk[hdr] = h.chunk[hdr],
           \A x \in hdr..(p - 1) : h2.mem[x] = h.mem[x]
    PROVE  Describes(h2, hdr, p) /\ HdrSize(h2, hdr) = HdrSize(h, hdr) /\ HdrAlignment(h2, hdr) = HdrAlignment(h, hdr)
<1>1. /\ hdr \in Nat /\ p \in Nat /\ hdr + HEADER <= p
  BY Find
<1>2. hdr \in hdr..(p - 1) /\ hdr + 1 \in hdr..(p - 1) /\ hdr + 2 \in hdr..(p - 1) /\ p - 1 \in hdr..(p - 1)
  BY <1>1 DEF HEADER
<1>3. /\ h2.mem[hdr] = h.mem[hdr] /\ h2.mem[hdr + 1] = h.mem[hdr + 1] /\ h2.mem[hdr + 2] = h.mem[hdr + 2]
      /\ h2.mem[p - 1] = h.mem[p - 1]
  BY <1>2, Zenon
<1> QED BY <1>3, Zenon DEF Describes, HeaderAt, HdrSize, HdrAlignment
-----------------------------------------------------------------------------
(* What malloc_ writes                                                     *)

LEMMA WriteHeaderFacts ==
    ASSUME NEW h \in Heaps, NEW hdr \in Bases, NEW size \in 0..SIZE_MAX, NEW alignment \in Nat \ {0}
    PROVE  LET m == WriteHeader(h, hdr, size, alignment)
               p == Mem(hdr, alignment)
           IN  /\ m \in Heaps /\ m.chunk = h.chunk
               /\ \A x \in Addresses : x \notin hdr..(p - 1) => m.mem[x] = h.mem[x]
               /\ p <= hdr + Room => HeaderAt(m.mem, hdr, p) /\ m.mem[hdr] = Num(size) /\ m.mem[hdr + 1] = Num(alignment)
<1> DEFINE m == WriteHeader(h, hdr, size, alignment)
           p == Mem(hdr, alignment)
           found == IF p = hdr + HEADER THEN h.mem ELSE Put(h.mem, p - 1, 1, <<Ptr(hdr)>>)
           fields == <<Num(size), Num(alignment), Sig>>
<1>1. /\ hdr \in Nat /\ p \in Nat /\ hdr + 3 <= p /\ HEADER = 3 /\ Room \in Nat
      /\ hdr..(hdr + Room - 1) \subseteq Addresses /\ HEADER \in Nat
  BY BaseFacts, MemRange DEF HEADER
<1>2. /\ found \in [Addresses -> Words]
      /\ \A x \in Addresses : x # p - 1 => found[x] = h.mem[x]
      /\ p # hdr + HEADER => \A x \in Addresses : x = p - 1 => found[x] = Ptr(hdr)
  <2>1. CASE p = hdr + HEADER
    BY <2>1, HeapParts
  <2>2. CASE p # hdr + HEADER
    <3> DEFINE one == <<Ptr(hdr)>>
    <3>1. \A k \in 1..1 : one[k] \in Words
      BY <1>1, WordFacts
    <3>2. p - 1 \in Nat /\ h.mem \in [Addresses -> Words]
      BY <1>1, HeapParts
    <3>3. found = Put(h.mem, p - 1, 1, one)
      BY <2>2
    <3>4. /\ found \in [Addresses -> Words]
          /\ \A x \in Addresses : x \notin (p - 1)..(p - 1 + 1 - 1) => found[x] = h.mem[x]
          /\ \A x \in Addresses : x \in (p - 1)..(p - 1 + 1 - 1) => found[x] = one[x - (p - 1) + 1]
      <4> HIDE DEF one, found
      <4> QED BY <3>1, <3>2, <3>3, PutFacts
    <3>5. (p - 1)..(p - 1 + 1 - 1) = {p - 1} /\ (p - 1) - (p - 1) + 1 = 1 /\ one[1] = Ptr(hdr)
      BY <1>1
    <3> HIDE DEF one, found
    <3> QED BY <3>4, <3>5
  <2> QED BY <2>1, <2>2
<1>3. \A k \in 1..HEADER : fields[k] \in Words
  <2>1. Num(size) \in Words /\ Num(alignment) \in Words /\ Sig \in Words
    BY WordFacts, MemoryAssumption
  <2> QED BY <2>1, <1>1
<1>4. fields[1] = Num(size) /\ fields[2] = Num(alignment) /\ fields[3] = Sig
  OBVIOUS
<1>5. m = [h EXCEPT !.mem = Put(found, hdr, HEADER, fields)]
  BY DEF WriteHeader
<1> HIDE DEF found, fields
<1>6. /\ Put(found, hdr, HEADER, fields) \in [Addresses -> Words]
      /\ \A x \in Addresses : x \notin hdr..(hdr + HEADER - 1) => Put(found, hdr, HEADER, fields)[x] = found[x]
      /\ \A x \in Addresses : x \in hdr..(hdr + HEADER - 1) => Put(found, hdr, HEADER, fields)[x] = fields[x - hdr + 1]
  BY <1>1, <1>2, <1>3, PutFacts
<1>7. m \in Heaps /\ m.chunk = h.chunk /\ m.mem = Put(found, hdr, HEADER, fields)
  BY <1>5, <1>6, HeapWith
<1> HIDE DEF m, p
<1>8. \A x \in Addresses : x \notin hdr..(p - 1) => m.mem[x] = h.mem[x]
  BY <1>1, <1>2, <1>6, <1>7, AddressNat
<1>9. ASSUME p <= hdr + Room
      PROVE  HeaderAt(m.mem, hdr, p) /\ m.mem[hdr] = Num(size) /\ m.mem[hdr + 1] = Num(alignment)
  <2>1. /\ hdr \in Addresses /\ hdr + 1 \in Addresses /\ hdr + 2 \in Addresses /\ p - 1 \in Addresses
    BY <1>1, <1>9
  <2>2. m.mem[hdr] = fields[1] /\ m.mem[hdr + 1] = fields[2] /\ m.mem[hdr + 2] = fields[3]
    BY <1>1, <1>6, <1>7, <2>1
  <2>3. p = hdr + HEADER \/ m.mem[p - 1] = Ptr(hdr)
    <3>1. CASE p = hdr + HEADER
      BY <3>1
    <3>2. CASE p # hdr + HEADER
      <4>1. p - 1 \notin hdr..(hdr + HEADER - 1)
        BY <1>1, <3>2
      <4> QED BY <1>2, <1>6, <1>7, <2>1, <3>2, <4>1
    <3> QED BY <3>1, <3>2
  <2>4. m.mem[hdr + 1].val = alignment
    BY <1>4, <2>2, WordFacts
  <2>5. p = Mem(hdr, m.mem[hdr + 1].val)
    BY <2>4 DEF p
  <2> QED BY <1>4, <2>2, <2>3, <2>5, Zenon DEF HeaderAt
<1> QED BY <1>7, <1>8, <1>9 DEF m, p

\* A change to the words from p on, and to no other.
Touches(h, h2, p, n) ==
    /\ h2 \in Heaps /\ h2.chunk = h.chunk
    /\ \A x \in Addresses : x \notin p..(p + n - 1) => h2.mem[x] = h.mem[x]

LEMMA PutTouches ==
    ASSUME NEW h \in Heaps, NEW p \in Nat, NEW n \in Nat, NEW words, \A k \in 1..n : words[k] \in Words
    PROVE  Touches(h, [h EXCEPT !.mem = Put(h.mem, p, n, words)], p, n)
<1>1. h.mem \in [Addresses -> Words]
  BY HeapParts
<1>2. /\ Put(h.mem, p, n, words) \in [Addresses -> Words]
      /\ \A x \in Addresses : x \notin p..(p + n - 1) => Put(h.mem, p, n, words)[x] = h.mem[x]
  BY <1>1, PutFacts
<1> QED BY <1>2, HeapWith DEF Touches

LEMMA MoveDataFacts ==
    ASSUME NEW h \in Heaps, NEW hdr \in Bases, NEW shift \in Nat, NEW p \in Nat, NEW n \in Nat,
           shift = p - hdr \/ shift + n <= h.chunk[hdr] \/ n = 0
    PROVE  Touches(h, MoveData(h, hdr, shift, p, n), p, n)
<1>1. CASE shift = p - hdr
  BY <1>1 DEF MoveData, Touches
<1>2. CASE shift # p - hdr
  <2> DEFINE words == [k \in 1..n |-> h.mem[hdr + shift + k - 1]]
  <2>1. \A k \in 1..n : words[k] \in Words
    <3> SUFFICES ASSUME NEW k \in 1..n PROVE h.mem[hdr + shift + k - 1] \in Words
      OBVIOUS
    <3>1. hdr \in Nat /\ h.chunk[hdr] \in Nat /\ h.chunk[hdr] <= Room /\ Room \in Nat
      BY BaseFacts, HeapParts
    <3>2. hdr + shift + k - 1 \in hdr..(hdr + Room - 1)
      BY <1>2, <3>1
    <3> QED BY <3>2, BaseFacts, HeapParts
  <2>2. MoveData(h, hdr, shift, p, n) = [h EXCEPT !.mem = Put(h.mem, p, n, words)]
    BY <1>2 DEF MoveData
  <2> HIDE DEF words
  <2> QED BY <2>1, <2>2, PutTouches
<1> QED BY <1>1, <1>2

LEMMA ZeroFromFacts ==
    ASSUME NEW h \in Heaps, NEW p \in Nat, NEW from \in Nat, NEW to \in Nat
    PROVE  Touches(h, ZeroFrom(h, p, from, to), p + from, IF from >= to THEN 0 ELSE to - from)
<1>1. CASE from >= to
  BY <1>1 DEF ZeroFrom, Touches
<1>2. CASE ~(from >= to)
  <2> DEFINE words == [k \in 1..(to - from) |-> Word(0)]
  <2>1. \A k \in 1..(to - from) : words[k] \in Words
    <3>1. Word(0) \in Words
      BY WordFacts
    <3> HIDE DEF Word, Words
    <3> QED BY <3>1
  <2>2. ZeroFrom(h, p, from, to) = [h EXCEPT !.mem = Put(h.mem, p + from, to - from, words)]
    BY <1>2 DEF ZeroFrom
  <2>3. p + from \in Nat /\ to - from \in Nat
    BY <1>2
  <2> HIDE DEF words
  <2> QED BY <1>2, <2>1, <2>2, <2>3, PutTouches
<1> QED BY <1>1, <1>2

LEMMA TidiedFacts ==
    ASSUME NEW h \in Heaps, NEW hdr \in Bases, NEW p \in Nat, NEW size \in Nat, hdr + HEADER <= p
    PROVE  LET t == Tidied(h, hdr, p, size)
           IN  /\ t \in Heaps /\ t.chunk = h.chunk
               /\ \A x \in Addresses : x \notin Extent(h, hdr) => t.mem[x] = h.mem[x]
               /\ \A x \in Addresses : x \in (hdr..(hdr + HEADER - 1)) \cup ((p - 1)..(p + size - 1)) => t.mem[x] = h.mem[x]
<1> DEFINE used == hdr..(hdr + HEADER - 1) \cup (p - 1)..(p + size - 1)
           m == [x \in Addresses |-> IF x \in Extent(h, hdr) \ used THEN Junk ELSE h.mem[x]]
<1>1. Tidied(h, hdr, p, size) = [h EXCEPT !.mem = m]
  BY DEF Tidied
<1>2. m \in [Addresses -> Words]
  BY HeapParts, WordFacts
<1>3. Tidied(h, hdr, p, size) \in Heaps /\ Tidied(h, hdr, p, size).chunk = h.chunk /\ Tidied(h, hdr, p, size).mem = m
  <2> HIDE DEF m
  <2> QED BY <1>1, <1>2, HeapWith
<1> QED BY <1>3

\* A block of h2 that was written on the chunk at b alone, over h.
Filled(h, h2, b, p, size, alignment) ==
    /\ h2 \in Heaps /\ h2.chunk = h.chunk /\ Describes(h2, b, p)
    /\ HdrSize(h2, b) = size /\ HdrAlignment(h2, b) = alignment
    /\ \A x \in Addresses : x \notin Extent(h, b) => h2.mem[x] = h.mem[x]

LEMMA FillChunkFacts ==
    ASSUME NEW h \in Heaps, NEW hdr \in Bases, NEW size \in 0..SIZE_MAX, NEW alignment \in Nat \ {0},
           NEW zero \in BOOLEAN, NEW moves \in BOOLEAN, NEW old, old.shift \in Nat, old.size \in Nat,
           size + HEADER + alignment <= SIZE_MAX => h.chunk[hdr] = HEADER + size + alignment,
           NEW r, r = FillChunk(h, hdr, size, alignment, zero, old, moves)
    PROVE  \/ r = Outcome("undefined", NULL, h)
           \/ r.ret = "0" /\ Filled(h, r.heap, hdr, r.ptr, size, alignment)
<1> DEFINE p     == Mem(hdr, alignment)
           space == h.chunk[hdr] - (p - hdr)
           used  == IF moves /\ old.shift # p - hdr THEN old.size ELSE 0
           top   == IF zero /\ size > old.size THEN size ELSE 0
           m1    == WriteHeader(h, hdr, size, alignment)
           m2    == IF moves THEN MoveData(m1, hdr, old.shift, p, old.size) ELSE m1
           m3    == IF zero THEN ZeroFrom(m2, p, old.size, size) ELSE m2
           bad   == \/ used > space \/ top > space \/ space < 0
                    \/ used > 0 /\ old.shift + used > h.chunk[hdr]
<1>1. CASE bad
  BY <1>1 DEF FillChunk
<1>2. CASE ~bad
  <2>1. r = Outcome("0", p, Tidied(m3, hdr, p, size))
    BY <1>2 DEF FillChunk
  <2>2. ~(used > space) /\ ~(top > space) /\ ~(space < 0) /\ ~(used > 0 /\ old.shift + used > h.chunk[hdr])
    BY <1>2
  <2>3. /\ hdr \in Nat /\ p \in Nat /\ hdr + HEADER <= p /\ p < hdr + HEADER + alignment /\ HEADER = 3 /\ Room \in Nat
        /\ hdr..(hdr + Room - 1) \subseteq Addresses /\ SIZE_MAX \in Nat /\ size \in Nat
        /\ h.chunk[hdr] \in Nat /\ h.chunk[hdr] <= Room
    BY BaseFacts, MemRange, HeapParts, MemoryAssumption DEF HEADER
  <2> DEFINE space0 == h.chunk[hdr] - (p - hdr)
  <2>4. p <= hdr + h.chunk[hdr] /\ p <= hdr + Room
    BY <2>2, <2>3
  <2>5. /\ m1 \in Heaps /\ m1.chunk = h.chunk
        /\ \A x \in Addresses : x \notin hdr..(p - 1) => m1.mem[x] = h.mem[x]
        /\ HeaderAt(m1.mem, hdr, p) /\ m1.mem[hdr] = Num(size) /\ m1.mem[hdr + 1] = Num(alignment)
    <3> HIDE DEF m1, p
    <3>1. m1 = WriteHeader(h, hdr, size, alignment) /\ p = Mem(hdr, alignment)
      BY DEF m1, p
    <3> QED BY <2>4, <3>1, WriteHeaderFacts
  <2>6. /\ m2 \in Heaps /\ m2.chunk = h.chunk
        /\ \A x \in Addresses : x \notin p..(p + used - 1) => m2.mem[x] = m1.mem[x]
    <3>1. CASE ~moves
      <4>1. m2 = m1
        BY <3>1
      <4> HIDE DEF m1, m2
      <4> QED BY <2>5, <4>1
    <3>2. CASE moves
      <4>1. m2 = MoveData(m1, hdr, old.shift, p, old.size)
        BY <3>2
      <4>2. used = IF old.shift # p - hdr THEN old.size ELSE 0
        BY <3>2
      <4>3. old.shift = p - hdr \/ old.shift + old.size <= m1.chunk[hdr] \/ old.size = 0
        <5> HIDE DEF m1, p, used
        <5> QED BY <2>2, <2>3, <2>5, <4>2
      <4>4. Touches(m1, m2, p, old.size)
        <5> HIDE DEF m1, m2, p
        <5> QED BY <2>3, <2>5, <4>1, <4>3, MoveDataFacts
      <4>5. CASE old.shift = p - hdr
        <5>1. m2 = m1
          BY <4>1, <4>5 DEF MoveData
        <5> HIDE DEF m1, m2, p, used
        <5> QED BY <2>5, <5>1
      <4>6. CASE old.shift # p - hdr
        <5>1. used = old.size
          BY <4>2, <4>6
        <5> HIDE DEF m1, m2, p, used
        <5> QED BY <2>5, <4>4, <5>1 DEF Touches
      <4> QED BY <4>5, <4>6
    <3> QED BY <3>1, <3>2
  <2>7. /\ m3 \in Heaps /\ m3.chunk = h.chunk
        /\ \A x \in Addresses : x \notin p..(p + top - 1) => m3.mem[x] = m2.mem[x]
    <3>1. CASE ~zero
      <4>1. m3 = m2
        BY <3>1
      <4> HIDE DEF m3, m2
      <4> QED BY <2>6, <4>1
    <3>2. CASE zero
      <4>1. m3 = ZeroFrom(m2, p, old.size, size)
        BY <3>2
      <4>2. top = IF size > old.size THEN size ELSE 0
        BY <3>2
      <4>3. Touches(m2, m3, p + old.size, IF old.size >= size THEN 0 ELSE size - old.size)
        <5> HIDE DEF m3, m2, p
        <5> QED BY <2>3, <2>6, <4>1, ZeroFromFacts
      <4>4. CASE old.size >= size
        <5>1. m3 = m2
          BY <4>1, <4>4 DEF ZeroFrom
        <5> HIDE DEF m2, m3, p, top
        <5> QED BY <2>6, <5>1
      <4>5. CASE ~(old.size >= size)
        <5>1. top = size /\ Touches(m2, m3, p + old.size, size - old.size)
          <6> HIDE DEF m2, m3, p, top
          <6> QED BY <2>3, <4>2, <4>3, <4>5
        <5>2. \A x \in Addresses : x \notin p..(p + top - 1) => x \notin (p + old.size)..(p + old.size + (size - old.size) - 1)
          <6> HIDE DEF m2, m3, p, top
          <6> QED BY <2>3, <4>5, <5>1, AddressNat
        <5> HIDE DEF m2, m3, p, top
        <5> QED BY <2>6, <5>1, <5>2 DEF Touches
      <4> QED BY <4>4, <4>5
    <3> QED BY <3>1, <3>2
  <2> DEFINE t == Tidied(m3, hdr, p, size)
  <2>8. /\ t \in Heaps /\ t.chunk = h.chunk
        /\ \A x \in Addresses : x \notin Extent(h, hdr) => t.mem[x] = m3.mem[x]
        /\ \A x \in Addresses : x \in (hdr..(hdr + HEADER - 1)) \cup ((p - 1)..(p + size - 1)) => t.mem[x] = m3.mem[x]
    <3> HIDE DEF m3, p
    <3>1. Extent(m3, hdr) = Extent(h, hdr)
      BY <2>7 DEF Extent
    <3> QED BY <2>3, <2>7, <3>1, TidiedFacts
  <2>9. used \in Nat /\ top \in Nat /\ p + used <= hdr + h.chunk[hdr] /\ p + top <= hdr + h.chunk[hdr]
    <3>1. used \in Nat /\ top \in Nat
      BY <2>3
    <3> HIDE DEF p, used, top
    <3> QED BY <2>2, <2>3, <3>1
  <2>10. \A x \in Addresses : x \notin p..(hdr + h.chunk[hdr] - 1) => m3.mem[x] = m1.mem[x]
    <3> SUFFICES ASSUME NEW x \in Addresses, x \notin p..(hdr + h.chunk[hdr] - 1) PROVE m3.mem[x] = m1.mem[x]
      OBVIOUS
    <3>1. p \in Nat /\ hdr \in Nat /\ h.chunk[hdr] \in Nat /\ x \in Nat
      BY <2>3, AddressNat
    <3>2. x \notin p..(p + used - 1) /\ x \notin p..(p + top - 1)
      <4> HIDE DEF p, used, top
      <4> QED BY <2>9, <3>1
    <3>3. m3.mem[x] = m2.mem[x] /\ m2.mem[x] = m1.mem[x]
      <4> HIDE DEF m1, m2, m3, p, used, top
      <4> QED BY <2>6, <2>7, <3>2, Zenon
    <3> HIDE DEF m1, m2, m3
    <3> QED BY <3>3
  <2>11. \A x \in Addresses : x \notin Extent(h, hdr) => t.mem[x] = h.mem[x]
    <3> HIDE DEF m1, m3, p, t
    <3> QED BY <2>3, <2>4, <2>5, <2>8, <2>10, AddressNat DEF Extent
  <2>12. \A x \in (hdr..(hdr + HEADER - 1)) \cup {p - 1} : t.mem[x] = m1.mem[x]
    <3> HIDE DEF m1, m3, p, t
    <3> QED BY <2>3, <2>4, <2>8, <2>10
  <2>13. /\ t.mem[hdr] = Num(size) /\ t.mem[hdr + 1] = Num(alignment)
         /\ HeaderAt(t.mem, hdr, p)
    <3>1. /\ hdr \in hdr..(hdr + HEADER - 1) /\ hdr + 1 \in hdr..(hdr + HEADER - 1)
          /\ hdr + 2 \in hdr..(hdr + HEADER - 1)
      BY <2>3
    <3>2. /\ t.mem[hdr] = m1.mem[hdr] /\ t.mem[hdr + 1] = m1.mem[hdr + 1] /\ t.mem[hdr + 2] = m1.mem[hdr + 2]
          /\ t.mem[p - 1] = m1.mem[p - 1]
      <4> HIDE DEF m1, t, p
      <4> QED BY <2>12, <3>1
    <3> HIDE DEF m1, t, p
    <3> QED BY <2>5, <3>2, Zenon DEF HeaderAt
  <2>14. HdrSize(t, hdr) = size /\ HdrAlignment(t, hdr) = alignment
    <3> HIDE DEF t
    <3> QED BY <2>3, <2>13, WordFacts DEF HdrSize, HdrAlignment
  <2>15. Describes(t, hdr, p)
    <3>1. p - hdr <= t.chunk[hdr]
      <4> HIDE DEF t, p
      <4> QED BY <2>3, <2>4, <2>8
    <3>2. HdrSize(t, hdr) + HEADER + HdrAlignment(t, hdr) <= SIZE_MAX => p + HdrSize(t, hdr) <= hdr + t.chunk[hdr]
      <4> HIDE DEF t, p
      <4> QED BY <2>3, <2>8, <2>14
    <3> HIDE DEF t, p
    <3> QED BY <2>13, <3>1, <3>2 DEF Describes
  <2>16. r.ret = "0" /\ r.ptr = p /\ r.heap = t
    <3> HIDE DEF p, m3
    <3> QED BY <2>1 DEF Outcome
  <2> HIDE DEF t, p
  <2> QED BY <2>8, <2>11, <2>14, <2>15, <2>16, Zenon DEF Filled
<1> QED BY <1>1, <1>2
-----------------------------------------------------------------------------
(* The chunks of the C library                                             *)

\* What happens at one base leaves the others alone.
Untouched(h, h2, c) ==
    /\ h2.chunk[c] = h.chunk[c]
    /\ \A x \in c..(c + Room - 1) : h2.mem[x] = h.mem[x]

LEMMA ExtentRange ==
    ASSUME NEW h \in Heaps, NEW b \in Bases
    PROVE  Extent(h, b) \subseteq b..(b + Room - 1) /\ Extent(h, b) \subseteq Addresses
<1>1. b \in Nat /\ h.chunk[b] \in Nat /\ h.chunk[b] <= Room /\ Room \in Nat /\ b..(b + Room - 1) \subseteq Addresses
  BY BaseFacts, HeapParts
<1>2. Extent(h, b) \subseteq b..(b + Room - 1)
  BY <1>1 DEF Extent
<1> QED BY <1>1, <1>2

LEMMA FreeFacts ==
    ASSUME NEW h \in Heaps, NEW b \in Bases
    PROVE  /\ Free(h, b) \in Heaps /\ Free(h, b).chunk = [h.chunk EXCEPT ![b] = 0] /\ Free(h, b).chunk[b] = 0
           /\ \A x \in Addresses : x \notin Extent(h, b) => Free(h, b).mem[x] = h.mem[x]
           /\ \A c \in Bases \ {b} : Untouched(h, Free(h, b), c)
<1> DEFINE mem == [x \in Addresses |-> IF x \in Extent(h, b) THEN Junk ELSE h.mem[x]]
           chunk == [h.chunk EXCEPT ![b] = 0]
<1>1. Free(h, b).mem = mem /\ Free(h, b).chunk = chunk /\ Free(h, b) = [mem |-> mem, chunk |-> chunk]
  BY DEF Free
<1>2. mem \in [Addresses -> Words] /\ chunk \in [Bases -> 0..Room] /\ chunk[b] = 0
  BY HeapParts, WordFacts, MemoryAssumption
<1>3. Free(h, b) \in Heaps
  <2> HIDE DEF mem, chunk
  <2> QED BY <1>1, <1>2 DEF Heaps
<1>4. ASSUME NEW c \in Bases \ {b}
      PROVE  Untouched(h, Free(h, b), c)
  <2>1. chunk[c] = h.chunk[c]
    BY HeapParts
  <2>2. ASSUME NEW x \in c..(c + Room - 1)
        PROVE  mem[x] = h.mem[x]
    <3>1. x \notin b..(b + Room - 1)
      BY <1>4, <2>2, Apart
    <3>2. x \in Addresses
      BY <1>4, <2>2, BaseFacts
    <3> QED BY <3>1, <3>2, ExtentRange
  <2> HIDE DEF mem, chunk
  <2> QED BY <1>1, <2>1, <2>2 DEF Untouched
<1>5. \A x \in Addresses : x \notin Extent(h, b) => mem[x] = h.mem[x]
  OBVIOUS
<1> HIDE DEF mem
<1> QED BY <1>1, <1>2, <1>3, <1>4, <1>5

LEMMA MovedFacts ==
    ASSUME NEW h \in Heaps, NEW old, old = NULL \/ old \in Bases, NEW new \in Bases, NEW n \in 1..Room
    PROVE  /\ Moved(h, old, new, n) \in Heaps /\ Moved(h, old, new, n).chunk[new] = n
           /\ old \in Bases /\ old # new => Moved(h, old, new, n).chunk[old] = 0
           /\ \A c \in Bases \ {old, new} : Untouched(h, Moved(h, old, new, n), c)
<1> DEFINE left == IF old = NULL THEN h ELSE Free(h, old)
           kept(k) == IF old # NULL /\ k <= h.chunk[old] THEN h.mem[old + k - 1] ELSE Junk
           words == [k \in 1..n |-> kept(k)]
           mem == Put(left.mem, new, n, words)
           chunk == [left.chunk EXCEPT ![new] = n]
<1>0. Room \in Nat /\ n \in Nat /\ n <= Room /\ n \in 0..Room
  BY MemoryAssumption
<1>1. /\ left \in Heaps
      /\ old \in Bases => left.chunk[old] = 0
      /\ \A c \in Bases \ {old} : Untouched(h, left, c)
  <2>1. CASE old = NULL
    <3>1. left = h /\ old \notin Bases
      BY <2>1, BaseFacts DEF NULL
    <3> HIDE DEF left
    <3> QED BY <3>1 DEF Untouched
  <2>2. CASE old # NULL
    <3>1. left = Free(h, old) /\ old \in Bases
      BY <2>2
    <3> HIDE DEF left
    <3> QED BY <3>1, FreeFacts
  <2> QED BY <2>1, <2>2
<1>2. \A k \in 1..n : words[k] \in Words
  <2> SUFFICES ASSUME NEW k \in 1..n PROVE kept(k) \in Words
    OBVIOUS
  <2>1. CASE old # NULL /\ k <= h.chunk[old]
    <3>1. old \in Bases
      BY <2>1
    <3>2. old \in Nat /\ h.chunk[old] \in Nat /\ h.chunk[old] <= Room
      BY <3>1, BaseFacts, HeapParts
    <3>3. old + k - 1 \in old..(old + Room - 1)
      BY <1>0, <2>1, <3>2
    <3> QED BY <2>1, <3>1, <3>3, BaseFacts, HeapParts
  <2>2. CASE ~(old # NULL /\ k <= h.chunk[old])
    BY <2>2, WordFacts
  <2> QED BY <2>1, <2>2
<1>3. Moved(h, old, new, n) = [mem |-> mem, chunk |-> chunk]
  BY DEF Moved
<1>4. new \in Nat /\ left.mem \in [Addresses -> Words] /\ left.chunk \in [Bases -> 0..Room]
  <2> HIDE DEF left
  <2> QED BY <1>1, HeapParts, BaseFacts
<1> HIDE DEF words, left
<1>5. /\ mem \in [Addresses -> Words]
      /\ \A x \in Addresses : x \notin new..(new + n - 1) => mem[x] = left.mem[x]
  BY <1>0, <1>2, <1>4, PutFacts
<1>6. chunk \in [Bases -> 0..Room] /\ chunk[new] = n /\ \A c \in Bases \ {new} : chunk[c] = left.chunk[c]
  BY <1>0, <1>4
<1> HIDE DEF mem, chunk
<1>7. Moved(h, old, new, n) \in Heaps
  BY <1>3, <1>5, <1>6 DEF Heaps
<1>8. ASSUME NEW c \in Bases \ {old, new}
      PROVE  Untouched(h, Moved(h, old, new, n), c)
  <2>1. Untouched(h, left, c) /\ chunk[c] = left.chunk[c]
    BY <1>1, <1>6
  <2>2. ASSUME NEW x \in c..(c + Room - 1)
        PROVE  mem[x] = left.mem[x]
    <3>1. x \notin new..(new + Room - 1)
      BY <1>8, <2>2, Apart
    <3>2. x \in Addresses
      BY <1>8, <2>2, BaseFacts
    <3>3. x \notin new..(new + n - 1)
      BY <1>0, <1>4, <3>1
    <3> QED BY <1>5, <3>2, <3>3
  <2> QED BY <1>3, <2>1, <2>2 DEF Untouched
<1>9. old \in Bases /\ old # new => Moved(h, old, new, n).chunk[old] = 0
  BY <1>1, <1>3, <1>6
<1> QED BY <1>3, <1>6, <1>7, <1>8, <1>9

LEMMA MovedChunk ==
    ASSUME NEW h \in Heaps, NEW old, old = NULL \/ old \in Bases, NEW new \in Bases, NEW n \in 1..Room
    PROVE  Moved(h, old, new, n).chunk[new] = n
<1> DEFINE left == IF old = NULL THEN h ELSE Free(h, old)
<1>1. left \in Heaps
  <2>1. CASE old = NULL
    BY <2>1
  <2>2. CASE old # NULL
    <3>1. Free(h, old) \in Heaps
      BY <2>2, FreeFacts
    <3> QED BY <2>2, <3>1
  <2> QED BY <2>1, <2>2
<1> HIDE DEF left
<1>2. DOMAIN left.chunk = Bases
  BY <1>1, HeapParts
<1>3. Moved(h, old, new, n).chunk = [left.chunk EXCEPT ![new] = n]
  BY DEF Moved, left
<1> QED BY <1>2, <1>3
-----------------------------------------------------------------------------
(* malloc_                                                                 *)

\* The block at p has the chunk at b, which was free or is one of those given up;
\* the others given up are free, and every other chunk is left alone.
Placed(h, h2, gone, b, p) ==
    /\ h2 \in Heaps /\ Describes(h2, b, p)
    /\ b \in gone \/ h.chunk[b] = 0
    /\ \A c \in gone \ {b} : h2.chunk[c] = 0
    /\ \A c \in Bases \ (gone \cup {b}) : Untouched(h, h2, c)

Obtains(h, h2, gone, p, size, alignment) ==
    \E b \in Bases : Placed(h, h2, gone, b, p) /\ HdrSize(h2, b) = size /\ HdrAlignment(h2, b) = alignment

Reallocs(ptr, flags) == "REALLOC" \in flags /\ ptr # NULL

LEMMA OutcomeParts ==
    ASSUME NEW ret, NEW p, NEW h
    PROVE  Outcome(ret, p, h).ret = ret /\ Outcome(ret, p, h).ptr = p /\ Outcome(ret, p, h).heap = h
  BY DEF Outcome

LEMMA ReqsizeFacts ==
    ASSUME NEW size \in 0..SIZE_MAX, NEW alignment \in Nat \ {0}
    PROVE  /\ Reqsize(size, alignment) \in Nat
           /\ size + HEADER + alignment <= SIZE_MAX => Reqsize(size, alignment) = HEADER + size + alignment
<1>1. SIZE_MAX \in Nat /\ HEADER + size + alignment \in Nat
  BY MemoryAssumption DEF HEADER
<1>2. ASSUME NEW x \in Nat
      PROVE  x % (SIZE_MAX + 1) \in Nat /\ (x <= SIZE_MAX => x % (SIZE_MAX + 1) = x)
  BY <1>1
<1>3. size \in Nat /\ HEADER + size + alignment = size + HEADER + alignment
  BY <1>1 DEF HEADER
<1> QED BY <1>1, <1>2, <1>3 DEF Reqsize

LEMMA MallocFacts ==
    ASSUME NEW h \in Heaps, NEW ptr, NEW size \in 0..SIZE_MAX, NEW alignment \in Nat \ {0}, NEW flags,
           Reallocs(ptr, flags) => Describes(h, Hdr(h, ptr), ptr),
           NEW r \in malloc_(h, ptr, size, alignment, flags)
    PROVE  \/ r.ret \in {"ENOMEM", "EINVAL"} /\ r.heap = h
           \/ r.ret = "undefined"
           \/ /\ r.ret = "0"
              /\ Obtains(h, r.heap, IF Reallocs(ptr, flags) THEN {Hdr(h, ptr)} ELSE {}, r.ptr, size, alignment)
<1> DEFINE reallocs == Reallocs(ptr, flags)
           hdr      == IF reallocs THEN Hdr(h, ptr) ELSE NULL
           old      == IF reallocs THEN [shift |-> ptr - hdr, size |-> HdrSize(h, hdr)]
                                   ELSE [shift |-> 0, size |-> 0]
           reqsize  == Reqsize(size, alignment)
           gone     == IF reallocs THEN {Hdr(h, ptr)} ELSE {}
<1>1. \/ r = Outcome("EINVAL", ptr, h) \/ r = Outcome("ENOMEM", ptr, h) \/ r = Outcome("undefined", NULL, h)
      \/ \E q \in Reallocated(h, hdr, reqsize) :
            r = FillChunk(q.heap, q.base, size, alignment, "ZERO" \in flags, old, reallocs)
  BY Zenon DEF malloc_, Reallocs
<1>2. CASE r = Outcome("EINVAL", ptr, h) \/ r = Outcome("ENOMEM", ptr, h) \/ r = Outcome("undefined", NULL, h)
  BY <1>2 DEF Outcome
<1>3. ASSUME NEW q \in Reallocated(h, hdr, reqsize),
             r = FillChunk(q.heap, q.base, size, alignment, "ZERO" \in flags, old, reallocs)
      PROVE  \/ r.ret = "undefined"
             \/ r.ret = "0" /\ Obtains(h, r.heap, gone, r.ptr, size, alignment)
  <2>1. PICK b \in Bases : /\ reqsize \in 1..Room /\ (h.chunk[b] = 0 \/ b = hdr)
                           /\ q.base = b /\ q.heap = Moved(h, hdr, b, reqsize)
    <3>1. PICK b \in {c \in Bases : reqsize \in 1..Room /\ (h.chunk[c] = 0 \/ c = hdr)} :
             q = [base |-> b, heap |-> Moved(h, hdr, b, reqsize)]
      BY Zenon DEF Reallocated
    <3> HIDE DEF reqsize, hdr
    <3> QED BY <3>1
  <2>2. /\ hdr = NULL \/ hdr \in Bases
        /\ old.shift \in Nat /\ old.size \in Nat
        /\ gone = IF hdr = NULL THEN {} ELSE {hdr}
    <3>1. CASE reallocs
      <4>1. Describes(h, Hdr(h, ptr), ptr) /\ hdr = Hdr(h, ptr) /\ gone = {hdr}
            /\ old = [shift |-> ptr - hdr, size |-> HdrSize(h, hdr)]
        BY <3>1
      <4> HIDE DEF hdr, old, gone, reallocs
      <4>2. /\ hdr \in Bases /\ hdr \in Nat /\ ptr \in Nat /\ hdr + HEADER <= ptr
            /\ HdrSize(h, hdr) \in 0..SIZE_MAX
        BY <4>1, Find
      <4>3. hdr # NULL /\ SIZE_MAX \in Nat
        BY <4>2, BaseFacts, MemoryAssumption DEF NULL
      <4> QED BY <4>1, <4>2, <4>3 DEF HEADER
    <3>2. CASE ~reallocs
      BY <3>2
    <3> QED BY <3>1, <3>2
  <2>3. /\ q.heap \in Heaps /\ q.heap.chunk[b] = reqsize
        /\ hdr \in Bases /\ hdr # b => q.heap.chunk[hdr] = 0
        /\ \A c \in Bases \ {hdr, b} : Untouched(h, q.heap, c)
    <3> HIDE DEF reqsize, hdr
    <3> QED BY <2>1, <2>2, MovedFacts
  <2>4. size + HEADER + alignment <= SIZE_MAX => q.heap.chunk[b] = HEADER + size + alignment
    BY <2>3, ReqsizeFacts
  <2>5. reallocs \in BOOLEAN /\ ("ZERO" \in flags) \in BOOLEAN
    BY DEF Reallocs
  <2>6. \/ r = Outcome("undefined", NULL, q.heap)
        \/ r.ret = "0" /\ Filled(q.heap, r.heap, b, r.ptr, size, alignment)
    <3> DEFINE zero == "ZERO" \in flags
    <3>1. zero \in BOOLEAN
      OBVIOUS
    <3>2. r = FillChunk(q.heap, b, size, alignment, zero, old, reallocs)
      BY <1>3, <2>1
    <3> HIDE DEF zero, reallocs, old, reqsize, hdr
    <3>3. old.shift \in Nat /\ old.size \in Nat /\ q.heap \in Heaps /\ reallocs \in BOOLEAN
      BY <2>2, <2>3, <2>5
    <3> QED BY <2>4, <3>1, <3>2, <3>3, FillChunkFacts
  <2>7. CASE r = Outcome("undefined", NULL, q.heap)
    <3>1. Outcome("undefined", NULL, q.heap).ret = "undefined"
      BY OutcomeParts
    <3>2. r.ret = "undefined"
      BY <2>7, <3>1, Zenon
    <3> QED BY <3>2, Zenon
  <2>8. CASE r.ret = "0" /\ Filled(q.heap, r.heap, b, r.ptr, size, alignment)
    <3>1. /\ r.heap \in Heaps /\ r.heap.chunk = q.heap.chunk /\ Describes(r.heap, b, r.ptr)
          /\ HdrSize(r.heap, b) = size /\ HdrAlignment(r.heap, b) = alignment
          /\ \A x \in Addresses : x \notin Extent(q.heap, b) => r.heap.mem[x] = q.heap.mem[x]
      BY <2>8, Zenon DEF Filled
    <3>2. b \in gone \/ h.chunk[b] = 0
      <4>1. b # NULL
        BY BaseFacts DEF NULL
      <4> HIDE DEF gone, hdr
      <4> QED BY <2>1, <2>2, <4>1
    <3>3. \A c \in gone \ {b} : r.heap.chunk[c] = 0
      <4> HIDE DEF gone, hdr
      <4> QED BY <2>2, <2>3, <3>1
    <3>4. ASSUME NEW c \in Bases \ (gone \cup {b})
          PROVE  Untouched(h, r.heap, c)
      <4>1. c \in Bases \ {hdr, b}
        <5>1. c # NULL
          BY BaseFacts DEF NULL
        <5> HIDE DEF gone, hdr
        <5> QED BY <2>2, <5>1
      <4>2. Untouched(h, q.heap, c)
        <5> HIDE DEF hdr
        <5> QED BY <2>3, <4>1
      <4>3. ASSUME NEW x \in c..(c + Room - 1)
            PROVE  r.heap.mem[x] = q.heap.mem[x]
        <5>1. x \notin b..(b + Room - 1) /\ x \in Addresses
          BY <4>1, <4>3, Apart, BaseFacts
        <5> QED BY <2>3, <3>1, <5>1, ExtentRange
      <4> QED BY <3>1, <4>2, <4>3, Zenon DEF Untouched
    <3>5. Placed(h, r.heap, gone, b, r.ptr)
      <4> HIDE DEF gone
      <4> QED BY <3>1, <3>2, <3>3, <3>4, Zenon DEF Placed
    <3> HIDE DEF gone
    <3> QED BY <2>8, <3>1, <3>5, Zenon DEF Obtains
  <2> QED BY <2>6, <2>7, <2>8
<1> HIDE DEF hdr, old, reqsize
<1> QED BY <1>1, <1>2, <1>3
-----------------------------------------------------------------------------
(* vsc_xalloc_ex                                                           *)

LEMMA MallocShape ==
    ASSUME NEW h, NEW ptr, NEW size, NEW alignment, NEW flags, NEW r \in malloc_(h, ptr, size, alignment, flags)
    PROVE  r = Outcome(r.ret, r.ptr, r.heap)
<1>1. ASSUME NEW ret, NEW p, NEW g, r = Outcome(ret, p, g)
      PROVE  r = Outcome(r.ret, r.ptr, r.heap)
  <2>1. r.ret = ret /\ r.ptr = p /\ r.heap = g
    BY <1>1, OutcomeParts
  <2> QED BY <1>1, <2>1
<1>2. ASSUME NEW g, NEW hdr, NEW zero, NEW old, NEW moves, r = FillChunk(g, hdr, size, alignment, zero, old, moves)
      PROVE  r = Outcome(r.ret, r.ptr, r.heap)
  BY <1>1, <1>2, Zenon DEF FillChunk
<1> DEFINE hdr == IF Reallocs(ptr, flags) THEN Hdr(h, ptr) ELSE NULL
           old == IF Reallocs(ptr, flags) THEN [shift |-> ptr - hdr, size |-> HdrSize(h, hdr)]
                                          ELSE [shift |-> 0, size |-> 0]
<1>3. \/ r = Outcome("EINVAL", ptr, h) \/ r = Outcome("ENOMEM", ptr, h) \/ r = Outcome("undefined", NULL, h)
      \/ \E q \in Reallocated(h, hdr, Reqsize(size, alignment)) :
            r = FillChunk(q.heap, q.base, size, alignment, "ZERO" \in flags, old, Reallocs(ptr, flags))
  BY Zenon DEF malloc_, Reallocs
<1> HIDE DEF hdr, old
<1>4. CASE r = Outcome("EINVAL", ptr, h) \/ r = Outcome("ENOMEM", ptr, h) \/ r = Outcome("undefined", NULL, h)
  <2>1. PICK ret, p, g : r = Outcome(ret, p, g)
    BY <1>4, Zenon
  <2> QED BY <1>1, <2>1
<1>5. ASSUME NEW q \in Reallocated(h, hdr, Reqsize(size, alignment)),
             r = FillChunk(q.heap, q.base, size, alignment, "ZERO" \in flags, old, Reallocs(ptr, flags))
      PROVE  r = Outcome(r.ret, r.ptr, r.heap)
  BY <1>2, <1>5, Zenon
<1> QED BY <1>3, <1>4, <1>5, Zenon

\* A block is still where it was when its base is left alone.
LEMMA UntouchedDescribes ==
    ASSUME NEW h \in Heaps, NEW h2 \in Heaps, NEW hdr, NEW p, Describes(h, hdr, p), Untouched(h, h2, hdr)
    PROVE  /\ Describes(h2, hdr, p) /\ Hdr(h2, p) = hdr
           /\ HdrSize(h2, hdr) = HdrSize(h, hdr) /\ HdrAlignment(h2, hdr) = HdrAlignment(h, hdr)
<1>1. /\ hdr \in Nat /\ p \in Nat /\ p <= hdr + Room /\ Room \in Nat
  BY Find, MemoryAssumption
<1>2. h2.chunk[hdr] = h.chunk[hdr] /\ \A x \in hdr..(hdr + Room - 1) : h2.mem[x] = h.mem[x]
  BY DEF Untouched
<1>3. \A x \in hdr..(p - 1) : h2.mem[x] = h.mem[x]
  BY <1>1, <1>2
<1>4. /\ Describes(h2, hdr, p)
      /\ HdrSize(h2, hdr) = HdrSize(h, hdr) /\ HdrAlignment(h2, hdr) = HdrAlignment(h, hdr)
  BY <1>2, <1>3, StillDescribes
<1> QED BY <1>4, Find

\* A change to the words of a block is seen at no other base, nor by its header.
LEMMA DataWritten ==
    ASSUME NEW h \in Heaps, NEW hdr, NEW p, Describes(h, hdr, p), NEW n \in Nat, p + n <= hdr + h.chunk[hdr],
           NEW h2, Touches(h, h2, p, n)
    PROVE  /\ h2 \in Heaps /\ h2.chunk = h.chunk /\ Describes(h2, hdr, p)
           /\ HdrSize(h2, hdr) = HdrSize(h, hdr) /\ HdrAlignment(h2, hdr) = HdrAlignment(h, hdr)
           /\ \A c \in Bases \ {hdr} : Untouched(h, h2, c)
<1>1. h2 \in Heaps /\ h2.chunk = h.chunk /\ \A x \in Addresses : x \notin p..(p + n - 1) => h2.mem[x] = h.mem[x]
  BY DEF Touches
<1>2. /\ hdr \in Bases /\ hdr \in Nat /\ p \in Nat /\ hdr + HEADER <= p /\ p <= hdr + Room
      /\ h.chunk[hdr] \in Nat /\ h.chunk[hdr] <= Room /\ Room \in Nat /\ HEADER = 3
      /\ hdr..(hdr + Room - 1) \subseteq Addresses
  BY Find, HeapParts, BaseFacts DEF HEADER
<1>3. \A x \in hdr..(p - 1) : h2.mem[x] = h.mem[x]
  BY <1>1, <1>2
<1>4. ASSUME NEW c \in Bases \ {hdr}
      PROVE  Untouched(h, h2, c)
  <2>1. ASSUME NEW x \in c..(c + Room - 1)
        PROVE  h2.mem[x] = h.mem[x]
    <3>1. x \notin hdr..(hdr + Room - 1) /\ x \in Addresses
      BY <1>2, <1>4, <2>1, Apart, BaseFacts
    <3>2. x \notin p..(p + n - 1)
      BY <1>2, <3>1
    <3> QED BY <1>1, <3>1, <3>2
  <2> QED BY <1>1, <2>1 DEF Untouched
<1> QED BY <1>1, <1>3, <1>4, StillDescribes

LEMMA CopyThenFreeFacts ==
    ASSUME NEW h \in Heaps, NEW p, Describes(h, Hdr(h, p), p),
           NEW q, q = Outcome("0", q.ptr, q.heap), NEW size, NEW alignment,
           Obtains(h, q.heap, {}, q.ptr, size, alignment),
           NEW r, r = CopyThenFree(q, p, size_(h, p))
    PROVE  \/ r.ret = "undefined"
           \/ r.ret = "0" /\ Obtains(h, r.heap, {Hdr(h, p)}, r.ptr, size, alignment)
<1> DEFINE hdr    == Hdr(h, p)
           msize  == size_(h, p)
           words  == [k \in 1..msize |-> q.heap.mem[p + k - 1]]
           copied == Put(q.heap.mem, q.ptr, msize, words)
           mid    == [q.heap EXCEPT !.mem = copied]
           fits   == FitsIn(q.heap, q.ptr, msize) /\ FitsIn(q.heap, p, msize)
<1>1. PICK b \in Bases : Placed(h, q.heap, {}, b, q.ptr) /\ HdrSize(q.heap, b) = size /\ HdrAlignment(q.heap, b) = alignment
  BY Zenon DEF Obtains
<1>2. /\ q.heap \in Heaps /\ Describes(q.heap, b, q.ptr) /\ h.chunk[b] = 0
      /\ \A c \in Bases \ {b} : Untouched(h, q.heap, c)
  BY <1>1 DEF Placed
<1>3. /\ hdr \in Bases /\ h.chunk[hdr] \in Nat /\ HEADER <= h.chunk[hdr] /\ HEADER = 3
      /\ HdrSize(h, hdr) \in 0..SIZE_MAX /\ SIZE_MAX \in Nat /\ hdr \in Nat /\ p \in Nat
  BY Find, MemoryAssumption DEF HEADER
<1>4. hdr # b /\ msize \in Nat
  <2> HIDE DEF hdr, msize
  <2>1. hdr # b
    BY <1>2, <1>3
  <2>2. msize = HdrSize(h, hdr)
    BY DEF hdr, msize, size_
  <2> QED BY <1>3, <2>1, <2>2
<1>5. Describes(q.heap, hdr, p) /\ Hdr(q.heap, p) = hdr /\ Hdr(q.heap, q.ptr) = b
  <2>1. Untouched(h, q.heap, hdr) /\ Describes(h, hdr, p)
    <3> HIDE DEF hdr
    <3>1. Untouched(h, q.heap, hdr)
      BY <1>2, <1>3, <1>4
    <3> QED BY <3>1 DEF hdr
  <2>2. Describes(q.heap, hdr, p) /\ Hdr(q.heap, p) = hdr
    <3> HIDE DEF hdr
    <3> QED BY <1>2, <2>1, UntouchedDescribes
  <2> HIDE DEF hdr
  <2> QED BY <1>2, <2>2, Find
<1>6. CASE ~fits
  <2>1. r = Outcome("undefined", NULL, q.heap)
    BY <1>6, Zenon DEF CopyThenFree
  <2>2. Outcome("undefined", NULL, q.heap).ret = "undefined"
    BY OutcomeParts
  <2>3. r.ret = "undefined"
    BY <2>1, <2>2, Zenon
  <2> QED BY <2>3, Zenon
<1>7. CASE fits
  <2>1. r = [q EXCEPT !.heap = free_(mid, p)]
    BY <1>7, Zenon DEF CopyThenFree
  <2>2. r.ret = "0" /\ r.ptr = q.ptr /\ r.heap = free_(mid, p)
    <3> HIDE DEF mid
    <3> QED BY <2>1 DEF Outcome
  <2>3. q.ptr + msize <= b + q.heap.chunk[b] /\ p + msize <= hdr + q.heap.chunk[hdr]
    <3> HIDE DEF hdr, msize
    <3> QED BY <1>5, <1>7 DEF FitsIn
  <2>4. \A k \in 1..msize : words[k] \in Words
    <3> SUFFICES ASSUME NEW k \in 1..msize PROVE q.heap.mem[p + k - 1] \in Words
      OBVIOUS
    <3> HIDE DEF hdr, msize
    <3>1. q.heap.chunk[hdr] \in Nat /\ q.heap.chunk[hdr] <= Room /\ Room \in Nat /\ hdr + HEADER <= p
      BY <1>2, <1>3, <1>5, HeapParts, Find, MemoryAssumption
    <3>2. p + k - 1 \in hdr..(hdr + Room - 1)
      BY <1>3, <1>4, <2>3, <3>1
    <3> QED BY <1>2, <1>3, <3>2, BaseFacts, HeapParts
  <2>5. Touches(q.heap, mid, q.ptr, msize)
    <3>1. q.ptr \in Nat
      BY <1>2, Find
    <3> HIDE DEF hdr, msize, words
    <3> QED BY <1>2, <1>4, <2>4, <3>1, PutTouches
  <2> HIDE DEF mid, hdr, msize, words, copied
  <2>6. /\ mid \in Heaps /\ mid.chunk = q.heap.chunk /\ Describes(mid, b, q.ptr)
        /\ HdrSize(mid, b) = size /\ HdrAlignment(mid, b) = alignment
        /\ \A c \in Bases \ {b} : Untouched(q.heap, mid, c)
    <3>1. Describes(q.heap, b, q.ptr) /\ q.ptr + msize <= b + q.heap.chunk[b]
      BY <1>2, <2>3
    <3> QED BY <1>1, <1>2, <1>4, <2>5, <3>1, DataWritten
  <2>7. Hdr(mid, p) = hdr
    BY <1>2, <1>3, <1>4, <1>5, <2>6, UntouchedDescribes
  <2>8. r.heap = Free(mid, hdr)
    BY <2>2, <2>7 DEF free_
  <2>9. /\ r.heap \in Heaps /\ r.heap.chunk[hdr] = 0
        /\ \A c \in Bases \ {hdr} : Untouched(mid, r.heap, c)
    <3>1. /\ Free(mid, hdr) \in Heaps /\ Free(mid, hdr).chunk[hdr] = 0
          /\ \A c \in Bases \ {hdr} : Untouched(mid, Free(mid, hdr), c)
      BY <1>3, <2>6, FreeFacts
    <3> QED BY <2>8, <3>1, Zenon
  <2>10. /\ Describes(r.heap, b, q.ptr)
         /\ HdrSize(r.heap, b) = size /\ HdrAlignment(r.heap, b) = alignment
    <3>1. Untouched(mid, r.heap, b)
      BY <1>4, <2>9
    <3> QED BY <2>6, <2>9, <3>1, UntouchedDescribes
  <2>11. ASSUME NEW c \in Bases \ ({hdr} \cup {b})
         PROVE  Untouched(h, r.heap, c)
    <3>1. Untouched(h, q.heap, c) /\ Untouched(q.heap, mid, c) /\ Untouched(mid, r.heap, c)
      BY <1>2, <2>6, <2>9, <2>11
    <3> QED BY <3>1 DEF Untouched
  <2>12. Placed(h, r.heap, {hdr}, b, r.ptr)
    <3>1. \A c \in {hdr} \ {b} : r.heap.chunk[c] = 0
      BY <2>9
    <3> QED BY <1>2, <2>2, <2>9, <2>10, <2>11, <3>1, Zenon DEF Placed
  <2>13. Obtains(h, r.heap, {hdr}, r.ptr, size, alignment)
    BY <2>10, <2>12, Zenon DEF Obtains
  <2> QED BY <2>2, <2>13, Zenon DEF hdr
<1> QED BY <1>6, <1>7

\* The chunk a call gives up.
Gone(h, p) == IF p # NULL THEN {Hdr(h, p)} ELSE {}

Stays(h, p, r, size) ==
    r.ret = "0" /\ emulates /\ p # NULL /\ r.heap = h /\ r.ptr = p /\ size <= size_(h, p)

Fails(h, p, r, flags) ==
    /\ r.heap = h /\ r.ret \in {"ENOMEM", "EINVAL", "abort"}
    /\ IF r.ret = "abort" THEN "NOFAIL" \in flags ELSE "NOFAIL" \notin flags \/ (emulates /\ p # NULL)

LEMMA XallocFacts ==
    ASSUME NEW h \in Heaps, NEW p, NEW size \in 0..SIZE_MAX, NEW alignment \in Nat, NEW flags,
           p # NULL => "REALLOC" \in flags /\ Describes(h, Hdr(h, p), p),
           NEW r \in vsc_xalloc_ex(h, p, size, flags, alignment)
    PROVE  \/ r.ret = "undefined"
           \/ Fails(h, p, r, flags)
           \/ Stays(h, p, r, size)
           \/ r.ret = "0" /\ Obtains(h, r.heap, Gone(h, p), r.ptr, size, Alignment(alignment))
<1>1. Alignment(alignment) \in Nat \ {0}
  BY CallAssumption DEF Alignment
<1>2. CASE emulates /\ "REALLOC" \in flags /\ p # NULL
  <2>1. r \in Emulated(h, p, size, Alignment(alignment), flags)
    BY <1>2, Zenon DEF vsc_xalloc_ex
  <2>2. CASE size <= size_(h, p)
    <3>1. r = Outcome("0", p, h)
      BY <2>1, <2>2, Zenon DEF Emulated
    <3>2. Stays(h, p, r, size)
      BY <1>2, <2>2, <3>1, OutcomeParts DEF Stays
    <3> QED BY <3>2, Zenon
  <2>3. CASE ~(size <= size_(h, p))
    <3> DEFINE fresh == flags \ {"REALLOC"}
    <3>1. PICK q \in malloc_(h, p, size, Alignment(alignment), fresh) :
             r = IF q.ret = "0" THEN CopyThenFree(q, p, size_(h, p)) ELSE q
      BY <2>1, <2>3, Zenon DEF Emulated
    <3>2. ~Reallocs(p, fresh)
      BY DEF Reallocs
    <3> HIDE DEF fresh
    <3>3. \/ q.ret \in {"ENOMEM", "EINVAL"} /\ q.heap = h
          \/ q.ret = "undefined"
          \/ q.ret = "0" /\ Obtains(h, q.heap, {}, q.ptr, size, Alignment(alignment))
      BY <1>1, <3>2, MallocFacts
    <3>4. CASE q.ret \in {"ENOMEM", "EINVAL"} /\ q.heap = h
      <4>1. r = q
        BY <3>1, <3>4
      <4>2. Fails(h, p, r, flags)
        BY <1>2, <3>4, <4>1 DEF Fails
      <4> QED BY <4>2, Zenon
    <3>5. CASE q.ret = "undefined"
      <4>1. r = q
        BY <3>1, <3>5
      <4> QED BY <3>5, <4>1, Zenon
    <3>6. CASE q.ret = "0" /\ Obtains(h, q.heap, {}, q.ptr, size, Alignment(alignment))
      <4>1. r = CopyThenFree(q, p, size_(h, p)) /\ q = Outcome("0", q.ptr, q.heap) /\ Describes(h, Hdr(h, p), p)
        <5>1. q = Outcome(q.ret, q.ptr, q.heap)
          BY MallocShape
        <5> QED BY <1>2, <3>1, <3>6, <5>1
      <4>2. \/ r.ret = "undefined"
            \/ r.ret = "0" /\ Obtains(h, r.heap, {Hdr(h, p)}, r.ptr, size, Alignment(alignment))
        BY <3>6, <4>1, CopyThenFreeFacts
      <4>3. Gone(h, p) = {Hdr(h, p)}
        BY <1>2 DEF Gone
      <4> QED BY <4>2, <4>3, Zenon
    <3> QED BY <3>3, <3>4, <3>5, <3>6, Zenon
  <2> QED BY <2>2, <2>3, Zenon
<1>3. CASE ~(emulates /\ "REALLOC" \in flags /\ p # NULL)
  <2>1. PICK q \in malloc_(h, p, size, Alignment(alignment), flags) : r = OrAbort(q, flags)
    BY <1>3, Zenon DEF vsc_xalloc_ex
  <2>2. /\ Reallocs(p, flags) => Describes(h, Hdr(h, p), p)
        /\ (IF Reallocs(p, flags) THEN {Hdr(h, p)} ELSE {}) = Gone(h, p)
        /\ ~(emulates /\ p # NULL)
    BY <1>3 DEF Reallocs, Gone
  <2>3. \/ q.ret \in {"ENOMEM", "EINVAL"} /\ q.heap = h
        \/ q.ret = "undefined"
        \/ q.ret = "0" /\ Obtains(h, q.heap, Gone(h, p), q.ptr, size, Alignment(alignment))
    BY <1>1, <2>2, MallocFacts
  <2>4. CASE q.ret \in {"ENOMEM", "EINVAL"} /\ q.heap = h
    <3>1. CASE "NOFAIL" \in flags
      <4>1. r = Outcome("abort", q.ptr, q.heap)
        BY <2>1, <2>4, <3>1 DEF OrAbort
      <4>2. Fails(h, p, r, flags)
        BY <2>4, <3>1, <4>1, OutcomeParts DEF Fails
      <4> QED BY <4>2, Zenon
    <3>2. CASE "NOFAIL" \notin flags
      <4>1. r = q
        BY <2>1, <3>2 DEF OrAbort
      <4>2. Fails(h, p, r, flags)
        BY <2>4, <3>2, <4>1 DEF Fails
      <4> QED BY <4>2, Zenon
    <3> QED BY <3>1, <3>2
  <2>5. CASE q.ret = "undefined" \/ (q.ret = "0" /\ Obtains(h, q.heap, Gone(h, p), q.ptr, size, Alignment(alignment)))
    <3>1. r = q
      BY <2>1, <2>5 DEF OrAbort
    <3> QED BY <2>5, <3>1, Zenon
  <2> QED BY <2>3, <2>4, <2>5, Zenon
<1> QED BY <1>2, <1>3, Zenon
-----------------------------------------------------------------------------
(* The invariant                                                           *)

Holders(bl) == {i \in Blocks : bl[i].ptr # NULL}

Kept(h, block, em) ==
    LET hdr == Hdr(h, block.ptr) IN
    /\ Describes(h, hdr, block.ptr)
    /\ IF em THEN HdrSize(h, hdr) >= block.size
       ELSE HdrSize(h, hdr) = block.size /\ HdrAlignment(h, hdr) = block.alignment

\* Every block held has a header of its own, and there is no other chunk.
HeapInv(h, bl, em) ==
    /\ \A i \in Holders(bl) : Kept(h, bl[i], em)
    /\ \A i, j \in Holders(bl) : i # j => Hdr(h, bl[i].ptr) # Hdr(h, bl[j].ptr)
    /\ {b \in Bases : h.chunk[b] > 0} = {Hdr(h, bl[i].ptr) : i \in Holders(bl)}

BlockStates == [Blocks -> [ptr : {NULL} \cup UNION {(b + HEADER)..(b + Room) : b \in Bases},
                           size : 0..SIZE_MAX, alignment : Nat]]

SameHeader(h, h2, p) ==
    /\ Hdr(h2, p) = Hdr(h, p)
    /\ HdrSize(h2, Hdr(h, p)) = HdrSize(h, Hdr(h, p)) /\ HdrAlignment(h2, Hdr(h, p)) = HdrAlignment(h, Hdr(h, p))

SameBlock(h, h2, p) == SameHeader(h, h2, p) /\ Untouched(h, h2, Hdr(h, p))

\* The block at p is obtained, resized, released or written to: it gives up its
\* chunk and takes the one of the new block, and nothing happens elsewhere.
Changes(h, h2, p, new, em) ==
    LET gone == Gone(h, p)
        took == Gone(h2, new.ptr)
    IN  /\ new.ptr # NULL => Kept(h2, new, em)
        /\ \A c \in took : c \in gone \/ h.chunk[c] = 0
        /\ \A c \in gone \ took : h2.chunk[c] = 0
        /\ \A c \in Bases \ (gone \cup took) : Untouched(h, h2, c)

OnlyAt(bl, bl2, i, new) == bl2[i] = new /\ \A j \in Blocks \ {i} : bl2[j] = bl[j]

LEMMA ChangeOne ==
    ASSUME NEW h \in Heaps, NEW h2 \in Heaps, NEW em, NEW bl \in BlockStates, HeapInv(h, bl, em),
           NEW i \in Blocks, NEW new, NEW bl2, OnlyAt(bl, bl2, i, new),
           Changes(h, h2, bl[i].ptr, new, em)
    PROVE  /\ HeapInv(h2, bl2, em)
           /\ \A j \in Holders(bl) \ {i} : SameBlock(h, h2, bl[j].ptr)
<1> DEFINE gone == Gone(h, bl[i].ptr)
           took == Gone(h2, new.ptr)
<1>0. /\ new.ptr # NULL => Kept(h2, new, em)
      /\ \A c \in took : c \in gone \/ h.chunk[c] = 0
      /\ \A c \in gone \ took : h2.chunk[c] = 0
      /\ \A c \in Bases \ (gone \cup took) : Untouched(h, h2, c)
      /\ gone = Gone(h, bl[i].ptr) /\ took = Gone(h2, new.ptr)
  BY Zenon DEF Changes
<1> HIDE DEF gone, took
<1>1. /\ \A j \in Holders(bl) : Kept(h, bl[j], em)
      /\ \A j, k \in Holders(bl) : j # k => Hdr(h, bl[j].ptr) # Hdr(h, bl[k].ptr)
      /\ {b \in Bases : h.chunk[b] > 0} = {Hdr(h, bl[j].ptr) : j \in Holders(bl)}
  BY Zenon DEF HeapInv
<1>2. /\ bl2[i] = new /\ \A j \in Blocks \ {i} : bl2[j] = bl[j]
      /\ \A j \in Blocks \ {i} : j \in Holders(bl2) <=> j \in Holders(bl)
      /\ i \in Holders(bl2) <=> new.ptr # NULL
      /\ i \in Holders(bl) <=> bl[i].ptr # NULL
      /\ Holders(bl2) \subseteq Blocks /\ Holders(bl) \subseteq Blocks
  BY DEF Holders, OnlyAt
<1>3. gone = IF i \in Holders(bl) THEN {Hdr(h, bl[i].ptr)} ELSE {}
  BY <1>0, <1>2 DEF Gone
<1>4. took = IF i \in Holders(bl2) THEN {Hdr(h2, bl2[i].ptr)} ELSE {}
  BY <1>0, <1>2 DEF Gone
<1>5. ASSUME NEW j \in Holders(bl) \ {i}
      PROVE  /\ Hdr(h, bl[j].ptr) \in Bases \ (gone \cup took) /\ h.chunk[Hdr(h, bl[j].ptr)] > 0
             /\ Kept(h2, bl[j], em) /\ SameHeader(h, h2, bl[j].ptr) /\ SameBlock(h, h2, bl[j].ptr)
  <2>1. Kept(h, bl[j], em) /\ Describes(h, Hdr(h, bl[j].ptr), bl[j].ptr)
    <3>1. Kept(h, bl[j], em)
      BY <1>1, <1>5
    <3> QED BY <3>1, Zenon DEF Kept
  <2>2. Hdr(h, bl[j].ptr) \in Bases /\ h.chunk[Hdr(h, bl[j].ptr)] > 0
    BY <2>1, Find DEF HEADER
  <2>3. Hdr(h, bl[j].ptr) \notin gone
    BY <1>1, <1>2, <1>3, <1>5
  <2>4. Hdr(h, bl[j].ptr) \notin took
    BY <1>0, <2>2, <2>3
  <2>5. Untouched(h, h2, Hdr(h, bl[j].ptr))
    BY <1>0, <2>2, <2>3, <2>4
  <2>6. /\ Describes(h2, Hdr(h, bl[j].ptr), bl[j].ptr) /\ Hdr(h2, bl[j].ptr) = Hdr(h, bl[j].ptr)
        /\ SameHeader(h, h2, bl[j].ptr)
    <3>1. /\ Describes(h2, Hdr(h, bl[j].ptr), bl[j].ptr) /\ Hdr(h2, bl[j].ptr) = Hdr(h, bl[j].ptr)
          /\ HdrSize(h2, Hdr(h, bl[j].ptr)) = HdrSize(h, Hdr(h, bl[j].ptr))
          /\ HdrAlignment(h2, Hdr(h, bl[j].ptr)) = HdrAlignment(h, Hdr(h, bl[j].ptr))
      BY <2>1, <2>5, UntouchedDescribes
    <3> QED BY <3>1, Zenon DEF SameHeader
  <2>7. Kept(h2, bl[j], em)
    <3>1. /\ HdrSize(h2, Hdr(h, bl[j].ptr)) = HdrSize(h, Hdr(h, bl[j].ptr))
          /\ HdrAlignment(h2, Hdr(h, bl[j].ptr)) = HdrAlignment(h, Hdr(h, bl[j].ptr))
      BY <2>6, Zenon DEF SameHeader
    <3> QED BY <2>1, <2>6, <3>1, Zenon DEF Kept
  <2> QED BY <2>2, <2>3, <2>4, <2>5, <2>6, <2>7 DEF SameBlock
<1>6. ASSUME NEW j \in Holders(bl2)
      PROVE  Kept(h2, bl2[j], em)
  <2>1. CASE j = i
    BY <1>0, <1>2, <1>6, <2>1
  <2>2. CASE j # i
    BY <1>2, <1>5, <1>6, <2>2
  <2> QED BY <2>1, <2>2
<1>7. ASSUME NEW j \in Holders(bl2) \ {i}
      PROVE  /\ j \in Holders(bl) \ {i} /\ bl2[j] = bl[j] /\ Hdr(h2, bl2[j].ptr) = Hdr(h, bl[j].ptr)
             /\ Hdr(h, bl[j].ptr) \notin took
  <2>1. j \in Holders(bl) \ {i} /\ bl2[j] = bl[j]
    BY <1>2, <1>7
  <2>2. SameHeader(h, h2, bl[j].ptr) /\ Hdr(h, bl[j].ptr) \notin took
    BY <1>5, <2>1
  <2> QED BY <2>1, <2>2 DEF SameHeader
<1>8. ASSUME NEW j \in Holders(bl2), NEW k \in Holders(bl2), j # k
      PROVE  Hdr(h2, bl2[j].ptr) # Hdr(h2, bl2[k].ptr)
  <2>1. CASE j = i
    <3>1. Hdr(h2, bl2[j].ptr) \in took
      BY <1>4, <2>1
    <3> QED BY <1>7, <1>8, <2>1, <3>1
  <2>2. CASE k = i
    <3>1. Hdr(h2, bl2[k].ptr) \in took
      BY <1>4, <2>2
    <3> QED BY <1>7, <1>8, <2>2, <3>1
  <2>3. CASE j # i /\ k # i
    BY <1>1, <1>7, <1>8, <2>3
  <2> QED BY <2>1, <2>2, <2>3
<1>9. {b \in Bases : h2.chunk[b] > 0} = {Hdr(h2, bl2[j].ptr) : j \in Holders(bl2)}
  <2>1. ASSUME NEW b \in Bases, h2.chunk[b] > 0
        PROVE  b \in {Hdr(h2, bl2[j].ptr) : j \in Holders(bl2)}
    <3>1. CASE b \in took
      BY <1>4, <3>1
    <3>2. CASE b \notin took
      <4>1. b \notin gone
        BY <1>0, <2>1, <3>2
      <4>2. h.chunk[b] > 0
        BY <1>0, <2>1, <3>2, <4>1 DEF Untouched
      <4>3. PICK j \in Holders(bl) : b = Hdr(h, bl[j].ptr)
        BY <1>1, <4>2
      <4>4. j # i
        BY <1>3, <4>1, <4>3
      <4>5. Hdr(h2, bl[j].ptr) = Hdr(h, bl[j].ptr) /\ j \in Holders(bl2) /\ bl2[j] = bl[j]
        BY <1>2, <1>5, <4>4 DEF SameHeader
      <4> QED BY <4>3, <4>5
    <3> QED BY <3>1, <3>2
  <2>2. ASSUME NEW j \in Holders(bl2)
        PROVE  Hdr(h2, bl2[j].ptr) \in Bases /\ h2.chunk[Hdr(h2, bl2[j].ptr)] > 0
    <3>1. Describes(h2, Hdr(h2, bl2[j].ptr), bl2[j].ptr)
      BY <1>6, <2>2, Zenon DEF Kept
    <3> QED BY <3>1, Find DEF HEADER
  <2> QED BY <2>1, <2>2
<1>10. HeapInv(h2, bl2, em)
  BY <1>6, <1>8, <1>9, Zenon DEF HeapInv
<1> QED BY <1>5, <1>10

MemInv == TypeOK /\ HeapInv(heap, blocks, emulates) /\ NoFailAborts

LEMMA TypeParts ==
    ASSUME TypeOK
    PROVE  /\ heap \in Heaps /\ emulates \in BOOLEAN /\ blocks \in BlockStates
           /\ Held = Holders(blocks) /\ NotHeld.ptr = NULL
           /\ \A i \in Blocks : blocks[i].size \in 0..SIZE_MAX /\ blocks[i].alignment \in Nat
  BY DEF TypeOK, BlockStates, Held, Holders, NotHeld

LEMMA BlockState ==
    ASSUME NEW bl \in BlockStates, NEW i \in Blocks, NEW h \in Heaps, NEW hdr, NEW p, Describes(h, hdr, p),
           NEW size \in 0..SIZE_MAX, NEW alignment \in Nat
    PROVE  /\ [bl EXCEPT ![i] = [ptr |-> p, size |-> size, alignment |-> alignment]] \in BlockStates
           /\ p # NULL
<1>1. hdr \in Bases /\ p \in (hdr + HEADER)..(hdr + Room) /\ p # NULL
  BY Find, MemoryAssumption DEF HEADER, NULL
<1>2. p \in UNION {(b + HEADER)..(b + Room) : b \in Bases}
  BY <1>1, Zenon
<1> QED BY <1>1, <1>2 DEF BlockStates

\* The state after a block is obtained or resized.
Obtained(h, h2, em, bl, bl2, i, p, size, alignment) ==
    /\ h2 \in Heaps /\ bl2 \in BlockStates /\ HeapInv(h2, bl2, em)
    /\ \A j \in Holders(bl) \ {i} : SameBlock(h, h2, bl[j].ptr)
    /\ HdrSize(h2, Hdr(h2, p)) = size /\ HdrAlignment(h2, Hdr(h2, p)) = alignment

LEMMA ObtainKeeps ==
    ASSUME NEW h \in Heaps, NEW h2, NEW em, NEW bl \in BlockStates, HeapInv(h, bl, em), NEW i \in Blocks,
           NEW p, NEW size \in 0..SIZE_MAX, NEW alignment \in Nat \ {0},
           Obtains(h, h2, Gone(h, bl[i].ptr), p, size, alignment),
           NEW bl2, bl2 = [bl EXCEPT ![i] = [ptr |-> p, size |-> size, alignment |-> alignment]]
    PROVE  Obtained(h, h2, em, bl, bl2, i, p, size, alignment)
<1> DEFINE new == [ptr |-> p, size |-> size, alignment |-> alignment]
           gone == Gone(h, bl[i].ptr)
<1>1. PICK b \in Bases : Placed(h, h2, gone, b, p) /\ HdrSize(h2, b) = size /\ HdrAlignment(h2, b) = alignment
  BY Zenon DEF Obtains
<1> HIDE DEF gone
<1>2. /\ h2 \in Heaps /\ Describes(h2, b, p)
      /\ b \in gone \/ h.chunk[b] = 0
      /\ \A c \in gone \ {b} : h2.chunk[c] = 0
      /\ \A c \in Bases \ (gone \cup {b}) : Untouched(h, h2, c)
  BY <1>1, Zenon DEF Placed
<1>3. Hdr(h2, p) = b
  BY <1>2, Find
<1>4. bl2 \in BlockStates /\ p # NULL
  BY <1>2, BlockState
<1>5. Kept(h2, new, em)
  <2>1. new.ptr = p /\ new.size = size /\ new.alignment = alignment /\ size \in Int
    BY MemoryAssumption
  <2>2. HdrSize(h2, b) >= new.size
    BY <1>1, <2>1
  <2> HIDE DEF new
  <2> QED BY <1>1, <1>2, <1>3, <2>1, <2>2, Zenon DEF Kept
<1>6. {b} = (IF new.ptr = NULL THEN {} ELSE {Hdr(h2, new.ptr)}) /\ OnlyAt(bl, bl2, i, new)
  BY <1>3, <1>4 DEF BlockStates, OnlyAt
<1>7. \A c \in {b} : c \in gone \/ h.chunk[c] = 0
  BY <1>2
<1> HIDE DEF new
<1>8. HeapInv(h2, bl2, em) /\ \A j \in Holders(bl) \ {i} : SameBlock(h, h2, bl[j].ptr)
  <2>1. Gone(h2, new.ptr) = {b}
    BY <1>6 DEF Gone
  <2>2. Changes(h, h2, bl[i].ptr, new, em)
    BY <1>2, <1>5, <2>1 DEF Changes, gone
  <2> QED BY <1>2, <1>6, <2>2, ChangeOne
<1> QED BY <1>1, <1>2, <1>3, <1>4, <1>8, Zenon DEF Obtained

\* After it is released.
LEMMA FreeKeeps ==
    ASSUME NEW h \in Heaps, NEW em, NEW bl \in BlockStates, HeapInv(h, bl, em), NEW i \in Blocks,
           NEW h2, h2 = (IF bl[i].ptr # NULL THEN free_(h, bl[i].ptr) ELSE h),
           NEW bl2, bl2 = [bl EXCEPT ![i] = NotHeld]
    PROVE  /\ h2 \in Heaps /\ bl2 \in BlockStates /\ HeapInv(h2, bl2, em)
           /\ \A j \in Holders(bl) \ {i} : SameBlock(h, h2, bl[j].ptr)
<1> DEFINE gone == Gone(h, bl[i].ptr)
<1>1. /\ bl2 \in BlockStates /\ NotHeld.ptr = NULL
      /\ OnlyAt(bl, bl2, i, NotHeld)
  BY MemoryAssumption DEF NotHeld, BlockStates, OnlyAt
<1>2. /\ h2 \in Heaps /\ \A c \in gone : h2.chunk[c] = 0
      /\ \A c \in Bases \ gone : Untouched(h, h2, c)
  <2>1. CASE bl[i].ptr # NULL
    <3>1. Kept(h, bl[i], em)
      BY <2>1 DEF HeapInv, Holders
    <3>2. Hdr(h, bl[i].ptr) \in Bases
      BY <3>1 DEF Kept, Describes
    <3>3. h2 = Free(h, Hdr(h, bl[i].ptr)) /\ gone = {Hdr(h, bl[i].ptr)}
      BY <2>1 DEF free_, Gone
    <3>4. /\ Free(h, Hdr(h, bl[i].ptr)) \in Heaps /\ Free(h, Hdr(h, bl[i].ptr)).chunk[Hdr(h, bl[i].ptr)] = 0
          /\ \A c \in Bases \ {Hdr(h, bl[i].ptr)} : Untouched(h, Free(h, Hdr(h, bl[i].ptr)), c)
      BY <3>2, FreeFacts
    <3> HIDE DEF gone
    <3> QED BY <3>3, <3>4
  <2>2. CASE bl[i].ptr = NULL
    BY <2>2 DEF Gone, Untouched
  <2> QED BY <2>1, <2>2
<1> HIDE DEF gone
<1>3. HeapInv(h2, bl2, em) /\ \A j \in Holders(bl) \ {i} : SameBlock(h, h2, bl[j].ptr)
  <2>1. Gone(h2, NotHeld.ptr) = {}
    BY <1>1 DEF Gone
  <2>2. Changes(h, h2, bl[i].ptr, NotHeld, em)
    BY <1>1, <1>2, <2>1 DEF Changes, gone
  <2> QED BY <1>1, <1>2, <2>2, ChangeOne
<1> QED BY <1>1, <1>2, <1>3

\* After a change that leaves its chunk alone: a smaller size, or words written.
LEMMA KeepsChunk ==
    ASSUME NEW h \in Heaps, NEW h2 \in Heaps, NEW em, NEW bl \in BlockStates, HeapInv(h, bl, em),
           NEW i \in Holders(bl), NEW new, NEW bl2, OnlyAt(bl, bl2, i, new),
           new.ptr = bl[i].ptr, Kept(h2, new, em), h2.chunk = h.chunk,
           \A c \in Bases \ {Hdr(h, bl[i].ptr)} : Untouched(h, h2, c), Hdr(h2, new.ptr) = Hdr(h, bl[i].ptr)
    PROVE  /\ HeapInv(h2, bl2, em)
           /\ \A j \in Holders(bl) \ {i} : SameBlock(h, h2, bl[j].ptr)
<1>1. i \in Blocks /\ bl[i].ptr # NULL
  BY DEF Holders
<1>2. Gone(h, bl[i].ptr) = {Hdr(h, bl[i].ptr)} /\ Gone(h2, new.ptr) = {Hdr(h, bl[i].ptr)}
  BY <1>1 DEF Gone
<1>3. Changes(h, h2, bl[i].ptr, new, em)
  BY <1>2 DEF Changes
<1> QED BY <1>1, <1>3, ChangeOne

LEMMA ObtainStep ==
    ASSUME TypeOK, HeapInv(heap, blocks, emulates), status = "running",
           NEW i \in Blocks, NEW size \in 0..SIZE_MAX, NEW flags \in SUBSET Flags, NEW alignment \in Nat,
           i \in Held => "REALLOC" \in flags, Obtain(i, size, flags, alignment)
    PROVE  /\ heap' \in Heaps /\ blocks' \in BlockStates /\ HeapInv(heap', blocks', emulates)
           /\ last' \in [flags : SUBSET Flags, result : Results]
           /\ status' \in {"running", "undefined", "abort"} /\ NoFailAborts'
<1> DEFINE p == blocks[i].ptr
           new(r) == [ptr |-> r.ptr, size |-> size, alignment |-> Alignment(alignment)]
<1>1. PICK r \in vsc_xalloc_ex(heap, p, size, flags, alignment) :
         /\ heap' = IF r.ret = "undefined" THEN heap ELSE r.heap
         /\ blocks' = IF r.ret # "0" THEN blocks ELSE [blocks EXCEPT ![i] = new(r)]
         /\ last' = [flags |-> Effective(i, flags), result |-> r.ret]
         /\ status' = IF r.ret \in {"undefined", "abort"} THEN r.ret ELSE status
  BY Zenon DEF Obtain
<1>2. emulates' = emulates
  BY Zenon DEF Obtain
<1>3. /\ heap \in Heaps /\ blocks \in BlockStates /\ Held = Holders(blocks)
      /\ Alignment(alignment) \in Nat \ {0} /\ (i \in Held <=> p # NULL)
  BY TypeParts, CallAssumption DEF Alignment, Held
<1>4. p # NULL => "REALLOC" \in flags /\ Describes(heap, Hdr(heap, p), p)
  <2> SUFFICES ASSUME p # NULL PROVE "REALLOC" \in flags /\ Describes(heap, Hdr(heap, p), p)
    OBVIOUS
  <2>1. "REALLOC" \in flags /\ i \in Holders(blocks)
    BY <1>3
  <2>2. Kept(heap, blocks[i], emulates)
    BY <2>1, Zenon DEF HeapInv
  <2> QED BY <2>1, <2>2, Zenon DEF Kept
<1>5. \/ r.ret = "undefined"
      \/ Fails(heap, p, r, flags)
      \/ Stays(heap, p, r, size)
      \/ r.ret = "0" /\ Obtains(heap, r.heap, Gone(heap, p), r.ptr, size, Alignment(alignment))
  <2> HIDE DEF p
  <2> QED BY <1>3, <1>4, XallocFacts
<1>6. Effective(i, flags) \in SUBSET Flags
  BY DEF Effective
<1>7. ASSUME heap' \in Heaps, blocks' \in BlockStates, HeapInv(heap', blocks', emulates),
             r.ret \in {"0", "undefined"}
      PROVE  /\ last' \in [flags : SUBSET Flags, result : Results]
             /\ status' \in {"running", "undefined", "abort"} /\ NoFailAborts'
  <2>1. last'.result = r.ret /\ r.ret \in Results /\ status' # "abort" /\ r.ret \notin {"ENOMEM", "EINVAL"}
    BY <1>1, <1>7 DEF Results
  <2>2. last' \in [flags : SUBSET Flags, result : Results] /\ status' \in {"running", "undefined", "abort"}
    BY <1>1, <1>6, <2>1, <1>7
  <2> QED BY <2>1, <2>2, Zenon DEF NoFailAborts
<1> HIDE DEF p
<1>8. CASE r.ret = "undefined"
  <2>1. heap' = heap /\ blocks' = blocks
    BY <1>1, <1>8
  <2>2. heap' \in Heaps /\ blocks' \in BlockStates /\ HeapInv(heap', blocks', emulates)
    BY <1>3, <2>1
  <2> QED BY <1>7, <1>8, <2>2
<1>9. CASE Fails(heap, p, r, flags)
  <2>1. /\ r.heap = heap /\ r.ret \in {"ENOMEM", "EINVAL", "abort"}
        /\ IF r.ret = "abort" THEN "NOFAIL" \in flags ELSE "NOFAIL" \notin flags \/ (emulates /\ p # NULL)
    BY <1>9, Zenon DEF Fails
  <2>2. heap' = heap /\ blocks' = blocks /\ last'.result = r.ret /\ last'.flags = Effective(i, flags) /\ r.ret \in Results
        /\ status' = IF r.ret = "abort" THEN "abort" ELSE "running"
    BY <1>1, <2>1 DEF Results
  <2>3. last' \in [flags : SUBSET Flags, result : Results] /\ status' \in {"running", "undefined", "abort"}
    BY <1>1, <1>6, <2>1, <2>2
  <2>4. /\ "NOFAIL" \in Effective(i, flags) <=> "NOFAIL" \in flags
        /\ p # NULL => "REALLOC" \in Effective(i, flags)
    BY <1>3, <1>4 DEF Effective
  <2>5. /\ last'.result \in {"ENOMEM", "EINVAL"} /\ "NOFAIL" \in last'.flags => emulates' /\ "REALLOC" \in last'.flags
        /\ status' = "abort" => "NOFAIL" \in last'.flags
    <3>1. r.ret = "abort" => "NOFAIL" \in flags
      BY <2>1, Zenon
    <3>2. r.ret # "abort" => "NOFAIL" \notin flags \/ (emulates /\ p # NULL)
      BY <2>1, Zenon
    <3>3. status' = "abort" => "NOFAIL" \in last'.flags
      BY <2>2, <2>4, <3>1
    <3>4. last'.result \in {"ENOMEM", "EINVAL"} /\ "NOFAIL" \in last'.flags => emulates' /\ "REALLOC" \in last'.flags
      <4> SUFFICES ASSUME last'.result \in {"ENOMEM", "EINVAL"}, "NOFAIL" \in last'.flags
                   PROVE  emulates' /\ "REALLOC" \in last'.flags
        BY Zenon
      <4>1. r.ret # "abort" /\ "NOFAIL" \in flags
        BY <2>2, <2>4
      <4>2. emulates /\ p # NULL
        BY <3>2, <4>1, Zenon
      <4>3. "REALLOC" \in last'.flags
        BY <2>2, <2>4, <4>2, Zenon
      <4> QED BY <1>2, <4>2, <4>3, Zenon
    <3> QED BY <3>3, <3>4, Zenon
  <2>6. heap' \in Heaps /\ blocks' \in BlockStates /\ HeapInv(heap', blocks', emulates)
    BY <1>3, <2>2
  <2> QED BY <2>3, <2>5, <2>6, Zenon DEF NoFailAborts
<1>10. CASE Stays(heap, p, r, size)
  <2>1. r.ret = "0" /\ emulates /\ p # NULL /\ r.heap = heap /\ r.ptr = p /\ size <= size_(heap, p)
    BY <1>10, Zenon DEF Stays
  <2>2. heap' = heap /\ blocks' = [blocks EXCEPT ![i] = new(r)]
    BY <1>1, <2>1
  <2>3. Describes(heap, Hdr(heap, p), p)
    BY <1>4, <2>1, Zenon
  <2>4. blocks' \in BlockStates
    <3>1. size \in 0..SIZE_MAX /\ Alignment(alignment) \in Nat /\ new(r) = [ptr |-> p, size |-> size, alignment |-> Alignment(alignment)]
      BY <1>3, <2>1
    <3> HIDE DEF new
    <3> QED BY <1>3, <2>2, <2>3, <3>1, BlockState
  <2>5. new(r).ptr = p /\ Kept(heap, new(r), emulates)
    <3>1. new(r).ptr = p /\ new(r).size = size
      BY <2>1
    <3>2. HdrSize(heap, Hdr(heap, p)) \in 0..SIZE_MAX /\ size_(heap, p) = HdrSize(heap, Hdr(heap, p)) /\ SIZE_MAX \in Nat
      BY <1>3, <2>3, Find, MemoryAssumption DEF size_
    <3>3. HdrSize(heap, Hdr(heap, p)) >= size
      BY <2>1, <3>2
    <3> HIDE DEF new
    <3> QED BY <2>1, <2>3, <3>1, <3>3, Zenon DEF Kept
  <2>6. OnlyAt(blocks, blocks', i, new(r))
    <3> HIDE DEF new
    <3> QED BY <1>3, <2>2 DEF OnlyAt, BlockStates
  <2>7. i \in Holders(blocks) /\ p = blocks[i].ptr
    BY <1>3, <2>1 DEF p
  <2>8. \A c \in Bases : Untouched(heap, heap, c)
    BY DEF Untouched
  <2>9. HeapInv(heap, blocks', emulates)
    <3> HIDE DEF new
    <3> QED BY <1>3, <2>5, <2>6, <2>7, <2>8, KeepsChunk
  <2>10. heap' \in Heaps /\ blocks' \in BlockStates /\ HeapInv(heap', blocks', emulates)
    BY <1>3, <2>2, <2>4, <2>9
  <2> QED BY <1>7, <2>1, <2>10
<1>11. CASE r.ret = "0" /\ Obtains(heap, r.heap, Gone(heap, p), r.ptr, size, Alignment(alignment))
  <2>1. heap' = r.heap /\ blocks' = [blocks EXCEPT ![i] = [ptr |-> r.ptr, size |-> size, alignment |-> Alignment(alignment)]]
    BY <1>1, <1>11
  <2>2. heap' \in Heaps /\ blocks' \in BlockStates /\ HeapInv(heap', blocks', emulates)
    <3>1. Obtains(heap, heap', Gone(heap, blocks[i].ptr), r.ptr, size, Alignment(alignment))
      BY <1>11, <2>1 DEF p
    <3>2. Obtained(heap, heap', emulates, blocks, blocks', i, r.ptr, size, Alignment(alignment))
      BY <1>3, <2>1, <3>1, ObtainKeeps, Zenon
    <3> QED BY <3>2, Zenon DEF Obtained
  <2> QED BY <1>7, <1>11, <2>2
<1> QED BY <1>5, <1>8, <1>9, <1>10, <1>11

LEMMA ProductFits ==
    ASSUME NEW size \in 0..SIZE_MAX, NEW n \in Nat, ~(size > 0 /\ n > SIZE_MAX \div size)
    PROVE  size * n \in 0..SIZE_MAX
<1>1. SIZE_MAX \in Nat
  BY MemoryAssumption
<1>2. CASE size = 0
  BY <1>1, <1>2
<1>3. CASE size # 0
  <2> DEFINE q == SIZE_MAX \div size
  <2>1. size \in Nat /\ size > 0 /\ n <= q /\ q \in Nat
    BY <1>1, <1>3
  <2>2. size * q <= SIZE_MAX
    BY <1>1, <2>1
  <2> HIDE DEF q
  <2>3. size * n <= size * q /\ size * n \in Nat
    BY <2>1
  <2> QED BY <1>1, <2>2, <2>3
<1> QED BY <1>2, <1>3

LEMMA ReleaseStep ==
    ASSUME TypeOK, HeapInv(heap, blocks, emulates), status = "running", NEW i \in Blocks, Release(i)
    PROVE  /\ heap' \in Heaps /\ blocks' \in BlockStates /\ HeapInv(heap', blocks', emulates)
           /\ last' \in [flags : SUBSET Flags, result : Results] /\ status' = status /\ NoFailAborts'
<1>1. /\ heap' = (IF blocks[i].ptr # NULL THEN free_(heap, blocks[i].ptr) ELSE heap)
      /\ blocks' = [blocks EXCEPT ![i] = NotHeld]
      /\ last' = [flags |-> {}, result |-> "freed"] /\ status' = status
  BY DEF Release, Held
<1>2. heap \in Heaps /\ blocks \in BlockStates
  BY TypeParts
<1>3. heap' \in Heaps /\ blocks' \in BlockStates /\ HeapInv(heap', blocks', emulates)
  BY <1>1, <1>2, FreeKeeps, Zenon
<1>4. last' \in [flags : SUBSET Flags, result : Results] /\ last'.result = "freed" /\ status' = "running"
  BY <1>1 DEF Results
<1>5. NoFailAborts'
  <2>1. last'.result \notin {"ENOMEM", "EINVAL"} /\ status' # "abort"
    BY <1>4
  <2> QED BY <2>1, Zenon DEF NoFailAborts
<1> QED BY <1>1, <1>3, <1>4, <1>5

LEMMA WriteStep ==
    ASSUME TypeOK, HeapInv(heap, blocks, emulates), NEW i \in Blocks, Write(i)
    PROVE  /\ heap' \in Heaps /\ heap'.chunk = heap.chunk /\ HeapInv(heap', blocks, emulates)
           /\ \A j \in Holders(blocks) : SameHeader(heap, heap', blocks[j].ptr)
           /\ \A j \in Holders(blocks) \ {i} : SameBlock(heap, heap', blocks[j].ptr)
<1> DEFINE p == blocks[i].ptr
           n == blocks[i].size
           hdr == Hdr(heap, p)
           words == [k \in 1..n |-> Word(Room * (i + 1) + k)]
<1>1. /\ i \in Holders(blocks) /\ p + n <= hdr + heap.chunk[hdr]
      /\ heap' = [heap EXCEPT !.mem = Put(heap.mem, p, n, words)]
  BY DEF Write, FitsIn, Held, Holders
<1>2. heap \in Heaps /\ blocks \in BlockStates /\ n \in 0..SIZE_MAX /\ n \in Nat
  BY TypeParts, MemoryAssumption
<1>3. Kept(heap, blocks[i], emulates)
  BY <1>1, Zenon DEF HeapInv
<1>4. Describes(heap, hdr, p)
  BY <1>3, Zenon DEF Kept
<1>5. \A k \in 1..n : words[k] \in Words
  <2>1. Room \in Nat /\ i \in Nat
    BY MemoryAssumption, CallAssumption
  <2>2. \A k \in 1..n : Room * (i + 1) + k \in Nat
    BY <1>2, <2>1
  <2> QED BY <2>2, WordFacts
<1> HIDE DEF words, n, hdr, p
<1>6. Touches(heap, heap', p, n)
  <2>1. p \in Nat
    BY <1>2, <1>4, Find
  <2> QED BY <1>1, <1>2, <1>5, <2>1, PutTouches
<1>7. /\ heap' \in Heaps /\ heap'.chunk = heap.chunk /\ Describes(heap', hdr, p)
      /\ HdrSize(heap', hdr) = HdrSize(heap, hdr) /\ HdrAlignment(heap', hdr) = HdrAlignment(heap, hdr)
      /\ \A c \in Bases \ {hdr} : Untouched(heap, heap', c)
  BY <1>1, <1>2, <1>4, <1>6, DataWritten
<1>8. Hdr(heap', p) = hdr
  BY <1>7, Find
<1>9. Kept(heap', blocks[i], emulates)
  BY <1>3, <1>7, <1>8, Zenon DEF Kept, hdr, p
<1>10. OnlyAt(blocks, blocks, i, blocks[i])
  BY DEF OnlyAt
<1>11. /\ HeapInv(heap', blocks, emulates)
       /\ \A j \in Holders(blocks) \ {i} : SameBlock(heap, heap', blocks[j].ptr)
  BY <1>1, <1>2, <1>7, <1>8, <1>9, <1>10, KeepsChunk DEF hdr, p
<1>12. SameHeader(heap, heap', p)
  BY <1>7, <1>8 DEF SameHeader, hdr
<1> QED BY <1>7, <1>11, <1>12 DEF p, SameBlock

LEMMA InitInv == Init => MemInv
<1> SUFFICES ASSUME Init PROVE MemInv
  OBVIOUS
<1>1. /\ heap = EmptyHeap /\ emulates \in BOOLEAN /\ blocks = [i \in Blocks |-> NotHeld]
      /\ last = [flags |-> {}, result |-> "0"] /\ status = "running" /\ outside = FALSE
  BY DEF Init
<1>2. heap \in Heaps /\ \A b \in Bases : heap.chunk[b] = 0
  <2>1. Junk \in Words /\ Room \in Nat
    BY WordFacts, MemoryAssumption
  <2> HIDE DEF Junk, Words
  <2> QED BY <1>1, <2>1 DEF EmptyHeap, Heaps
<1>3. blocks \in BlockStates /\ Holders(blocks) = {}
  BY <1>1, MemoryAssumption DEF NotHeld, BlockStates, Holders
<1>4. TypeOK
  <2>1. last \in [flags : SUBSET Flags, result : Results] /\ status \in {"running", "undefined", "abort"}
        /\ outside \in BOOLEAN
    BY <1>1 DEF Results
  <2> QED BY <1>1, <1>2, <1>3, <2>1, Zenon DEF TypeOK, BlockStates
<1>5. HeapInv(heap, blocks, emulates)
  <2>1. {b \in Bases : heap.chunk[b] > 0} = {}
    BY <1>2
  <2>2. {Hdr(heap, blocks[i].ptr) : i \in Holders(blocks)} = {}
    BY <1>3
  <2> QED BY <1>3, <2>1, <2>2, Zenon DEF HeapInv
<1>6. NoFailAborts
  <2>1. last.result = "0" /\ status = "running"
    BY <1>1
  <2> QED BY <2>1 DEF NoFailAborts
<1> QED BY <1>4, <1>5, <1>6 DEF MemInv

\* Whatever a call did to memory, its flags and result are a state again.
LEMMA Typed ==
    ASSUME heap' \in Heaps, blocks' \in BlockStates, emulates' \in BOOLEAN, outside' \in BOOLEAN,
           last' \in [flags : SUBSET Flags, result : Results], status' \in {"running", "undefined", "abort"}
    PROVE  TypeOK'
  BY Zenon DEF TypeOK, BlockStates

LEMMA NextInv == MemInv /\ [Next]_vars => MemInv'
<1> SUFFICES ASSUME MemInv, [Next]_vars PROVE MemInv'
  OBVIOUS
<1>1. TypeOK /\ HeapInv(heap, blocks, emulates) /\ NoFailAborts
  BY Zenon DEF MemInv
<1>2. /\ heap \in Heaps /\ blocks \in BlockStates /\ emulates \in BOOLEAN /\ outside \in BOOLEAN
      /\ last \in [flags : SUBSET Flags, result : Results] /\ status \in {"running", "undefined", "abort"}
      /\ Held = Holders(blocks)
  BY <1>1, TypeParts, Zenon DEF TypeOK
<1>3. ASSUME NEW i \in Blocks, NEW size \in 0..SIZE_MAX, NEW flags \in SUBSET Flags, NEW alignment \in Nat,
             status = "running", i \in Held => "REALLOC" \in flags, Obtain(i, size, flags, alignment)
      PROVE  MemInv'
  <2>1. /\ heap' \in Heaps /\ blocks' \in BlockStates /\ HeapInv(heap', blocks', emulates)
        /\ last' \in [flags : SUBSET Flags, result : Results]
        /\ status' \in {"running", "undefined", "abort"} /\ NoFailAborts'
    BY <1>1, <1>3, ObtainStep
  <2>2. emulates' = emulates /\ outside' = (outside \/ ~WithinTerms(i, size, flags, alignment))
    BY <1>3, Zenon DEF Obtain
  <2>3. emulates' \in BOOLEAN /\ outside' \in BOOLEAN
    BY <1>2, <2>2, Zenon
  <2>4. TypeOK'
    BY <2>1, <2>3, Typed, Zenon
  <2> QED BY <2>1, <2>2, <2>4, Zenon DEF MemInv
<1>4. ASSUME NEW i \in Blocks, status = "running", Release(i)
      PROVE  MemInv'
  <2>1. /\ heap' \in Heaps /\ blocks' \in BlockStates /\ HeapInv(heap', blocks', emulates)
        /\ last' \in [flags : SUBSET Flags, result : Results] /\ status' = status /\ NoFailAborts'
    BY <1>1, <1>4, ReleaseStep
  <2>2. emulates' = emulates /\ outside' = outside
    BY <1>4, Zenon DEF Release
  <2>3. TypeOK'
    BY <1>2, <2>1, <2>2, Typed, Zenon
  <2> QED BY <2>1, <2>2, <2>3, Zenon DEF MemInv
<1>5. ASSUME NEW i \in Blocks, Write(i)
      PROVE  MemInv'
  <2>1. heap' \in Heaps /\ HeapInv(heap', blocks, emulates)
    BY <1>1, <1>5, WriteStep
  <2>2. emulates' = emulates /\ outside' = outside /\ blocks' = blocks /\ last' = last /\ status' = status
    BY <1>5, Zenon DEF Write
  <2>3. TypeOK'
    BY <1>2, <2>1, <2>2, Typed, Zenon
  <2>4. NoFailAborts'
    BY <1>1, <2>2, Zenon DEF NoFailAborts
  <2> QED BY <2>1, <2>2, <2>3, <2>4, Zenon DEF MemInv
<1>6. ASSUME NEW i \in Blocks, NEW n \in Counts, NEW size \in Sizes, XCallocRefused(i, n, size)
      PROVE  MemInv'
  <2>1. /\ last' = [flags |-> {}, result |-> "NULL"] /\ status' = status /\ status = "running"
        /\ heap' = heap /\ blocks' = blocks
    BY <1>6 DEF XCallocRefused
  <2>2. emulates' = emulates /\ outside' = outside
    BY <1>6, Zenon DEF XCallocRefused
  <2>3. last' \in [flags : SUBSET Flags, result : Results] /\ last'.result = "NULL" /\ status' # "abort"
    BY <2>1 DEF Results
  <2>4. NoFailAborts'
    <3>1. last'.result \notin {"ENOMEM", "EINVAL"}
      BY <2>3
    <3> QED BY <2>3, <3>1, Zenon DEF NoFailAborts
  <2>5. TypeOK'
    BY <1>2, <2>1, <2>2, <2>3, Typed, Zenon
  <2> QED BY <1>1, <2>1, <2>2, <2>4, <2>5, Zenon DEF MemInv
<1>7. ASSUME NEW i \in Blocks, NEW size \in 0..SIZE_MAX, XRealloc(i, size)
      PROVE  MemInv'
  <2>1. status = "running" /\ (Release(i) \/ Obtain(i, size, {"REALLOC"}, 0))
    BY <1>7, Zenon DEF XRealloc
  <2>2. {"REALLOC"} \in SUBSET Flags /\ 0 \in Nat
    BY DEF Flags
  <2> QED BY <1>3, <1>4, <2>1, <2>2
<1>8. ASSUME NEW i \in Blocks, NEW n \in Counts, NEW size \in Sizes, XCalloc(i, n, size)
      PROVE  MemInv'
  <2>1. /\ status = "running" /\ i \notin Held /\ Obtain(i, size * n, {"ZERO"}, 0)
        /\ ~(size > 0 /\ n > SIZE_MAX \div size)
    BY <1>8, Zenon DEF XCalloc
  <2>2. n \in Nat /\ size \in 0..SIZE_MAX /\ {"ZERO"} \in SUBSET Flags /\ 0 \in Nat
    BY CallAssumption DEF Flags
  <2>3. size * n \in 0..SIZE_MAX
    BY <2>1, <2>2, ProductFits
  <2> HIDE DEF Flags
  <2> QED BY <1>3, <2>1, <2>2, <2>3
<1>9. ASSUME NEW i \in Blocks, NEW size \in Sizes, NEW flags \in FlagSets, NEW a \in Alignments,
             XAllocEx(i, size, flags, a)
      PROVE  MemInv'
  <2>1. size \in 0..SIZE_MAX /\ flags \in SUBSET Flags /\ a \in Nat
    BY CallAssumption
  <2>2. status = "running" /\ (i \in Held => "REALLOC" \in flags) /\ Obtain(i, size, flags, a)
    BY <1>9, Zenon DEF XAllocEx
  <2> QED BY <1>3, <2>1, <2>2
<1>10. CASE Next
  <2>1. PICK i \in Blocks :
           \/ XFree(i) \/ Write(i)
           \/ \E size \in Sizes \cup {0} : XRealloc(i, size)
           \/ \E size \in Sizes :
                 \/ \E n \in Counts : XCalloc(i, n, size) \/ XCallocRefused(i, n, size)
                 \/ \E flags \in FlagSets, a \in Alignments : XAllocEx(i, size, flags, a)
    BY <1>10, Zenon DEF Next
  <2>2. CASE XFree(i)
    BY <1>4, <2>2, Zenon DEF XFree
  <2>3. CASE Write(i)
    BY <1>5, <2>3, Zenon
  <2>4. ASSUME NEW size \in Sizes \cup {0}, XRealloc(i, size)
        PROVE  MemInv'
    <3>1. size \in 0..SIZE_MAX
      BY CallAssumption, MemoryAssumption
    <3> QED BY <1>7, <2>4, <3>1, Zenon
  <2>5. ASSUME NEW size \in Sizes, NEW n \in Counts, XCalloc(i, n, size) \/ XCallocRefused(i, n, size)
        PROVE  MemInv'
    BY <1>6, <1>8, <2>5, Zenon
  <2>6. ASSUME NEW size \in Sizes, NEW flags \in FlagSets, NEW a \in Alignments, XAllocEx(i, size, flags, a)
        PROVE  MemInv'
    BY <1>9, <2>6, Zenon
  <2> QED BY <2>1, <2>2, <2>3, <2>4, <2>5, <2>6, Zenon
<1>11. CASE UNCHANGED vars
  <2>1. /\ heap' = heap /\ blocks' = blocks /\ last' = last /\ status' = status
        /\ emulates' = emulates /\ outside' = outside
    BY <1>11, Zenon DEF vars
  <2>2. TypeOK'
    BY <1>2, <2>1, Typed, Zenon
  <2>3. NoFailAborts'
    BY <1>1, <2>1, Zenon DEF NoFailAborts
  <2> QED BY <1>1, <2>1, <2>2, <2>3, Zenon DEF MemInv
<1> QED BY <1>10, <1>11

\* The heap is the user's blocks and nothing else, in every reachable state
\* (allocator.cpp:54, memory.c:41).
THEOREM MemoryInductive == Spec => []MemInv
<1> QED BY InitInv, NextInv, PTL DEF Spec
-----------------------------------------------------------------------------
(* What it implies                                                         *)

\* Every state of the memory functions is well typed (memory.c, allocator.cpp).
THEOREM MemoryTypes == Spec => []TypeOK
<1>1. MemInv => TypeOK
  BY Zenon DEF MemInv
<1> QED BY <1>1, MemoryInductive, PTL

\* From the pointer of any block its header is found, describes it and is its own
\* (vsc__allocator_mem2hdr, allocator.cpp:54).
THEOREM HeadersAreFound == Spec => []HeaderFound
<1>1. MemInv => HeaderFound
  <2> SUFFICES ASSUME MemInv, NEW i \in Held
               PROVE  LET hdr == HeaderOf(i) IN
                      /\ hdr \in Bases /\ heap.chunk[hdr] >= HEADER /\ heap.mem[hdr + 2] = Sig
                      /\ blocks[i].ptr = Mem(hdr, HdrAlignment(heap, hdr))
                      /\ IF emulates THEN HdrSize(heap, hdr) >= blocks[i].size
                         ELSE HdrSize(heap, hdr) = blocks[i].size /\ HdrAlignment(heap, hdr) = blocks[i].alignment
                      /\ \A j \in Held \ {i} : HeaderOf(j) # hdr
    BY Zenon DEF HeaderFound
  <2> DEFINE hdr == HeaderOf(i)
  <2>1. heap \in Heaps /\ Held = Holders(blocks) /\ HeapInv(heap, blocks, emulates)
    BY TypeParts DEF MemInv
  <2>2. /\ Kept(heap, blocks[i], emulates)
        /\ \A j \in Held \ {i} : HeaderOf(j) # hdr
    BY <2>1 DEF HeapInv, HeaderOf
  <2>3. /\ Describes(heap, hdr, blocks[i].ptr)
        /\ IF emulates THEN HdrSize(heap, hdr) >= blocks[i].size
           ELSE HdrSize(heap, hdr) = blocks[i].size /\ HdrAlignment(heap, hdr) = blocks[i].alignment
    BY <2>2, Zenon DEF Kept, HeaderOf
  <2>4. /\ hdr \in Bases /\ heap.chunk[hdr] >= HEADER /\ heap.mem[hdr + 2] = Sig
        /\ blocks[i].ptr = Mem(hdr, HdrAlignment(heap, hdr))
    <3> HIDE DEF hdr
    <3>1. hdr \in Bases /\ HEADER <= heap.chunk[hdr] /\ heap.chunk[hdr] \in Nat /\ heap.mem[hdr + 2] = Sig
          /\ blocks[i].ptr = Mem(hdr, HdrAlignment(heap, hdr))
      BY <2>1, <2>3, Find
    <3> QED BY <3>1 DEF HEADER
  <2> QED BY <2>2, <2>3, <2>4, Zenon
<1> QED BY <1>1, MemoryInductive, PTL

\* A block whose request did not wrap lies in its chunk (allocator.cpp:104).
THEOREM BlocksLieInTheirChunks == Spec => []BlocksFit
<1>1. MemInv => BlocksFit
  <2> SUFFICES ASSUME MemInv, NEW i \in Held,
                      HdrSize(heap, HeaderOf(i)) + HEADER + HdrAlignment(heap, HeaderOf(i)) <= SIZE_MAX
               PROVE  FitsIn(heap, blocks[i].ptr, HdrSize(heap, HeaderOf(i)))
    BY Zenon DEF BlocksFit
  <2>1. Held = Holders(blocks) /\ HeapInv(heap, blocks, emulates)
    BY TypeParts DEF MemInv
  <2>2. Kept(heap, blocks[i], emulates)
    BY <2>1 DEF HeapInv
  <2>3. Describes(heap, HeaderOf(i), blocks[i].ptr)
    BY <2>2, Zenon DEF Kept, HeaderOf
  <2> QED BY <2>3, Zenon DEF Describes, FitsIn, HeaderOf
<1> QED BY <1>1, MemoryInductive, PTL

\* No call loses or keeps a chunk: those allocated are those of the blocks held,
\* after a failure and an emulated realloc too (memory.c:41).
THEOREM NoChunkLeaks == Spec => []NothingLeaks
<1>1. MemInv => NothingLeaks
  <2> SUFFICES ASSUME MemInv PROVE NothingLeaks
    OBVIOUS
  <2>1. Held = Holders(blocks) /\ HeapInv(heap, blocks, emulates)
    BY TypeParts DEF MemInv
  <2> QED BY <2>1, Zenon DEF HeapInv, NothingLeaks, HeaderOf
<1> QED BY <1>1, MemoryInductive, PTL

\* A failure asked not to happen aborts, but for an emulated realloc (memory.c:65).
THEOREM FailureAborts == Spec => []NoFailAborts
<1>1. MemInv => NoFailAborts
  BY Zenon DEF MemInv
<1> QED BY <1>1, MemoryInductive, PTL
-----------------------------------------------------------------------------
(* Within the terms of use nothing is undefined                            *)

LEMMA ModUnique ==
    ASSUME NEW x \in Nat, NEW n \in Nat \ {0}, NEW q \in Nat, NEW r \in 0..(n - 1), x = q * n + r
    PROVE  x % n = r /\ x \div n = q
<1> DEFINE d == x \div n
           m == x % n
<1>1. d \in Nat /\ m \in 0..(n - 1) /\ x = d * n + m
  OBVIOUS
<1> HIDE DEF d, m
<1>2. ASSUME NEW a \in Nat, NEW b \in Nat, a + 1 <= b
      PROVE  a * n + n <= b * n
  <2>1. (b - (a + 1)) * n >= 0
    BY <1>2
  <2> QED BY <1>2, <2>1
<1>3. d = q
  <2>1. ~(d + 1 <= q)
    BY <1>1, <1>2
  <2>2. ~(q + 1 <= d)
    BY <1>1, <1>2
  <2> QED BY <1>1, <2>1, <2>2
<1> QED BY <1>1, <1>3 DEF d, m

\* An alignment that divides that of the C library gives the same padding at
\* every base.
LEMMA SamePadding ==
    ASSUME NEW b \in Bases, NEW a \in Nat \ {0}, DefaultAlignment % a = 0
    PROVE  Mem(b, a) - b = AlignUp(HEADER, a)
<1>1. b \in Nat /\ DefaultAlignment \in Nat \ {0} /\ b % DefaultAlignment = 0 /\ HEADER \in Nat
  BY BaseFacts, CallAssumption DEF HEADER
<1>2. PICK k \in Nat : b = k * DefaultAlignment
  <2>1. b = (b \div DefaultAlignment) * DefaultAlignment /\ b \div DefaultAlignment \in Nat
    BY <1>1
  <2> QED BY <2>1, Zenon
<1>3. PICK m \in Nat : DefaultAlignment = m * a
  <2>1. DefaultAlignment = (DefaultAlignment \div a) * a /\ DefaultAlignment \div a \in Nat
    BY <1>1
  <2> QED BY <2>1, Zenon
<1>4. (b + HEADER) % a = HEADER % a
  <2> DEFINE q == HEADER \div a
             r == HEADER % a
  <2>1. q \in Nat /\ r \in 0..(a - 1) /\ HEADER = q * a + r
    BY <1>1
  <2> HIDE DEF q, r
  <2>2. b = (k * m) * a /\ k * m \in Nat
    BY <1>2, <1>3
  <2>3. b + HEADER = (k * m + q) * a + r /\ k * m + q \in Nat /\ b + HEADER \in Nat
    BY <1>1, <2>1, <2>2
  <2>4. (b + HEADER) % a = r
    BY <2>1, <2>3, ModUnique
  <2> QED BY <2>4 DEF r
<1>5. (a - (HEADER % a)) % a \in Nat
  <2>1. HEADER % a \in 0..(a - 1)
    BY <1>1
  <2>2. a - (HEADER % a) \in Nat
    BY <2>1
  <2> QED BY <2>2
<1> DEFINE pad == (a - (HEADER % a)) % a
<1>6. Mem(b, a) = b + HEADER + pad /\ AlignUp(HEADER, a) = HEADER + pad /\ pad \in Nat
  BY <1>4, <1>5 DEF Mem, AlignUp
<1> HIDE DEF pad
<1> QED BY <1>1, <1>6

LEMMA FillChunkDefined ==
    ASSUME NEW h, NEW hdr \in Bases, NEW size \in 0..SIZE_MAX, NEW alignment \in Nat \ {0},
           NEW zero, NEW moves, NEW old, old.size \in Nat,
           h.chunk[hdr] = HEADER + size + alignment,
           moves => old.shift = Mem(hdr, alignment) - hdr
    PROVE  FillChunk(h, hdr, size, alignment, zero, old, moves).ret = "0"
<1> DEFINE p     == Mem(hdr, alignment)
           space == h.chunk[hdr] - (p - hdr)
           used  == IF moves /\ old.shift # p - hdr THEN old.size ELSE 0
           top   == IF zero /\ size > old.size THEN size ELSE 0
           bad   == \/ used > space \/ top > space \/ space < 0
                    \/ used > 0 /\ old.shift + used > h.chunk[hdr]
<1>1. used = 0 /\ top \in {0, size}
  <2>1. used = 0
    BY Zenon
  <2>2. top \in {0, size}
    OBVIOUS
  <2> QED BY <2>1, <2>2
<1>2. space > size /\ size \in Nat /\ space \in Int
  <2>1. hdr \in Nat /\ p \in Nat /\ p < hdr + HEADER + alignment /\ SIZE_MAX \in Nat /\ HEADER \in Nat
    BY BaseFacts, MemRange, MemoryAssumption DEF HEADER
  <2> HIDE DEF p
  <2> QED BY <2>1
<1> HIDE DEF used, top, space
<1>3. ~bad
  BY <1>1, <1>2
<1>4. \E g : FillChunk(h, hdr, size, alignment, zero, old, moves) = Outcome("0", p, g)
  BY <1>3, Zenon DEF FillChunk, used, top, space
<1> QED BY <1>4, OutcomeParts

\* The block at p has an alignment the call keeps.
KeepsPadding(h, p, alignment) ==
    alignment <= HdrAlignment(h, Hdr(h, p)) /\ DefaultAlignment % alignment = 0

LEMMA MallocDefined ==
    ASSUME NEW h \in Heaps, NEW ptr, NEW size \in 0..SIZE_MAX, NEW alignment \in Nat \ {0}, NEW flags,
           Reallocs(ptr, flags) => Describes(h, Hdr(h, ptr), ptr) /\ KeepsPadding(h, ptr, alignment),
           HEADER + size + alignment <= SIZE_MAX,
           NEW r \in malloc_(h, ptr, size, alignment, flags)
    PROVE  r.ret # "undefined"
<1> DEFINE reallocs == Reallocs(ptr, flags)
           hdr      == IF reallocs THEN Hdr(h, ptr) ELSE NULL
           old      == IF reallocs THEN [shift |-> ptr - hdr, size |-> HdrSize(h, hdr)]
                                   ELSE [shift |-> 0, size |-> 0]
           reqsize  == Reqsize(size, alignment)
<1>1. HEADER = 3 /\ SIZE_MAX \in Nat /\ size \in Nat
  BY MemoryAssumption DEF HEADER
<1>2. reqsize = HEADER + size + alignment /\ reqsize # 0
  <2>1. size + HEADER + alignment <= SIZE_MAX
    BY <1>1
  <2> QED BY <1>1, <2>1, ReqsizeFacts
<1>3. \/ r = Outcome("EINVAL", ptr, h) \/ r = Outcome("ENOMEM", ptr, h)
      \/ /\ reallocs => ~(alignment < HdrAlignment(h, hdr))
         /\ \E q \in Reallocated(h, hdr, reqsize) :
               r = FillChunk(q.heap, q.base, size, alignment, "ZERO" \in flags, old, reallocs)
  BY <1>2, Zenon DEF malloc_, Reallocs
<1>4. CASE r = Outcome("EINVAL", ptr, h) \/ r = Outcome("ENOMEM", ptr, h)
  BY <1>4, OutcomeParts
<1>5. ASSUME NEW q \in Reallocated(h, hdr, reqsize),
             r = FillChunk(q.heap, q.base, size, alignment, "ZERO" \in flags, old, reallocs),
             reallocs => ~(alignment < HdrAlignment(h, hdr))
      PROVE  r.ret # "undefined"
  <2>1. PICK b \in Bases : /\ reqsize \in 1..Room /\ (h.chunk[b] = 0 \/ b = hdr)
                           /\ q.base = b /\ q.heap = Moved(h, hdr, b, reqsize)
    <3>1. PICK b \in {c \in Bases : reqsize \in 1..Room /\ (h.chunk[c] = 0 \/ c = hdr)} :
             q = [base |-> b, heap |-> Moved(h, hdr, b, reqsize)]
      BY Zenon DEF Reallocated
    <3> HIDE DEF reqsize, hdr
    <3> QED BY <3>1
  <2>2. /\ hdr = NULL \/ hdr \in Bases
        /\ old.size \in Nat
        /\ reallocs => old.shift = Mem(b, alignment) - b
    <3>1. CASE reallocs
      <4>1. /\ Describes(h, hdr, ptr) /\ hdr = Hdr(h, ptr) /\ KeepsPadding(h, ptr, alignment)
            /\ old = [shift |-> ptr - hdr, size |-> HdrSize(h, hdr)]
        BY <3>1
      <4>2. ~(alignment < HdrAlignment(h, hdr))
        BY <1>5, <3>1
      <4> HIDE DEF hdr, old, reallocs
      <4>3. /\ hdr \in Bases /\ HdrSize(h, hdr) \in 0..SIZE_MAX /\ HdrAlignment(h, hdr) \in Nat \ {0}
            /\ ptr = Mem(hdr, HdrAlignment(h, hdr))
        BY <4>1, Find
      <4>4. HdrAlignment(h, hdr) = alignment /\ DefaultAlignment % alignment = 0
        BY <4>1, <4>2, <4>3 DEF KeepsPadding
      <4>5. ptr - hdr = AlignUp(HEADER, alignment) /\ Mem(b, alignment) - b = AlignUp(HEADER, alignment)
        BY <4>3, <4>4, SamePadding
      <4> QED BY <1>1, <4>1, <4>3, <4>5
    <3>2. CASE ~reallocs
      BY <3>2
    <3> QED BY <3>1, <3>2
  <2>3. q.heap.chunk[b] = HEADER + size + alignment
    <3>1. Moved(h, hdr, b, reqsize).chunk[b] = reqsize
      <4>1. (hdr = NULL \/ hdr \in Bases) /\ reqsize \in 1..Room /\ b \in Bases /\ h \in Heaps
        BY <2>1, <2>2, Zenon
      <4> HIDE DEF hdr, old, reqsize, reallocs
      <4> QED BY <4>1, MovedChunk
    <3> HIDE DEF hdr, reqsize
    <3> QED BY <1>2, <2>1, <3>1
  <2> DEFINE zero == "ZERO" \in flags
  <2>4. r = FillChunk(q.heap, b, size, alignment, zero, old, reallocs)
    BY <1>5, <2>1
  <2> HIDE DEF zero, old, reallocs, hdr, reqsize
  <2>5. FillChunk(q.heap, b, size, alignment, zero, old, reallocs).ret = "0"
    BY <2>2, <2>3, FillChunkDefined
  <2> QED BY <2>4, <2>5
<1> HIDE DEF hdr, old, reqsize, reallocs
<1> QED BY <1>3, <1>4, <1>5

\* The block at p did not wrap, so it lies in its chunk.
Fitting(h, p) ==
    HdrSize(h, Hdr(h, p)) + HEADER + HdrAlignment(h, Hdr(h, p)) <= SIZE_MAX

LEMMA CopyThenFreeDefined ==
    ASSUME NEW h \in Heaps, NEW p, Describes(h, Hdr(h, p), p), Fitting(h, p),
           NEW q, q = Outcome("0", q.ptr, q.heap), NEW size \in 0..SIZE_MAX, NEW alignment \in Nat \ {0},
           HEADER + size + alignment <= SIZE_MAX, ~(size <= size_(h, p)),
           Obtains(h, q.heap, {}, q.ptr, size, alignment)
    PROVE  CopyThenFree(q, p, size_(h, p)).ret = "0"
<1> DEFINE hdr   == Hdr(h, p)
           msize == size_(h, p)
           mid   == [q.heap EXCEPT !.mem = Put(q.heap.mem, q.ptr, msize, [k \in 1..msize |-> q.heap.mem[p + k - 1]])]
<1>1. PICK b \in Bases : Placed(h, q.heap, {}, b, q.ptr) /\ HdrSize(q.heap, b) = size /\ HdrAlignment(q.heap, b) = alignment
  BY Zenon DEF Obtains
<1>2. /\ q.heap \in Heaps /\ Describes(q.heap, b, q.ptr) /\ h.chunk[b] = 0
      /\ \A c \in Bases \ {b} : Untouched(h, q.heap, c)
  BY <1>1 DEF Placed
<1>3. /\ hdr \in Bases /\ h.chunk[hdr] \in Nat /\ HEADER <= h.chunk[hdr] /\ HEADER = 3
      /\ HdrSize(h, hdr) \in 0..SIZE_MAX /\ SIZE_MAX \in Nat /\ hdr \in Nat /\ p \in Nat
  BY Find, MemoryAssumption DEF HEADER
<1>4. msize = HdrSize(h, hdr) /\ Describes(h, hdr, p) /\ HdrSize(h, hdr) + HEADER + HdrAlignment(h, hdr) <= SIZE_MAX
  BY DEF size_, Fitting
<1> HIDE DEF hdr, msize
<1>5. hdr # b
  BY <1>2, <1>3
<1>6. Untouched(h, q.heap, hdr)
  BY <1>2, <1>3, <1>5
<1>7. /\ Hdr(q.heap, p) = hdr /\ Hdr(q.heap, q.ptr) = b /\ q.ptr \in Nat /\ b \in Nat
      /\ q.heap.chunk[b] \in Nat /\ q.heap.chunk[hdr] = h.chunk[hdr]
  BY <1>2, <1>4, <1>6, UntouchedDescribes, Find DEF Untouched
<1>8. FitsIn(q.heap, p, msize)
  <2>1. p + HdrSize(h, hdr) <= hdr + h.chunk[hdr]
    BY <1>4, Zenon DEF Describes
  <2> QED BY <1>4, <1>7, <2>1 DEF FitsIn
<1>9. FitsIn(q.heap, q.ptr, msize)
  <2>1. HdrSize(q.heap, b) + HEADER + HdrAlignment(q.heap, b) <= SIZE_MAX
    BY <1>1, <1>3
  <2>2. q.ptr + HdrSize(q.heap, b) <= b + q.heap.chunk[b]
    BY <1>2, <2>1, Zenon DEF Describes
  <2>3. msize \in Nat /\ size \in Nat /\ msize < size
    BY <1>3, <1>4 DEF msize
  <2>4. q.ptr + msize <= b + q.heap.chunk[b]
    BY <1>1, <1>7, <2>2, <2>3
  <2> QED BY <1>7, <2>4 DEF FitsIn
<1>10. CopyThenFree(q, p, msize) = [q EXCEPT !.heap = free_(mid, p)]
  BY <1>8, <1>9, Zenon DEF CopyThenFree
<1> HIDE DEF mid
<1>11. CopyThenFree(q, p, msize).ret = "0"
  BY <1>10 DEF Outcome
<1> QED BY <1>11 DEF msize

LEMMA XallocDefined ==
    ASSUME NEW h \in Heaps, NEW p, NEW size \in 0..SIZE_MAX, NEW alignment \in Nat, NEW flags,
           p # NULL => /\ "REALLOC" \in flags /\ Describes(h, Hdr(h, p), p) /\ Fitting(h, p)
                       /\ emulates \/ KeepsPadding(h, p, Alignment(alignment)),
           HEADER + size + Alignment(alignment) <= SIZE_MAX,
           NEW r \in vsc_xalloc_ex(h, p, size, flags, alignment)
    PROVE  r.ret # "undefined"
<1>1. Alignment(alignment) \in Nat \ {0}
  BY CallAssumption DEF Alignment
<1>2. CASE emulates /\ "REALLOC" \in flags /\ p # NULL
  <2>1. r \in Emulated(h, p, size, Alignment(alignment), flags)
    BY <1>2, Zenon DEF vsc_xalloc_ex
  <2>2. CASE size <= size_(h, p)
    <3>1. r = Outcome("0", p, h)
      BY <2>1, <2>2, Zenon DEF Emulated
    <3> QED BY <3>1, OutcomeParts
  <2>3. CASE ~(size <= size_(h, p))
    <3> DEFINE fresh == flags \ {"REALLOC"}
    <3>1. PICK q \in malloc_(h, p, size, Alignment(alignment), fresh) :
             r = IF q.ret = "0" THEN CopyThenFree(q, p, size_(h, p)) ELSE q
      BY <2>1, <2>3, Zenon DEF Emulated
    <3>2. ~Reallocs(p, fresh)
      BY DEF Reallocs
    <3> HIDE DEF fresh
    <3>3. q.ret # "undefined"
      BY <1>1, <3>2, MallocDefined
    <3>4. \/ q.ret \in {"ENOMEM", "EINVAL"} /\ q.heap = h
          \/ q.ret = "undefined"
          \/ q.ret = "0" /\ Obtains(h, q.heap, {}, q.ptr, size, Alignment(alignment))
      BY <1>1, <3>2, MallocFacts
    <3>5. CASE q.ret \in {"ENOMEM", "EINVAL"}
      BY <3>1, <3>5
    <3>6. CASE q.ret = "0" /\ Obtains(h, q.heap, {}, q.ptr, size, Alignment(alignment))
      <4>1. q = Outcome("0", q.ptr, q.heap)
        <5>1. q = Outcome(q.ret, q.ptr, q.heap)
          BY MallocShape
        <5> QED BY <3>6, <5>1
      <4>2. CopyThenFree(q, p, size_(h, p)).ret = "0"
        BY <1>1, <1>2, <2>3, <3>6, <4>1, CopyThenFreeDefined
      <4> QED BY <3>1, <3>6, <4>2
    <3> QED BY <3>3, <3>4, <3>5, <3>6
  <2> QED BY <2>2, <2>3
<1>3. CASE ~(emulates /\ "REALLOC" \in flags /\ p # NULL)
  <2>1. PICK q \in malloc_(h, p, size, Alignment(alignment), flags) : r = OrAbort(q, flags)
    BY <1>3, Zenon DEF vsc_xalloc_ex
  <2>2. Reallocs(p, flags) => Describes(h, Hdr(h, p), p) /\ KeepsPadding(h, p, Alignment(alignment))
    BY <1>3, Zenon DEF Reallocs
  <2>3. q.ret # "undefined"
    BY <1>1, <2>2, MallocDefined
  <2>4. r = q \/ r = Outcome("abort", q.ptr, q.heap)
    BY <2>1, Zenon DEF OrAbort
  <2>5. Outcome("abort", q.ptr, q.heap).ret # "undefined"
    BY OutcomeParts
  <2> QED BY <2>3, <2>4, <2>5
<1> QED BY <1>2, <1>3

TermsInv == ~outside => status # "undefined" /\ \A i \in Holders(blocks) : Fitting(heap, blocks[i].ptr)

LEMMA SameFitting ==
    ASSUME NEW h, NEW h2, NEW p, SameHeader(h, h2, p), Fitting(h, p)
    PROVE  Fitting(h2, p)
  BY Zenon DEF SameHeader, Fitting

LEMMA ObtainTerms ==
    ASSUME TypeOK, HeapInv(heap, blocks, emulates), TermsInv, status = "running",
           NEW i \in Blocks, NEW size \in 0..SIZE_MAX, NEW flags \in SUBSET Flags, NEW alignment \in Alignments \cup {0},
           i \in Held => "REALLOC" \in flags, Obtain(i, size, flags, alignment)
    PROVE  TermsInv'
<1> SUFFICES ASSUME ~outside'
             PROVE  status' # "undefined" /\ \A j \in Holders(blocks') : Fitting(heap', blocks'[j].ptr)
  BY Zenon DEF TermsInv
<1> DEFINE p == blocks[i].ptr
           new(r) == [ptr |-> r.ptr, size |-> size, alignment |-> Alignment(alignment)]
<1>1. PICK r \in vsc_xalloc_ex(heap, p, size, flags, alignment) :
         /\ heap' = IF r.ret = "undefined" THEN heap ELSE r.heap
         /\ blocks' = IF r.ret # "0" THEN blocks ELSE [blocks EXCEPT ![i] = new(r)]
         /\ status' = IF r.ret \in {"undefined", "abort"} THEN r.ret ELSE status
  BY Zenon DEF Obtain
<1>2. /\ WithinTerms(i, size, flags, alignment)
      /\ \A j \in Holders(blocks) : Fitting(heap, blocks[j].ptr)
  BY Zenon DEF Obtain, TermsInv
<1>3. /\ heap \in Heaps /\ blocks \in BlockStates /\ Held = Holders(blocks) /\ alignment \in Nat
      /\ Alignment(alignment) \in Nat \ {0} /\ (i \in Held <=> p # NULL) /\ HEADER \in Nat /\ SIZE_MAX \in Nat
  BY TypeParts, CallAssumption, MemoryAssumption DEF Alignment, Held, HEADER
<1>4. HEADER + size + Alignment(alignment) <= SIZE_MAX
  BY <1>2, Zenon DEF WithinTerms
<1>5. ASSUME p # NULL
      PROVE  /\ "REALLOC" \in flags /\ Describes(heap, Hdr(heap, p), p) /\ Fitting(heap, p)
             /\ emulates \/ KeepsPadding(heap, p, Alignment(alignment))
  <2>1. "REALLOC" \in flags /\ i \in Holders(blocks) /\ i \in Held
    BY <1>3, <1>5
  <2>2. Kept(heap, blocks[i], emulates)
    BY <2>1, Zenon DEF HeapInv
  <2>3. Describes(heap, Hdr(heap, p), p) /\ Fitting(heap, p)
    BY <1>2, <2>1, <2>2, Zenon DEF Kept
  <2>4. ASSUME ~emulates
        PROVE  KeepsPadding(heap, p, Alignment(alignment))
    <3>1. /\ HdrAlignment(heap, Hdr(heap, p)) = blocks[i].alignment
          /\ Alignment(alignment) <= blocks[i].alignment /\ Alignment(alignment) <= DefaultAlignment
      BY <1>2, <2>1, <2>2, <2>4, Zenon DEF Kept, WithinTerms
    <3>2. Alignment(alignment) \in (Alignments \cup {DefaultAlignment}) \ {0} /\ DefaultAlignment \in (Alignments \cup {DefaultAlignment}) \ {0}
      BY CallAssumption DEF Alignment
    <3>3. DefaultAlignment % Alignment(alignment) = 0
      BY <3>1, <3>2, PowerOfTwoAssumption
    <3> QED BY <3>1, <3>3 DEF KeepsPadding
  <2> QED BY <2>1, <2>3, <2>4, Zenon
<1>6. r.ret # "undefined"
  <2> HIDE DEF p
  <2> QED BY <1>3, <1>4, <1>5, XallocDefined
<1>7. p # NULL => "REALLOC" \in flags /\ Describes(heap, Hdr(heap, p), p)
  BY <1>5
<1>8. \/ Fails(heap, p, r, flags)
      \/ Stays(heap, p, r, size)
      \/ r.ret = "0" /\ Obtains(heap, r.heap, Gone(heap, p), r.ptr, size, Alignment(alignment))
  <2> HIDE DEF p
  <2> QED BY <1>3, <1>6, <1>7, XallocFacts
<1>9. status' # "undefined"
  BY <1>1, <1>6
<1>10. \A j \in Blocks \ {i} : j \in Holders(blocks') => j \in Holders(blocks) \ {i} /\ blocks'[j] = blocks[j]
  <2>1. \A j \in Blocks \ {i} : blocks'[j] = blocks[j]
    <3> HIDE DEF new
    <3> QED BY <1>1, <1>3 DEF BlockStates
  <2> QED BY <2>1 DEF Holders
<1> HIDE DEF p
<1>11. CASE Fails(heap, p, r, flags)
  <2>1. heap' = heap /\ blocks' = blocks
    <3>1. r.heap = heap /\ r.ret # "0"
      BY <1>11 DEF Fails
    <3> QED BY <1>1, <3>1
  <2> QED BY <1>2, <1>9, <2>1
<1>12. CASE Stays(heap, p, r, size)
  <2>1. r.ret = "0" /\ p # NULL /\ r.heap = heap /\ r.ptr = p
    BY <1>12, Zenon DEF Stays
  <2>2. heap' = heap /\ blocks'[i].ptr = p
    BY <1>1, <1>3, <2>1 DEF BlockStates
  <2>3. ASSUME NEW j \in Holders(blocks')
        PROVE  Fitting(heap', blocks'[j].ptr)
    <3>1. CASE j = i
      BY <1>5, <2>1, <2>2, <3>1
    <3>2. CASE j # i
      <4>1. j \in Blocks \ {i}
        BY <3>2 DEF Holders
      <4> QED BY <1>2, <1>10, <2>2, <2>3, <4>1
    <3> QED BY <3>1, <3>2
  <2> QED BY <1>9, <2>3
<1>13. CASE r.ret = "0" /\ Obtains(heap, r.heap, Gone(heap, p), r.ptr, size, Alignment(alignment))
  <2>1. heap' = r.heap /\ blocks' = [blocks EXCEPT ![i] = [ptr |-> r.ptr, size |-> size, alignment |-> Alignment(alignment)]]
    BY <1>1, <1>13
  <2>2. /\ \A j \in Holders(blocks) \ {i} : SameHeader(heap, heap', blocks[j].ptr)
        /\ HdrSize(heap', Hdr(heap', r.ptr)) = size /\ HdrAlignment(heap', Hdr(heap', r.ptr)) = Alignment(alignment)
    <3>1. Obtains(heap, heap', Gone(heap, blocks[i].ptr), r.ptr, size, Alignment(alignment))
      BY <1>13, <2>1 DEF p
    <3>2. Obtained(heap, heap', emulates, blocks, blocks', i, r.ptr, size, Alignment(alignment))
      BY <1>3, <2>1, <3>1, ObtainKeeps, Zenon
    <3> QED BY <3>2, Zenon DEF Obtained, SameBlock
  <2>3. blocks'[i].ptr = r.ptr
    BY <1>3, <2>1 DEF BlockStates
  <2>4. ASSUME NEW j \in Holders(blocks')
        PROVE  Fitting(heap', blocks'[j].ptr)
    <3>1. CASE j = i
      <4>1. size + HEADER + Alignment(alignment) <= SIZE_MAX
        BY <1>3, <1>4
      <4> QED BY <2>2, <2>3, <3>1, <4>1 DEF Fitting
    <3>2. CASE j # i
      <4>1. j \in Holders(blocks) \ {i} /\ blocks'[j] = blocks[j]
        <5>1. j \in Blocks \ {i}
          BY <3>2 DEF Holders
        <5> QED BY <1>10, <2>4, <5>1
      <4> QED BY <1>2, <2>2, <4>1, SameFitting
    <3> QED BY <3>1, <3>2
  <2> QED BY <1>9, <2>4
<1> QED BY <1>8, <1>11, <1>12, <1>13

LEMMA TermsNext == MemInv /\ TermsInv /\ [Next]_vars => TermsInv'
<1> SUFFICES ASSUME MemInv, TermsInv, [Next]_vars PROVE TermsInv'
  OBVIOUS
<1>1. /\ TypeOK /\ HeapInv(heap, blocks, emulates)
      /\ heap \in Heaps /\ blocks \in BlockStates /\ Held = Holders(blocks)
  BY TypeParts DEF MemInv
<1>2. ASSUME NEW i \in Blocks, NEW size \in 0..SIZE_MAX, NEW flags \in SUBSET Flags,
             NEW alignment \in Alignments \cup {0},
             status = "running", i \in Held => "REALLOC" \in flags, Obtain(i, size, flags, alignment)
      PROVE  TermsInv'
  BY <1>1, <1>2, ObtainTerms
<1>3. ASSUME outside' = outside, status' = status,
             \A j \in Holders(blocks') : /\ j \in Holders(blocks) /\ blocks'[j] = blocks[j]
                                         /\ SameHeader(heap, heap', blocks[j].ptr)
      PROVE  TermsInv'
  <2> SUFFICES ASSUME ~outside'
               PROVE  status' # "undefined" /\ \A j \in Holders(blocks') : Fitting(heap', blocks'[j].ptr)
    BY Zenon DEF TermsInv
  <2>1. status # "undefined" /\ \A j \in Holders(blocks) : Fitting(heap, blocks[j].ptr)
    BY <1>3, Zenon DEF TermsInv
  <2>2. ASSUME NEW j \in Holders(blocks')
        PROVE  Fitting(heap', blocks'[j].ptr)
    <3>1. j \in Holders(blocks) /\ blocks'[j] = blocks[j] /\ SameHeader(heap, heap', blocks[j].ptr)
      BY <1>3
    <3> QED BY <2>1, <3>1, SameFitting
  <2> QED BY <1>3, <2>1, <2>2
<1>4. ASSUME NEW i \in Blocks, Release(i)
      PROVE  TermsInv'
  <2>1. /\ heap' = (IF blocks[i].ptr # NULL THEN free_(heap, blocks[i].ptr) ELSE heap)
        /\ blocks' = [blocks EXCEPT ![i] = NotHeld] /\ outside' = outside /\ status' = status
    BY <1>4, Zenon DEF Release, Held
  <2>2. \A j \in Holders(blocks) \ {i} : SameHeader(heap, heap', blocks[j].ptr)
    <3>1. \A j \in Holders(blocks) \ {i} : SameBlock(heap, heap', blocks[j].ptr)
      <4>1. heap \in Heaps /\ blocks \in BlockStates /\ HeapInv(heap, blocks, emulates)
        BY <1>1, Zenon
      <4>2. heap' = IF blocks[i].ptr # NULL THEN free_(heap, blocks[i].ptr) ELSE heap
        BY <2>1, Zenon
      <4>3. blocks' = [blocks EXCEPT ![i] = NotHeld]
        BY <2>1, Zenon
      <4> QED BY <4>1, <4>2, <4>3, FreeKeeps, Zenon
    <3> QED BY <3>1, Zenon DEF SameBlock
  <2>3. \A j \in Holders(blocks') : j \in Holders(blocks) \ {i} /\ blocks'[j] = blocks[j]
    <3>1. blocks'[i].ptr = NULL /\ \A j \in Blocks \ {i} : blocks'[j] = blocks[j]
      BY <1>1, <2>1 DEF BlockStates, NotHeld
    <3> QED BY <3>1 DEF Holders
  <2> QED BY <1>3, <2>1, <2>2, <2>3
<1>5. ASSUME NEW i \in Blocks, Write(i)
      PROVE  TermsInv'
  <2>1. \A j \in Holders(blocks) : SameHeader(heap, heap', blocks[j].ptr)
    BY <1>1, <1>5, WriteStep
  <2>2. blocks' = blocks /\ outside' = outside /\ status' = status
    BY <1>5, Zenon DEF Write
  <2> QED BY <1>3, <2>1, <2>2
<1>6. ASSUME UNCHANGED <<heap, blocks, status, outside>>
      PROVE  TermsInv'
  BY <1>6, Zenon DEF TermsInv
<1>7. CASE Next
  <2>1. PICK i \in Blocks :
           \/ XFree(i) \/ Write(i)
           \/ \E size \in Sizes \cup {0} : XRealloc(i, size)
           \/ \E size \in Sizes :
                 \/ \E n \in Counts : XCalloc(i, n, size) \/ XCallocRefused(i, n, size)
                 \/ \E flags \in FlagSets, a \in Alignments : XAllocEx(i, size, flags, a)
    BY <1>7, Zenon DEF Next
  <2>2. CASE XFree(i)
    BY <1>4, <2>2, Zenon DEF XFree
  <2>3. CASE Write(i)
    BY <1>5, <2>3, Zenon
  <2>4. ASSUME NEW size \in Sizes \cup {0}, XRealloc(i, size)
        PROVE  TermsInv'
    <3>1. size \in 0..SIZE_MAX /\ {"REALLOC"} \in SUBSET Flags
      BY CallAssumption, MemoryAssumption DEF Flags
    <3>2. status = "running" /\ (Release(i) \/ Obtain(i, size, {"REALLOC"}, 0))
      BY <2>4, Zenon DEF XRealloc
    <3> QED BY <1>2, <1>4, <3>1, <3>2
  <2>5. ASSUME NEW size \in Sizes, NEW n \in Counts, XCalloc(i, n, size)
        PROVE  TermsInv'
    <3>1. /\ status = "running" /\ i \notin Held /\ Obtain(i, size * n, {"ZERO"}, 0)
          /\ ~(size > 0 /\ n > SIZE_MAX \div size)
      BY <2>5, Zenon DEF XCalloc
    <3>2. n \in Nat /\ size \in 0..SIZE_MAX /\ {"ZERO"} \in SUBSET Flags
      BY CallAssumption DEF Flags
    <3>3. size * n \in 0..SIZE_MAX
      BY <3>1, <3>2, ProductFits
    <3> HIDE DEF Flags
    <3> QED BY <1>2, <3>1, <3>2, <3>3
  <2>6. ASSUME NEW size \in Sizes, NEW n \in Counts, XCallocRefused(i, n, size)
        PROVE  TermsInv'
    BY <1>6, <2>6, Zenon DEF XCallocRefused
  <2>7. ASSUME NEW size \in Sizes, NEW flags \in FlagSets, NEW a \in Alignments, XAllocEx(i, size, flags, a)
        PROVE  TermsInv'
    <3>1. size \in 0..SIZE_MAX /\ flags \in SUBSET Flags /\ a \in Alignments \cup {0}
      BY CallAssumption
    <3>2. status = "running" /\ (i \in Held => "REALLOC" \in flags) /\ Obtain(i, size, flags, a)
      BY <2>7, Zenon DEF XAllocEx
    <3> QED BY <1>2, <3>1, <3>2
  <2> QED BY <2>1, <2>2, <2>3, <2>4, <2>5, <2>6, <2>7, Zenon
<1>8. CASE UNCHANGED vars
  BY <1>6, <1>8, Zenon DEF vars
<1> QED BY <1>7, <1>8

\* No call reads or writes outside a chunk while every call so far was one whose
\* request does not wrap and whose realloc keeps the padding (allocator.cpp:104, :148).
THEOREM DefinedWithinTerms == Spec => []UndefinedOutsideTerms
<1>1. Init => TermsInv
  <2> SUFFICES ASSUME Init PROVE TermsInv
    OBVIOUS
  <2>1. status = "running" /\ blocks = [i \in Blocks |-> NotHeld]
    BY DEF Init
  <2>2. Holders(blocks) = {}
    BY <2>1 DEF Holders, NotHeld
  <2> QED BY <2>1, <2>2 DEF TermsInv
<1>2. TermsInv => UndefinedOutsideTerms
  BY Zenon DEF TermsInv, UndefinedOutsideTerms
<1> QED BY <1>1, <1>2, TermsNext, NextInv, InitInv, PTL DEF Spec
=============================================================================
