-------------------------- MODULE VscSystemAllocator --------------------------
(***************************************************************************)
(* vsclib's allocator (allocator.cpp), which keeps a header before each    *)
(* block, over the realloc and free of the C library.  Memory is counted   *)
(* in words, the size of a pointer.                                        *)
(*                                                                         *)
(* A heap is the state of the memory: mem, the word at each address, and   *)
(* chunk, the words the C library has given out at each base, 0 if none.   *)
(* What malloc_ may do is the set of its outcomes: the value it returns,   *)
(* *ptr and the heap.  "undefined" is an access outside the chunk.         *)
(***************************************************************************)
EXTENDS Integers, Sequences

CONSTANTS Bases,              \* the addresses realloc may return
          Room,               \* and the words there are at each
          SIZE_MAX

NULL == 0
HEADER == 3                   \* MemHeader: size, align_power, sig

ASSUME MemoryAssumption ==
    /\ SIZE_MAX \in Nat /\ Room \in Nat
    /\ Bases \subseteq Nat \ {NULL}
    /\ \A b, c \in Bases : b < c => b + Room <= c

Addresses == UNION {b..(b + Room - 1) : b \in Bases}

\* What a word can hold, as far as this code tells: the signature, the address of
\* a header, a field of a header, data of the user, or nothing known.
Sig     == [kind |-> "sig", val |-> 0]
Ptr(p)  == [kind |-> "ptr", val |-> p]
Num(n)  == [kind |-> "num", val |-> n]
Word(n) == [kind |-> "data", val |-> n]
Junk    == [kind |-> "junk", val |-> 0]
Words   == [kind : {"sig", "ptr", "num", "data", "junk"}, val : Nat]

Heaps == [mem : [Addresses -> Words], chunk : [Bases -> 0..Room]]
EmptyHeap == [mem |-> [x \in Addresses |-> Junk], chunk |-> [b \in Bases |-> 0]]

\* mem with words, a function on 1..n, written from address p on.
Put(mem, p, n, words) == [x \in Addresses |-> IF x \in p..(p + n - 1) THEN words[x - p + 1] ELSE mem[x]]
-----------------------------------------------------------------------------
(* The C library: a chunk of n words anywhere there is room, holding as     *)
(* much of the old chunk as fits, or no memory.                             *)

Extent(h, b) == b..(b + h.chunk[b] - 1)

Free(h, b) ==
    [mem   |-> [x \in Addresses |-> IF x \in Extent(h, b) THEN Junk ELSE h.mem[x]],
     chunk |-> [h.chunk EXCEPT ![b] = 0]]

Moved(h, old, new, n) ==
    LET left == IF old = NULL THEN h ELSE Free(h, old)
        kept(k) == IF old # NULL /\ k <= h.chunk[old] THEN h.mem[old + k - 1] ELSE Junk
    IN  [mem   |-> Put(left.mem, new, n, [k \in 1..n |-> kept(k)]),
         chunk |-> [left.chunk EXCEPT ![new] = n]]

\* vsc_sys_realloc, where it does not fail.
Reallocated(h, old, n) ==
    {[base |-> b, heap |-> Moved(h, old, b, n)] :
        b \in {c \in Bases : n \in 1..Room /\ (h.chunk[c] = 0 \/ c = old)}}
-----------------------------------------------------------------------------
AlignUp(p, a) == p + ((a - (p % a)) % a)

\* vsc__allocator_mem2hdr and vsc__allocator_hdr2mem
Hdr(h, p) == IF h.mem[p - 1] = Sig THEN p - HEADER ELSE h.mem[p - 1].val
Mem_NoHeader(hdr, alignment) == AlignUp(hdr, alignment)
Mem(hdr, alignment) == AlignUp(hdr + HEADER, alignment)

HdrSize(h, hdr)      == h.mem[hdr].val
HdrAlignment(h, hdr) == h.mem[hdr + 1].val

size_(h, p) == HdrSize(h, Hdr(h, p))
free_(h, p) == Free(h, Hdr(h, p))

\* Where the data would begin, the address of the header goes into the word
\* before it; the fields follow.
WriteHeader_NoPointer(h, hdr, size, alignment) ==
    [h EXCEPT !.mem = Put(h.mem, hdr, HEADER, <<Num(size), Num(alignment), Sig>>)]

WriteHeader(h, hdr, size, alignment) ==
    LET p == Mem(hdr, alignment)
        found == IF p = hdr + HEADER THEN h.mem ELSE Put(h.mem, p - 1, 1, <<Ptr(hdr)>>)
    IN  [h EXCEPT !.mem = Put(found, hdr, HEADER, <<Num(size), Num(alignment), Sig>>)]

\* The data follow when the padding changes: the n words after the old shift.
MoveData(h, hdr, shift, p, n) ==
    IF shift = p - hdr THEN h
    ELSE [h EXCEPT !.mem = Put(h.mem, p, n, [k \in 1..n |-> h.mem[hdr + shift + k - 1]])]

ZeroFrom(h, p, from, to) ==
    IF from >= to THEN h
    ELSE [h EXCEPT !.mem = Put(h.mem, p + from, to - from, [k \in 1..(to - from) |-> Word(0)])]

\* The words of the chunk that are neither header nor data are read by nobody, and
\* what a later realloc makes of them is unspecified: nothing is known of them.
Tidied(h, hdr, p, size) ==
    LET used == hdr..(hdr + HEADER - 1) \cup (p - 1)..(p + size - 1)
    IN  [h EXCEPT !.mem = [x \in Addresses |-> IF x \in Extent(h, hdr) \ used THEN Junk ELSE h.mem[x]]]

Outcome(ret, p, h) == [ret |-> ret, ptr |-> p, heap |-> h]

\* malloc_ after a successful realloc gave it the chunk at hdr.  old is the block
\* it reallocates, [shift, size], or the empty block of no memory.
FillChunk(h, hdr, size, alignment, zero, old, moves) ==
    LET p     == Mem(hdr, alignment)
        space == h.chunk[hdr] - (p - hdr)
        used  == IF moves /\ old.shift # p - hdr THEN old.size ELSE 0
        top   == IF zero /\ size > old.size THEN size ELSE 0
        m1    == WriteHeader(h, hdr, size, alignment)
        m2    == IF moves THEN MoveData(m1, hdr, old.shift, p, old.size) ELSE m1
        m3    == IF zero THEN ZeroFrom(m2, p, old.size, size) ELSE m2
    IN  IF \/ used > space \/ top > space \/ space < 0
           \/ used > 0 /\ old.shift + used > h.chunk[hdr]
        THEN Outcome("undefined", NULL, h)
        ELSE Outcome("0", p, Tidied(m3, hdr, p, size))

\* size_t arithmetic
Reqsize_NoPadding(size, alignment) == (HEADER + size) % (SIZE_MAX + 1)
Reqsize(size, alignment) == (HEADER + size + alignment) % (SIZE_MAX + 1)

\* An alignment below one word is one word; that of a block may not decrease.
malloc_(h, ptr, size, alignment, flags) ==
    LET reallocs == "REALLOC" \in flags /\ ptr # NULL
        hdr      == IF reallocs THEN Hdr(h, ptr) ELSE NULL
        old      == IF reallocs THEN [shift |-> ptr - hdr, size |-> HdrSize(h, hdr)]
                                ELSE [shift |-> 0, size |-> 0]
        reqsize  == Reqsize(size, alignment)
    IN  IF reallocs /\ alignment < HdrAlignment(h, hdr)
        THEN {Outcome("EINVAL", ptr, h)}
        ELSE IF reqsize = 0 THEN {Outcome("undefined", NULL, h)}
        ELSE {Outcome("ENOMEM", ptr, h)}
             \cup {FillChunk(r.heap, r.base, size, alignment, "ZERO" \in flags, old, reallocs) :
                       r \in Reallocated(h, hdr, reqsize)}
=============================================================================
