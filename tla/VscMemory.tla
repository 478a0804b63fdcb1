------------------------------ MODULE VscMemory ------------------------------
(***************************************************************************)
(* vsclib's memory functions (memory.c) over an allocator: the system's,   *)
(* or a user's that keeps its blocks the same way and does not support     *)
(* VSC_ALLOC_REALLOC, so that vsc_xalloc_ex emulates it.  One action per   *)
(* call; the user holds Blocks, and writes to them between the calls.      *)
(***************************************************************************)
EXTENDS VscSystemAllocator, FiniteSets

CONSTANTS Blocks,             \* the pointers the user keeps
          Sizes, Counts,      \* what the user asks for
          Alignments,         \* 0 for the default
          FlagSets,
          DefaultAlignment    \* a->alignment, which the C library guarantees too

Flags == {"ZERO", "NOFAIL", "REALLOC"}

ASSUME CallAssumption ==
    /\ Blocks \subseteq Nat /\ Counts \subseteq Nat /\ SIZE_MAX > 0
    /\ Sizes \subseteq 0..SIZE_MAX /\ FlagSets \subseteq SUBSET Flags
    /\ Alignments \subseteq Nat /\ DefaultAlignment \in Nat \ {0}
    /\ \A b \in Bases : b % DefaultAlignment = 0

\* Alignments are powers of two: of two, the smaller divides the greater.
ASSUME PowerOfTwoAssumption ==
    \A a, b \in (Alignments \cup {DefaultAlignment}) \ {0} : a <= b => b % a = 0

VARIABLES heap,               \* memory, as in VscSystemAllocator
          emulates,           \* whether the allocator refuses VSC_ALLOC_REALLOC
          blocks,             \* what the user holds, and last asked for
          last,               \* the last call: its flags and what it returned
          status,             \* of the process
          outside             \* history: whether a call left the terms of use below

vars == <<heap, emulates, blocks, last, status, outside>>

Results == {"0", "ENOMEM", "EINVAL", "NULL", "freed", "undefined", "abort"}
NotHeld == [ptr |-> NULL, size |-> 0, alignment |-> 0]
Alignment(a) == IF a = 0 THEN DefaultAlignment ELSE a
Held == {i \in Blocks : blocks[i].ptr # NULL}

\* Whether the words of a block lie in the chunk of its header.
FitsIn(h, p, size) == p + size <= Hdr(h, p) + h.chunk[Hdr(h, p)]
-----------------------------------------------------------------------------
(* vsc_xalloc_ex as the set of its outcomes.                               *)

\* memcpy(*ptr, p, msize), then a->free(p)
CopyThenFree_Leaks(r, p, msize) ==
    LET copied == Put(r.heap.mem, r.ptr, msize, [k \in 1..msize |-> r.heap.mem[p + k - 1]])
    IN  IF FitsIn(r.heap, r.ptr, msize) /\ FitsIn(r.heap, p, msize)
        THEN [r EXCEPT !.heap.mem = copied]
        ELSE Outcome("undefined", NULL, r.heap)

CopyThenFree_NoCopy(r, p, msize) == [r EXCEPT !.heap = free_(r.heap, p)]

CopyThenFree(r, p, msize) ==
    LET copied == Put(r.heap.mem, r.ptr, msize, [k \in 1..msize |-> r.heap.mem[p + k - 1]])
    IN  IF FitsIn(r.heap, r.ptr, msize) /\ FitsIn(r.heap, p, msize)
        THEN [r EXCEPT !.heap = free_([r.heap EXCEPT !.mem = copied], p)]
        ELSE Outcome("undefined", NULL, r.heap)

\* The allocator has answered ENOTSUP.  Whatever is no larger stays where it is;
\* a failure is returned, whatever the flags.
Emulated(h, p, size, alignment, flags) ==
    IF size <= size_(h, p) THEN {Outcome("0", p, h)}
    ELSE {IF r.ret = "0" THEN CopyThenFree(r, p, size_(h, p)) ELSE r :
              r \in malloc_(h, p, size, alignment, flags \ {"REALLOC"})}

OrAbort_Never(r, flags) == r

OrAbort(r, flags) ==
    IF r.ret \in {"ENOMEM", "EINVAL"} /\ "NOFAIL" \in flags THEN Outcome("abort", r.ptr, r.heap) ELSE r

vsc_xalloc_ex(h, p, size, flags, alignment) ==
    IF emulates /\ "REALLOC" \in flags /\ p # NULL
    THEN Emulated(h, p, size, Alignment(alignment), flags)
    ELSE {OrAbort(r, flags) : r \in malloc_(h, p, size, Alignment(alignment), flags)}
-----------------------------------------------------------------------------
(* Terms of use under which the memory functions keep their promise, which *)
(* are narrower than the documented ones: sizes whose request does not     *)
(* wrap; with the system allocator, a realloc with the alignment the block *)
(* has, at most that of the C library; with an emulated one, no zeroing.   *)

WithinTerms(i, size, flags, alignment) ==
    /\ HEADER + size + Alignment(alignment) <= SIZE_MAX
    /\ i \in Held =>
          IF emulates THEN "ZERO" \notin flags
          ELSE Alignment(alignment) <= blocks[i].alignment /\ Alignment(alignment) <= DefaultAlignment

\* VSC_ALLOC_REALLOC is dropped for a pointer that is NULL.
Effective(i, flags) == IF i \in Held THEN flags ELSE flags \ {"REALLOC"}

Init ==
    /\ heap = EmptyHeap /\ emulates \in BOOLEAN
    /\ blocks = [i \in Blocks |-> NotHeld]
    /\ last = [flags |-> {}, result |-> "0"]
    /\ status = "running" /\ outside = FALSE

Obtain(i, size, flags, alignment) ==
    /\ \E r \in vsc_xalloc_ex(heap, blocks[i].ptr, size, flags, alignment) :
          /\ heap' = IF r.ret = "undefined" THEN heap ELSE r.heap
          /\ blocks' = IF r.ret # "0" THEN blocks
                       ELSE [blocks EXCEPT ![i] = [ptr |-> r.ptr, size |-> size, alignment |-> Alignment(alignment)]]
          /\ last' = [flags |-> Effective(i, flags), result |-> r.ret]
          /\ status' = IF r.ret \in {"undefined", "abort"} THEN r.ret ELSE status
    /\ outside' = (outside \/ ~WithinTerms(i, size, flags, alignment))
    /\ UNCHANGED emulates

\* vsc_xalloc_ex; vsc_xalloc and vsc_aligned_malloc call it without flags.  A
\* pointer to a block is passed with VSC_ALLOC_REALLOC alone.
XAllocEx(i, size, flags, alignment) ==
    /\ status = "running" /\ (i \in Held => "REALLOC" \in flags)
    /\ Obtain(i, size, flags, alignment)

Release(i) ==
    /\ heap' = IF i \in Held THEN free_(heap, blocks[i].ptr) ELSE heap
    /\ blocks' = [blocks EXCEPT ![i] = NotHeld]
    /\ last' = [flags |-> {}, result |-> "freed"]
    /\ UNCHANGED <<emulates, status, outside>>

XFree(i) == status = "running" /\ Release(i)

XRealloc(i, size) ==
    /\ status = "running"
    /\ IF size = 0 THEN Release(i) ELSE Obtain(i, size, {"REALLOC"}, 0)

\* The product does not fit a size_t.
XCallocRefused(i, nmemb, size) ==
    /\ status = "running" /\ i \notin Held
    /\ size > 0 /\ nmemb > SIZE_MAX \div size
    /\ last' = [flags |-> {}, result |-> "NULL"]
    /\ UNCHANGED <<heap, emulates, blocks, status, outside>>

XCalloc(i, nmemb, size) ==
    /\ status = "running" /\ i \notin Held
    /\ ~(size > 0 /\ nmemb > SIZE_MAX \div size)
    /\ Obtain(i, size * nmemb, {"ZERO"}, 0)

\* The user writes to every word of a block, each its own value.
Write(i) ==
    /\ status = "running" /\ i \in Held /\ FitsIn(heap, blocks[i].ptr, blocks[i].size)
    /\ heap' = [heap EXCEPT !.mem = Put(@, blocks[i].ptr, blocks[i].size,
                                        [k \in 1..blocks[i].size |-> Word(Room * (i + 1) + k)])]
    /\ UNCHANGED <<emulates, blocks, last, status, outside>>

Next ==
    \E i \in Blocks :
        \/ XFree(i) \/ Write(i)
        \/ \E size \in Sizes \cup {0} : XRealloc(i, size)
        \/ \E size \in Sizes :
              \/ \E n \in Counts : XCalloc(i, n, size) \/ XCallocRefused(i, n, size)
              \/ \E flags \in FlagSets, a \in Alignments : XAllocEx(i, size, flags, a)

Spec == Init /\ [][Next]_vars
-----------------------------------------------------------------------------
TypeOK ==
    /\ heap \in Heaps /\ emulates \in BOOLEAN /\ outside \in BOOLEAN
    /\ blocks \in [Blocks -> [ptr : {NULL} \cup UNION {(b + HEADER)..(b + Room) : b \in Bases},
                               size : 0..SIZE_MAX, alignment : Nat]]
    /\ last \in [flags : SUBSET Flags, result : Results]
    /\ status \in {"running", "undefined", "abort"}

HeaderOf(i) == Hdr(heap, blocks[i].ptr)

\* From the pointer alone, the word before the data leads to a header that is the
\* start of a chunk, describes the block and shares it with no other: by it the
\* block will be freed and resized (allocator.cpp:54).  A block resized in place by
\* the emulation keeps the size and the alignment it had.
HeaderFound ==
    \A i \in Held :
        LET hdr == HeaderOf(i) IN
        /\ hdr \in Bases /\ heap.chunk[hdr] >= HEADER /\ heap.mem[hdr + 2] = Sig
        /\ blocks[i].ptr = Mem(hdr, HdrAlignment(heap, hdr))
        /\ IF emulates THEN HdrSize(heap, hdr) >= blocks[i].size
           ELSE HdrSize(heap, hdr) = blocks[i].size /\ HdrAlignment(heap, hdr) = blocks[i].alignment
        /\ \A j \in Held \ {i} : HeaderOf(j) # hdr

\* Every word of a block is in its own chunk, behind the header, unless the size
\* was so large that header, size and padding wrapped (allocator.cpp:104).
BlocksFit ==
    \A i \in Held :
        HdrSize(heap, HeaderOf(i)) + HEADER + HdrAlignment(heap, HeaderOf(i)) <= SIZE_MAX =>
            FitsIn(heap, blocks[i].ptr, HdrSize(heap, HeaderOf(i)))

\* A chunk the C library gave out is the chunk of a block the user holds, so the
\* second block of an emulated realloc and the first are never both lost or freed.
NothingLeaks ==
    status = "running" => {b \in Bases : heap.chunk[b] > 0} = {HeaderOf(i) : i \in Held}

\* VSC_ALLOC_NOFAIL turns a failure into abort(), except in an emulated realloc,
\* which returns it (memory.c:65); nothing else aborts.
NoFailAborts ==
    /\ last.result \in {"ENOMEM", "EINVAL"} /\ "NOFAIL" \in last.flags => emulates /\ "REALLOC" \in last.flags
    /\ status = "abort" => "NOFAIL" \in last.flags

\* malloc_ leaves its chunk only for a call outside the terms: one whose request
\* wrapped, or a realloc that changes the padding (allocator.cpp:104, :148).
UndefinedOutsideTerms == status = "undefined" => outside

\* Within the terms, what VscHeap promises: the words of a block survive its
\* reallocs, also emulated or moved, and every failure.
Contents == [i \in Blocks |->
    IF i \notin Held THEN [held |-> FALSE, words |-> <<>>]
    ELSE [held |-> TRUE,
          words |-> IF FitsIn(heap, blocks[i].ptr, blocks[i].size)
                    THEN [k \in 1..blocks[i].size |-> heap.mem[blocks[i].ptr + k - 1]]
                    ELSE <<>>]]

Heap == INSTANCE VscHeap WITH contents <- Contents, Zero <- Word(0)
ImplementsHeap == Heap!Spec
=============================================================================
