---------------------------- MODULE VscBlockAlloc ----------------------------
(***************************************************************************)
(* vsc_block_xalloc (vsclib/memory.c): several arrays in one allocation.   *)
(* Pass 1 measures the allocation as if it began at address 0; pass 2      *)
(* places the arrays where it really begins.  One step per array and pass. *)
(***************************************************************************)
EXTENDS Integers, Sequences

CONSTANTS Requests,           \* the arrays of VscBlockAllocInfo it is called with
          DefaultAlignment,   \* of the allocator: a->alignment
          Addresses,          \* where the allocator may put a block
          SIZE_MAX

NULL == 0
UNSET == -1                   \* whatever the caller's pointers held before

BlockInfo == [element_size : 0..SIZE_MAX, count : 0..SIZE_MAX, alignment : 0..SIZE_MAX]

ASSUME BlockAssumption ==
    /\ SIZE_MAX \in Nat \ {0}
    /\ DefaultAlignment \in 1..SIZE_MAX
    /\ Requests \subseteq Seq(BlockInfo) \ {<<>>}
    /\ Addresses \subseteq 1..SIZE_MAX

Alignment(b) == IF b.alignment = 0 THEN DefaultAlignment ELSE b.alignment

\* Alignments are powers of two: of two, the smaller divides the greater.
ASSUME AlignmentAssumption ==
    \A r \in Requests : \A j, k \in DOMAIN r :
        Alignment(r[j]) <= Alignment(r[k]) => Alignment(r[k]) % Alignment(r[j]) = 0

VARIABLES pc,                 \* "idle", or the pass vsc_block_xalloc is in
          info, i,            \* its argument, and the array it is at
          reqsize,
          ends, wrapped,      \* history: reqsize after each array of pass 1, and
                              \* whether the sum ever exceeded a size_t
          heap,               \* the allocations not freed: [addr, size]
          ptr, out,           \* what the caller gets: ptr[i] and *blockinfo[i].out
          last,               \* lastblock; lastptr is ptr[last]
          ret

measured == <<reqsize, ends, wrapped>>
vars == <<pc, info, i, measured, heap, ptr, out, last, ret>>
-----------------------------------------------------------------------------
(* Sizes.  Masking an address with a power of two is rounding it. *)

Size(b) == (b.element_size * b.count) % (SIZE_MAX + 1)

\* vsc_align moves p by Gap(p, a), and refuses when the rest does not fit.
Gap(p, a) == (a - (p % a)) % a
Fits(b, p, space) ==
    Size(b) <= space /\ Gap(p, Alignment(b)) <= space - Size(b)

\* What vsc_align returns: the aligned address, or NULL.
Align(b, p, space) ==
    IF Fits(b, p, space) THEN (p + Gap(p, Alignment(b))) % (SIZE_MAX + 1) ELSE NULL

\* "If we're starting aligned to both X and X^2, make us only aligned to X."
FirstSize(b) ==
    IF Size(b) % (2 * Alignment(b)) = 0 THEN Size(b) + Alignment(b) ELSE Size(b)

Pad_Forgotten(b) == 0
Pad(b) == IF Fits(b, reqsize, SIZE_MAX) THEN Gap(reqsize, Alignment(b)) ELSE 0

\* Where pass 2 starts to look, and how much it thinks is left from there.
Next2_OverLast == ptr[last]
Next2 == (ptr[last] + Size(info[last])) % (SIZE_MAX + 1)
Space2 == (reqsize - (Next2 - ptr[1])) % (SIZE_MAX + 1)
Aligned2 == Align(info[i], Next2, Space2)
-----------------------------------------------------------------------------
Init ==
    /\ pc = "idle" /\ info = <<>> /\ i = 1 /\ reqsize = 0
    /\ ends = <<>> /\ wrapped = FALSE
    /\ heap = {} /\ ptr = <<>> /\ out = <<>> /\ last = 1 /\ ret = "none"

\* No arrays, or a missing argument.
Refuse ==
    /\ pc = "idle" /\ ret = "none"
    /\ ret' = "EINVAL"
    /\ UNCHANGED <<pc, info, i, measured, heap, ptr, out, last>>

Begin_Again(r) ==
    /\ pc = "idle" /\ ret = "none"
    /\ pc' = "measure" /\ info' = r /\ i' = 1 /\ last' = 1 /\ ret' = "none"
    /\ reqsize' = FirstSize(r[1]) % (SIZE_MAX + 1) /\ ends' = <<reqsize'>>
    /\ wrapped' = (FirstSize(r[1]) > SIZE_MAX)
    /\ ptr' = [j \in DOMAIN r |-> UNSET] /\ out' = [j \in DOMAIN r |-> UNSET]
    /\ UNCHANGED heap

Begin(r) ==
    /\ pc = "idle" /\ ret = "none"
    /\ pc' = "measure" /\ info' = r /\ i' = 2 /\ last' = 1 /\ ret' = "none"
    /\ reqsize' = FirstSize(r[1]) % (SIZE_MAX + 1) /\ ends' = <<reqsize'>>
    /\ wrapped' = (FirstSize(r[1]) > SIZE_MAX)
    /\ ptr' = [j \in DOMAIN r |-> UNSET] /\ out' = [j \in DOMAIN r |-> UNSET]
    /\ UNCHANGED heap

Measure ==
    LET total == reqsize + Size(info[i]) + Pad(info[i])
    IN  /\ pc = "measure" /\ i <= Len(info)
        /\ reqsize' = total % (SIZE_MAX + 1) /\ ends' = Append(ends, reqsize')
        /\ wrapped' = (wrapped \/ total > SIZE_MAX)
        /\ i' = i + 1
        /\ UNCHANGED <<pc, info, heap, ptr, out, last, ret>>

NoMemory ==
    /\ pc = "measure" /\ i > Len(info)
    /\ pc' = "idle" /\ ret' = "ENOMEM"
    /\ UNCHANGED <<info, i, measured, heap, ptr, out, last>>

Allocate(block) ==
    /\ pc = "measure" /\ i > Len(info)
    /\ block % Alignment(info[1]) = 0 /\ block + reqsize <= SIZE_MAX
    /\ heap' = heap \cup {[addr |-> block, size |-> reqsize]}
    /\ ptr' = [ptr EXCEPT ![1] = block] /\ out' = [out EXCEPT ![1] = block]
    /\ pc' = "place" /\ i' = 2
    /\ UNCHANGED <<info, measured, last, ret>>

\* "Do NOT update last{ptr,block}."
PlaceEmpty_MovesLast ==
    /\ pc = "place" /\ i <= Len(info) /\ Size(info[i]) = 0
    /\ ptr' = [ptr EXCEPT ![i] = NULL] /\ out' = [out EXCEPT ![i] = NULL]
    /\ i' = i + 1 /\ last' = i
    /\ UNCHANGED <<pc, info, measured, heap, ret>>

PlaceEmpty ==
    /\ pc = "place" /\ i <= Len(info) /\ Size(info[i]) = 0
    /\ ptr' = [ptr EXCEPT ![i] = NULL] /\ out' = [out EXCEPT ![i] = NULL]
    /\ i' = i + 1
    /\ UNCHANGED <<pc, info, measured, heap, last, ret>>

Place ==
    /\ pc = "place" /\ i <= Len(info) /\ Size(info[i]) # 0
    /\ Aligned2 # NULL
    /\ ptr' = [ptr EXCEPT ![i] = Aligned2] /\ out' = [out EXCEPT ![i] = Aligned2]
    /\ i' = i + 1 /\ last' = i
    /\ UNCHANGED <<pc, info, measured, heap, ret>>

RunsOut_KeepsBlock ==
    /\ pc = "place" /\ i <= Len(info) /\ Size(info[i]) # 0
    /\ Aligned2 = NULL
    /\ ptr' = [j \in DOMAIN info |-> NULL]
    /\ pc' = "idle" /\ ret' = "ENOSPC"
    /\ UNCHANGED <<info, i, measured, heap, out, last>>

\* "This is a bug and should never happen."  The block is freed and ptr cleared;
\* the pointers already stored through out stay.
RunsOut ==
    /\ pc = "place" /\ i <= Len(info) /\ Size(info[i]) # 0
    /\ Aligned2 = NULL
    /\ heap' = {h \in heap : h.addr # ptr[1]}
    /\ ptr' = [j \in DOMAIN info |-> NULL]
    /\ pc' = "idle" /\ ret' = "ENOSPC"
    /\ UNCHANGED <<info, i, measured, out, last>>

Finish ==
    /\ pc = "place" /\ i > Len(info)
    /\ pc' = "idle" /\ ret' = "0"
    /\ UNCHANGED <<info, i, measured, heap, ptr, out, last>>

\* The caller frees what it got, through the first pointer, and forgets the rest:
\* the calls share nothing, so one at a time is enough.
Release ==
    /\ pc = "idle" /\ ret # "none"
    /\ heap' = IF ret = "0" THEN {h \in heap : h.addr # ptr[1]} ELSE heap
    /\ ret' = "none" /\ info' = <<>> /\ ptr' = <<>> /\ out' = <<>>
    /\ i' = 1 /\ last' = 1 /\ reqsize' = 0 /\ ends' = <<>> /\ wrapped' = FALSE
    /\ UNCHANGED pc

Next ==
    \/ Refuse
    \/ \E r \in Requests : Begin(r)
    \/ Measure \/ NoMemory
    \/ \E block \in Addresses : Allocate(block)
    \/ PlaceEmpty \/ Place \/ RunsOut \/ Finish
    \/ Release

Spec == Init /\ [][Next]_vars
-----------------------------------------------------------------------------
(* Properties *)

Pointer == {UNSET, NULL} \cup 1..SIZE_MAX

TypeOK ==
    /\ pc \in {"idle", "measure", "place"}
    /\ info \in Requests \cup {<<>>} /\ (pc # "idle" => info # <<>>)
    /\ reqsize \in 0..SIZE_MAX /\ ends \in Seq(0..SIZE_MAX) /\ wrapped \in BOOLEAN
    /\ ret \in {"none", "0", "EINVAL", "ENOMEM", "ENOSPC"}
    /\ heap \subseteq [addr : 1..SIZE_MAX, size : 0..SIZE_MAX]
    /\ ptr \in [DOMAIN info -> Pointer] /\ out \in [DOMAIN info -> Pointer]
    /\ i \in Nat \ {0} /\ last \in Nat \ {0}
    /\ pc # "idle" => i \in 2..(Len(info) + 1) /\ last \in 1..(i - 1)
    /\ pc = "measure" => last = 1

\* The arrays pass 2 has placed: the first, and every one that is not empty.
PlacedSoFar ==
    IF pc = "place" \/ ret = "0"
    THEN {j \in DOMAIN info : j < i /\ (j = 1 \/ Size(info[j]) # 0)}
    ELSE {}

\* Each array handed out lies inside the one allocation made for the call, at an
\* address of its alignment, and after the end of every array before it, so that
\* no two overlap; unless the sum in pass 1 exceeds a size_t (memory.c:209).
ArraysPlaced ==
    ~wrapped =>
        /\ \A j \in PlacedSoFar :
              /\ [addr |-> ptr[1], size |-> reqsize] \in heap
              /\ ptr[j] % Alignment(info[j]) = 0
              /\ ptr[j] >= ptr[1] /\ ptr[j] + Size(info[j]) <= ptr[1] + reqsize
        /\ \A j, k \in PlacedSoFar : j < k => ptr[j] + Size(info[j]) <= ptr[k]

\* A call that fails leaves no allocation behind and none in ptr, however far
\* pass 2 had come; one that succeeds leaves exactly one, which ptr[1] frees.
NothingLeaks ==
    pc = "idle" =>
        IF ret = "0" THEN heap = {[addr |-> ptr[1], size |-> reqsize]}
                     ELSE heap = {} /\ \A j \in DOMAIN ptr : ptr[j] \in {NULL, UNSET}

FirstIsStrictest ==
    \A j \in DOMAIN info : Alignment(info[j]) <= Alignment(info[1])

\* Pass 1 and pass 2 agree when no array is aligned more strictly than the first:
\* then the padding does not depend on where the allocation begins.
PassesAgreeWhenFirstIsStrictest ==
    FirstIsStrictest /\ ~wrapped => ret # "ENOSPC"

\* "This is a bug and should never happen.  If it does, check pass 1."
\* (memory.c:249): pass 2 never runs out of the space that pass 1 has measured.
PassesAgree == wrapped \/ ret # "ENOSPC"

(* Why they hold: the inductive invariant *)

\* Pass 1 has measured the arrays one after the other.  Where vsc_align refused
\* to pad, the sum is so near the greatest size_t that no allocation follows.
MeasureInv ==
    pc # "idle" =>
        /\ ret = "none"
        /\ Len(ends) = (IF pc = "measure" THEN i - 1 ELSE Len(info))
        /\ reqsize = ends[Len(ends)]
        /\ pc = "measure" =>
              heap = {} /\ \A j \in DOMAIN ptr : ptr[j] = UNSET
        /\ ~wrapped =>
              /\ Size(info[1]) <= ends[1]
              /\ \A j, k \in DOMAIN ends : j <= k => ends[j] <= ends[k]
              /\ FirstIsStrictest =>
                    \/ reqsize > SIZE_MAX - Alignment(info[1])
                    \/ \A k \in 2..Len(ends) :
                          ends[k] = ends[k - 1] + Size(info[k])
                                       + Gap(ends[k - 1], Alignment(info[k]))

\* Pass 2 has placed the arrays up to last, no further than pass 1 had them.
PlaceInv ==
    pc = "place" =>
        /\ ptr[1] \in 1..SIZE_MAX /\ ptr[1] % Alignment(info[1]) = 0
        /\ ptr[1] + reqsize <= SIZE_MAX
        /\ heap = {[addr |-> ptr[1], size |-> reqsize]}
        /\ last \in PlacedSoFar /\ \A j \in PlacedSoFar : j <= last
        /\ FirstIsStrictest /\ ~wrapped =>
              ptr[last] + Size(info[last]) - ptr[1] <= ends[i - 1]

BlockInv ==
    /\ MeasureInv /\ PlaceInv
    /\ ArraysPlaced /\ NothingLeaks /\ PassesAgreeWhenFirstIsStrictest
=============================================================================
