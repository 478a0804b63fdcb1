# Verification of vsclib

vsclib is a C library of small utilities: an open-addressing hash map, an
allocator interface with aligned blocks, stream and line reading, strings, UUIDs
and a few wrappers of the operating system. This directory models it in TLA+,
checks the models with TLC and proves theorems about them with TLAPS.

Everything that keeps state, loops over something that others change, or does
arithmetic at a boundary is modelled: the hash map, the memory functions over
vsclib's own allocator, the block allocation, the two readers of a stream, the
enumeration of groups, the search of PATH, and the pure algorithms. What is not,
and why, is at the end.

## Inventory

| Component | State it keeps | Operations | Hard behaviour | What makes it correct |
|---|---|---|---|---|
| Hash map (`hashmap.c`) | counter, bucket array, policy, load factors | insert, find, find_by_hash, update, remove, resize, clear, reset, enumerate, configure | probes across the end of the table, gaps that move, two allocations in one resize, callbacks | it is a dictionary; probes unbroken; counter exact; it grows in time; calls end |
| Memory front end (`memory.c`) | none (the user's allocator) | xalloc_ex, xrealloc, xcalloc, xfree | realloc emulated when the allocator refuses it | old block kept on failure, contents kept on success |
| Block allocation (`memory.c`) | none | block_xalloc | two passes that must agree on the layout | blocks aligned, disjoint, inside the allocation |
| System allocator (`allocator.cpp`, `sysmem.c`) | a header before each block | alloc, free, size | data moved when the padding changes | header found from the pointer; words preserved |
| Stream reading (`freadall.c`) | a growing buffer, the stream | freadalla_ex | file that changes, callbacks that set the sizes | returns what was in the stream; ends |
| Line reading (`getline.c`) | the caller's buffer | getdelima | growth, errors midway | a terminated line inside the buffer; what a failure loses |
| Group enumeration (`enum_groups.c`) | the system's iterator, a buffer | enum_groupsa | retry with a larger buffer, an iterator others use | each group once; iterator closed |
| Path search (`searchpath.c`) | a buffer | searchpatha | two scans of PATH that must agree, one buffer for all candidates, files that change | the first executable, by its whole name; nothing leaked |
| Delimited iteration, joins, vasprintf, UUID, packed colours, WAV writer, fnullify, checksums, integers in files (`io.h`) | none | pure, or one system call after another | boundaries, partial failure | written and read back, split and joined give what they began with |
| Hashing (`hash.c`, `xxhash.h`) | none | vsc_hash | one algorithm per range of lengths, many ways to compile each | every byte of the input is used and no other; one hash in all builds |
| Errors, clock, the other descriptor helpers, C++ helpers, Windows ports | little or none | wrappers and tables | see "Not modelled" | |

Interaction: everything that allocates goes through the memory front end, which
calls the user's `VscAllocator` or the system allocator. The hash map calls
`vsc_xrealloc`, `vsc_xcalloc` and `vsc_xfree`, the user's hash and comparison, and
the callback of an enumeration; the readers, the group enumeration and the path
search allocate too, and call the system. Nothing in the library starts a thread
or takes a lock: one thread executes a call to its end, and what interleaves is
callbacks, failures of allocation, other processes that change files, other users
of a process-wide iterator, and the order of the calls.

Two compositions follow these interactions. `VscMemory` composes the front end with
the system allocator, its header format included, and implements the abstract
`VscHeap`; the clients of memory (the hash map, the readers) use of it only what
`VscHeap` promises, that an allocation succeeds or leaves everything as it was.
`VscReaders` composes both readers on one stream with a user who seeks and others
who write.

## The hash map

### Modules

| Module | What it is |
|---|---|
| `VscMap` | what the user is promised: a set of entries and the answer of each call |
| `VscHashMap` | the code of `hashmap.c`, whatever the user does |
| `VscHashMapContract` | the same with the calls restricted to those the code gets right, its inductive invariant, and the refinement of `VscMap` |
| `VscHashMapDocs` | what the header and the comments say and the code does not do |
| `VscHashMap_proofs` | types and the counter, with no contract |
| `VscHashMapContract_proofs` | the inductive invariant of the contract |
| `VscHashMapRefines_proofs` | the refinement of `VscMap`, the growth and the enumeration |
| `MCVscHashMap`, `MCVscHashMapContract`, `MCVscHashMapDocs` | the instances for TLC |

### State

`size`, `num_buckets`, `buckets`, `resize_policy`, `load_min`, `load_max` are the
fields of `struct VscHashMap`. `alloc` is how many buckets the block behind
`buckets` really has; the code does not keep it, and it differs from `num_buckets`
after a resize that failed half way. `call` holds the local variables of the call
in progress (the temporary list of a resize, the gap and the cursor of a remove,
the position of an enumeration); `ret` is the last call that returned, its key and
its answer. A key and a value are pointers, that is, model values; `hash_proc` and
`compare_proc` are constants, as they are for the life of a map. Hashes and sizes
are `0..SIZE_MAX`, products wrap modulo `SIZE_MAX + 1`.

### Actions

One action per API call. Loops over the buckets that change them take a step per
bucket: `resize` is `Resize`, then `RehashStep` for each bucket, then `RehashDone`;
`remove` is `Remove` (find, read the value, make the gap), then `ShiftMove` or
`ShiftSkip` for each bucket, then `ShiftEnd`; `enumerate` is `EnumBegin`,
`EnumSkip`/`EnumCallback`, `EnumEnd`. An insert decides as `maybe_resize` does; if
it has to grow it goes through the steps of resize with the bucket to add as
`pending`, and adds it in `AddPending` or returns resize's error. A loop that only
looks for a bucket is a definition: `FirstIn(S, hash, n)` is the first position of
the probe that lies in `S`, which is what `LOOP_BUCKETS` with a `break` computes.
Both allocations of a resize may fail (`ENOMEM`), at every call.

The callback of an enumeration may call `vsc_hashmap_update` once per bucket, the
one call the header declares safe there, and may stop the loop.

### What is abstracted

* Release builds (`NDEBUG`): the assertions of `validate`, and the one in
  `vsc_hashmap_hash`, are not executed. Whether the last assertion of resize
  (line 277) would hold is the property `RehashFits`.
* `InBounds` guards the calls that touch buckets. When `num_buckets` exceeds the
  block (after a failed shrink) the code would read and write outside it, which has
  no defined outcome to model; the run `shrink_no_memory` shows that state is
  reached, and the other runs go on from it only with reset, free and configuration.
* `vsc_hashmap_size`, `capacity`, `resize_policy` and `first` read the state and
  change nothing; `vsc_hashmap_alloc` that finds no memory creates no map.
* The realloc of resize is modelled by its two outcomes, the block moved or failed.
* A callback that inserts, removes, or updates and then stops, is not modelled.

### The contract

`VscHashMapContract` restricts four calls. Each restriction is what the proof
needs; a run shows what happens without the second and the third:

| Restriction | Why |
|---|---|
| `Reset` when the map is empty | the buckets go and `size` stays (`hashmap.c:163`) |
| `Resize(n)` with `n >= num_buckets` | shrinking truncates first (`shrink_loses`, `shrink_no_memory`) |
| `Remove(k)` when k's cluster does not run over the end of the table (`LinearCluster`) | the test of line 496 compares positions as if the table did not wrap (`remove_wrap`) |
| `Insert` when `(size + 1) * load_min.den` fits a `size_t` (`MinReqFits`) | line 331 tests the product with `load_max.den` |

`CompareAssumption` asks of the user's functions that comparison is an equivalence
and equal keys hash alike; the library's own string comparison is not reflexive
(`string_keys`).

## The block allocation

`vsc_block_xalloc` puts several arrays into one allocation. Pass 1 measures it as if
it began at address 0; pass 2 lays the arrays out from where it really begins, and
must not need more. `VscBlockAlloc` models it, `VscBlockAlloc_proofs` proves the
properties, `MCVscBlockAlloc` holds the instance for TLC.

**State.** `info` is the argument, `i` the loop variable of either pass, `reqsize`,
`ptr`, `out` (what `*blockinfo[i].out` holds) and `last` (`lastblock`, `lastptr`) the
code's own; `heap` is what is allocated. `ends` and `wrapped` are history variables:
`reqsize` after each array, and whether a sum ever exceeded a `size_t`. Addresses and
sizes are `0..SIZE_MAX` and wrap; rounding an address with a mask is `Gap`, the
distance to the next multiple.

**Actions.** `Begin` is pass 1 on the first array (with the extra alignment of
lines 191-195), `Measure` on each later one; `Allocate(block)` or `NoMemory` is the
call of the allocator, which may answer any address aligned to the first array;
`PlaceEmpty`, `Place` and `RunsOut` are the three ways through the loop of pass 2;
`Finish` returns; `Release` is the caller freeing what it got, after which it may
call again. Two calls share nothing, so one at a time is enough.

**Abstracted.** The flags (zeroing, `NOFAIL`) and the bytes; every array has an `out`
pointer; `initial_align << 1` does not overflow. `AlignmentAssumption` says that
alignments are powers of two by the consequence that matters: of two, the smaller
divides the greater. The product `element_size * count` wraps before it is used and
no property looks behind it.

## Memory and the system allocator

| Module | What it is |
|---|---|
| `VscHeap` | what `mem.h` promises: blocks of the user's words |
| `VscSystemAllocator` | `malloc_`, `free_`, `size_` of `allocator.cpp` over the C library's realloc and free, as operators on a memory of words |
| `VscMemory` | `vsc_xalloc_ex` with its emulated realloc, `vsc_xrealloc`, `vsc_xcalloc`, `vsc_xfree`, and a user with several blocks |
| `VscMemory_proofs`, `VscMemoryHeap_proofs` | the invariants; the refinement of `VscHeap` |
| `VscMemoryDocs` | what the header says of realloc and the code does not do |
| `MCVscMemory`, `MCVscMemoryDocs` | the instances for TLC |

**State.** `heap` is the memory: `mem`, the word at each address, and `chunk`, how many
words the C library has given out at each base. A word is the signature, the address
of a header, a field of a header, data, or unknown: enough to follow
`vsc__allocator_mem2hdr`, which looks at the word before the data and either finds the
signature of a header that lies there, or the address of one further down. `blocks` is
what the user holds and last asked for; `emulates` chooses, for the whole run, between
the system allocator and one that answers `ENOTSUP` to `VSC_ALLOC_REALLOC`; `outside`
records whether a call has left the terms of use.

**Actions.** One per function. Each call is one step, because nobody else can see the
memory in between; its outcomes are the set `vsc_xalloc_ex(...)`: for each place the C
library may put the chunk, the new address and heap, plus `ENOMEM` and the refusals.
`FillChunk` is `malloc_` after its realloc, in the order of the code: the pointer to the
header is written, then the fields, then the data are moved, then the new words are
zeroed. Where the code would access a word outside the chunk the outcome is
"undefined" and the run of the program ends.

**Abstracted.** Bytes are counted in words of pointer size, the header is three of them
(its real fields: size, alignment and signature), and an alignment is a number that of
two divides the greater (`PowerOfTwoAssumption`). The words of a chunk that are neither
header nor data are set to unknown after each call. `SIZE_MAX` is a constant and the
request wraps.

**The terms of use.** `WithinTerms` says for which calls the promise of `VscHeap` holds.
They are narrower than what `mem.h` and `memdef.h` document, and each has its reason:

| Term | Without it |
|---|---|
| header + size + alignment fits a `size_t` | the sum of `allocator.cpp:104` wraps: `vsc_malloc(SIZE_MAX - 10)` succeeds with a few bytes |
| realloc with the alignment the block has, at most the C library's | the padding changes: the pointer to the header is written before the data move and overwrites a word of them (`allocator.cpp:134`, run `realloc_overwrites`), and when the block has shrunk more is moved than there is (`:148`) |
| no zeroing in an emulated realloc | what is kept in place is not zeroed (`memory.c:62`), and what is between the old and the new size may be stale |

The first two were confirmed by compiling and running the library:
`vsc_aligned_malloc(64, 8)` followed by `vsc_realloc` of it to any size returns a block
whose first eight bytes are the address of its header.

## The readers of a stream

| Module | What it is |
|---|---|
| `VscStream` | a `FILE` (external), who else writes to it, and `vsc_ftello`/`vsc_fseeko` |
| `VscGetdelim` | `vsc_getdelima`, a step per byte |
| `VscFreadall` | `vsc_freadalla_ex`: discovery of the sizes, the loop |
| `VscReaders` | a user who calls both on one stream, in any order |
| `VscReaders_proofs` | the theorems |
| `MCVscReaders` | the instance for TLC |

**The stream** has a kind (`reg`, `blk`, `dir`, `pipe`, `mem`, `cookie`, `odd`), which
decides what `fileno`, `ftello`, `fstat`, `ioctl` and a seek answer: a memory stream has
a position but no descriptor, a pipe the reverse, a cookie neither, and the odd one
fails in `ftello` with an error the code does not expect. Others append to it, truncate
it and close it at any step, `MaxWrites` times. The end is seen when all is read and, of
a pipe, its writer is done; it stays seen until a seek. An error stays for good.

**`vsc_getdelima`.** `lineptr` and `n` are the caller's, kept from call to call; `buf` is
what has been stored. `StoreByte`, `GrowAndStore`, `TooLong`, `CannotGrow` are the ways
through the body of the loop, `NoLine`, `LastLine` those out of it.

**`vsc_freadalla_ex`.** `FreadallRefused`, `FreadallLost`, `FreadallCanceled` are the
returns before the loop, in the order of the code; `FreadallBegin` is the discovery, in
which `init_proc` may set either size; `LoopGrow`, `FreadSome`, `FreadReturns` and
`LoopEnd` are the loop, with `chunk_proc` able to stop it after each `fread`. An `fread`
takes what there is, in pieces, while others write. The sums of the inner loop wrap: it
ends after the fewest blocks that make one large enough (`BlocksAdded`), or, when no number
of blocks does, above all blocks of 0, it does not end (`LoopSpins`).

**Abstracted.** A file holds bytes of a set of two, one of them the delimiter. The buffer
of stdio is not modelled: what is taken from the stream is what the caller sees of it.
A position past the end makes `file_size` wrap as in a release build
(`freadall.c:223`).

## The smaller calls

`VscCalls` is a program that makes them one after another, `VscCalls_proofs` has its
theorems, and `MCVscCalls` is its instance for TLC.

* `VscEnumGroups`: `vsc_enum_groupsa`, a step per pass. `getgrent_r` is external: it
  delivers the entries of a database in order and stays at one that does not fit.
  `OtherUse` is whoever calls `setgrent` or `getgrent` meanwhile; the iterator belongs to
  the process, and the callback is the first who might.
* `VscSearchPath`: `vsc_searchpatha`, a step per directory. `MaxDist` is the first scan
  of PATH, which sizes the buffer; `Look`, a turn of the second, writes a candidate with its
  terminator into that one buffer, `pathbuf`, over what the ones before have left there, and
  asks `stat` for the string the buffer then holds. What `stat` finds is chosen when it is
  called: files come and go.
* `VscStrings`: `vsc_for_each_delim` and its C++ sibling, with a `proc` that may stop them at
  any piece (`Until`) and ends in the wrong order (`WrongEnds`), `vsc_strjoin` and
  `vsc_strnjoin` with the size they measure beside the text they copy, and `vsc_vasprintfa`
  as two answers of `vsnprintf`.
* `VscFnullify`: the table of descriptors `vsc_fnullify` leaves.
* `VscUuid`, `VscColour`, `VscWav`: the formatter and the parser, the packing and the
  unpacking, the header and the data, each checked against the other. The samples are
  written at once or, compiled for a big-endian machine, one by one.
* `VscBytes`: the integers of `io.h`, as their bytes, written on one machine and read on
  another of either byte order, from a file that may be cut short.
* `VscChecksum`: `vsc_crc32` and `vsc_crc32c`. An unsigned integer is the set of its bits,
  so that 32 of them are no problem. Eight rows of each table are taken from the source
  as they are; the other 248 are the exclusive or of those, which was compared with the
  literals of the source by a script. The reference is the bit-by-bit division by the
  polynomial that the comment names, and the residue it names.
* `VscHash`: `vsc_hash` and what it reaches of `xxhash.h`, XXH3 on a machine of 64 bits and
  XXH32 on others. A hash is given by what it is made of: a sequence of steps, each a set
  of mixes, and a mix says which bytes of the input meet which part of the secret in which
  accumulator. Every class of lengths, the stripes and blocks of a long input, and the two
  ways builds have for some of them (`XXH_SIZE_OPT`, `XXH32_ENDJMP`, XXH32 by its streaming
  interface) are the code's. The rotations, multiplications and avalanches inside and
  between the steps are left out: all builds share them.
* `VscHashWords`: the arithmetic that builds do differently, exactly, in words of `HALF *
  HALF` values: loads of either byte order, the product of two words, and one stripe mixed
  into the accumulators and their scrambling, by the scalar unit, AVX512, AVX2, SSE2, NEON
  and VSX. The exclusive or of two words is a constant operator.

Recursion is written as recursive functions.

## Runs

| Run | What it shows | States |
|---|---|---|
| `contract` | under the contract: `FindComplete`, `SizeExact`, `InsertNeverFull`, `EnumVisitsOnce`, and that the table implements `VscMap` | 300 thousand |
| `full` | all calls: types and ordered load factors, `SizeCoversEntries`, `RehashFits`, and `CallsReturn` under fairness | 1.35 million |
| `remove_wrap` | `StoredKeysFound` fails: resize to 4, insert a key at 3, insert one with home 0, remove the first | |
| `shrink_loses` | `ResizeKeepsEntries` fails | |
| `shrink_no_memory` | `TableInBounds` fails | |
| `string_keys` | `StoredKeysFound` fails with the library's string functions | |
| `block_alloc` | `ArraysPlaced` (aligned, disjoint, inside the allocation), `NothingLeaks`, `PassesAgreeWhenFirstIsStrictest` | 49 thousand |
| `block_runs_out` | `PassesAgree` fails: an array aligned more strictly than the first may need more padding than pass 1 reserved | |
| `memory` | `HeaderFound`, `BlocksFit`, `NothingLeaks`, `NoFailAborts`; within the terms of use nothing is undefined and `VscHeap` is implemented| 586 thousand |
| `realloc_overwrites` | `ReallocKeepsWords` fails: allocate three words, realloc them to an alignment that takes more padding | |
| `readers` | buffers never overrun, no byte lost or read twice but in the stated cases (`PositionAccounts`, `LineComplete`, `FailureLosesOneByte`, `AllRead`), buffers owned, one read is enough for a file nobody changes, and `CallsReturn` under fairness | 1.2 million |
| `calls` | each group once and in order, everything freed and closed on every return, the first executable of PATH (`FirstExecutable`) by its whole name (`NameIsWhole`), split and joined, formatted and parsed, checksums that are the remainders they are said to be; hashes that use their whole input (`HashReadsItsInput`) and are one in all builds (`BuildsHashAlike`); `CallsReturn` | 51 thousand |

### Bounds

`contract` has five keys: two pointers to equal keys, a third key with the same
hash, a key of another hash, and `NULL` with the reserved hash. The common hash 11
has its home in the last bucket of a table of 2, 3, 4 and 6, so clusters wrap; the
other hash is 0, its neighbour across the end. With `MIN_BUCKET_AUTO_ALLOCATION` 2
the table grows through 2, 4, 6, ... by itself and to 3 and 4 on demand, `SIZE_MAX`
of 31 (26 in `full`, 27 in the runs that fail) lets growth reach the refusals `ERANGE` of resize and of both
overflow tests, and the load factors include 2/3 with 7/8, which lets a table fill
to the last bucket before the growth test triggers, and a pair that configure
refuses. A table that is full, a probe that goes all the way round, a gap that moves
twice, and an allocation that fails in every resize all occur. Three entries in at
most six buckets suffice for each of the interactions the code distinguishes: an
entry can only block, be blocked by, or be moved past one other. `full` adds load
factors 1/10 and 1/3, with which the product of `maybe_resize` wraps before the test
of line 331 sees it, and an insert may shrink the table. It has no
duplicate keys and one value, which its properties do not look at. Values are
symmetric in `contract`, which checks safety only.

`block_alloc` has requests of one to three arrays: empty, odd, one and two units of the
default alignment (two make the first array take the extra alignment), and 60 bytes of
a `SIZE_MAX` of 63, so that sums wrap; alignments are 2, 4 (the default) and 8, and
the addresses 6, 8, 12 and 16 are multiples of 8 and not, of 4 and not. Three arrays
are what the code tells apart: the first, the one before, and the current one.

`memory` has two blocks and two chunks with room for ten words: a header and a block of
at most three with padding, or a block that another realloc finds too small. Sizes are
1, 3 and the one whose request wraps, alignments 1 and 4 with a default of 2, so padding
appears, grows and shrinks; bases 4 and 14 are aligned and not. With two blocks a realloc
finds the other chunk taken, or free and moves there, or gets none. `XCalloc` multiplies
by 1 and by 30, which overflows. `realloc_overwrites` needs only one block and realloc.

`readers` has files of at most three bytes, two changes by others, a first buffer of 2
that doubles to 4 and then is refused (`SSIZE_MAX` 5), a `SIZE_MAX` of 7 that a position
past the end wraps, blocks of 1 and 2, sizes 0 and 1 and blocks of 0 and 6 set by
`init_proc`, of which the second makes the sums of the inner loop wrap, and callers that
bring buffers of length 0 and 3. Three bytes make a line, a rest and an end; two
changes let a file shrink below the position and grow again during one call.

`calls` has databases of up to three groups, of sizes that fit a first buffer of 1, fit
after one doubling and only after two or three; paths of up to four characters, so empty
directories stand first, between and last and longer candidates come before shorter ones; every file of the eight whose owner, group
and mode bits the code tells apart; texts of up to five characters, stopped at every piece and at none; two UUIDs, one with
every nibble, and every text one change or a few characters away from a formatted one; messages that
take every byte through the tables, from the first state and from others; a
`UINT32_MAX` of 63 and a `SIZE_T_MAX` of 127, so that the data size, the RIFF size and
the byte rate come to their limits; hashes of every length up to 300, which is past the last
boundary between two algorithms (240), and of lengths at, before and behind a stripe's and a
block's end (a block of the secret of 192 bytes is 1024); all twelve builds, all vector units
with 2 to 8 lanes of NEON, and words of 6 bits (`HALF` is 8), where carries between the
halves occur as they do in 64.

### Fairness

In `VscHashMap`, `Fairness` is weak fairness of the steps of a call in progress
(`Continue`): the thread executing a call goes on executing it. In `VscReaders` it is the
same for each reader, and that the writer of a pipe closes it in the end, without which
a reader rightly waits for ever. In `VscCalls` it is weak fairness of the passes of the
two loops; that an allocation fails or a callback stops the call is possible but never
needed for it to return. Nothing is assumed of the user, who may never make another
call. `CallsReturn` is checked with these in `full`, `readers` and `calls`. In `readers`
it has an exception the code has: `Hangs`, the inner loop of `freadall.c:250` when no number
of blocks is enough, as with a block size of 0.

## Proofs

Each theorem holds for every value of the constants that the named `ASSUME`s of its
module allow. For the map these are: sizes are naturals and tables have two buckets or
more (`SizeAssumption`), the hash function has the type of a hash, and for the contract
`CompareAssumption`.

| Theorem | Statement |
|---|---|
| `VscHashMap_proofs!TypeCorrect` | `Spec => []TypeOK` |
| `MapCorrect` | `ContractSpec => []MapInv` |
| `FindsEveryKey` | `ContractSpec => []FindComplete` |
| `CountsEntries` | `ContractSpec => []SizeExact` |
| `MapKeepsItsPromise` | `ContractSpec => ImplementsMap`: the refinement of `VscMap` |
| `GrowsInTime` | `ContractSpec => InsertNeverFull` |
| `EnumeratesOnce` | `ContractSpec => EnumVisitsOnce` |
| `SizeNeverTooLow` | `Spec => []SizeCoversEntries`, whatever the user calls |
| `RedistributionFits` | `Spec => []RehashFits`, whatever the user calls |
| `VscBlockAlloc_proofs!TypeCorrect` | `Spec => []TypeOK` |
| `Invariant` | `Spec => []BlockInv` |
| `PlacedRight` | `Spec => []ArraysPlaced` |
| `NoLeak` | `Spec => []NothingLeaks` |
| `PassesDoAgree` | `Spec => []PassesAgreeWhenFirstIsStrictest` |
| `MemoryInductive` | `Spec => []MemInv` |
| `MemoryTypes`, `HeadersAreFound`, `BlocksLieInTheirChunks`, `NoChunkLeaks`, `FailureAborts` | `Spec => []TypeOK`, `[]HeaderFound`, `[]BlocksFit`, `[]NothingLeaks`, `[]NoFailAborts` |
| `DefinedWithinTerms` | `Spec => []UndefinedOutsideTerms` |
| `MemoryKeepsItsPromise` | `Spec => ImplementsHeap`: the refinement of `VscHeap` |
| `ReadersInductive` | `Spec => []ReadersInv` |
| `ReadersTypes`, `NothingOutsideTheBuffers`, `PositionsAreAccountedFor`, `LinesAreComplete`, `FailuresLoseOneByte`, `StreamsAreReadWhole`, `BuffersHaveOwners` | `Spec => []` of `TypeOK`, `BuffersInBounds`, `PositionAccounts`, `LineComplete`, `FailureLosesOneByte`, `AllRead`, `BuffersOwned` |
| `OneFreadReadsIt` | `Spec => []OneReadIsEnough` |
| `CallsInductive` | `Spec => []CallsInv` |
| `CallsTypes`, `GroupsAreCalledOnce`, `CallsLeaveNothing`, `SearchesInOrder`, `CandidatesAreWhole`, `SplitsAndJoins` | `Spec => []` of `TypeOK`, `EachGroupOnce`, `NothingLeft`, `FirstExecutable`, `NameIsWhole`, `JoinUndoesSplit` |
| `HashesReadTheirInput`, `BuildsAgree` | `Spec => []` of `HashReadsItsInput`, `BuildsHashAlike` |
| `UuidsAreReadBack`, `NumbersAreReadBack`, `ChecksumsAreRemainders` | `Spec => []` of `UuidsReadBack`, `NumbersReadBack`, `ChecksumsCheck`, the parts of `FormatsReadBack` |
| `FormatsAreReadBack` | `Spec => []FormatsReadBack` |

The inductive invariants (`MapInv`, `BlockInv`, `MemInv`, `ReadersInv`, `CallsInv` and those
they are made of) are not among the properties of the runs: they are proved, and every run
property that follows from one is checked by itself.

**The argument, for the map.** `FindComplete` is not inductive: that a key is found says nothing
of what happens when the bucket before it goes. `MapInv` says why it is found:
every position on the way from an entry's home to the entry is occupied
(`Reachable`), hashes are those of the keys, and no two entries have equal keys
(`WellKeyed`). Between the steps of a call it says what is true half way:

* `RehashInv`: the temporary list is well keyed and reachable, and holds exactly the
  entries before the cursor. Since it has as many entries as the cursor has passed
  and the table is not smaller than the number of entries, there is a free bucket.
* `ShiftInv`: the table is reachable except for the gap; the buckets between the gap
  and the cursor have their home after the gap, so none of their probes crosses it;
  and an empty bucket remains ahead, so that neither the loop nor any probe past the
  gap runs over the end. When the loop meets an empty bucket nothing beyond it can
  have a probe through the gap, and the gap may stay empty. This is where
  `LinearCluster` is needed.

The lemmas about one placement (`AddAt` finds at most one position, adding there
keeps `WellKeyed` and `Reachable`, and the number of occupied buckets grows by one
if the position was empty) serve insert and the redistribution alike. Insert grows
the table before it fills it: that the new size computed by `maybe_resize` is never
below `num_buckets` follows from the order of the load factors in `TypeOK`.

**The argument, for the dictionary.** The refinement mapping is `Dict`, the entries of the
table, and `Answered`, the last answer; `MapInv` is all it needs. What a write does to
the entries is one lemma per kind of write (`EntriesFill`, `EntriesEmpty`,
`EntriesReplace`). In a table that rests every entry is reachable, so a probe for a key
stops at the one entry with an equal key, or at none if there is none (`FindAtHolds`);
then find, update and remove answer as the dictionary does. A removal takes effect when
the key is found: closing the gap moves entries and changes none, so its steps are
stutters, and `Answered` says its answer already. A redistribution puts each entry of
the old table into the new one (`RehashInv`), so it stutters too, and a resize refused
half way returns an error with the entries as they were.

`InsertNeverFull` needs `RoomInv`: an insert that waits for a resize has, once it is
done, fewer entries than buckets. Both load factors are below 1, so the threshold lies
below the number of buckets (`ThresholdBelow`) and the new size computed by
`maybe_resize` above the number of entries (`MinReqAbove`). `EnumVisitsOnce` needs
`SeenInv`: the keys seen are those of the buckets before the cursor, and an update moves
none (`UpdateKeepsKeys`).

**The argument, for the block allocation.** `ArraysPlaced` is kept by pass 2 alone:
`vsc_align` checks each array against the space that is left, and that is computed
from an address inside the allocation, so nothing wraps (`NextFacts`, `RoomFacts`).
That the check never fails needs both passes. If the first alignment is the greatest,
every other divides it and with it the base address, so the gap before an array is
the one pass 1 computed from 0 (`GapFromBase`). Pass 2 may be behind pass 1, by the
extra alignment of the first array and the padding of empty ones; rounding up is
monotone (`GapMonotone`), so it stays no further (`PlaceInv`, `Agrees`). Where
`vsc_align` refuses in pass 1 and no padding is added, the sum is so near `SIZE_MAX`
that no aligned address is left for it (`MeasureInv`). `BlockAssumption` (sizes and
addresses have their types) and `AlignmentAssumption` are the only assumptions.

**The argument, for the counter.** `SizeCoversEntries` is about the real map, which may
lose entries, and needs `SizeInv`: the entries stored, and the one being removed, are
never more than `size`, and `size` exceeds them by less than the largest number of
buckets (`Counted`); a temporary list has no more entries than the cursor has passed
(`Redistributed`); a moving gap is empty (`GapEmpty`). A shrink drops buckets, a reset
drops all of them, and neither lowers `size`; an insert adds one to both. The second
half of `Counted` is what keeps `size` from wrapping: it stays below twice the largest
number of buckets, which a `size_t` counts as soon as a bucket takes two bytes
(`TwiceFits`).

**The argument, for the memory.** `MemInv` says what a header is: each block held is
described by one (`Describes`: the fields, the signature, the word before the data, at
the start of a chunk), no two by the same, and there is no chunk without a block. A call
touches the words of one chunk only, the other blocks' headers lie in other chunks, and
bases are far enough apart. That the word before the data is either the signature or
the address of the header is where the padding comes in: rounding up to an alignment
that the base does not have leaves at least a word more. The refinement adds `TermsInv`
(within the terms every block fits its chunk) and then follows the words. In `FillChunk`
they stay where the C library's realloc put them when the padding is the same, which
needs `PowerOfTwoAssumption` and the term on alignments: an alignment not above that of
the C library divides every base. In the emulation the copy arrives before the old block
is freed, and lies in another chunk. What is neither is a chunk untouched.

**The argument, for the readers.** `ReadersInv` relates the buffer of the call in
progress with what it took from the stream: `InLine`, that `buf` is `taken` and a
terminator's room is left; `InLoop`, that the buffer's data are `taken` and its length is
`file_size`; `InFile`, that what was taken is the part of the file between `start` and
the position, as long as nobody has changed the file, and that an end seen is its end.
The sums of the inner loop need nothing but that the least
number of blocks that is enough is one that is enough (`GrownCovers`). `EndStays` is for an end seen before the call began: of a stream with a position the seek
after the discovery has cleared it, of one without it is final.

`OneReadIsEnough` needs `InExact`: a call that learned the size of a regular file has
asked for one byte more than is left (`freadall.c:229`), so while nobody changes the file
its buffer reaches past the end. A buffer that is full then holds more than there was,
which `InFile` excludes; so the `fread` that comes back met the end, and the loop does
not turn again. It is stated for files with less than `SIZE_MAX` bytes left, because the
one byte more must be countable.

**The argument, for the smaller calls.** `CallsInv` has a part for each loop. `InGroups`: the
groups called are the user's, in order, and all of them up to the cursor of the
iterator, which a buffer that is too small does not move. `InPath`: the cursor is at the
start of a piece, and the buffer has room for the longest piece, `MaxDist`, and the file
name; `MaxDist` is at least the length of each piece because the first scan looks for
the same colons as the second. `InSearch`: the directories looked in, followed by the
pieces from the cursor on (`Rest`), are the pieces of the whole path, and the names `stat`
was asked for are those of the file in them. For the last, what a candidate leaves in the
buffer matters only behind its terminator: neither a directory nor the file name holds
one, so the string in the buffer is the name that was just written (`CandidateHolds`).

`LoopPieces`, `MaxDist`, the joins and their sizes are recursive functions, and the facts
about them are inductions over the text. The library's induction theorems are out of
reach, as they take the formula as a parameter; the lemmas at the head of
`VscCalls_proofs` say the same of sets. `RankInduction`: a set of counterexamples, each of
which leads to one of a lower rank, is empty. `RankRecursion`: a definition in which a
value uses only those of lower rank has a function that satisfies it, so `CHOOSE` has
found one; `UpwardRecursion` is the case of functions computed from the end of the text
down, as most of these are.

With them: joining the pieces from a start on gives the text from there on
(`SplitJoins`), since what is put between two pieces is the delimiter that ended the
first; pieces are counted by delimiters on the same induction; the C++ loop differs from
the C one only where the last piece is empty (`SplitsDiffer`). A join is measured by the
lengths and filled by the texts of the same elements, and both sums grow alike
(`JoinedLength`).

A UUID is read back because the formatter and the parser agree where the k-th byte ends
(`EndOf`, after its digits and the dashes before it), and every other character of a text
is a dash that both expect (`DashesMeet`, `CharacterOfByte`). Going up, the formatter has
written the bytes so far there (`WrittenUpTo`); going down, the parser has accepted what
is behind exactly if each byte is spelled there (`ParsedBehind`). A digit is taken for the
nibble it was written for, in either case of the letters and in no other way
(`DigitOfNibble`), so a text parses to a UUID if and only if it is the formatted one but
for the case (`ParsesAsFormatted`), which is both halves of the property.

The rest is arithmetic: a field of a pixel widened to eight bits keeps
its bits at the top, so narrowing it gives it back; the checks of `wav.c` leave no sum of
the sizes to wrap, and the byte rate, which may, is excused in the property; reversing
the bytes of an integer twice is the identity, whichever two of the machine's and the
format's byte orders meet.

**The argument, for the checksums.** The reference, `Remainder`, divides bit by bit; the code
looks a byte up. A turn of the division (`Turn`) shifts the register and subtracts the
polynomial if a bit fell out. It is linear (`TurnLinear`), so eight of them are those of the
byte that falls out and a shift of the rest (`Turn8IsLookup`), and those of the byte are the
exclusive or of those of its bits (`BelowTurns`, `TableIsTurn8`). So all that must be known
of a table is that its eight rows of one bit are eight turns of that bit, and this holds if
the last one is the reflected polynomial and each is a turn of the next (`RowsOfBits`): the
literals of the source are decided bit by bit (`IsoRowsAre`, `IsoTurns` and their
counterparts). `Crc32xIs` and `RemainderIs` then give the loop and the division the same
register after each byte, for a message of any length. The residue: a message followed by its
own checksum feeds the register what it holds, inverted, so that after each of the four bytes
it is what it would be had the register been all ones and the rest of the checksum still
ahead (`SealedRegister`); four bytes' turns of all ones are the residue (`IsoResidue`,
`IscsiResidue`).

**The argument, for the hashes.** That a hash uses its input is arithmetic per class of
lengths (`Len0to16Covers`, `MiddleTurnsCover`, `Len129to240Covers`, `LongCovers`,
`Steps32Cover`): pieces taken from the front and from the end meet or overlap, and the last
stripe of a long input begins where it may repeat bytes but never miss one. The same lemmas
bound the secret. `MiddleIsTurns` shows that the four nested tests of the build for speed and
the loop of the build for size are the same mixes; `BothLoopsTurn` and `XXH32Is`, that the
streaming and the one-shot XXH32, which test their loops differently, both make `len` div 16
turns; `SecretOfZero`, that a secret made of the seed 0 is the fixed one.

For the accumulators every unit is shown equal to a closed form of a lane (`Added`,
`Scrambled`). The scalar loop needs an argument, since each of its rounds writes the lane
and its neighbour: `RoundFacts` says which lanes a round leaves, and `ScalarLoop` that the two
additions to a lane, of its product and of its neighbour's input, come to the same in either
order and modulo the word. NEON does some lanes by that loop and the others in pairs, so its
proof uses both. For x86 the lemmas on shuffles say which half word goes where. School
multiplication is exact because no sum of halves wraps (`PortableExact`). Of the exclusive or
nothing is used but that it yields a word (`HashAssumption`), and `HALF` is any number above
1: the widths of the code are one instance.

What these assume of the constants is their types (`CallsAssumption`, `PathAssumption`,
`GroupsAssumption`): texts are sequences of characters and a null pointer is none, bytes
are `0..255`, a database has a length. `WavAssumption` adds that a `size_t` is at least
32 bits wide.

**Only model-checked.** Liveness (`CallsReturn` of the three runs) is outside what the
proof system does. Every invariant and every action property of a passing run is stated by
a theorem.

## Divergences without a run

Met while modelling, visible from the text alone or from the runs that pass. Map and
block allocation:

* `vsc_hashmap_update` returns 0 when the key exists and 1 when it does not
  (`hashmap.c:464-468`); `hashmap.h:109-110` says the opposite. The model follows
  the code.
* `vsc_hashmap_first` returns NULL when `size` is 0 (`hashmap.c:541`);
  `hashmap.h:125` says when the capacity is 0.
* `maybe_resize` does not "then double it" (`hashmap.c:339`).
* `vsc_hashmap_reset` leaves `size` as it was (`hashmap.c:163`); `hashmap.h:74-76` says the map
  "may be used as if `vsc_hashmap_alloc()` has just been called".
* The product of `maybe_resize` may wrap unseen (`hashmap.c:331`); the insert then shrinks the
  table and loses entries as a shrink does.
* The assertion of line 56 compares with `load_max.den` on both sides.
* The address of an empty array "will be set to NULL" (`mem.h:302-304`); for the first
  array it is the address of the allocation (`memory.c:216`).
* When pass 2 runs out, `ptr` is cleared but the pointers already stored through
  `out` stay, into the freed block (`memory.c:252-254`).
* The test "align" (`tests/memory.cpp:156`) asks for 4096 after 4: by the run
  `block_runs_out` it depends on the address malloc returns.

Memory:

* A size near `SIZE_MAX` wraps the request (`allocator.cpp:104`), and a realloc that changes
  the padding and shrinks the block moves more than there is (`allocator.cpp:148`); see the
  terms of use.
* An emulated realloc returns its failure also with `VSC_ALLOC_NOFAIL`
  (`memory.c:65`).

Readers:

* A caller who brings a buffer of length 0 to `vsc_getdelima`: doubling it asks
  `vsc_xrealloc` for 0 bytes, which frees the buffer and returns NULL; `*lineptr` stays
  (`getline.c:64`).
* With a block size of 0, or one of which no multiple is enough modulo 2^64,
  `vsc_freadalla_ex` never returns (`freadall.c:250`).
* After a seek past the end of a file the assertion of `freadall.c:223` fails in a debug
  build; in a release build the difference wraps.
* If the seek back fails after the size was found, the position is lost
  (`freadall.c:218`).

Smaller calls:

* `vsc_counter_ns` on Windows multiplies the ticks by 10^9 in 64 bits (`time.c:59`), which
  wraps every half hour at 10 MHz; `time.h:33` says the value never decreases. The
  branches of Linux and the other Unix systems do not multiply so.
* `vsc_searchpath` takes the length `confstr` answers for an error, so that without PATH
  it always returns `EINVAL` (`searchpath.c:76`; the comment of line 59 wants a fallback), and searches one byte past the
  terminator of PATH (`searchpath.c:86`, not modelled).
* A file a supplementary group may execute is passed over (`searchpath.c:47`), and any
  class of mode bits that applies is enough, where the kernel lets the most specific one
  decide.
* `vsc_fnullify` leaves the descriptor of the null device open when it succeeds
  (`fnullify.c:40`).
* A WAV file without samples returns `EIO` after its header is written, except on a
  big-endian machine, and the byte rate is computed modulo 2^32 (`wav.c:39`).
* On a big-endian machine the samples are written big-endian behind a header of
  little-endian sizes (`wav.c:53`, which the comment above it calls untested).
* `vsc_uuid_parse` has written the first bytes of its result when it refuses the text
  (`uuid.c:136`).
* `vsc::for_each_delim` leaves out an empty last piece that `vsc_for_each_delim` delivers
  (`for_each.c:49`).
* Whoever uses `getgrent` in the callback of `vsc_enum_groups` makes it skip or repeat
  groups (`enum_groups.c:58`).

## Not modelled

`PROJECT.json` lists every component with the reason. In short:

* Of the vendored `xxhash.h`, what `vsc_hash` does not reach: XXH64, the hashes of 128 bits,
  the streaming XXH3, seeds other than 0 and secrets of the caller. Of what it reaches, the
  avalanches and rotations every build shares: the quality of a hash is not a property of
  this project. The hash map takes any hash function as a constant. `vsc_ctz` is one
  instruction.
* Errors and clock: a table of names, and one system call with a conversion of units.
* Windows ports: conversions of strings around calls of its API. Their allocator is the
  same two outcomes as the C library's.
* The 32-bit colours: they move whole bytes.
* `vsc_strdup`, `vsc_strcpy`, `vsc_open`, `vsc_dup2` and the like: one call of the C
  library and an error code each.
* The rest of `vscpplib.hpp`: owning pointers and overloads over the C functions.

## Plan: what is left

1. A callback that makes two updates for one bucket, or updates and stops.
2. A hash map that allocates from `VscMemory`'s heap instead of an allocation that
   succeeds or fails, if the map ever relies on more than `VscHeap` promises.
