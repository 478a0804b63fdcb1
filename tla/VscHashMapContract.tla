------------------------- MODULE VscHashMapContract -------------------------
(***************************************************************************)
(* The hash map under the contract its code needs and its header leaves    *)
(* out: VscHashMap with the calls restricted to those after which the      *)
(* table still is a dictionary.  VscHashMapDocs shows what happens         *)
(* without each restriction.                                               *)
(***************************************************************************)
EXTENDS VscHashMap

\* The user's functions: comparison is an equivalence, and equal keys hash alike.
ASSUME CompareAssumption ==
    /\ \A a \in Keys : <<a, a>> \in compare_proc
    /\ \A a, b \in Keys :
          <<a, b>> \in compare_proc => /\ <<b, a>> \in compare_proc
                                       /\ hash_proc[a] = hash_proc[b]
    /\ \A a, b, c \in Keys :
          <<a, b>> \in compare_proc /\ <<b, c>> \in compare_proc => <<a, c>> \in compare_proc

EmptyIn(S) == \E j \in S : IsEmpty(buckets[j])

\* The cluster of bucket i does not run over the end of the table.
LinearCluster(i) ==
    /\ EmptyIn((i + 1)..(num_buckets - 1) \cup {0})
    /\ EmptyIn(0..(i - 1) \cup {num_buckets - 1})

\* The product in maybe_resize fits a size_t: hashmap.c:331 tests another one.
MinReqFits == (size + 1) * load_min.den <= SIZE_MAX

ContractNext ==
    \/ SimpleCall
    \/ Continue
    \/ size = 0 /\ Reset
    \/ \E n \in ResizeTargets : n >= num_buckets /\ Resize(n)
    \/ MinReqFits /\ \E k \in Keys, v \in Values : Insert(k, v)
    \/ \E k \in Keys : (\A i \in FindAt(k) : LinearCluster(i)) /\ Remove(k)

ContractSpec == Init /\ [][ContractNext]_vars /\ Fairness
-----------------------------------------------------------------------------
(* Properties *)

\* No call is half way through changing the table.
Settled == call.op \in {"idle", "enum", "add"}

\* Every stored key is found where it is stored, and nowhere else: the probe of
\* find_bucket (hashmap.c:426-444) meets no empty bucket before it, after any
\* sequence of inserts, removals and rehashes; and no key is stored twice.
FindComplete ==
    Settled => \A i \in Occupied(buckets) : FindAt(buckets[i].key) = {i}

\* The counter that insert, remove, clear and resize maintain by hand
\* (hashmap.c:123, 377, 504) is the number of occupied buckets.
SizeExact == Settled => size = Cardinality(Occupied(buckets))

(* Why FindComplete and SizeExact hold: the inductive invariant *)

HashesRight(bs) == \A i \in Occupied(bs) : bs[i].hash = hash_proc[bs[i].key]

Distinct(bs) ==
    \A i, j \in Occupied(bs) : <<bs[i].key, bs[j].key>> \in compare_proc => i = j

\* Each bucket's probe meets no empty bucket before it, but for those in gaps.
Reachable(bs, n, gaps) ==
    \A i \in Occupied(bs) : Path(bs[i].hash % n, i, n) \subseteq Occupied(bs) \cup gaps

WellKeyed(bs, n) == Occupied(bs) \subseteq 0..(n - 1) /\ HashesRight(bs) /\ Distinct(bs)

\* While resize redistributes, tmp holds the buckets before cur.
RehashInv ==
    LET done == Occupied(buckets) \cap 0..(call.cur - 1)
    IN  /\ WellKeyed(buckets, num_buckets)
        /\ size = Cardinality(Occupied(buckets))
        /\ WellKeyed(call.tmp, num_buckets)
        /\ Reachable(call.tmp, num_buckets, {})
        /\ Cardinality(Occupied(call.tmp)) = Cardinality(done)
        /\ \A i \in Occupied(call.tmp) : \E j \in done : call.tmp[i] = buckets[j]
        /\ \A j \in done : \E i \in Occupied(call.tmp) : call.tmp[i] = buckets[j]

\* While remove closes the gap: the buckets it has passed cannot move back, and
\* neither the loop nor a probe past the gap runs over the end of the table.
ShiftInv ==
    LET passed == (call.gap + 1)..((IF call.cur > call.gap THEN call.cur ELSE num_buckets) - 1)
    IN  /\ WellKeyed(buckets, num_buckets)
        /\ Reachable(buckets, num_buckets, {call.gap})
        /\ call.gap \notin Occupied(buckets)
        /\ size = Cardinality(Occupied(buckets)) + 1
        /\ \A p \in passed : ~IsEmpty(buckets[p]) /\ buckets[p].hash % num_buckets > call.gap
        /\ \/ EmptyIn(0..(call.gap - 1))
           \/ call.gap # num_buckets - 1 /\ EmptyIn({num_buckets - 1})
        /\ \/ call.cur > call.gap /\ call.left + call.cur > num_buckets
              /\ EmptyIn(call.cur..(num_buckets - 1))
           \/ call.cur > call.gap /\ call.left + call.cur > num_buckets
              /\ call.gap # 0 /\ EmptyIn({0})
           \/ call.cur = 0 /\ call.left > 0 /\ call.gap # 0 /\ EmptyIn({0})

PendingRight ==
    call.op \in {"add", "rehash"} =>
        \/ call.pending = EmptyBucket
        \/ call.pending.hash = hash_proc[call.pending.key]

TableRight ==
    /\ WellKeyed(buckets, num_buckets)
    /\ Reachable(buckets, num_buckets, {})
    /\ size = Cardinality(Occupied(buckets))

MapInv ==
    /\ InBounds /\ PendingRight
    /\ Settled => TableRight
    /\ call.op = "rehash" => RehashInv
    /\ call.op = "shift" => ShiftInv
-----------------------------------------------------------------------------
(* More properties *)

\* Under the load-factor policy an insert never fails for want of a bucket: the
\* growth in maybe_resize (hashmap.c:301-345) comes before the last one is taken.
InsertNeverFull ==
    [][ret'.fn = "insert" /\ ret'.res = "ENOSPC" /\ ret' # ret => resize_policy = "NONE"]_vars

\* vsc_hashmap_enumerate (hashmap.c:547-564) hands each stored key to the
\* callback, and none twice, whatever the callback updates.
EnumVisitsOnce ==
    [][/\ EnumCallback => buckets[call.cur].key \notin call.seen
       /\ EnumEnd /\ call.cur = num_buckets =>
             call.seen = {e.key : e \in Entries(buckets)}]_vars

\* What the user sees of the map: its entries, and the last answer.  A removal is
\* done when the key is found, before its gap is closed.
Dict == IF call = Freed THEN {} ELSE Entries(buckets)
Answered == IF call.op = "shift" THEN [fn |-> "remove", key |-> call.key, res |-> call.val] ELSE ret

\* The table implements the dictionary of VscMap: every call returns what the
\* dictionary would, an insert or a removal takes effect at once and in full, and
\* a refused call (even one that has reallocated the table) changes no entry.
Map == INSTANCE VscMap WITH
    Errors <- {"EINVAL", "ERANGE", "ENOMEM", "ENOSPC"}, dict <- Dict, ret <- Answered

ImplementsMap == Map!Spec
=============================================================================
