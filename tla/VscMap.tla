------------------------------- MODULE VscMap -------------------------------
(***************************************************************************)
(* What vsclib's hash map promises its user: a dictionary of key pointers, *)
(* in which two keys that compare equal are one key, and an answer to each *)
(* call.  No bucket, hash table or allocation is visible here.             *)
(***************************************************************************)
CONSTANTS Keys, Values, NULL,
          Errors,           \* the codes a refused call may return
          hash_proc,        \* the user's hash: a function on Keys
          compare_proc      \* the user's comparison: the pairs it accepts

VARIABLES dict,             \* the set of [key, value] entries
          ret               \* the last call that returned and its answer

Answer(fn, k, res) == ret' = [fn |-> fn, key |-> k, res |-> res]

Holds(k) == {e \in dict : <<k, e.key>> \in compare_proc}

Init == /\ dict = {}
        /\ ret = [fn |-> "alloc", key |-> NULL, res |-> "0"]

\* A duplicate insert replaces the key pointer together with the value.
Insert(k, v) ==
    /\ dict' = (dict \ Holds(k)) \cup {[key |-> k, value |-> v]}
    /\ Answer("insert", k, "0")

Update(k, v) ==
    \/ \E e \in Holds(k) :
          /\ dict' = (dict \ {e}) \cup {[e EXCEPT !.value = v]}
          /\ Answer("update", k, "0")
    \/ /\ Holds(k) = {}
       /\ Answer("update", k, "1")
       /\ UNCHANGED dict

Find(k) ==
    /\ \/ \E e \in Holds(k) : Answer("find", k, e.value)
       \/ Holds(k) = {} /\ Answer("find", k, NULL)
    /\ UNCHANGED dict

FindByHash(h) ==
    LET found == {e \in dict : hash_proc[e.key] = h}
    IN  /\ \/ \E e \in found : Answer("find_by_hash", NULL, e.value)
           \/ found = {} /\ Answer("find_by_hash", NULL, NULL)
        /\ UNCHANGED dict

Remove(k) ==
    \/ \E e \in Holds(k) : dict' = dict \ {e} /\ Answer("remove", k, e.value)
    \/ Holds(k) = {} /\ Answer("remove", k, NULL) /\ UNCHANGED dict

\* clear, reset, and a map that is freed or allocated again.
Empty(fn) == dict' = {} /\ Answer(fn, NULL, "0")

\* A refused call changes nothing, however far it had gone.
Refuse(fn, k) ==
    /\ \E e \in Errors : Answer(fn, k, e)
    /\ UNCHANGED dict

\* resize, configure, set_resize_policy and enumerate leave the entries alone.
Housekeep(fn) ==
    /\ \E r \in {"0", "stop", "LOAD_FACTOR", "NONE"} : Answer(fn, NULL, r)
    /\ UNCHANGED dict

Next ==
    \/ \E k \in Keys, v \in Values : Insert(k, v) \/ Update(k, v)
    \/ \E k \in Keys : Find(k) \/ Remove(k) \/ Refuse("insert", k)
    \/ \E h \in {hash_proc[k] : k \in Keys} : FindByHash(h)
    \/ \E fn \in {"clear", "reset", "free", "alloc"} : Empty(fn)
    \/ \E fn \in {"resize", "configure"} : Refuse(fn, NULL)
    \/ \E fn \in {"resize", "configure", "set_resize_policy", "enumerate"} :
          Housekeep(fn)

Spec == Init /\ [][Next]_<<dict, ret>>
=============================================================================
