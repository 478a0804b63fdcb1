---------------------------- MODULE VscEnumGroups ----------------------------
(***************************************************************************)
(* vsc_enum_groupsa (enum_groups.c): a callback for each group a user is   *)
(* in, over the process-wide iterator of getgrent_r, with a buffer doubled *)
(* until the entry fits.  Others (the callback, another thread) may use    *)
(* that iterator meanwhile.  A step per pass of the loop.                  *)
(***************************************************************************)
EXTENDS Integers, Sequences

CONSTANTS Databases,          \* sequences of [gid, mem, size]: what getgrent_r delivers
          Gid, Name,          \* of the passwd
          BUFLEN,             \* the first length of the buffer: 2048
          MaxOthers           \* bound: uses of the iterator by others

ASSUME GroupsAssumption ==
    /\ \A db \in Databases : Len(db) \in Nat /\ \A k \in 1..Len(db) : db[k].size \in Nat
    /\ BUFLEN \in Nat \ {0} /\ MaxOthers \in Nat

VARIABLES db,
          cursor, open,       \* the iterator: entries delivered; FALSE after endgrent
          others,             \* what the others may still do with it
          buflen, buf, rc,    \* buf: the length of the buffer, 0 for NULL
          called, disturbed   \* history: the entries proc was called with; whether
                              \* others used the iterator

groupVars == <<db, cursor, open, others, buflen, buf, rc, called, disturbed>>

GroupsInit ==
    /\ db = <<>> /\ cursor = 0 /\ open = FALSE /\ others = MaxOthers
    /\ buflen = BUFLEN /\ buf = 0 /\ rc = "0" /\ called = <<>> /\ disturbed = FALSE

GroupsType ==
    /\ cursor \in 0..Len(db) /\ open \in BOOLEAN /\ others \in 0..MaxOthers
    /\ buflen \in Nat \ {0} /\ buf \in 0..buflen /\ rc \in {"0", "ERANGE"}
    /\ called \in Seq(1..Len(db)) /\ disturbed \in BOOLEAN

\* setgrent.
GroupsBegin ==
    /\ db' \in Databases /\ cursor' = 0 /\ open' = TRUE
    /\ UNCHANGED <<others, buflen, buf, rc, called, disturbed>>

NeedsBuffer == buf = 0 \/ rc = "ERANGE"
Room == IF NeedsBuffer THEN buflen ELSE buf

\* One pass: the buffer of that length, and the answer of getgrent_r, which stays
\* at an entry that does not fit.
Fits == cursor < Len(db) /\ db[cursor + 1].size <= Room

DoesNotFit_SameLength ==
    /\ cursor < Len(db) /\ ~Fits
    /\ buf' = Room /\ rc' = "ERANGE"
    /\ open' = TRUE /\ UNCHANGED <<db, cursor, others, buflen, called, disturbed>>

DoesNotFit ==
    /\ cursor < Len(db) /\ ~Fits
    /\ buf' = Room /\ rc' = "ERANGE" /\ buflen' = 2 * buflen
    /\ open' = TRUE /\ UNCHANGED <<db, cursor, others, called, disturbed>>

\* proc is called once for the user's own group, and once for a group that names
\* the user, however often.
Calls_EachName(g) ==
    IF g.gid = Gid THEN <<cursor + 1>>
    ELSE [k \in 1..Len(SelectSeq(g.mem, LAMBDA m : m = Name)) |-> cursor + 1]

Calls(g) ==
    IF g.gid = Gid \/ \E k \in 1..Len(g.mem) : g.mem[k] = Name THEN <<cursor + 1>> ELSE <<>>

Entry ==
    /\ Fits
    /\ buf' = Room /\ rc' = "0" /\ called' = called \o Calls(db[cursor + 1])
    /\ cursor' = cursor + 1 /\ open' = TRUE /\ UNCHANGED <<db, others, buflen, disturbed>>

\* done: the buffer is freed and the iterator closed.
Finish == buf' = 0 /\ cursor' = 0 /\ open' = FALSE /\ UNCHANGED <<db, others, buflen, rc, called, disturbed>>

\* proc, called for this entry, answers something other than 0.
EntryStops ==
    /\ Fits /\ Calls(db[cursor + 1]) # <<>>
    /\ called' = called \o Calls(db[cursor + 1])
    /\ buf' = 0 /\ cursor' = 0 /\ open' = FALSE /\ UNCHANGED <<db, others, buflen, rc, disturbed>>

NoMemory == NeedsBuffer /\ Finish
NoMoreEntries == cursor = Len(db) /\ Finish

\* setgrent, or getgrent, elsewhere.
OtherUse ==
    /\ open /\ others > 0 /\ others' = others - 1 /\ disturbed' = TRUE
    /\ cursor' \in {0} \cup ({cursor + 1} \cap 0..Len(db))
    /\ UNCHANGED <<db, open, buflen, buf, rc, called>>

GroupsReset ==
    /\ db' = <<>> /\ cursor' = 0 /\ open' = FALSE /\ others' = MaxOthers
    /\ buflen' = BUFLEN /\ buf' = 0 /\ rc' = "0" /\ called' = <<>> /\ disturbed' = FALSE
=============================================================================
