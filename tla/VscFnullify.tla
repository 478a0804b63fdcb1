----------------------------- MODULE VscFnullify -----------------------------
(***************************************************************************)
(* vsc_fnullify (fnullify.c) on a table of descriptors: what it leaves     *)
(* open.                                                                   *)
(***************************************************************************)
EXTENDS Integers

CONSTANT MaxFd                \* descriptors are 0..MaxFd

ASSUME FdAssumption == MaxFd \in Nat

Descriptors == 0..MaxFd
Tables == [Descriptors -> {"closed", "file", "null"}]
FreeFds(t) == {d \in Descriptors : t[d] = "closed"}
Lowest(S) == CHOOSE d \in S : \A e \in S : d <= e

\* After dup2 has failed the descriptor just opened is closed again, after it has
\* succeeded it is not.
Result(t, r) == [table |-> t, ret |-> r]
AfterOpen_KeepsOnFailure(t, devnull, fd) ==
    LET opened == [t EXCEPT ![devnull] = "null"]
    IN  {Result(opened, -1), Result([opened EXCEPT ![fd] = "null"], fd)}

AfterOpen(t, devnull, fd) ==
    LET opened == [t EXCEPT ![devnull] = "null"]
    IN  {Result([opened EXCEPT ![devnull] = "closed"], -1),
         Result([opened EXCEPT ![fd] = "null"], fd)}

\* A null stream, one without a descriptor, or no descriptor for the null device:
\* nothing happens.
vsc_fnullify(t, fd) ==
    {Result(t, -1)} \cup
    (IF FreeFds(t) = {} THEN {} ELSE AfterOpen(t, Lowest(FreeFds(t)), fd))
=============================================================================
