------------------------------- MODULE VscUuid -------------------------------
(***************************************************************************)
(* vsc_uuid_format and vsc_uuid_parse (uuid.c).  A character is its ASCII  *)
(* code, a text a sequence of them.                                        *)
(***************************************************************************)
EXTENDS Integers, Sequences

SIZE == 16
Zero == 48
LowerA == 97
UpperA == 65
Dash == 45
OpenBrace == 123
CloseBrace == 125

Formats == SUBSET {"UPPER", "MS", "COMPACT"}

alphabet(nibble, flags) ==
    IF nibble < 10 THEN Zero + nibble
    ELSE (IF "UPPER" \in flags THEN UpperA ELSE LowerA) + nibble - 10

vsc_uuid_format(uuid, flags) ==
    LET upto[i \in 0..SIZE] ==
            IF i = 0 THEN <<>>
            ELSE upto[i - 1]
                 \o (IF "COMPACT" \notin flags /\ i - 1 \in {4, 6, 8, 10} THEN <<Dash>> ELSE <<>>)
                 \o <<alphabet(uuid[i] \div 16, flags), alphabet(uuid[i] % 16, flags)>>
    IN  (IF "MS" \in flags THEN <<OpenBrace>> ELSE <<>>) \o upto[SIZE]
        \o (IF "MS" \in flags THEN <<CloseBrace>> ELSE <<>>)

isdigit(c) == c \in Zero..(Zero + 9)
isxdigit(c) == isdigit(c) \/ c \in LowerA..(LowerA + 5) \/ c \in UpperA..(UpperA + 5)

denibble(c) ==
    IF isdigit(c) THEN c - Zero
    ELSE IF c >= LowerA THEN 10 + c - LowerA ELSE 10 + c - UpperA

\* Where a dash must be, counted from 0, in a text of 36.
Dashes_OffByOne == {8, 13, 18, 22}
Dashes == {8, 13, 18, 23}

\* The braces go first; what is left must be 32 or 36 long.
HasBraces(s) == Len(s) \in {34, 38}
Inner(s) == IF HasBraces(s) THEN SubSeq(s, 2, Len(s) - 1) ELSE s
WellFramed(s) ==
    /\ HasBraces(s) => s[1] = OpenBrace /\ s[Len(s)] = CloseBrace
    /\ Len(Inner(s)) \in {32, 36}

\* The loop: the bytes written, and whether it reached the end.
Parsed(t) ==
    LET from[i \in 0..Len(t)] ==
            IF i = Len(t) THEN [ok |-> TRUE, bytes |-> <<>>]
            ELSE IF Len(t) = 36 /\ i \in Dashes THEN
                IF t[i + 1] = Dash THEN from[i + 1] ELSE [ok |-> FALSE, bytes |-> <<>>]
            ELSE IF i + 2 > Len(t) \/ ~isxdigit(t[i + 1]) \/ ~isxdigit(t[i + 2])
                 THEN [ok |-> FALSE, bytes |-> <<>>]
            ELSE [from[i + 2] EXCEPT !.bytes =
                     <<(denibble(t[i + 1]) * 16 + denibble(t[i + 2])) % 256>> \o @]
    IN  from[0]

\* The uuid is overwritten from its first byte on, whether or not the text is good.
vsc_uuid_parse(uuid, s) ==
    IF ~WellFramed(s) THEN [ret |-> "EINVAL", uuid |-> uuid]
    ELSE LET p == Parsed(Inner(s))
         IN  [ret |-> IF p.ok THEN "ok" ELSE "EINVAL",
              uuid |-> [k \in 1..SIZE |-> IF k <= Len(p.bytes) THEN p.bytes[k] ELSE uuid[k]]]
=============================================================================
