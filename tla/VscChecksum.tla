----------------------------- MODULE VscChecksum -----------------------------
(***************************************************************************)
(* crc32.c.  An unsigned integer is the set of its bits that are 1, so     *)
(* exclusive or is the symmetric difference.                               *)
(***************************************************************************)
EXTENDS Integers, Sequences

Xor(a, b) == (a \ b) \cup (b \ a)
Bits(n, width) == {k \in 0..(width - 1) : (n \div 2^k) % 2 = 1}
U32Bits(high, low) == {k + 16 : k \in Bits(high, 16)} \cup Bits(low, 16)
ShiftRight(x, n) == {k - n : k \in {b \in x : b >= n}}

\* The rows 1, 2, 4, ..., 128 of a table, as in the source.  The source spells out the
\* other rows too; each is the exclusive or of those its index is the sum of.
Table(rows) ==
    [index \in SUBSET (0..7) |->
        LET upto[n \in 0..8] ==
                IF n = 0 THEN {}
                ELSE IF n - 1 \in index THEN Xor(rows[n], upto[n - 1]) ELSE upto[n - 1]
        IN  upto[8]]

crc32_tab == Table(
    << U32Bits(\h7707, \h3096), U32Bits(\hee0e, \h612c), U32Bits(\h076d, \hc419),
       U32Bits(\h0edb, \h8832), U32Bits(\h1db7, \h1064), U32Bits(\h3b6e, \h20c8),
       U32Bits(\h76dc, \h4190), U32Bits(\hedb8, \h8320) >>)

crc32c_tab == Table(
    << U32Bits(\hf26b, \h8303), U32Bits(\he13b, \h70f7), U32Bits(\hc79a, \h971f),
       U32Bits(\h8ad9, \h58cf), U32Bits(\h105e, \hc76f), U32Bits(\h20bd, \h8ede),
       U32Bits(\h417b, \h1dbc), U32Bits(\h82f6, \h3b78) >>)

Ones == 0..31

\* One byte of the loop.
LookUp(table, crc, byte) == Xor(table[Xor(crc, Bits(byte, 8)) \cap 0..7], ShiftRight(crc, 8))

crc32x(buf, table) ==
    LET crc[n \in 0..Len(buf)] ==          \* after n bytes
            IF n = 0 THEN Ones ELSE LookUp(table, crc[n - 1], buf[n])
    IN  Xor(crc[Len(buf)], Ones)

vsc_crc32(buf) == crc32x(buf, crc32_tab)
vsc_crc32c(buf) == crc32x(buf, crc32c_tab)

(* What the comments at crc32.c:169-186 say it is: the division, bit by bit, *)
(* by a polynomial, with everything reflected.                               *)
Reflect(x) == {31 - k : k \in x}

DivideBit(reg, bit, poly) ==
    IF (0 \in reg) # bit THEN Xor(ShiftRight(reg, 1), Reflect(poly)) ELSE ShiftRight(reg, 1)

DivideByte(reg, byte, poly) ==
    LET after[n \in 0..8] ==
            IF n = 0 THEN reg ELSE DivideBit(after[n - 1], n - 1 \in Bits(byte, 8), poly)
    IN  after[8]

Remainder(buf, poly) ==
    LET reg[n \in 0..Len(buf)] ==
            IF n = 0 THEN Ones ELSE DivideByte(reg[n - 1], buf[n], poly)
    IN  Xor(reg[Len(buf)], Ones)

POLY_ISO_HDLC == U32Bits(\h04c1, \h1db7)
POLY_ISCSI == U32Bits(\h1edc, \h6f41)
RESIDUE_ISO_HDLC == U32Bits(\hdebb, \h20e3)
RESIDUE_ISCSI == U32Bits(\hb798, \hb438)
=============================================================================
