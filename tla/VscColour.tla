------------------------------ MODULE VscColour ------------------------------
(***************************************************************************)
(* The packed 16-bit colours (colour.c, colourdef.h).  Their fields do not *)
(* overlap, so | is +, and a mask and a shift are a quotient and a         *)
(* remainder.                                                              *)
(***************************************************************************)
EXTENDS Integers

Colour(r, g, b, a) == [r |-> r, g |-> g, b |-> b, a |-> a]

C5_TO_C8_Unmasked(c) == 8 * c + (c \div 4)
C5_TO_C8(c) == 8 * (c % 32) + ((c % 32) \div 4)
C6_TO_C8(c) == 4 * (c % 64) + ((c % 64) \div 16)
C1_TO_C8(c) == (c % 2) * 255

unpack_rgb565(pixel) ==
    Colour(C5_TO_C8(pixel \div 2048), C6_TO_C8(pixel \div 32), C5_TO_C8(pixel), 255)

unpack_argb1555(pixel) ==
    Colour(C5_TO_C8(pixel \div 1024), C5_TO_C8(pixel \div 32), C5_TO_C8(pixel),
           C1_TO_C8(pixel \div 32768))

unpack_xrgb1555(pixel) == unpack_argb1555(32768 + (pixel % 32768))

pack_rgb565(c) == (c.r \div 8) * 2048 + (c.g \div 4) * 32 + (c.b \div 8)

pack_argb1555(c) ==
    (c.a \div 128) * 32768 + (c.r \div 8) * 1024 + (c.g \div 8) * 32 + (c.b \div 8)

pack_xrgb1555(c) == pack_argb1555([c EXCEPT !.a = 255])
=============================================================================
