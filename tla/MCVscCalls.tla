------------------------------ MODULE MCVscCalls ------------------------------
(* Instances of the smaller calls for TLC. *)
EXTENDS VscCalls
Bits_ == INSTANCE Bitwise

G(gid, mem, size) == [gid |-> gid, mem |-> mem, size |-> size]
Groups == {G("mine", <<>>, 1), G("other", <<"me", "me">>, 3), G("other", <<"you">>, 5),
           G("mine", <<"you", "me">>, 2)}
MCDatabases == UNION {[1..k -> Groups] : k \in 0..3}

MCCharacters == {"d", ":", "x", "y", ","}
MCFileName == <<"x", "y">>
MCPaths == UNION {[1..k -> {"d", ":"}] : k \in 0..4}
F(type, mode, uid, gid) == [type |-> type, mode |-> mode, uid |-> uid, gid |-> gid]
MCFiles ==
    {F("none", {}, "else", "else"), F("dir", {"oth", "grp", "usr"}, "mine", "mine"),
     F("reg", {}, "mine", "mine"), F("reg", {"oth"}, "mine", "else"),
     F("reg", {"grp"}, "else", "mine"), F("reg", {"grp"}, "else", "supplementary"),
     F("reg", {"grp", "usr"}, "else", "else"), F("reg", {"usr"}, "mine", "else")}

MCTexts == UNION {[1..k -> {"x", "y", ","}] : k \in 0..5}
Strings == UNION {[1..k -> {"x"}] : k \in 0..2}
MCJoins == [delim : Strings \cup {Null}, elems : UNION {[1..k -> Strings \cup {Null}] : k \in 0..3}]

MCLengths == {-1, 0, 1, 3}

MCUuids == {[k \in 1..SIZE |-> 0], [k \in 1..SIZE |-> (17 * k * k + 166) % 256]}
Written == {vsc_uuid_format(u, flags) : u \in MCUuids, flags \in Formats}
Others_ == {Dash, OpenBrace, CloseBrace, 103, 65, 102}
MCUuidTexts ==
    Written \cup {<<>>}
    \cup {[s EXCEPT ![k] = c] : s \in Written, k \in 1..32, c \in Others_}
    \cup {SubSeq(s, 1, Len(s) - k) : s \in Written, k \in 1..4}
    \cup {s \o <<c>> : s \in Written, c \in Others_}

\* Every byte through the tables, from the first state and from others.
MCMessages ==
    {<<>>, [k \in 1..9 |-> 48 + k]} \cup {<<b>> : b \in 0..255} \cup {<<b, 255 - b, 0, b>> : b \in 0..255}
MCNatives == {[k \in 1..w |-> (k * 37) % 256] : w \in {1, 2, 4, 8}} \cup {<<0, 255>>, <<255, 0>>}

\* Every length up to 300, and around the blocks of the secret of 192 bytes.
MCHashSizes == 0..300 \cup {1023, 1024, 1025, 1087, 1088, 1089, 1090, 2047, 2048, 2049, 2113}
MCBuilds == [LONG_BIT : {32, 64}, SIZE_OPT : 0..2, XXH32_ENDJMP : BOOLEAN]

\* Words of 6 bits.
MCBitXor(a, b) == Bits_!^^(a, b)
Sample(k) == [w \in 0..23 |-> (k * w * w + 11 * w + 5 * k) % 64]
MCSecret == Sample(7)
Lanes(k) == [lane \in 0..7 |-> Sample(k)[lane + (k % 16)]]
MCStripes ==
    {[acc |-> Lanes(k), input |-> Lanes(k + 3), secret |-> Lanes(k + 5)] : k \in 0..19}
    \cup {[acc |-> [lane \in 0..7 |-> 63], input |-> [lane \in 0..7 |-> 63], secret |-> Lanes(3)]}
MCWordUnits == [access : 0..3, little : BOOLEAN, mult : {"int128", "umulh", "portable"}]
MCVectorUnits ==
    [vector : {"avx512", "avx2", "sse2", "vsx", "scalar"}, NEON_LANES : {8}]
    \cup [vector : {"neon"}, NEON_LANES : {2, 4, 6, 8}]
MCFactors == {0, 1, 7, 8, 9, 29, 55, 56, 62, 63}
MCLoads == {[k \in 1..16 |-> (37 * k) % 256], [k \in 1..16 |-> IF k = 1 THEN 1 ELSE 0]}

MCPixels == {(97 * k) % 65536 : k \in 0..2000} \cup {65535, 32768, 2047}
=============================================================================
