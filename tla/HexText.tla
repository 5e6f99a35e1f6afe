------------------------------ MODULE HexText ------------------------------
(***************************************************************************)
(* The number and text conversions of LORA/lora-mqtt/utils.c and of the    *)
(* printf family as the daemon uses it.  Hexadecimal text is a sequence of *)
(* digits 0..15, a byte string a sequence over 0..255.  The board is       *)
(* little-endian: is_big_endian() is FALSE, so uint16_to_le and            *)
(* uint32_to_le leave their argument alone.                                *)
(***************************************************************************)
EXTENDS Integers, Sequences

U8(n)  == n % 256
U16(n) == n % 65536

S16Unsigned(n) == U16(n)    \* Mutant: the cast to int16_t is missing

(* The value of a 16-bit pattern read as int16_t.                          *)
S16(n) == IF U16(n) >= 32768 THEN U16(n) - 65536 ELSE U16(n)

(* The place of weight b^k in n >= 0; eight places are all of 32 bits.     *)
Place(n, b, k) == IF k > 7 THEN 0 ELSE (n \div b^k) % b

(* How many places n needs in base b, at least w.                          *)
Places(n, b, w) ==
    LET needed == {k \in 1..8 : k = 1 \/ n >= b^(k - 1)}
        top    == CHOOSE k \in needed : \A j \in needed : j <= k
    IN IF w > top THEN w ELSE top

(* "%0wx": at least w digits, as many as the number needs; a negative int  *)
(* prints its 32-bit two's complement.                                     *)
Hex(n, w) ==
    IF n < 0 THEN [i \in 1..8 |-> 15 - Place(-n - 1, 16, 8 - i)]
    ELSE LET p == Places(n, 16, w) IN [i \in 1..p |-> Place(n, 16, p - i)]

(* "%0wd" of a non-negative number: its decimal digits.                    *)
Dec(n, w) ==
    LET p == Places(n, 10, w) IN [i \in 1..p |-> Place(n, 10, p - i)]

(* hex_to_bytesn: fails (Nothing) on an odd length.  In reverse order it   *)
(* converts the first len digits from the last pair on; otherwise it runs  *)
(* to the end of the string, whatever len says.                            *)
Nothing == <<-1>>
hex_to_bytesn(h, len, reverse_order) ==
    LET Pair(i) == 16 * h[2 * i - 1] + h[2 * i]
    IN IF len % 2 # 0 THEN Nothing
       ELSE IF reverse_order
            THEN [i \in 1..(len \div 2) |-> Pair(len \div 2 + 1 - i)]
            ELSE [i \in 1..(Len(h) \div 2) |-> Pair(i)]

hex_to_bytes(h, reverse_order) == hex_to_bytesn(h, Len(h), reverse_order)

(* Byte i (from 0) of a reply; the buffer behind it is zeroed.             *)
At(d, i) == IF i < Len(d) THEN d[i + 1] ELSE 0

(* moddata[i] | moddata[i+1] << 8                                          *)
Le16(d, i) == At(d, i) + 256 * At(d, i + 1)

(* Three little-endian bytes.                                              *)
Le24(d, i) == Le16(d, i) + 65536 * At(d, i + 2)

(* A uint32_t as its two halves, high half first.                          *)
Le32(d, i) == <<Le16(d, i + 2), Le16(d, i)>>

(* The 32 bits of Le32 converted to int.                                   *)
S32(u) == IF u[1] >= 32768 THEN (u[1] - 65536) * 65536 + u[2]
                           ELSE u[1] * 65536 + u[2]

(***************************************************************************)
(* The text of a value in a published message.  Of a number the text       *)
(* matters in so far as JSON and strtof read it: its sign, the digits      *)
(* before and after the point.                                             *)
(***************************************************************************)
Text(s) == [t |-> "text", s |-> s]
Number(neg, int, frac) == [t |-> "number", neg |-> neg, int |-> int, frac |-> frac]
Abs(n) == IF n < 0 THEN -n ELSE n

(* "%d"                                                                    *)
Plain(n) == Number(n < 0, Dec(Abs(n), 1), <<>>)

(* "%0wd": the width counts the sign.                                      *)
Padded(n, w) == Number(n < 0, Dec(Abs(n), IF n < 0 THEN w - 1 ELSE w), <<>>)

(* int_to_float_str: quotient and remainder of a division that truncates   *)
(* towards zero, printed without their signs behind one of its own.        *)
int_to_float_str(decimal, precision) ==
    LET divider == 10^precision
    IN Number(decimal < 0, Dec(Abs(decimal) \div divider, 1),
              Dec(Abs(decimal) % divider, precision))

(* snprintf into room for n characters and the terminator.                 *)
Cut(v, n) ==
    LET room == IF v.neg THEN n - 1 ELSE n
    IN [v EXCEPT !.int = SubSeq(@, 1, IF Len(@) < room THEN Len(@) ELSE room)]

(* A list in brackets; open says that a comma follows the last element.    *)
Array(elems, open) == [t |-> "array", elems |-> elems, open |-> open]

(* Text that consists of hexadecimal digits.                               *)
Digits(h) == [t |-> "digits", h |-> h]
=============================================================================
