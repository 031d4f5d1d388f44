------------------------------- MODULE Words -------------------------------
(***************************************************************************)
(* The machine words that xxhash.h computes with.  A word is the sequence  *)
(* of its bytes, the lowest first, as it lies in the memory of the little- *)
(* endian machines the program is built for; its length is its width.      *)
(* Memory is a sequence of bytes too, and offsets into it start at zero.   *)
(***************************************************************************)
EXTENDS Naturals, Sequences

Byte == 0..255

\* The sequence f with its elements evaluated: TLC keeps functions as rules.
Tuple(f) == SubSeq(f, 1, Len(f))
Bytes(p, i, n) == SubSeq(p, i + 1, i + n)

Zero(n) == Tuple([i \in 1..n |-> 0])
Extend(a, n) == Tuple([i \in 1..n |-> IF i <= Len(a) THEN a[i] ELSE 0])
FromNat(x, n) == Extend(<<x % 256, (x \div 256) % 256, (x \div 65536) % 256, x \div 16777216>>, n)
Low(a) == Bytes(a, 0, Len(a) \div 2)
High(a) == Bytes(a, Len(a) \div 2, Len(a) \div 2)

Bit(a, b, n) == ((a \div 2^n + b \div 2^n) % 2) * 2^n
SumOf4(p) == p[1] + p[2] + p[3] + p[4]
Nibble == [a \in 0..15 |-> [b \in 0..15 |-> SumOf4([n \in 1..4 |-> Bit(a, b, n - 1)])]]
\* Two bytes combined nibble by nibble as the table says
Looked(table, a, b) == 16 * table[a \div 16][b \div 16] + table[a % 16][b % 16]
XorByte(a, b) == Looked(Nibble, a, b)

\* a ^ b
a ^^ b == Tuple([i \in 1..Len(a) |-> XorByte(a[i], b[i])])
\* ~a
Complement(a) == Tuple([i \in 1..Len(a) |-> 255 - a[i]])

\* Digits that may exceed a byte, brought back to bytes; the last carry is lost.
Carried(c, s) ==
    LET sum[i \in 0..Len(s)] ==
          IF i = 0 THEN [word |-> <<>>, carry |-> c]
          ELSE LET before == sum[i - 1]
                   digit  == s[i] + before.carry
               IN [word |-> Append(before.word, digit % 256), carry |-> digit \div 256]
    IN sum[Len(s)].word

\* a + b and a - b, in the width of a
a ++ b == Carried(0, [i \in 1..Len(a) |-> a[i] + b[i]])
a -- b == Carried(1, [i \in 1..Len(a) |-> a[i] + 255 - b[i]])

At(a, i) == IF i \in 1..Len(a) THEN a[i] ELSE 0
SumOf8(p) == p[1] + p[2] + p[3] + p[4] + p[5] + p[6] + p[7] + p[8]
\* The k-th column of the long multiplication of words of up to eight bytes
Column(a, b, k) == SumOf8([i \in 1..8 |-> At(a, i) * At(b, k + 1 - i)])
\* the lowest n bytes of the product, and a * b in the width of a
Product(a, b, n) == Carried(0, [k \in 1..n |-> Column(a, b, k)])
a ** b == Product(a, b, Len(a))

\* a << r, a >> r
Shl(a, r) == Tuple([i \in 1..Len(a) |-> (At(a, i - (r \div 8)) * 2^(r % 8)
                                         + (At(a, i - 1 - (r \div 8)) \div 2^(8 - (r % 8)))) % 256])
Shr(a, r) == Tuple([i \in 1..Len(a) |-> (At(a, i + (r \div 8)) \div 2^(r % 8)
                                         + At(a, i + 1 + (r \div 8)) * 2^(8 - (r % 8))) % 256])
\* XXH_rotl32, XXH_rotl64: a rotated to the left
Rotl(a, r) == LET q == r \div 8
              IN Shl(Bytes(a, Len(a) - q, q) \o Bytes(a, 0, Len(a) - q), r % 8)
                 ++ Extend(<<Bytes(a, Len(a) - q - 1, 1)[1] \div 2^(8 - (r % 8))>>, Len(a))
XorShift(a, r) == a ^^ Shr(a, r)

\* XXH_swap32, XXH_swap64: the bytes in the opposite order
Swap(a) == Tuple([i \in 1..Len(a) |-> a[Len(a) + 1 - i]])

\* Memory p after the bytes of s were copied to offset i.
Copied(p, i, s) == Bytes(p, 0, i) \o s \o Bytes(p, i + Len(s), Len(p) - i - Len(s))
=============================================================================
