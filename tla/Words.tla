------------------------------- MODULE Words -------------------------------
(* The 8-bit and 16-bit integers of the C sources.                         *)
EXTENDS Integers

ByteSize == 256
WordSize == ByteSize * ByteSize

Byte == 0..(ByteSize - 1)
Word == 0..(WordSize - 1)

(* The conversions (uint16_t)x, (uint8_t)x and (int8_t)b.                  *)
W(x) == x % WordSize
B(x) == x % ByteSize
Signed(b) == IF b < 128 THEN b ELSE b - ByteSize

Bit(b, i) == (b \div <<1, 2, 4, 8, 16, 32, 64, 128>>[i + 1]) % 2
Lo(w) == w % ByteSize
Hi(w) == w \div ByteSize
=============================================================================
