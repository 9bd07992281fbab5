---------------------------- MODULE FramesProofs ----------------------------
(***************************************************************************)
(* Nested frames return to where they came from, for every nesting that    *)
(* fits page one, from every stack pointer and to every address.           *)
(***************************************************************************)
EXTENDS Frames, TLAPS

FlagSet == [n : {0, 1}, v : {0, 1}, d : {0, 1}, i : {0, 1}, z : {0, 1}, c : {0, 1}]

Kinds == {"call", "irq", "a", "p"}

FrameSet ==
  [kind : Kinds, pc : Word, a : Byte, flags : FlagSet, below : Nat]

(* The first n bytes of h are on the stack of mc, which started at t.       *)
Holds(mc, t, h, n) ==
  /\ mc.s = B(t - n)
  /\ \A j \in 1..n : vic_mem_read(mc, 256 + B(t - j + 1)) = h[j]

Size(f) == Len(Bytes(f))
End(f)  == f.below + Size(f)

FType ==
  /\ IsMachine(cpu) /\ top \in Byte
  /\ held \in Seq(Byte) /\ Len(held) <= 256
  /\ frames \in Seq(FrameSet)

(* The frames lie one after the other in held, the newest at its end, and   *)
(* their bytes are there.                                                   *)
Nested ==
  \A j \in 1..Len(frames) :
    /\ End(frames[j]) <= Len(held)
    /\ \A i \in 1..Size(frames[j]) : held[frames[j].below + i] = Bytes(frames[j])[i]
    /\ \A l \in 1..(j - 1) : End(frames[l]) <= frames[j].below
    /\ j > 1 => End(frames[j - 1]) = frames[j].below
    /\ j = Len(frames) => End(frames[j]) = Len(held)

FInv == FType /\ Holds(cpu, top, held, Len(held)) /\ Nested

-----------------------------------------------------------------------------
(* Bytes and words. *)

(* A byte as an interval. *)
LEMMA ByteIs == Byte = 0..255
  BY DEF Byte, ByteSize

(* A word as an interval. *)
LEMMA WordIs == \A w : w \in Word <=> w \in Int /\ 0 <= w /\ w < 256 * 256
<1>1. WordSize \in Nat
  BY DEF WordSize, ByteSize
<1>2. \A w : w \in Word <=> w \in Int /\ 0 <= w /\ w < WordSize
  BY <1>1 DEF Word
<1>3. WordSize = 256 * 256
  BY DEF WordSize, ByteSize
<1> QED
  BY <1>2, <1>3

(* The conversions near their range.                                        *)
LEMMA ByteWrap ==
  ASSUME NEW x \in Int, x >= 0 - 256, x < 512
  PROVE  B(x) = IF x < 0 THEN x + 256 ELSE IF x < 256 THEN x ELSE x - 256
<1>1. B(x) = x % 256
  BY DEF B, ByteSize
<1> QED
  BY <1>1

(* W of a sum that leaves the words by little. *)
LEMMA WordWrap ==
  ASSUME NEW x \in Int, x >= 0 - (256 * 256), x < 256 * 256 + 256
  PROVE  W(x) = IF x < 0 THEN x + 256 * 256 ELSE IF x < 256 * 256 THEN x ELSE x - 256 * 256
<1>1. W(x) = x % (256 * 256)
  BY DEF W, WordSize, ByteSize
<1> QED
  BY <1>1

(* A word is put together again from its two bytes. *)
LEMMA HiLo ==
  ASSUME NEW w \in Word
  PROVE  Hi(w) \in Byte /\ Lo(w) \in Byte /\ Lo(w) + (ByteSize * Hi(w)) = w
<1>1. Hi(w) = w \div 256 /\ Lo(w) = w % 256
  BY DEF Hi, Lo, ByteSize
<1>2. w \in Int /\ 0 <= w /\ w < 256 * 256
  BY WordIs
<1>3. w \div 256 \in 0..255 /\ w % 256 \in 0..255 /\ (w % 256) + 256 * (w \div 256) = w
  BY <1>2
<1> QED
  BY <1>1, <1>3, ByteIs DEF ByteSize

(* What JSR pushes and RTS adds, across the end of the address space. *)
LEMMA WordStep ==
  ASSUME NEW w \in Word
  PROVE  /\ W(w - 1) \in Word /\ W(W(w - 1) + 1) = w
         /\ W(w + 3) \in Word /\ W(W(w + 3) - 1) = W(w + 2)
<1> DEFINE WS == 256 * 256
<1>1. w \in Int /\ 0 <= w /\ w < WS
  BY WordIs
<1>2. W(w - 1) = IF w - 1 < 0 THEN w - 1 + WS ELSE w - 1
  BY <1>1, WordWrap
<1>3. W(w + 3) = IF w + 3 < WS THEN w + 3 ELSE w + 3 - WS
  BY <1>1, WordWrap
<1>4. W(w + 2) = IF w + 2 < WS THEN w + 2 ELSE w + 2 - WS
  BY <1>1, WordWrap
<1>5. /\ W(w - 1) \in Int /\ 0 <= W(w - 1) /\ W(w - 1) < WS
      /\ W(w + 3) \in Int /\ 0 <= W(w + 3) /\ W(w + 3) < WS
  BY <1>1, <1>2, <1>3
<1>6. W(W(w - 1) + 1) = w
  <2>1. W(W(w - 1) + 1) = IF W(w - 1) + 1 < WS THEN W(w - 1) + 1 ELSE W(w - 1) + 1 - WS
    BY <1>5, WordWrap
  <2> QED
    BY <1>1, <1>2, <2>1
<1>7. W(W(w + 3) - 1) = W(w + 2)
  <2>1. W(W(w + 3) - 1) = IF W(w + 3) - 1 < 0 THEN W(w + 3) - 1 + WS ELSE W(w + 3) - 1
    BY <1>5, WordWrap
  <2> QED
    BY <1>1, <1>3, <1>4, <2>1
<1> QED
  BY <1>5, <1>6, <1>7, WordIs

(* Cells of page one whose distance is less than 256.                       *)
LEMMA CellsApart ==
  ASSUME NEW t \in Byte, NEW x \in Int, NEW y \in Int, y < x, x <= t, t - 255 <= y
  PROVE  256 + B(x) # 256 + B(y)
<1>1. t \in 0..255
  BY ByteIs
<1>2. /\ x >= 0 - 256 /\ x < 512 /\ y >= 0 - 256 /\ y < 512
  BY <1>1
<1>3. B(x) = IF x < 0 THEN x + 256 ELSE x
  BY <1>1, <1>2, ByteWrap
<1>4. B(y) = IF y < 0 THEN y + 256 ELSE y
  BY <1>1, <1>2, ByteWrap
<1> QED
  BY <1>1, <1>3, <1>4

(* The stack pointer after one more push or pull, modulo 256. *)
LEMMA NextCell ==
  ASSUME NEW t \in Byte, NEW n \in 0..255
  PROVE  /\ B(t - n) \in Byte
         /\ B(B(t - n) - 1) = B(t - (n + 1))
         /\ B(B(t - (n + 1)) + 1) = B(t - n)
<1>1. t \in 0..255
  BY ByteIs
<1>2. B(t - n) = IF t - n < 0 THEN t - n + 256 ELSE t - n
  BY <1>1, ByteWrap
<1>3. B(t - (n + 1)) = IF t - n - 1 < 0 THEN t - n + 255 ELSE t - n - 1
  BY <1>1, ByteWrap
<1>4. B(t - n) \in 0..255 /\ B(t - (n + 1)) \in 0..255
  BY <1>1, <1>2, <1>3
<1>5. B(B(t - n) - 1) = IF B(t - n) - 1 < 0 THEN B(t - n) + 255 ELSE B(t - n) - 1
  BY <1>4, ByteWrap
<1>6. B(B(t - (n + 1)) + 1) =
        IF B(t - (n + 1)) + 1 < 256 THEN B(t - (n + 1)) + 1 ELSE B(t - (n + 1)) - 255
  BY <1>4, ByteWrap
<1> QED
  BY <1>1, <1>2, <1>3, <1>4, <1>5, <1>6, ByteIs

-----------------------------------------------------------------------------
(* The P byte. *)

(* The bits of P that hold flags. *)
LEMMA Bits ==
  ASSUME NEW p
  PROVE  /\ Bit(p, 7) = (p \div 128) % 2 /\ Bit(p, 6) = (p \div 64) % 2
         /\ Bit(p, 3) = (p \div 8) % 2 /\ Bit(p, 2) = (p \div 4) % 2
         /\ Bit(p, 1) = (p \div 2) % 2 /\ Bit(p, 0) = (p \div 1) % 2
  BY DEF Bit

(* P depends on the flags only. *)
LEMMA FlagsOf ==
  ASSUME NEW mc, IsMachine(mc)
  PROVE  Flags(mc) \in FlagSet /\ vic_p_pack(Flags(mc)) = vic_p_pack(mc)
  BY DEF IsMachine, Flags, FlagSet, vic_p_pack

(* The flags survive P, with the B flag set or clear.                       *)
LEMMA PackUnpack ==
  ASSUME NEW f \in FlagSet, NEW b \in {0, 1}, NEW p \in Int,
         p = vic_p_pack(f) - 16 * b
  PROVE  /\ p \in Byte
         /\ \A mc : IsMachine(mc) => Flags(vic_p_unpack(mc, p)) = f
<1>1. PICK n \in {0, 1}, v \in {0, 1}, d \in {0, 1}, i \in {0, 1}, z \in {0, 1}, c \in {0, 1} :
        f = [n |-> n, v |-> v, d |-> d, i |-> i, z |-> z, c |-> c]
  BY DEF FlagSet
<1>2. f.n = n /\ f.v = v /\ f.d = d /\ f.i = i /\ f.z = z /\ f.c = c
  BY <1>1
<1>3. PICK u \in {0, 1} : p = 128 * n + 64 * v + 32 + 16 * u + 8 * d + 4 * i + 2 * z + c
  <2>1. vic_p_pack(f) = 128 * n + 64 * v + 32 + 16 + 8 * d + 4 * i + 2 * z + c
    BY <1>2 DEF vic_p_pack
  <2>2. 1 - b \in {0, 1}
    OBVIOUS
  <2>3. p = 128 * n + 64 * v + 32 + 16 * (1 - b) + 8 * d + 4 * i + 2 * z + c
    BY <2>1
  <2> QED
    BY <2>2, <2>3
<1>4. /\ p \in 0..255
      /\ (p \div 128) % 2 = n /\ (p \div 64) % 2 = v /\ (p \div 8) % 2 = d
      /\ (p \div 4) % 2 = i /\ (p \div 2) % 2 = z /\ (p \div 1) % 2 = c
  <2>0. p \in 0..255
    BY <1>3
  <2>1. (p \div 128) % 2 = n
    BY <1>3
  <2>2. (p \div 64) % 2 = v
    BY <1>3
  <2>3. (p \div 8) % 2 = d
    BY <1>3
  <2>4. (p \div 4) % 2 = i
    BY <1>3
  <2>5. (p \div 2) % 2 = z
    BY <1>3
  <2>6. (p \div 1) % 2 = c
    BY <1>3
  <2> QED
    BY <2>0, <2>1, <2>2, <2>3, <2>4, <2>5, <2>6
<1>5. /\ Bit(p, 7) = n /\ Bit(p, 6) = v /\ Bit(p, 3) = d
      /\ Bit(p, 2) = i /\ Bit(p, 1) = z /\ Bit(p, 0) = c
  BY <1>4, Bits
<1>6. ASSUME NEW mc, IsMachine(mc) PROVE Flags(vic_p_unpack(mc, p)) = f
  BY <1>1, <1>5, <1>6 DEF vic_p_unpack, Flags, IsMachine
<1> QED
  BY <1>4, <1>6, ByteIs

(* A bit is 0 or 1. *)
LEMMA BitType ==
  ASSUME NEW p \in Byte
  PROVE  /\ Bit(p, 7) \in {0, 1} /\ Bit(p, 6) \in {0, 1} /\ Bit(p, 3) \in {0, 1}
         /\ Bit(p, 2) \in {0, 1} /\ Bit(p, 1) \in {0, 1} /\ Bit(p, 0) \in {0, 1}
<1>1. p \in 0..255
  BY ByteIs
<1> QED
  BY <1>1, Bits

(* vic_p_unpack changes the flags and nothing else. *)
LEMMA UnpackType ==
  ASSUME NEW mc, IsMachine(mc), NEW p \in Byte
  PROVE  /\ IsMachine(vic_p_unpack(mc, p))
         /\ vic_p_unpack(mc, p).s = mc.s /\ vic_p_unpack(mc, p).mem = mc.mem
         /\ vic_p_unpack(mc, p).pc = mc.pc /\ vic_p_unpack(mc, p).a = mc.a
<1>1. /\ Bit(p, 7) \in {0, 1} /\ Bit(p, 6) \in {0, 1} /\ Bit(p, 3) \in {0, 1}
      /\ Bit(p, 2) \in {0, 1} /\ Bit(p, 1) \in {0, 1} /\ Bit(p, 0) \in {0, 1}
  BY BitType
<1> QED
  BY <1>1 DEF vic_p_unpack, IsMachine

-----------------------------------------------------------------------------
(* Pushes and pulls. *)

(* Memory holds bytes. *)
LEMMA ReadType ==
  ASSUME NEW mc, IsMachine(mc), NEW a
  PROVE  vic_mem_read(mc, a) \in Byte
<1>1. 0 \in Byte
  BY ByteIs
<1> QED
  BY <1>1 DEF vic_mem_read, IsMachine

(* A push writes one cell and changes S, and nothing else.                  *)
LEMMA PushOne ==
  ASSUME NEW mc, IsMachine(mc), NEW v \in Byte
  PROVE  /\ IsMachine(vic_push(mc, v))
         /\ vic_push(mc, v).s = B(mc.s - 1)
         /\ vic_push(mc, v).pc = mc.pc /\ vic_push(mc, v).a = mc.a
         /\ Flags(vic_push(mc, v)) = Flags(mc)
         /\ vic_mem_read(vic_push(mc, v), 256 + mc.s) = v
         /\ \A a : a # 256 + mc.s =>
              vic_mem_read(vic_push(mc, v), a) = vic_mem_read(mc, a)
<1> DEFINE cellAt == 256 + mc.s
           ram == [b \in DOMAIN mc.mem \cup {cellAt} |-> IF b = cellAt THEN v ELSE mc.mem[b]]
<1>1. mc.s \in 0..255
  BY ByteIs DEF IsMachine
<1>2. cellAt \in Word
  BY <1>1, WordIs
<1>3. B(mc.s - 1) \in Byte
  BY <1>1, ByteWrap, ByteIs
<1>4. vic_push(mc, v) = [mc EXCEPT !.mem = ram, !.s = B(mc.s - 1)]
  BY DEF vic_push, vic_mem_write, IsMachine
<1>5. DOMAIN ram \subseteq Word /\ ram \in [DOMAIN ram -> Byte]
  BY <1>2 DEF IsMachine
<1> HIDE DEF ram, cellAt
<1>6. vic_push(mc, v).mem = ram
  BY <1>4 DEF IsMachine
<1>7. IsMachine(vic_push(mc, v))
  BY <1>3, <1>4, <1>5, <1>6 DEF IsMachine
<1>8. /\ vic_push(mc, v).s = B(mc.s - 1)
      /\ vic_push(mc, v).pc = mc.pc /\ vic_push(mc, v).a = mc.a
      /\ Flags(vic_push(mc, v)) = Flags(mc)
  BY <1>4 DEF IsMachine, Flags
<1>9. \A a : vic_mem_read(vic_push(mc, v), a) = IF a = cellAt THEN v ELSE vic_mem_read(mc, a)
  BY <1>6 DEF vic_mem_read, ram
<1> QED
  BY <1>7, <1>8, <1>9 DEF cellAt

(* A pull changes S and nothing else. *)
LEMMA PullOne ==
  ASSUME NEW mc, IsMachine(mc)
  PROVE  /\ IsMachine(Pulled(mc))
         /\ Pulled(mc).s = B(mc.s + 1) /\ Pulled(mc).mem = mc.mem
         /\ Pulled(mc).pc = mc.pc /\ Pulled(mc).a = mc.a
         /\ Flags(Pulled(mc)) = Flags(mc)
<1>1. mc.s \in 0..255
  BY ByteIs DEF IsMachine
<1>2. B(mc.s + 1) \in Byte
  BY <1>1, ByteWrap, ByteIs
<1> QED
  BY <1>2 DEF Pulled, IsMachine, Flags

(* Holds speaks of S and memory only.                                       *)
LEMMA HoldsSame ==
  ASSUME NEW mc, NEW mc2, NEW t, NEW h, NEW n, Holds(mc, t, h, n),
         mc2.s = mc.s, mc2.mem = mc.mem
  PROVE  Holds(mc2, t, h, n)
  BY DEF Holds, vic_mem_read

(* Pushing byte n + 1 of h on its first n leaves n + 1 of them. *)
LEMMA PushHolds ==
  ASSUME NEW mc, IsMachine(mc), NEW t \in Byte, NEW n \in 0..255, NEW h \in Seq(Byte),
         n < Len(h), Holds(mc, t, h, n)
  PROVE  Holds(vic_push(mc, h[n + 1]), t, h, n + 1)
<1>1. PICK v \in Byte : v = h[n + 1]
  OBVIOUS
<1> DEFINE after == vic_push(mc, v)
<1>2. mc.s = B(t - n)
  BY DEF Holds
<1>p. /\ after.s = B(mc.s - 1)
      /\ vic_mem_read(after, 256 + mc.s) = v
      /\ \A a : a # 256 + mc.s => vic_mem_read(after, a) = vic_mem_read(mc, a)
  BY PushOne
<1> HIDE DEF after
<1>c. B(B(t - n) - 1) = B(t - (n + 1))
  BY NextCell
<1>3. after.s = B(t - (n + 1))
  BY <1>2, <1>p, <1>c
<1>4. vic_mem_read(after, 256 + B(t - n)) = h[n + 1]
  BY <1>1, <1>2, <1>p
<1>5. \A j \in 1..n : vic_mem_read(after, 256 + B(t - j + 1)) = h[j]
  <2> SUFFICES ASSUME NEW j \in 1..n
               PROVE  vic_mem_read(after, 256 + B(t - j + 1)) = h[j]
    OBVIOUS
  <2>1. 256 + B(t - j + 1) # 256 + mc.s
    <3>1. t \in 0..255 /\ j \in Int /\ 1 <= j /\ j <= n
      BY ByteIs
    <3>2. /\ t - j + 1 \in Int /\ t - n \in Int /\ t - n < t - j + 1
          /\ t - j + 1 <= t /\ t - 255 <= t - n
      BY <3>1
    <3>3. 256 + B(t - j + 1) # 256 + B(t - n)
      BY <3>2, CellsApart
    <3> QED
      BY <1>2, <3>3
  <2>2. vic_mem_read(mc, 256 + B(t - j + 1)) = h[j]
    BY DEF Holds
  <2> QED
    BY <1>p, <2>1, <2>2
<1>6. t - (n + 1) + 1 = t - n
  BY ByteIs
<1>7. \A j \in 1..(n + 1) : vic_mem_read(after, 256 + B(t - j + 1)) = h[j]
  <2> SUFFICES ASSUME NEW j \in 1..(n + 1)
               PROVE  vic_mem_read(after, 256 + B(t - j + 1)) = h[j]
    OBVIOUS
  <2>1. CASE j = n + 1
    BY <1>4, <1>6, <2>1
  <2>2. CASE j # n + 1
    BY <1>5, <2>2
  <2> QED
    BY <2>1, <2>2
<1> QED
  BY <1>1, <1>3, <1>7 DEF Holds, after

(* A pull yields the newest byte and leaves the others. *)
LEMMA PullHolds ==
  ASSUME NEW mc, IsMachine(mc), NEW t \in Byte, NEW n \in 0..255, NEW h,
         Holds(mc, t, h, n + 1)
  PROVE  Holds(Pulled(mc), t, h, n) /\ Top(Pulled(mc)) = h[n + 1]
<1>1. mc.s = B(t - (n + 1))
  BY DEF Holds
<1>p. Pulled(mc).s = B(mc.s + 1) /\ Pulled(mc).mem = mc.mem
  BY PullOne
<1>c. B(B(t - (n + 1)) + 1) = B(t - n)
  BY NextCell
<1>2. Pulled(mc).s = B(t - n) /\ Pulled(mc).mem = mc.mem
  BY <1>1, <1>p, <1>c
<1>3. \A j \in 1..(n + 1) : vic_mem_read(Pulled(mc), 256 + B(t - j + 1)) = h[j]
  BY <1>2 DEF Holds, vic_mem_read
<1>4. t - (n + 1) + 1 = t - n
  BY ByteIs
<1>5. Top(Pulled(mc)) = h[n + 1]
  BY <1>2, <1>3, <1>4 DEF Top
<1> QED
  BY <1>2, <1>3, <1>5 DEF Holds
-----------------------------------------------------------------------------
(* Frames. *)

(* The bytes of a frame of each kind. *)
LEMMA BytesOf ==
  ASSUME NEW f \in FrameSet
  PROVE  /\ f.kind = "call" => Bytes(f) = <<Hi(W(f.pc - 1)), Lo(W(f.pc - 1))>> /\ Size(f) = 2
         /\ f.kind = "irq"  => /\ Bytes(f) = <<Hi(f.pc), Lo(f.pc), vic_p_pack(f.flags) - 16>>
                               /\ Size(f) = 3
         /\ f.kind = "a"    => Bytes(f) = <<f.a>> /\ Size(f) = 1
         /\ f.kind = "p"    => Bytes(f) = <<vic_p_pack(f.flags)>> /\ Size(f) = 1
<1>1. CASE f.kind = "call"
  BY <1>1 DEF Bytes, Size
<1>2. CASE f.kind = "irq"
  BY <1>2 DEF Bytes, Size
<1>3. CASE f.kind = "a"
  BY <1>3 DEF Bytes, Size
<1>4. CASE f.kind = "p"
  BY <1>4 DEF Bytes, Size
<1> QED
  BY <1>1, <1>2, <1>3, <1>4 DEF FrameSet, Kinds

(* Sequences of one, two and three elements. *)
LEMMA Tuples ==
  ASSUME NEW S, NEW x \in S, NEW y \in S, NEW z \in S
  PROVE  <<x>> \in Seq(S) /\ <<x, y>> \in Seq(S) /\ <<x, y, z>> \in Seq(S)
  OBVIOUS

(* A frame has one to three bytes. *)
LEMMA BytesType ==
  ASSUME NEW f \in FrameSet
  PROVE  Bytes(f) \in Seq(Byte) /\ Size(f) \in 1..3
<1>1. f.pc \in Word /\ f.a \in Byte /\ f.flags \in FlagSet /\ f.kind \in Kinds
  BY DEF FrameSet
<1>2. W(f.pc - 1) \in Word
  BY <1>1, WordStep
<1>3. /\ Hi(f.pc) \in Byte /\ Lo(f.pc) \in Byte
      /\ Hi(W(f.pc - 1)) \in Byte /\ Lo(W(f.pc - 1)) \in Byte
  BY <1>1, <1>2, HiLo
<1>4. vic_p_pack(f.flags) \in Int
  BY <1>1 DEF FlagSet, vic_p_pack
<1>5. vic_p_pack(f.flags) \in Byte
  BY <1>1, <1>4, PackUnpack
<1>6. vic_p_pack(f.flags) - 16 \in Byte
  <2>1. vic_p_pack(f.flags) - 16 \in Int
    BY <1>4
  <2>2. vic_p_pack(f.flags) - 16 = vic_p_pack(f.flags) - 16 * 1
    BY <1>4
  <2> QED
    BY <1>1, <2>1, <2>2, PackUnpack
<1>a. /\ <<Hi(W(f.pc - 1)), Lo(W(f.pc - 1))>> \in Seq(Byte)
      /\ <<Hi(f.pc), Lo(f.pc), vic_p_pack(f.flags) - 16>> \in Seq(Byte)
      /\ <<f.a>> \in Seq(Byte) /\ <<vic_p_pack(f.flags)>> \in Seq(Byte)
  BY <1>1, <1>3, <1>5, <1>6, Tuples
<1>b. Size(f) \in 1..3
  BY <1>1, BytesOf DEF Kinds
<1>7. f.kind = "call" => Bytes(f) \in Seq(Byte)
  BY <1>a, BytesOf
<1>8. f.kind = "irq" => Bytes(f) \in Seq(Byte)
  BY <1>a, BytesOf
<1>9. f.kind = "a" => Bytes(f) \in Seq(Byte)
  BY <1>a, BytesOf
<1>10. f.kind = "p" => Bytes(f) \in Seq(Byte)
  BY <1>a, BytesOf
<1> QED
  BY <1>1, <1>b, <1>7, <1>8, <1>9, <1>10 DEF Kinds

(* A new frame lies on top of the others.                                   *)
LEMMA PushedNested ==
  ASSUME FType, Nested, NEW f \in FrameSet, f.below = Len(held), Pushed(f)
  PROVE  /\ held' \in Seq(Byte) /\ Len(held') <= 256 /\ Len(held') = Len(held) + Size(f)
         /\ frames' \in Seq(FrameSet) /\ Len(frames') = Len(frames) + 1
         /\ top' = top
         /\ \A i \in 1..Len(held) : held'[i] = held[i]
         /\ \A i \in 1..Size(f) : held'[Len(held) + i] = Bytes(f)[i]
         /\ Nested'
<1>1. held \in Seq(Byte) /\ frames \in Seq(FrameSet) /\ Depth \in 0..256
  BY FramesAssumption DEF FType, FramesAssumption
<1>2. Bytes(f) \in Seq(Byte) /\ Size(f) \in 1..3
  BY BytesType
<1>3. held' = held \o Bytes(f) /\ frames' = Append(frames, f) /\ top' = top
  BY DEF Pushed
<1>4. Len(held) + Size(f) <= Depth
  BY DEF Pushed, Size
<1>5. held' \in Seq(Byte) /\ Len(held') = Len(held) + Size(f)
  BY <1>1, <1>2, <1>3 DEF Size
<1>6. \A i \in 1..Len(held) : held'[i] = held[i]
  BY <1>1, <1>2, <1>3
<1>7. \A i \in 1..Size(f) : held'[Len(held) + i] = Bytes(f)[i]
  BY <1>1, <1>2, <1>3 DEF Size
<1>8. frames' \in Seq(FrameSet) /\ Len(frames') = Len(frames) + 1
  BY <1>1, <1>3
<1>9. /\ \A j \in 1..Len(frames) : frames'[j] = frames[j]
      /\ frames'[Len(frames) + 1] = f
  BY <1>1, <1>3
<1>10. \A g \in FrameSet : Size(g) \in 1..3 /\ g.below \in Nat /\ End(g) = g.below + Size(g)
  BY BytesType DEF End, FrameSet
<1>11. Nested'
  <2>1. ASSUME NEW j \in 1..Len(frames)
        PROVE  /\ End(frames'[j]) <= Len(held')
               /\ \A i \in 1..Size(frames'[j]) : held'[frames'[j].below + i] = Bytes(frames'[j])[i]
               /\ \A l \in 1..(j - 1) : End(frames'[l]) <= frames'[j].below
               /\ j > 1 => End(frames'[j - 1]) = frames'[j].below
               /\ j # Len(frames')
    <3> DEFINE g == frames[j]
    <3>1. g \in FrameSet /\ frames'[j] = g
      BY <1>1, <1>9
    <3>2. End(g) <= Len(held) /\ Len(held) \in Nat
      BY <1>1 DEF Nested
    <3>3. End(g) \in Nat /\ Size(g) \in 1..3 /\ g.below \in Nat /\ End(g) = g.below + Size(g)
      BY <1>10, <3>1
    <3>4. End(g) <= Len(held')
      BY <1>2, <1>5, <3>2, <3>3
    <3>5. \A i \in 1..Size(g) : held'[g.below + i] = Bytes(g)[i]
      <4> TAKE i \in 1..Size(g)
      <4>1. g.below + i \in 1..Len(held)
        BY <3>2, <3>3
      <4>2. held[g.below + i] = Bytes(g)[i]
        BY DEF Nested
      <4> QED
        BY <1>6, <4>1, <4>2
    <3>6. \A l \in 1..(j - 1) : frames'[l] = frames[l] /\ End(frames[l]) <= g.below
      BY <1>9 DEF Nested
    <3>7. j > 1 => frames'[j - 1] = frames[j - 1] /\ End(frames[j - 1]) = g.below
      BY <1>9 DEF Nested
    <3> HIDE DEF g
    <3>8. j # Len(frames')
      BY <1>1, <1>8
    <3> QED
      BY <3>1, <3>4, <3>5, <3>6, <3>7, <3>8
  <2>2. End(f) = Len(held')
    BY <1>1, <1>5, <1>10
  <2>3. \A l \in 1..Len(frames) : frames'[l] = frames[l] /\ End(frames[l]) <= f.below
    BY <1>9 DEF Nested
  <2>4. Len(frames) + 1 > 1 => End(frames'[Len(frames)]) = f.below
    <3> SUFFICES ASSUME Len(frames) + 1 > 1 PROVE End(frames'[Len(frames)]) = f.below
      OBVIOUS
    <3>1. Len(frames) \in 1..Len(frames)
      BY <1>1
    <3> QED
      BY <1>9, <3>1 DEF Nested
  <2>5. ASSUME NEW j \in 1..Len(frames')
        PROVE  /\ End(frames'[j]) <= Len(held')
               /\ \A i \in 1..Size(frames'[j]) : held'[frames'[j].below + i] = Bytes(frames'[j])[i]
               /\ \A l \in 1..(j - 1) : End(frames'[l]) <= frames'[j].below
               /\ j > 1 => End(frames'[j - 1]) = frames'[j].below
               /\ j = Len(frames') => End(frames'[j]) = Len(held')
    <3>1. CASE j \in 1..Len(frames)
      BY <2>1, <3>1
    <3>2. CASE j = Len(frames) + 1
      <4>1. frames'[j] = f /\ j - 1 = Len(frames)
        BY <1>1, <1>9, <3>2
      <4>2. Len(held') <= Len(held') /\ f.below = Len(held)
        BY <1>5
      <4>3. \A i \in 1..Size(f) : held'[f.below + i] = Bytes(f)[i]
        BY <1>7
      <4>4. \A l \in 1..(j - 1) : End(frames'[l]) <= f.below
        BY <2>3, <4>1
      <4>5. j > 1 => End(frames'[j - 1]) = f.below
        BY <2>4, <3>2, <4>1
      <4> QED
        BY <2>2, <4>1, <4>2, <4>3, <4>4, <4>5
    <3> QED
      BY <1>1, <1>8, <3>1, <3>2
  <2> QED
    BY <2>5 DEF Nested, End, Size, Bytes
<1>12. Len(held') <= 256
  <2>1. Len(held) + Size(f) \in Int /\ Depth \in Int /\ Depth <= 256
    BY <1>1, <1>2
  <2> QED
    BY <1>4, <1>5, <2>1
<1> QED
  BY <1>3, <1>5, <1>6, <1>7, <1>8, <1>11, <1>12

(* What is known of the newest frame.                                       *)
LEMMA NewestFrame ==
  ASSUME FInv, frames # <<>>
  PROVE  /\ Newest \in FrameSet
         /\ Newest.below \in Nat /\ Newest.below + Size(Newest) = Len(held)
         /\ \A i \in 1..Size(Newest) : held[Newest.below + i] = Bytes(Newest)[i]
<1>1. Len(frames) \in 1..Len(frames) /\ frames \in Seq(FrameSet)
  BY DEF FInv, FType
<1>2. Newest \in FrameSet
  BY <1>1 DEF Newest
<1> QED
  BY <1>1, <1>2 DEF FInv, Nested, End, Newest, FrameSet

(* The first n elements of a sequence. *)
LEMMA FirstOf ==
  ASSUME NEW S, NEW s \in Seq(S), NEW n \in 0..Len(s)
  PROVE  /\ SubSeq(s, 1, n) \in Seq(S) /\ Len(SubSeq(s, 1, n)) = n
         /\ \A i \in 1..n : SubSeq(s, 1, n)[i] = s[i]
  OBVIOUS

(* The frames below the newest still nest when it is gone. *)
LEMMA PoppedNested ==
  ASSUME FInv, NEW kind, Popped(kind)
  PROVE  /\ held' \in Seq(Byte) /\ Len(held') = Newest.below /\ Len(held') <= 256
         /\ frames' \in Seq(FrameSet) /\ Len(frames') = Len(frames) - 1
         /\ top' = top
         /\ \A i \in 1..Newest.below : held'[i] = held[i]
         /\ Nested'
<1> DEFINE n == Len(frames)
           q == Newest.below
<1>1. held \in Seq(Byte) /\ frames \in Seq(FrameSet) /\ Len(held) <= 256
  BY DEF FInv, FType
<1>2. frames # <<>> /\ n \in 1..n
  BY <1>1 DEF Popped
<1>3. Newest \in FrameSet /\ Size(Newest) \in 1..3
  BY <1>2, NewestFrame, BytesType
<1>4. q \in 0..Len(held)
  BY <1>1, <1>2, <1>3, NewestFrame
<1>5. held' = SubSeq(held, 1, q) /\ frames' = SubSeq(frames, 1, n - 1) /\ top' = top
  BY DEF Popped
<1>6. held' \in Seq(Byte) /\ Len(held') = q /\ \A i \in 1..q : held'[i] = held[i]
  BY <1>1, <1>4, <1>5, FirstOf
<1>7. /\ frames' \in Seq(FrameSet) /\ Len(frames') = n - 1
      /\ \A j \in 1..(n - 1) : frames'[j] = frames[j]
  <2>1. n - 1 \in 0..Len(frames)
    BY <1>1, <1>2
  <2> QED
    BY <1>1, <1>5, <2>1, FirstOf
<1>8. ASSUME NEW j \in 1..Len(frames')
      PROVE  /\ End(frames'[j]) <= Len(held')
             /\ \A i \in 1..Size(frames'[j]) : held'[frames'[j].below + i] = Bytes(frames'[j])[i]
             /\ \A l \in 1..(j - 1) : End(frames'[l]) <= frames'[j].below
             /\ j > 1 => End(frames'[j - 1]) = frames'[j].below
             /\ j = Len(frames') => End(frames'[j]) = Len(held')
  <2> DEFINE g == frames[j]
  <2>1. j \in 1..n /\ j \in 1..(n - 1) /\ frames'[j] = g /\ g \in FrameSet
    BY <1>1, <1>2, <1>7
  <2>2. End(g) <= q
    BY <1>2, <2>1 DEF FInv, Nested, Newest
  <2>3. Size(g) \in 1..3 /\ g.below \in Nat /\ End(g) = g.below + Size(g)
    BY <2>1, BytesType DEF End, FrameSet
  <2>4. \A i \in 1..Size(g) : held'[g.below + i] = Bytes(g)[i]
    <3> TAKE i \in 1..Size(g)
    <3>1. g.below + i \in 1..q
      BY <1>4, <2>2, <2>3
    <3>2. held[g.below + i] = Bytes(g)[i]
      BY <2>1 DEF FInv, Nested
    <3> QED
      BY <1>6, <3>1, <3>2
  <2>5. \A l \in 1..(j - 1) : frames'[l] = frames[l] /\ End(frames[l]) <= g.below
    BY <1>7, <2>1 DEF FInv, Nested
  <2>6. j > 1 => frames'[j - 1] = frames[j - 1] /\ End(frames[j - 1]) = g.below
    BY <1>7, <2>1 DEF FInv, Nested
  <2>7. j = n - 1 => End(g) = q
    <3> SUFFICES ASSUME j = n - 1 PROVE End(g) = q
      OBVIOUS
    <3>1. n > 1 /\ n - 1 = j
      BY <2>1
    <3>2. End(frames[n - 1]) = frames[n].below
      BY <1>2, <3>1 DEF FInv, Nested
    <3> QED
      BY <3>1, <3>2 DEF Newest
  <2> HIDE DEF g
  <2> QED
    BY <1>6, <1>7, <2>1, <2>2, <2>4, <2>5, <2>6, <2>7
<1>9. Nested'
  BY <1>8 DEF Nested, End, Size, Bytes
<1>10. Len(held') <= 256
  BY <1>1, <1>4, <1>6
<1> QED
  BY <1>5, <1>6, <1>7, <1>9, <1>10
-----------------------------------------------------------------------------
(* The machine under each step. *)

(* What a step of the machine must establish, given that the frames nest.   *)
Stacked(h) == IsMachine(cpu') /\ Holds(cpu', top, h, Len(h))

(* Setting the PC leaves the rest of the machine alone. *)
LEMMA SetPc ==
  ASSUME NEW mc, IsMachine(mc), NEW pc \in Word
  PROVE  /\ IsMachine([mc EXCEPT !.pc = pc])
         /\ [mc EXCEPT !.pc = pc].s = mc.s /\ [mc EXCEPT !.pc = pc].mem = mc.mem
         /\ [mc EXCEPT !.pc = pc].pc = pc
         /\ Flags([mc EXCEPT !.pc = pc]) = Flags(mc)
  BY DEF IsMachine, Flags

(* A frame about to be pushed, and what held will be.                       *)
LEMMA FrameType ==
  ASSUME FInv, NEW kind \in Kinds, NEW pc \in Word
  PROVE  /\ Frame(kind, pc) \in FrameSet /\ Frame(kind, pc).below = Len(held)
         /\ Frame(kind, pc).kind = kind /\ Frame(kind, pc).pc = pc
         /\ Frame(kind, pc).a = cpu.a /\ Frame(kind, pc).flags = Flags(cpu)
<1>1. IsMachine(cpu) /\ held \in Seq(Byte)
  BY DEF FInv, FType
<1>2. Flags(cpu) \in FlagSet /\ cpu.a \in Byte /\ Len(held) \in Nat
  BY <1>1, FlagsOf DEF IsMachine
<1> QED
  BY <1>2 DEF Frame, FrameSet

(* Holds does not depend on what comes after the bytes held. *)
LEMMA HeldStays ==
  ASSUME FInv, NEW h, \A i \in 1..Len(held) : h[i] = held[i]
  PROVE  Holds(cpu, top, h, Len(held))
  BY DEF FInv, Holds

(* A push of the next byte of held, and a pull of the last.                 *)
LEMMA PushByte ==
  ASSUME NEW mc, IsMachine(mc), NEW t \in Byte, NEW h \in Seq(Byte), Len(h) <= 256,
         NEW n \in Nat, n + 1 <= Len(h), Holds(mc, t, h, n),
         NEW v, v = h[n + 1]
  PROVE  /\ IsMachine(vic_push(mc, v)) /\ Holds(vic_push(mc, v), t, h, n + 1)
         /\ vic_push(mc, v).pc = mc.pc /\ vic_push(mc, v).a = mc.a
         /\ Flags(vic_push(mc, v)) = Flags(mc)
<1>1. PICK len \in Nat : len = Len(h)
  OBVIOUS
<1>2. n \in 0..255 /\ n < Len(h) /\ n + 1 \in 1..len
  <2>1. n + 1 <= len /\ len <= 256
    BY <1>1
  <2> QED
    BY <1>1, <2>1
<1>3. v \in Byte
  BY <1>1, <1>2
<1>4. Holds(vic_push(mc, v), t, h, n + 1)
  <2>1. Holds(vic_push(mc, h[n + 1]), t, h, n + 1)
    BY <1>2, PushHolds
  <2> QED
    BY <2>1
<1>5. /\ IsMachine(vic_push(mc, v))
      /\ vic_push(mc, v).pc = mc.pc /\ vic_push(mc, v).a = mc.a
      /\ Flags(vic_push(mc, v)) = Flags(mc)
  BY <1>3, PushOne
<1> QED
  BY <1>4, <1>5

(* A pull of a byte held: the byte, the machine, and what is left. *)
LEMMA PullByte ==
  ASSUME NEW mc, IsMachine(mc), NEW t \in Byte, NEW h, NEW n \in Nat, n + 1 <= 256,
         Holds(mc, t, h, n + 1)
  PROVE  /\ IsMachine(Pulled(mc)) /\ Holds(Pulled(mc), t, h, n)
         /\ Top(Pulled(mc)) = h[n + 1]
         /\ Pulled(mc).pc = mc.pc /\ Pulled(mc).a = mc.a
         /\ Flags(Pulled(mc)) = Flags(mc)
<1>1. n \in 0..255
  OBVIOUS
<1>2. Holds(Pulled(mc), t, h, n) /\ Top(Pulled(mc)) = h[n + 1]
  BY <1>1, PullHolds
<1> QED
  BY <1>2, PullOne

(* A push of both bytes of a word. *)
LEMMA PushWord ==
  ASSUME NEW mc, IsMachine(mc), NEW t \in Byte, NEW h \in Seq(Byte), Len(h) <= 256,
         NEW n \in Nat, n + 2 <= Len(h), Holds(mc, t, h, n),
         NEW w, h[n + 1] = Hi(w), h[n + 2] = Lo(w)
  PROVE  /\ IsMachine(vic_push16(mc, w)) /\ Holds(vic_push16(mc, w), t, h, n + 2)
         /\ Flags(vic_push16(mc, w)) = Flags(mc)
<1> DEFINE m1 == vic_push(mc, Hi(w))
<1>1. PICK len \in Nat : len = Len(h)
  OBVIOUS
<1>2. n + 1 <= Len(h) /\ (n + 1) + 1 <= Len(h) /\ n + 1 \in Nat /\ (n + 1) + 1 = n + 2
  BY <1>1
<1>3. IsMachine(m1) /\ Holds(m1, t, h, n + 1) /\ Flags(m1) = Flags(mc)
  BY <1>2, PushByte
<1> HIDE DEF m1
<1>4. /\ IsMachine(vic_push(m1, Lo(w))) /\ Holds(vic_push(m1, Lo(w)), t, h, (n + 1) + 1)
      /\ Flags(vic_push(m1, Lo(w))) = Flags(m1)
  <2>1. Lo(w) = h[(n + 1) + 1]
    BY <1>2
  <2> QED
    BY <1>2, <1>3, <2>1, PushByte
<1> QED
  BY <1>2, <1>3, <1>4 DEF vic_push16, m1

(* A pushed frame leaves Holds, and what the step needs of it.              *)
LEMMA PushedHolds ==
  ASSUME FInv, NEW f \in FrameSet, f.below = Len(held), Pushed(f)
  PROVE  /\ FType /\ Len(held) \in Nat
         /\ held' \in Seq(Byte) /\ Len(held') <= 256 /\ Len(held') = Len(held) + Size(f)
         /\ \A i \in 1..Size(f) : held'[Len(held) + i] = Bytes(f)[i]
         /\ Holds(cpu, top, held', Len(held))
         /\ frames' \in Seq(FrameSet) /\ Len(frames') = Len(frames) + 1 /\ top' = top
         /\ Nested'
<1>1. FType /\ Nested
  BY DEF FInv
<1>2. /\ held' \in Seq(Byte) /\ Len(held') <= 256 /\ Len(held') = Len(held) + Size(f)
      /\ frames' \in Seq(FrameSet) /\ Len(frames') = Len(frames) + 1 /\ top' = top
      /\ \A i \in 1..Len(held) : held'[i] = held[i]
      /\ \A i \in 1..Size(f) : held'[Len(held) + i] = Bytes(f)[i]
      /\ Nested'
  BY <1>1, PushedNested
<1>3. Holds(cpu, top, held', Len(held))
  BY <1>2, HeldStays
<1>4. Len(held) \in Nat
  BY <1>1 DEF FType
<1> QED
  BY <1>1, <1>2, <1>3, <1>4

(* What every step leaves: the invariant, and more frames or the newest     *)
(* undone.                                                                  *)
Kept == FInv' /\ (Len(frames') < Len(frames) => Restored(Newest))

(* A step that pushes a frame as Stacked says keeps the invariant. *)
LEMMA PushKeeps ==
  ASSUME FInv, NEW f \in FrameSet, f.below = Len(held), Pushed(f), Stacked(held')
  PROVE  Kept
<1>1. /\ FType /\ held' \in Seq(Byte) /\ Len(held') <= 256
      /\ frames' \in Seq(FrameSet) /\ Len(frames') = Len(frames) + 1 /\ top' = top
      /\ Nested'
  BY PushedHolds
<1>2. FType'
  BY <1>1 DEF FType, Stacked
<1>3. (Holds(cpu, top, held, Len(held)))'
  BY <1>1 DEF Stacked, Holds
<1>4. Len(frames) \in Nat
  BY <1>1 DEF FType
<1>5. ~ (Len(frames') < Len(frames))
  BY <1>1, <1>4
<1> QED
  BY <1>1, <1>2, <1>3, <1>5 DEF FInv, Kept

(* A JSR keeps the invariant. *)
LEMMA CallStep ==
  ASSUME FInv, Call
  PROVE  Kept
<1> DEFINE f == Frame("call", W(cpu.pc + 3))
           w == W(cpu.pc + 2)
           n == Len(held)
<1>1. IsMachine(cpu) /\ cpu.pc \in Word /\ top \in Byte
  BY DEF FInv, FType, IsMachine
<1>2. W(cpu.pc + 3) \in Word /\ w = W(W(cpu.pc + 3) - 1)
  BY <1>1, WordStep
<1>3. f \in FrameSet /\ f.below = n /\ f.kind = "call" /\ f.pc = W(cpu.pc + 3)
  BY <1>2, FrameType DEF Kinds
<1>4. Size(f) = 2 /\ Bytes(f) = <<Hi(w), Lo(w)>>
  BY <1>2, <1>3, BytesOf
<1>5. Pushed(f)
  BY DEF Call
<1>c. \E pc \in Pcs : cpu' = [vic_push16(cpu, w) EXCEPT !.pc = pc]
  BY DEF Call
<1> HIDE DEF f, w
<1>6. /\ held' \in Seq(Byte) /\ Len(held') <= 256 /\ Len(held') = n + 2 /\ n \in Nat
      /\ held'[n + 1] = Hi(w) /\ held'[n + 2] = Lo(w)
      /\ Holds(cpu, top, held', n)
  <2>1. /\ held' \in Seq(Byte) /\ Len(held') <= 256 /\ Len(held') = n + Size(f) /\ n \in Nat
        /\ \A i \in 1..Size(f) : held'[n + i] = Bytes(f)[i]
        /\ Holds(cpu, top, held', n)
    BY <1>3, <1>5, PushedHolds
  <2>2. Bytes(f)[1] = Hi(w) /\ Bytes(f)[2] = Lo(w)
    BY <1>4
  <2>3. 1 \in 1..Size(f) /\ 2 \in 1..Size(f)
    BY <1>4
  <2> QED
    BY <1>4, <2>1, <2>2, <2>3
<1>7. IsMachine(vic_push16(cpu, w)) /\ Holds(vic_push16(cpu, w), top, held', n + 2)
  <2>1. n + 2 <= Len(held')
    BY <1>6
  <2> QED
    BY <1>1, <1>6, <2>1, PushWord
<1>8. PICK pc \in Pcs : cpu' = [vic_push16(cpu, w) EXCEPT !.pc = pc]
  BY <1>c
<1>9. pc \in Word
  BY FramesAssumption DEF FramesAssumption
<1>10. IsMachine(cpu') /\ cpu'.s = vic_push16(cpu, w).s /\ cpu'.mem = vic_push16(cpu, w).mem
  BY <1>7, <1>8, <1>9, SetPc
<1>11. Holds(cpu', top, held', n + 2)
  BY <1>7, <1>10, HoldsSame
<1>12. Stacked(held')
  BY <1>6, <1>10, <1>11 DEF Stacked
<1> QED
  BY <1>3, <1>5, <1>12, PushKeeps

(* An interrupt keeps the invariant. *)
LEMMA InterruptStep ==
  ASSUME FInv, Interrupt
  PROVE  Kept
<1> DEFINE f == Frame("irq", cpu.pc)
           n == Len(held)
           p == vic_p_pack(cpu) - 16
           m2 == vic_push16(cpu, cpu.pc)
           m3 == vic_push(m2, p)
<1>1. IsMachine(cpu) /\ cpu.pc \in Word /\ top \in Byte
  BY DEF FInv, FType, IsMachine
<1>2. f \in FrameSet /\ f.below = n /\ f.kind = "irq" /\ f.pc = cpu.pc /\ f.flags = Flags(cpu)
  BY <1>1, FrameType DEF Kinds
<1>3. Size(f) = 3 /\ Bytes(f) = <<Hi(cpu.pc), Lo(cpu.pc), p>>
  BY <1>1, <1>2, BytesOf, FlagsOf
<1>4. Pushed(f)
  BY DEF Interrupt
<1>c. \E pc \in Pcs : cpu' = [[m3 EXCEPT !.i = 1] EXCEPT !.pc = pc]
  BY DEF Interrupt, IrqFrame
<1> HIDE DEF f, p
<1>5. /\ held' \in Seq(Byte) /\ Len(held') <= 256 /\ Len(held') = n + 3 /\ n \in Nat
      /\ held'[n + 1] = Hi(cpu.pc) /\ held'[n + 2] = Lo(cpu.pc) /\ held'[n + 3] = p
      /\ Holds(cpu, top, held', n)
  <2>1. /\ held' \in Seq(Byte) /\ Len(held') <= 256 /\ Len(held') = n + Size(f) /\ n \in Nat
        /\ \A i \in 1..Size(f) : held'[n + i] = Bytes(f)[i]
        /\ Holds(cpu, top, held', n)
    BY <1>2, <1>4, PushedHolds
  <2>2. Bytes(f)[1] = Hi(cpu.pc) /\ Bytes(f)[2] = Lo(cpu.pc) /\ Bytes(f)[3] = p
    BY <1>3
  <2>3. 1 \in 1..Size(f) /\ 2 \in 1..Size(f) /\ 3 \in 1..Size(f)
    BY <1>3
  <2> QED
    BY <1>3, <2>1, <2>2, <2>3
<1>6. IsMachine(m2) /\ Holds(m2, top, held', n + 2)
  <2>1. n + 2 <= Len(held')
    BY <1>5
  <2> QED
    BY <1>1, <1>5, <2>1, PushWord
<1> HIDE DEF m2
<1>7. IsMachine(m3) /\ Holds(m3, top, held', n + 3)
  <2>1. n + 2 \in Nat /\ (n + 2) + 1 <= Len(held') /\ (n + 2) + 1 = n + 3
    BY <1>5
  <2>2. p = held'[(n + 2) + 1]
    BY <1>5, <2>1
  <2>3. IsMachine(m3) /\ Holds(m3, top, held', (n + 2) + 1)
    BY <1>1, <1>5, <1>6, <2>1, <2>2, PushByte
  <2> QED
    BY <2>1, <2>3
<1> HIDE DEF m3
<1>8. PICK pc \in Pcs : cpu' = [[m3 EXCEPT !.i = 1] EXCEPT !.pc = pc]
  BY <1>c
<1>9. pc \in Word
  BY FramesAssumption DEF FramesAssumption
<1>10. IsMachine(cpu') /\ cpu'.s = m3.s /\ cpu'.mem = m3.mem
  BY <1>7, <1>8, <1>9 DEF IsMachine
<1>11. Holds(cpu', top, held', n + 3)
  BY <1>7, <1>10, HoldsSame
<1>12. Stacked(held')
  BY <1>5, <1>10, <1>11 DEF Stacked
<1> QED
  BY <1>2, <1>4, <1>12, PushKeeps

(* PHA keeps the invariant. *)
LEMMA PhaStep ==
  ASSUME FInv, vic_pha
  PROVE  Kept
<1> DEFINE f == Frame("a", cpu.pc)
           n == Len(held)
<1>1. IsMachine(cpu) /\ cpu.pc \in Word /\ top \in Byte
  BY DEF FInv, FType, IsMachine
<1>2. f \in FrameSet /\ f.below = n /\ f.kind = "a" /\ f.a = cpu.a
  BY <1>1, FrameType DEF Kinds
<1>3. Size(f) = 1 /\ Bytes(f) = <<cpu.a>>
  BY <1>2, BytesOf
<1>4. Pushed(f) /\ cpu' = vic_push(cpu, cpu.a)
  BY DEF vic_pha
<1> HIDE DEF f
<1>5. /\ held' \in Seq(Byte) /\ Len(held') <= 256 /\ Len(held') = n + 1 /\ n \in Nat
      /\ held'[n + 1] = cpu.a /\ Holds(cpu, top, held', n)
  BY <1>2, <1>3, <1>4, PushedHolds
<1>6. n + 1 <= Len(held')
  BY <1>5
<1>7. IsMachine(cpu') /\ Holds(cpu', top, held', n + 1)
  BY <1>1, <1>4, <1>5, <1>6, PushByte
<1>8. Stacked(held')
  BY <1>5, <1>7 DEF Stacked
<1> QED
  BY <1>2, <1>4, <1>8, PushKeeps

(* PHP keeps the invariant. *)
LEMMA PhpStep ==
  ASSUME FInv, vic_php
  PROVE  Kept
<1> DEFINE f == Frame("p", cpu.pc)
           n == Len(held)
           p == vic_p_pack(cpu)
<1>1. IsMachine(cpu) /\ cpu.pc \in Word /\ top \in Byte
  BY DEF FInv, FType, IsMachine
<1>2. f \in FrameSet /\ f.below = n /\ f.kind = "p" /\ f.flags = Flags(cpu)
  BY <1>1, FrameType DEF Kinds
<1>3. Size(f) = 1 /\ Bytes(f) = <<p>>
  BY <1>1, <1>2, BytesOf, FlagsOf
<1>4. Pushed(f) /\ cpu' = vic_push(cpu, p)
  BY DEF vic_php
<1> HIDE DEF f, p
<1>5. /\ held' \in Seq(Byte) /\ Len(held') <= 256 /\ Len(held') = n + 1 /\ n \in Nat
      /\ held'[n + 1] = p /\ Holds(cpu, top, held', n)
  BY <1>2, <1>3, <1>4, PushedHolds
<1>6. n + 1 <= Len(held')
  BY <1>5
<1>7. IsMachine(cpu') /\ Holds(cpu', top, held', n + 1)
  BY <1>1, <1>4, <1>5, <1>6, PushByte
<1>8. Stacked(held')
  BY <1>5, <1>7 DEF Stacked
<1> QED
  BY <1>2, <1>4, <1>8, PushKeeps

(* Holds looks at the first n bytes only. *)
LEMMA HoldsPrefix ==
  ASSUME NEW mc, NEW t, NEW h, NEW n, Holds(mc, t, h, n), NEW h2,
         \A i \in 1..n : h2[i] = h[i]
  PROVE  Holds(mc, t, h2, n)
  BY DEF Holds

(* What is on the stack when a frame is popped.                             *)
LEMMA PopReady ==
  ASSUME FInv, NEW kind, Popped(kind)
  PROVE  /\ IsMachine(cpu) /\ top \in Byte
         /\ Newest \in FrameSet /\ Newest.kind = kind
         /\ Newest.below \in Nat /\ Newest.below + Size(Newest) <= 256
         /\ Holds(cpu, top, held, Newest.below + Size(Newest))
         /\ \A i \in 1..Size(Newest) : held[Newest.below + i] = Bytes(Newest)[i]
<1>1. /\ Newest \in FrameSet /\ Newest.below \in Nat
      /\ Newest.below + Size(Newest) = Len(held)
      /\ \A i \in 1..Size(Newest) : held[Newest.below + i] = Bytes(Newest)[i]
  BY NewestFrame DEF Popped
<1>2. Newest.kind = kind
  BY DEF Popped
<1> QED
  BY <1>1, <1>2 DEF FInv, FType

(* A step that pops a frame and restores what it saved keeps the invariant. *)
LEMMA PopKeeps ==
  ASSUME FInv, NEW kind, Popped(kind),
         IsMachine(cpu'), Holds(cpu', top, held, Newest.below),
         kind \in {"call", "irq"} => cpu'.pc = Newest.pc,
         kind \in {"irq", "p"} => Flags(cpu') = Newest.flags,
         kind = "a" => cpu'.a = Newest.a
  PROVE  Kept
<1>1. /\ held' \in Seq(Byte) /\ Len(held') = Newest.below /\ Len(held') <= 256
      /\ frames' \in Seq(FrameSet) /\ top' = top
      /\ \A i \in 1..Newest.below : held'[i] = held[i]
      /\ Nested'
  BY PoppedNested
<1>2. FType'
  BY <1>1 DEF FInv, FType
<1>3. Holds(cpu', top, held', Newest.below)
  BY <1>1, HoldsPrefix
<1>4. (Holds(cpu, top, held, Len(held)))'
  BY <1>1, <1>3 DEF Holds
<1>5. Newest.kind = kind
  BY DEF Popped
<1>6. Restored(Newest)
  BY <1>5 DEF Restored, Holds
<1> QED
  BY <1>1, <1>2, <1>4, <1>6 DEF FInv, Kept

(* RTS pops the frame of the call it returns from. *)
LEMMA RtsStep ==
  ASSUME FInv, Rts
  PROVE  Kept
<1> DEFINE f == Newest
           q == f.below
           w == W(f.pc - 1)
           m1 == Pulled(cpu)
           m2 == Pulled(m1)
<1>1. Popped("call") /\ cpu' = vic_rts_ret(cpu)
  BY DEF Rts
<1>2. /\ IsMachine(cpu) /\ top \in Byte
      /\ f \in FrameSet /\ f.kind = "call"
      /\ q \in Nat /\ q + Size(f) <= 256
      /\ Holds(cpu, top, held, q + Size(f))
      /\ \A i \in 1..Size(f) : held[q + i] = Bytes(f)[i]
  BY <1>1, PopReady
<1>3. Bytes(f) = <<Hi(w), Lo(w)>> /\ Size(f) = 2
  BY <1>2, BytesOf
<1>4. held[q + 1] = Hi(w) /\ held[q + 2] = Lo(w)
  BY <1>2, <1>3
<1>5. f.pc \in Word /\ w \in Word
  BY <1>2, WordStep DEF FrameSet
<1>w. Lo(w) + (ByteSize * Hi(w)) = w /\ W(w + 1) = f.pc
  BY <1>5, HiLo, WordStep
<1> HIDE DEF f, q, w
<1>6. q + 1 \in Nat /\ (q + 1) + 1 = q + 2 /\ (q + 1) + 1 <= 256 /\ q + 1 <= 256 /\ q \in Nat
  BY <1>2, <1>3
<1>7. IsMachine(m1) /\ Holds(m1, top, held, q + 1) /\ Top(m1) = held[q + 2]
  <2>1. Holds(cpu, top, held, (q + 1) + 1)
    BY <1>2, <1>3, <1>6
  <2>2. IsMachine(m1) /\ Holds(m1, top, held, q + 1) /\ Top(m1) = held[(q + 1) + 1]
    BY <1>2, <1>6, <2>1, PullByte
  <2> QED
    BY <1>6, <2>2
<1> HIDE DEF m1
<1>8. IsMachine(m2) /\ Holds(m2, top, held, q) /\ Top(m2) = held[q + 1]
  BY <1>2, <1>6, <1>7, PullByte
<1>9. cpu' = [m2 EXCEPT !.pc = W(Top(m1) + (ByteSize * Top(m2)) + 1)]
  BY <1>1 DEF vic_rts_ret, m1
<1> HIDE DEF m2
<1>10. cpu' = [m2 EXCEPT !.pc = f.pc]
  BY <1>4, <1>7, <1>8, <1>9, <1>w
<1>11. IsMachine(cpu') /\ cpu'.s = m2.s /\ cpu'.mem = m2.mem /\ cpu'.pc = f.pc
  BY <1>5, <1>8, <1>10, SetPc
<1>12. Holds(cpu', top, held, q)
  BY <1>8, <1>11, HoldsSame
<1> QED
  BY <1>1, <1>11, <1>12, PopKeeps DEF f, q

(* RTI pops the frame of the interrupt it returns from. *)
LEMMA RtiStep ==
  ASSUME FInv, Rti
  PROVE  Kept
<1> DEFINE f == Newest
           q == f.below
           p == vic_p_pack(f.flags) - 16
           m1 == Pulled(cpu)
           u1 == vic_p_unpack(m1, Top(m1))
           m2 == Pulled(u1)
           m3 == Pulled(m2)
<1>1. Popped("irq") /\ cpu' = vic_rti(cpu)
  BY DEF Rti
<1>2. /\ IsMachine(cpu) /\ top \in Byte
      /\ f \in FrameSet /\ f.kind = "irq"
      /\ q \in Nat /\ q + Size(f) <= 256
      /\ Holds(cpu, top, held, q + Size(f))
      /\ \A i \in 1..Size(f) : held[q + i] = Bytes(f)[i]
  BY <1>1, PopReady
<1>3. Bytes(f) = <<Hi(f.pc), Lo(f.pc), p>> /\ Size(f) = 3
  BY <1>2, BytesOf
<1>4. held[q + 1] = Hi(f.pc) /\ held[q + 2] = Lo(f.pc) /\ held[q + 3] = p
  <2>1. 1 \in 1..Size(f) /\ 2 \in 1..Size(f) /\ 3 \in 1..Size(f)
    BY <1>3
  <2> QED
    BY <1>2, <1>3, <2>1
<1>5. f.pc \in Word /\ f.flags \in FlagSet
  BY <1>2 DEF FrameSet
<1>w. Lo(f.pc) + (ByteSize * Hi(f.pc)) = f.pc
  BY <1>5, HiLo
<1>p. p \in Byte /\ \A mc : IsMachine(mc) => Flags(vic_p_unpack(mc, p)) = f.flags
  <2>1. vic_p_pack(f.flags) \in Int
    BY <1>5 DEF FlagSet, vic_p_pack
  <2>2. p \in Int /\ p = vic_p_pack(f.flags) - 16 * 1
    BY <2>1
  <2> QED
    BY <1>5, <2>2, PackUnpack
<1> HIDE DEF f, q, p
<1>6. /\ q \in Nat /\ q + 1 \in Nat /\ q + 2 \in Nat
      /\ q + 1 <= 256 /\ (q + 1) + 1 <= 256 /\ (q + 2) + 1 <= 256
      /\ (q + 1) + 1 = q + 2 /\ (q + 2) + 1 = q + 3
  BY <1>2, <1>3
<1>7. IsMachine(m1) /\ Holds(m1, top, held, q + 2) /\ Top(m1) = p
  <2>1. Holds(cpu, top, held, (q + 2) + 1)
    BY <1>2, <1>3, <1>6
  <2>c. IsMachine(cpu) /\ top \in Byte /\ q + 2 \in Nat /\ (q + 2) + 1 <= 256
    BY <1>2, <1>6
  <2>2. IsMachine(m1) /\ Holds(m1, top, held, q + 2) /\ Top(m1) = held[(q + 2) + 1]
    BY <2>c, <2>1, PullByte
  <2> QED
    BY <1>4, <1>6, <2>2
<1> HIDE DEF m1
<1>8. IsMachine(u1) /\ Holds(u1, top, held, q + 2) /\ Flags(u1) = f.flags
  <2>1. IsMachine(u1) /\ u1.s = m1.s /\ u1.mem = m1.mem
    BY <1>7, <1>p, UnpackType
  <2>2. Flags(u1) = f.flags
    BY <1>7, <1>p
  <2> QED
    BY <1>7, <2>1, <2>2, HoldsSame
<1> HIDE DEF u1
<1>9. /\ IsMachine(m2) /\ Holds(m2, top, held, q + 1) /\ Top(m2) = held[q + 2]
      /\ Flags(m2) = f.flags
  <2>1. Holds(u1, top, held, (q + 1) + 1)
    BY <1>6, <1>8
  <2>2. /\ IsMachine(m2) /\ Holds(m2, top, held, q + 1) /\ Top(m2) = held[(q + 1) + 1]
        /\ Flags(m2) = Flags(u1)
    BY <1>2, <1>6, <1>8, <2>1, PullByte
  <2> QED
    BY <1>6, <1>8, <2>2
<1> HIDE DEF m2
<1>10. /\ IsMachine(m3) /\ Holds(m3, top, held, q) /\ Top(m3) = held[q + 1]
       /\ Flags(m3) = f.flags
  <2>1. /\ IsMachine(m3) /\ Holds(m3, top, held, q) /\ Top(m3) = held[q + 1]
        /\ Flags(m3) = Flags(m2)
    BY <1>2, <1>6, <1>9, PullByte
  <2> QED
    BY <1>9, <2>1
<1>11. cpu' = [m3 EXCEPT !.pc = Top(m2) + (ByteSize * Top(m3))]
  BY <1>1 DEF vic_rti, m1, u1, m2
<1> HIDE DEF m3
<1>12. cpu' = [m3 EXCEPT !.pc = f.pc]
  BY <1>4, <1>9, <1>10, <1>11, <1>w
<1>13. /\ IsMachine(cpu') /\ cpu'.s = m3.s /\ cpu'.mem = m3.mem /\ cpu'.pc = f.pc
       /\ Flags(cpu') = f.flags
  <2>1. /\ IsMachine(cpu') /\ cpu'.s = m3.s /\ cpu'.mem = m3.mem /\ cpu'.pc = f.pc
        /\ Flags(cpu') = Flags(m3)
    BY <1>5, <1>10, <1>12, SetPc
  <2> QED
    BY <1>10, <2>1
<1>14. Holds(cpu', top, held, q)
  BY <1>10, <1>13, HoldsSame
<1> QED
  BY <1>1, <1>13, <1>14, PopKeeps DEF f, q

(* PLA pops what PHA saved. *)
LEMMA PlaStep ==
  ASSUME FInv, vic_pla
  PROVE  Kept
<1> DEFINE f == Newest
           q == f.below
           m1 == Pulled(cpu)
<1>1. Popped("a") /\ cpu' = LoadA(m1, Top(m1))
  BY DEF vic_pla
<1>2. /\ IsMachine(cpu) /\ top \in Byte
      /\ f \in FrameSet /\ f.kind = "a"
      /\ q \in Nat /\ q + Size(f) <= 256
      /\ Holds(cpu, top, held, q + Size(f))
      /\ \A i \in 1..Size(f) : held[q + i] = Bytes(f)[i]
  BY <1>1, PopReady
<1>3. Bytes(f) = <<f.a>> /\ Size(f) = 1 /\ f.a \in Byte
  BY <1>2, BytesOf DEF FrameSet
<1>4. held[q + 1] = f.a
  BY <1>2, <1>3
<1> HIDE DEF f, q
<1>5. IsMachine(m1) /\ Holds(m1, top, held, q) /\ Top(m1) = f.a
  <2>1. q + 1 <= 256 /\ Holds(cpu, top, held, q + 1)
    BY <1>2, <1>3
  <2> QED
    BY <1>2, <1>4, <2>1, PullByte
<1> HIDE DEF m1
<1>6. Bit(f.a, 7) \in {0, 1} /\ Flag(f.a = 0) \in {0, 1}
  BY <1>3, BitType DEF Flag
<1>7. IsMachine(cpu') /\ cpu'.s = m1.s /\ cpu'.mem = m1.mem /\ cpu'.a = f.a
  BY <1>1, <1>3, <1>5, <1>6 DEF LoadA, vic_set_nz, IsMachine
<1>8. Holds(cpu', top, held, q)
  BY <1>5, <1>7, HoldsSame
<1> QED
  BY <1>1, <1>7, <1>8, PopKeeps DEF f, q

(* PLP pops what PHP saved. *)
LEMMA PlpStep ==
  ASSUME FInv, vic_plp
  PROVE  Kept
<1> DEFINE f == Newest
           q == f.below
           p == vic_p_pack(f.flags)
           m1 == Pulled(cpu)
<1>1. Popped("p") /\ cpu' = vic_p_unpack(m1, Top(m1))
  BY DEF vic_plp
<1>2. /\ IsMachine(cpu) /\ top \in Byte
      /\ f \in FrameSet /\ f.kind = "p"
      /\ q \in Nat /\ q + Size(f) <= 256
      /\ Holds(cpu, top, held, q + Size(f))
      /\ \A i \in 1..Size(f) : held[q + i] = Bytes(f)[i]
  BY <1>1, PopReady
<1>3. Bytes(f) = <<p>> /\ Size(f) = 1 /\ f.flags \in FlagSet
  BY <1>2, BytesOf DEF FrameSet
<1>4. held[q + 1] = p
  BY <1>2, <1>3
<1>p. p \in Byte /\ \A mc : IsMachine(mc) => Flags(vic_p_unpack(mc, p)) = f.flags
  <2>1. vic_p_pack(f.flags) \in Int
    BY <1>3 DEF FlagSet, vic_p_pack
  <2>2. p \in Int /\ p = vic_p_pack(f.flags) - 16 * 0
    BY <2>1
  <2> QED
    BY <1>3, <2>2, PackUnpack
<1> HIDE DEF f, q, p
<1>5. IsMachine(m1) /\ Holds(m1, top, held, q) /\ Top(m1) = p
  <2>1. q + 1 <= 256 /\ Holds(cpu, top, held, q + 1) /\ q \in Nat
    BY <1>2, <1>3
  <2>2. IsMachine(cpu) /\ top \in Byte
    BY <1>2
  <2>3. IsMachine(m1) /\ Holds(m1, top, held, q) /\ Top(m1) = held[q + 1]
    BY <2>1, <2>2, PullByte
  <2> QED
    BY <1>4, <2>3
<1> HIDE DEF m1
<1>6. IsMachine(cpu') /\ cpu'.s = m1.s /\ cpu'.mem = m1.mem
  BY <1>1, <1>5, <1>p, UnpackType
<1>7. Flags(cpu') = f.flags
  BY <1>1, <1>5, <1>p
<1>8. Holds(cpu', top, held, q)
  BY <1>5, <1>6, HoldsSame
<1> QED
  BY <1>1, <1>6, <1>7, <1>8, PopKeeps DEF f, q

(* Frames that are left alone still nest. *)
LEMMA NestedSame ==
  ASSUME FInv, held' = held, frames' = frames
  PROVE  Nested'
<1>1. \A j \in 1..Len(frames') :
        /\ End(frames'[j]) <= Len(held')
        /\ \A i \in 1..Size(frames'[j]) : held'[frames'[j].below + i] = Bytes(frames'[j])[i]
        /\ \A l \in 1..(j - 1) : End(frames'[l]) <= frames'[j].below
        /\ j > 1 => End(frames'[j - 1]) = frames'[j].below
        /\ j = Len(frames') => End(frames'[j]) = Len(held')
  BY DEF FInv, Nested
<1> QED
  BY <1>1 DEF Nested, End, Size, Bytes

(* Code that uses no stack keeps the invariant. *)
LEMMA ComputeStep ==
  ASSUME FInv, Compute
  PROVE  Kept
<1>1. IsMachine(cpu)
  BY DEF FInv, FType
<1>2. PICK v \in Values, pc \in Pcs :
        cpu' = vic_p_unpack([cpu EXCEPT !.a = v, !.pc = pc], v)
  BY DEF Compute
<1>3. v \in Byte /\ pc \in Word
  BY FramesAssumption DEF FramesAssumption
<1> DEFINE mc == [cpu EXCEPT !.a = v, !.pc = pc]
<1>4. IsMachine(mc) /\ mc.s = cpu.s /\ mc.mem = cpu.mem
  BY <1>1, <1>3 DEF IsMachine
<1> HIDE DEF mc
<1>5. IsMachine(cpu') /\ cpu'.s = cpu.s /\ cpu'.mem = cpu.mem
  BY <1>2, <1>3, <1>4, UnpackType DEF mc
<1>6. top' = top /\ held' = held /\ frames' = frames
  BY DEF Compute
<1>7. Holds(cpu', top, held, Len(held))
  BY <1>5, HoldsSame DEF FInv
<1>8. FInv'
  <2>1. FType'
    BY <1>5, <1>6 DEF FInv, FType
  <2>2. (Holds(cpu, top, held, Len(held)))'
    BY <1>6, <1>7 DEF Holds
  <2>3. Nested'
    BY <1>6, NestedSame
  <2> QED
    BY <2>1, <2>2, <2>3 DEF FInv
<1>9. ~ (Len(frames') < Len(frames))
  <2>1. Len(frames) \in Nat
    BY DEF FInv, FType
  <2> QED
    BY <1>6, <2>1
<1> QED
  BY <1>8, <1>9 DEF Kept
-----------------------------------------------------------------------------
(* The theorems. *)

(* An empty stack holds nothing. *)
LEMMA FInit ==
  ASSUME FramesInit
  PROVE  FInv
<1>1. IsMachine(cpu) /\ top = cpu.s /\ held = <<>> /\ frames = <<>>
  BY FramesAssumption DEF FramesInit, FramesAssumption
<1>2. top \in 0..255 /\ top \in Byte
  BY <1>1, ByteIs DEF IsMachine
<1>3. FType
  BY <1>1, <1>2 DEF FType
<1>4. Holds(cpu, top, held, Len(held))
  <2>1. B(top - 0) = top
    BY <1>2, ByteWrap
  <2>2. Len(held) = 0 /\ 1..Len(held) = {}
    BY <1>1
  <2> QED
    BY <1>1, <2>1, <2>2 DEF Holds
<1>5. Nested
  BY <1>1 DEF Nested
<1> QED
  BY <1>3, <1>4, <1>5 DEF FInv

(* Each step keeps the invariant and restores what it pops. *)
LEMMA FStep ==
  ASSUME FInv, FramesNext
  PROVE  Kept
<1>1. \/ Call \/ Interrupt \/ vic_pha \/ vic_php
      \/ Rts \/ Rti \/ vic_pla \/ vic_plp \/ Compute
  BY DEF FramesNext
<1> QED
  BY <1>1, CallStep, InterruptStep, PhaStep, PhpStep,
     RtsStep, RtiStep, PlaStep, PlpStep, ComputeStep

(* So does a step of the rest of the world. *)
LEMMA FStutter ==
  ASSUME FInv, UNCHANGED frameVars
  PROVE  FInv'
<1>1. cpu' = cpu /\ top' = top /\ held' = held /\ frames' = frames
  BY DEF frameVars
<1>2. FType'
  BY <1>1 DEF FInv, FType
<1>3. (Holds(cpu, top, held, Len(held)))'
  BY <1>1 DEF FInv, Holds
<1>4. Nested'
  BY <1>1, NestedSame
<1> QED
  BY <1>2, <1>3, <1>4 DEF FInv

(* The invariant says what page one holds. *)
LEMMA FHolds ==
  ASSUME FInv
  PROVE  StackHolds
  BY DEF FInv, Holds, StackHolds, Cell

(* The invariant is one of the specification. *)
LEMMA FramesInvariant == FramesSpec => []FInv
<1>1. FramesInit => FInv
  BY FInit
<1>2. FInv /\ [FramesNext]_frameVars => FInv'
  BY FStep, FStutter DEF Kept
<1> QED
  BY <1>1, <1>2, PTL DEF FramesSpec

(* Page one holds what was pushed, for every depth up to 256 bytes, every   *)
(* initial stack pointer and every order of calls, interrupts and saves.    *)
THEOREM StackKept == FramesSpec => []StackHolds
<1>1. FInv => StackHolds
  BY FHolds
<1> QED
  BY <1>1, FramesInvariant, PTL

(* RTS, RTI, PLA and PLP give back what JSR, an interrupt, PHA and PHP      *)
(* saved: the PC across the end of the address space too, every flag, A and *)
(* the stack pointer.                                                       *)
THEOREM FramesReturn == FramesSpec => ReturnsRestore
<1>1. FInv /\ [FramesNext]_frameVars
        => [Len(frames') < Len(frames) => Restored(frames[Len(frames)])]_frameVars
  BY FStep DEF Kept, Newest
<1> QED
  BY <1>1, FramesInvariant, PTL DEF FramesSpec, ReturnsRestore
=============================================================================
