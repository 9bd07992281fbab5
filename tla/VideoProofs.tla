---------------------------- MODULE VideoProofs ----------------------------
(***************************************************************************)
(* The frame fits the buffer of the host, and shows what the chip would,   *)
(* for every content of memory, every font and every width of the border.  *)
(***************************************************************************)
EXTENDS Video, FunctionTheorems, FiniteSetTheorems, TLAPS

(* A frame is being drawn of the size described, and the cell is one of it. *)
DispType ==
  /\ disp.cols \in 0..32 /\ disp.rows \in 0..32
  /\ cell \in Nat

OutInside == DOMAIN out \subseteq 0..(Width(disp) * Height(disp) - 1)

BInv == DispType /\ OutInside

-----------------------------------------------------------------------------
(* The caps of vic_describe hold for any value of the registers.            *)
LEMMA ColumnsRange == \A r2 : Columns(r2) \in 1..32
  BY DEF Columns

(* Rows are capped likewise. *)
LEMMA RowsRange == \A r3 : Rows(r3) \in 1..32
  BY DEF Rows

(* A described frame has 1 to 32 columns and rows. *)
LEMMA DescribeRange ==
  vic_describe.cols \in 1..32 /\ vic_describe.rows \in 1..32
<1>1. vic_describe.cols = Columns(vic_ram(36866))
  BY DEF vic_describe
<1>2. vic_describe.rows = Rows(vic_ram(36867))
  BY DEF vic_describe
<1> QED
  BY <1>1, <1>2, ColumnsRange, RowsRange

(* A point of a rectangle stored by rows.                                   *)
LEMMA RowMajor ==
  ASSUME NEW w \in Nat, NEW h \in Nat, NEW x \in Nat, NEW y \in Nat, x < w, y < h
  PROVE  (y * w) + x \in 0..(w * h - 1)
<1>1. (h - 1 - y) * w >= 0
  <2>1. h - 1 - y \in Nat
    OBVIOUS
  <2> QED
    BY <2>1
<1>2. (h - 1 - y) * w = h * w - w - y * w
  OBVIOUS
<1>3. h * w = w * h /\ w * h \in Nat /\ y * w \in Nat
  OBVIOUS
<1> QED
  BY <1>1, <1>2, <1>3

(* The column and the row of a cell.                                        *)
LEMMA CellPlace ==
  ASSUME NEW c \in 1..32, NEW r \in 1..32, NEW n \in Nat, n < c * r
  PROVE  n % c \in 0..(c - 1) /\ n \div c \in 0..(r - 1) /\ n = (n \div c) * c + (n % c)
<1>1. n % c \in 0..(c - 1) /\ n \div c \in Nat
  OBVIOUS
<1>2. n = c * (n \div c) + (n % c)
  OBVIOUS
<1>3. ~(n \div c >= r)
  <2> DEFINE q == n \div c
  <2>1. q \in Nat
    BY <1>1
  <2>2. SUFFICES ASSUME q >= r PROVE FALSE
    OBVIOUS
  <2>3. c * q >= c * r
    <3>1. c * (q - r) >= 0
      BY <2>1, <2>2
    <3>2. c * (q - r) = c * q - c * r
      BY <2>1
    <3> QED
      BY <3>1, <3>2, <2>1
  <2> QED
    BY <2>3, <1>1, <1>2
<1> QED
  BY <1>1, <1>2, <1>3

(* No pixel of a cell is outside of the frame.                              *)
LEMMA PixelInside ==
  ASSUME NEW dd, dd.cols \in 1..32, dd.rows \in 1..32,
         NEW n \in Nat, n < dd.cols * dd.rows, NEW ry \in 0..7, NEW b \in 0..7
  PROVE  PixelAt(dd, n, ry, b) \in 0..(Width(dd) * Height(dd) - 1)
<1> DEFINE y == VIC_BORDER + (n \div dd.cols) * 8 + ry
           x == VIC_BORDER + ((n % dd.cols) * 8) + b
<1>1. VIC_BORDER \in Nat
  BY VideoAssumption DEF VideoAssumption
<1>2. n % dd.cols \in 0..(dd.cols - 1) /\ n \div dd.cols \in 0..(dd.rows - 1)
  BY CellPlace
<1>3. Width(dd) \in Nat /\ Height(dd) \in Nat
  BY <1>1 DEF Width, Height
<1>4. y \in Nat /\ y < Height(dd)
  BY <1>1, <1>2 DEF Height
<1>5. x \in Nat /\ x < Width(dd)
  BY <1>1, <1>2 DEF Width
<1>6. (y * Width(dd)) + x \in 0..(Width(dd) * Height(dd) - 1)
  BY <1>3, <1>4, <1>5, RowMajor
<1>7. PixelAt(dd, n, ry, b) = (y * Width(dd)) + x
  BY <1>1, <1>2, <1>3, <1>4, <1>5 DEF PixelAt
<1> QED
  BY <1>6, <1>7

-----------------------------------------------------------------------------
(* No frame is drawn at the start. *)
LEMMA BInit == VideoInit => BInv
  BY DEF VideoInit, BInv, DispType, OutInside, NoFrame

(* Drawing a cell writes inside the frame only. *)
LEMMA BStep == BInv /\ [VideoNext]_videoVars => BInv'
<1> SUFFICES ASSUME BInv, [VideoNext]_videoVars PROVE BInv'
  OBVIOUS
<1>1. CASE UNCHANGED <<disp, out, cell>>
  BY <1>1 DEF BInv, DispType, OutInside, Width, Height
<1>2. CASE BeginFrame
  <2>1. disp'.cols \in 1..32 /\ disp'.rows \in 1..32 /\ cell' = 0
    BY <1>2, DescribeRange DEF BeginFrame
  <2>2. OutInside'
    BY <1>2 DEF BeginFrame, OutInside
  <2> QED
    BY <2>1, <2>2 DEF BInv, DispType
<1>3. CASE DrawCell
  <2>1. disp' = disp /\ cell' = cell + 1
    BY <1>3 DEF DrawCell
  <2>2. cell \in Nat /\ cell < disp.cols * disp.rows
    BY <1>3 DEF DrawCell, BInv, DispType
  <2>3. disp.cols \in 1..32 /\ disp.rows \in 1..32
    <3>1. disp.cols \in 0..32 /\ disp.rows \in 0..32
      BY DEF BInv, DispType
    <3>2. disp.cols # 0
      BY <3>1, <2>2
    <3>3. disp.rows # 0
      BY <3>1, <2>2
    <3> QED
      BY <3>1, <3>2, <3>3
  <2>4. \A p \in (0..7) \X (0..7) :
          PixelAt(disp, cell, p[1], p[2]) \in 0..(Width(disp) * Height(disp) - 1)
    BY <2>2, <2>3, PixelInside
  <2>5. DOMAIN out' = DOMAIN out \cup
          {PixelAt(disp, cell, p[1], p[2]) : p \in (0..7) \X (0..7)}
    BY <1>3 DEF DrawCell
  <2>6. OutInside'
    BY <2>1, <2>4, <2>5 DEF OutInside, BInv, Width, Height
  <2> QED
    BY <2>1, <2>2, <2>6 DEF BInv, DispType
<1> QED
  BY <1>1, <1>2, <1>3
     DEF VideoNext, videoVars, vic_set_default_regs, ProgramWrites, EndFrame

(* A frame of 32 by 32 cells at most fits the buffer. *)
LEMMA BInside == BInv => InsideBuffer
<1> SUFFICES ASSUME BInv PROVE InsideBuffer
  OBVIOUS
<1>1. VIC_BORDER \in Nat
  BY VideoAssumption DEF VideoAssumption
<1> QED
  BY <1>1 DEF BInv, DispType, OutInside, InsideBuffer, VIC_MAX_W, VIC_MAX_H, Width, Height

(* vic_render_rgba never writes outside of the frame it reports, and the    *)
(* frame fits VIC_MAX_W by VIC_MAX_H pixels, whatever the program left in   *)
(* memory.                                                                  *)
THEOREM FrameFits == VideoSpec => []InsideBuffer
<1>1. VideoSpec => []BInv
  BY BInit, BStep, PTL DEF VideoSpec
<1> QED
  BY <1>1, BInside, PTL

-----------------------------------------------------------------------------
(* Memory holds bytes, and stays as it was described while it is drawn.     *)
RamType == DOMAIN ram \subseteq Word /\ \A a \in DOMAIN ram : ram[a] \in Byte

StageInv ==
  /\ RamType
  /\ stage \in {"booted", "running", "describe", "draw", "drawn"}
  /\ stage = "booted" => ram = <<>>
  /\ stage = "running" => ram = DefaultRegs
  /\ stage \in {"draw", "drawn"} => disp = vic_describe

(* A byte as an interval. *)
LEMMA VideoByte == Byte = 0..255
  BY DEF Byte, ByteSize

(* A bit of a byte, by its number. *)
LEMMA BitOf ==
  ASSUME NEW b \in Byte
  PROVE  /\ \A j \in 0..7 : Bit(b, j) \in {0, 1}
         /\ Bit(b, 3) = (b \div 8) % 2 /\ Bit(b, 7) = (b \div 128) % 2
<1>1. b \in 0..255
  BY VideoByte
<1>2. \A j \in 0..7 : <<1, 2, 4, 8, 16, 32, 64, 128>>[j + 1] \in 1..128
  OBVIOUS
<1>3. \A k \in 1..128 : (b \div k) % 2 \in {0, 1}
  BY <1>1
<1>4. \A j \in 0..7 : Bit(b, j) \in {0, 1}
  BY <1>2, <1>3 DEF Bit
<1>5. Bit(b, 3) = (b \div 8) % 2 /\ Bit(b, 7) = (b \div 128) % 2
  BY DEF Bit
<1> QED
  BY <1>4, <1>5

(* What was never written reads as 0. *)
LEMMA RamRead == RamType => \A a : vic_ram(a) \in Byte
  BY VideoByte DEF RamType, vic_ram

(* Memory starts empty. *)
LEMMA StageInit == VideoInit => StageInv
<1>1. \A a : a \notin DOMAIN <<>>
  OBVIOUS
<1> QED
  BY <1>1 DEF VideoInit, StageInv, RamType

(* The default registers are bytes at words. *)
LEMMA DefaultType ==
  /\ DOMAIN DefaultRegs \subseteq Word
  /\ \A a \in DOMAIN DefaultRegs : DefaultRegs[a] \in Byte
<1> DEFINE regs == {36864, 36865, 36866, 36867, 36868, 36869, 36878, 36879}
<1>1. DOMAIN DefaultRegs = regs
  BY DEF DefaultRegs
<1>2. \A a \in Int : a >= 0 /\ a < 65536 => a \in Word
  <2>1. WordSize = 65536
    BY DEF WordSize, ByteSize
  <2>2. WordSize \in Nat
    BY <2>1
  <2>3. \A a \in Int : a >= 0 /\ a < WordSize => a \in Word
    BY <2>2 DEF Word
  <2> QED
    BY <2>1, <2>3
<1>3. \A a \in regs : a \in Word
  BY <1>2
<1>4. /\ DefaultRegs[36864] = 12 /\ DefaultRegs[36865] = 38 /\ DefaultRegs[36866] = 150
      /\ DefaultRegs[36867] = 46 /\ DefaultRegs[36868] = 0 /\ DefaultRegs[36869] = 240
      /\ DefaultRegs[36878] = 0 /\ DefaultRegs[36879] = 27
  BY DEF DefaultRegs
<1>5. \A v \in {12, 38, 150, 46, 0, 240, 27} : v \in Byte
  BY VideoByte
<1> QED
  BY <1>1, <1>3, <1>4, <1>5

(* Memory stays bytes at words when bytes are written to words. *)
LEMMA WrittenType ==
  ASSUME NEW w, DOMAIN w \subseteq Word, \A a \in DOMAIN w : w[a] \in Byte, RamType, ram' = Written(w)
  PROVE  RamType'
BY DEF RamType, Written

(* Each step keeps what the stages know of the memory. *)
LEMMA StageStep == StageInv /\ [VideoNext]_videoVars => StageInv'
<1> SUFFICES ASSUME StageInv, [VideoNext]_videoVars PROVE StageInv'
  OBVIOUS
<1>1. CASE vic_set_default_regs
  <2>1. RamType'
    BY <1>1, DefaultType, WrittenType DEF vic_set_default_regs, StageInv
  <2>2. ram = <<>> /\ ram' = Written(DefaultRegs)
    BY <1>1 DEF vic_set_default_regs, StageInv
  <2>3. DOMAIN ram \cup DOMAIN DefaultRegs = DOMAIN DefaultRegs
    BY <2>2
  <2>4. ram' = [a \in DOMAIN DefaultRegs |-> DefaultRegs[a]]
    BY <2>2, <2>3 DEF Written
  <2>5. DefaultRegs = [a \in DOMAIN DefaultRegs |-> DefaultRegs[a]]
    BY DEF DefaultRegs
  <2> QED
    BY <1>1, <2>1, <2>4, <2>5 DEF vic_set_default_regs, StageInv
<1>2. CASE ProgramWrites
  <2>1. PICK w \in Stores : ram' = Written(w)
    BY <1>2 DEF ProgramWrites
  <2>2. RamType'
    BY <2>1, WrittenType, VideoAssumption DEF VideoAssumption, StageInv
  <2> QED
    BY <1>2, <2>2 DEF ProgramWrites, StageInv
<1>3. ASSUME ram' = ram PROVE RamType' /\ vic_describe' = vic_describe
  <2>1. \A a : (IF a \in DOMAIN ram' THEN ram'[a] ELSE 0) = vic_ram(a)
    BY <1>3 DEF vic_ram
  <2>2. chargen_present' = chargen_present
    BY <1>3 DEF chargen_present, vic_ram
  <2>3. /\ vic_ram(36866)' = vic_ram(36866) /\ vic_ram(36867)' = vic_ram(36867)
        /\ vic_ram(36869)' = vic_ram(36869) /\ vic_ram(36878)' = vic_ram(36878)
        /\ vic_ram(36879)' = vic_ram(36879)
    BY <2>1 DEF vic_ram
  <2>4. vic_describe' = vic_describe
    BY <2>2, <2>3 DEF vic_describe
  <2> QED
    BY <1>3, <2>4 DEF StageInv, RamType
<1>4. CASE BeginFrame
  BY <1>3, <1>4 DEF BeginFrame, StageInv
<1>5. CASE DrawCell
  BY <1>3, <1>5 DEF DrawCell, StageInv
<1>6. CASE EndFrame
  BY <1>3, <1>6 DEF EndFrame, StageInv
<1>7. CASE UNCHANGED videoVars
  BY <1>3, <1>7 DEF videoVars, StageInv
<1> QED
  BY <1>1, <1>2, <1>4, <1>5, <1>6, <1>7 DEF VideoNext

(* It is an invariant of the specification. *)
LEMMA StageInvariant == VideoSpec => []StageInv
BY StageInit, StageStep, PTL DEF VideoSpec

(* The display that vic_set_default_regs programs, before the program       *)
(* writes anything, is the one its comment describes.                       *)
THEOREM DefaultFrame == VideoSpec => []DefaultDisplay
<1>1. StageInv => DefaultDisplay
  <2> SUFFICES ASSUME StageInv, stage = "running" PROVE DefaultDisplay
    BY DEF DefaultDisplay
  <2>1. ram = DefaultRegs
    BY DEF StageInv
  <2>2. /\ vic_ram(36866) = 150 /\ vic_ram(36867) = 46 /\ vic_ram(36869) = 240
        /\ vic_ram(36878) = 0 /\ vic_ram(36879) = 27
    BY <2>1 DEF vic_ram, DefaultRegs
  <2>3. ~chargen_present
    <3>1. \A a \in ChargenRom : a \in Int /\ a < 36864
      BY DEF ChargenRom
    <3>2. DOMAIN DefaultRegs = {36864, 36865, 36866, 36867, 36868, 36869, 36878, 36879}
      BY DEF DefaultRegs
    <3>3. \A a \in Int : a < 36864 => a \notin DOMAIN DefaultRegs
      BY <3>2
    <3>4. chargen_present <=> \E a \in ChargenRom : vic_ram(a) # 0
      BY DEF chargen_present
    <3> QED
      BY <2>1, <3>1, <3>3, <3>4 DEF vic_ram
  <2>4. Columns(150) = 22 /\ Rows(46) = 23
    BY DEF Columns, Rows
  <2>5. /\ Bit(150, 7) = 1 /\ Bit(27, 3) = 1
    <3>1. 150 \in Byte /\ 27 \in Byte
      BY VideoByte
    <3>2. Bit(150, 7) = (150 \div 128) % 2 /\ Bit(27, 3) = (27 \div 8) % 2
      BY <3>1, BitOf
    <3> QED
      BY <3>2
  <2>6. /\ nib_addr(240 % 16) = 32768 /\ nib_addr(240 \div 16) = 7168
    BY DEF nib_addr
  <2>7. /\ 27 \div 16 = 1 /\ 27 % 8 = 3 /\ 0 \div 16 = 0
    OBVIOUS
  <2>8. vic_describe =
          [cols |-> 22, rows |-> 23, screen |-> 7168 + 512 * 1, charbase |-> 32768,
           color |-> 37888 + 512 * 1, bg |-> 1, border |-> 3, normal |-> 1, aux |-> 0,
           builtin |-> 32768 \in ChargenRom /\ ~chargen_present]
    BY <2>2, <2>4, <2>5, <2>6, <2>7 DEF vic_describe
  <2>9. 7168 + 512 * 1 = 7680 /\ 37888 + 512 * 1 = 38400 /\ 32768 \in ChargenRom
    BY DEF ChargenRom
  <2> DEFINE builtin == 32768 \in ChargenRom /\ ~chargen_present
  <2>10. builtin = TRUE
    BY <2>3, <2>9
  <2> HIDE DEF builtin
  <2>11. vic_describe =
          [cols |-> 22, rows |-> 23, screen |-> 7168 + 512 * 1, charbase |-> 32768,
           color |-> 37888 + 512 * 1, bg |-> 1, border |-> 3, normal |-> 1, aux |-> 0,
           builtin |-> builtin]
    BY <2>8 DEF builtin
  <2> QED
    BY <2>9, <2>10, <2>11 DEF DefaultDisplay
<1> QED
  BY <1>1, StageInvariant, PTL

-----------------------------------------------------------------------------
(* The pixels of a frame. *)

(* What the readout gives pixel b of row ry of cell n, by the glyph row and  *)
(* the mode of the cell, and any pixel of the frame.                        *)
CellDrawn(n, ry, b) ==
  LET glyph   == GlyphRow(disp, n, ry)
      bit(j)  == Bit(glyph, IF disp.builtin THEN j ELSE 7 - j)
      left    == b - (b % 2)
      multi   == CASE <<bit(left), bit(left + 1)>> = <<0, 0>> -> disp.bg
                   [] <<bit(left), bit(left + 1)>> = <<0, 1>> -> disp.border
                   [] <<bit(left), bit(left + 1)>> = <<1, 0>> -> Fg(disp, n)
                   [] OTHER -> disp.aux
      single  == IF bit(b) = disp.normal THEN Fg(disp, n) ELSE disp.bg
  IN  IF Multi(disp, n) THEN multi ELSE single

Drawn(x, y) ==
  IF OnMatrix(x, y)
  THEN CellDrawn(CellAt(x, y), (y - VIC_BORDER) % 8, (x - VIC_BORDER) % 8)
  ELSE disp.border

InFrame(x, y) == x \in 0..(Width(disp) - 1) /\ y \in 0..(Height(disp) - 1)

(* The coordinates of pixel b of row ry of cell n.                          *)
PixelOf(x, y, n, ry, b) ==
  /\ x = VIC_BORDER + ((n % disp.cols) * 8) + b
  /\ y = VIC_BORDER + (n \div disp.cols) * 8 + ry

(* The border, and the cells before the next one, are drawn.                *)
PixelsShow ==
  \A x, y : InFrame(x, y) /\ (OnMatrix(x, y) => CellAt(x, y) < cell)
              => out[y * Width(disp) + x] = Drawn(x, y)

DrawInv ==
  stage \in {"draw", "drawn"} =>
    /\ cell \in 0..(disp.cols * disp.rows)
    /\ disp.cols * disp.rows > MaxCells => cell = 0
    /\ disp.cols * disp.rows <= MaxCells =>
         DOMAIN out = 0..(Width(disp) * Height(disp) - 1) /\ PixelsShow
    /\ stage = "drawn" => cell = disp.cols * disp.rows

(* A point of a rectangle stored by rows is at one place.                   *)
LEMMA RowMajorUnique ==
  ASSUME NEW w \in Nat, NEW x1 \in Nat, NEW x2 \in Nat, NEW y1 \in Nat, NEW y2 \in Nat,
         x1 < w, x2 < w, y1 * w + x1 = y2 * w + x2
  PROVE  x1 = x2 /\ y1 = y2
<1>1. ASSUME NEW u1 \in Nat, NEW u2 \in Nat, NEW v1 \in Nat, NEW v2 \in Nat,
             v1 < w, v2 < w, u1 * w + v1 = u2 * w + v2, u1 < u2
      PROVE  FALSE
  <2>1. u2 - u1 - 1 \in Nat
    BY <1>1
  <2>2. (u2 - u1 - 1) * w >= 0
    BY <2>1
  <2>3. (u2 - u1 - 1) * w = u2 * w - u1 * w - w
    OBVIOUS
  <2>4. u2 * w \in Nat /\ u1 * w \in Nat
    OBVIOUS
  <2> QED
    BY <1>1, <2>2, <2>3, <2>4
<1>2. y1 = y2
  BY <1>1
<1> QED
  BY <1>2

(* The quotient and the remainder of a place by the width.                  *)
LEMMA Quotient ==
  ASSUME NEW c \in Nat, NEW q \in Nat, NEW r \in Nat, r < c
  PROVE  (q * c + r) \div c = q /\ (q * c + r) % c = r
<1> DEFINE n == q * c + r
<1>1. n \in Nat /\ c > 0
  OBVIOUS
<1> HIDE DEF n
<1>2. n \div c \in Nat /\ n % c \in 0..(c - 1) /\ n = (n \div c) * c + (n % c)
  BY <1>1
<1>3. (n \div c) * c + (n % c) = q * c + r
  BY <1>2 DEF n
<1>4. n % c \in Nat /\ n % c < c
  BY <1>2
<1>5. n % c = r /\ n \div c = q
  BY <1>2, <1>3, <1>4, RowMajorUnique
<1> QED
  BY <1>5 DEF n

(* A coordinate inside the matrix, from its cell and its place in the cell. *)
LEMMA InCell ==
  ASSUME NEW k \in Nat, NEW j \in 0..7
  PROVE  /\ (k * 8 + j) \div 8 = k /\ (k * 8 + j) % 8 = j /\ (k * 8 + j) % 2 = j % 2
         /\ j - (j % 2) = 2 * (j \div 2) /\ j \div 2 \in 0..3
OBVIOUS

(* Each pixel of the matrix is one of a cell. *)
LEMMA PlaceOf ==
  ASSUME disp.cols \in 1..32, disp.rows \in 1..32, NEW x \in Int, NEW y \in Int, OnMatrix(x, y)
  PROVE  LET n == CellAt(x, y)
         IN  /\ n \in Nat /\ n < disp.cols * disp.rows
             /\ (x - VIC_BORDER) % 8 \in 0..7 /\ (y - VIC_BORDER) % 8 \in 0..7
             /\ PixelOf(x, y, n, (y - VIC_BORDER) % 8, (x - VIC_BORDER) % 8)
<1>1. PICK c \in 1..32, r \in 1..32 : c = disp.cols /\ r = disp.rows
  OBVIOUS
<1>2. VIC_BORDER \in Nat
  BY VideoAssumption DEF VideoAssumption
<1>3. PICK sx \in 0..(c * 8 - 1), sy \in 0..(r * 8 - 1) :
        sx = x - VIC_BORDER /\ sy = y - VIC_BORDER
  BY <1>1 DEF OnMatrix
<1>4. sx \div 8 \in 0..(c - 1) /\ sx % 8 \in 0..7 /\ sx = 8 * (sx \div 8) + (sx % 8)
  OBVIOUS
<1>5. sy \div 8 \in 0..(r - 1) /\ sy % 8 \in 0..7 /\ sy = 8 * (sy \div 8) + (sy % 8)
  OBVIOUS
<1>6. PICK p \in 0..(c - 1), q \in 0..(r - 1) : p = sx \div 8 /\ q = sy \div 8
  BY <1>4, <1>5
<1>7. CellAt(x, y) = q * c + p
  BY <1>1, <1>3, <1>6 DEF CellAt
<1>8. q * c + p \in 0..(c * r - 1)
  BY RowMajor
<1>9. (q * c + p) \div c = q /\ (q * c + p) % c = p
  BY Quotient
<1>10. CellAt(x, y) % disp.cols = p /\ CellAt(x, y) \div disp.cols = q
  BY <1>1, <1>7, <1>9
<1>11. x = VIC_BORDER + (p * 8) + (sx % 8) /\ y = VIC_BORDER + q * 8 + (sy % 8)
  BY <1>2, <1>3, <1>4, <1>5, <1>6
<1>12. CellAt(x, y) \in Nat /\ CellAt(x, y) < disp.cols * disp.rows
  BY <1>1, <1>7, <1>8
<1> QED
  BY <1>3, <1>4, <1>5, <1>10, <1>11, <1>12 DEF PixelOf

(* A coordinate x of pixel b of a cell that comes after p others, of c, and *)
(* a border of v in a width of w.                                           *)
Along(x, v, w, c, p, b) ==
  /\ x \in 0..(w - 1) /\ x - v \in 0..(c * 8 - 1)
  /\ (x - v) \div 8 = p /\ (x - v) % 8 = b /\ (x - v) % 2 = b % 2
  /\ \A i \in Nat : i + v + p * 8 + b = i + x

(* A coordinate on the matrix is that of a cell and a pixel in it. *)
LEMMA Coordinate ==
  ASSUME NEW v \in Nat, NEW c \in 1..32, NEW p \in 0..(c - 1), NEW b \in 0..7,
         NEW w, w = c * 8 + 2 * v, NEW x, x = v + p * 8 + b
  PROVE  Along(x, v, w, c, p, b)
<1>1. x - v = p * 8 + b /\ p \in Nat
  OBVIOUS
<1>2. (x - v) \div 8 = p /\ (x - v) % 8 = b /\ (x - v) % 2 = b % 2
  BY <1>1, InCell
<1> QED
  BY <1>1, <1>2 DEF Along

(* The pixels of a cell are in the matrix, and in that cell.                *)
LEMMA PixelPlace ==
  ASSUME disp.cols \in 1..32, disp.rows \in 1..32,
         NEW n \in Nat, n < disp.cols * disp.rows, NEW ry \in 0..7, NEW b \in 0..7,
         NEW x, NEW y, PixelOf(x, y, n, ry, b)
  PROVE  /\ InFrame(x, y) /\ OnMatrix(x, y) /\ CellAt(x, y) = n
         /\ (x - VIC_BORDER) % 8 = b /\ (y - VIC_BORDER) % 8 = ry
         /\ (x - VIC_BORDER) % 2 = b % 2
         /\ PixelAt(disp, n, ry, b) = y * Width(disp) + x
<1> DEFINE c == disp.cols
           r == disp.rows
           p == n % c
           q == n \div c
<1>1. VIC_BORDER \in Nat
  BY VideoAssumption DEF VideoAssumption
<1>2. p \in 0..(c - 1) /\ q \in 0..(r - 1) /\ n = q * c + p
  BY CellPlace
<1>3. x = VIC_BORDER + p * 8 + b /\ y = VIC_BORDER + q * 8 + ry
  BY DEF PixelOf
<1>4. c \in 1..32 /\ r \in 1..32
  OBVIOUS
<1>5. /\ Width(disp) = c * 8 + 2 * VIC_BORDER /\ Height(disp) = r * 8 + 2 * VIC_BORDER
      /\ disp.cols = c /\ disp.rows = r
  BY DEF Width, Height
<1>6. PixelAt(disp, n, ry, b) = (y * Width(disp)) + VIC_BORDER + p * 8 + b
  BY <1>3 DEF PixelAt
<1> HIDE DEF c, r, p, q
<1>7. /\ Along(x, VIC_BORDER, Width(disp), c, p, b)
      /\ Along(y, VIC_BORDER, Height(disp), r, q, ry)
  BY <1>1, <1>2, <1>3, <1>4, <1>5, Coordinate
<1>8. InFrame(x, y) /\ OnMatrix(x, y)
  <2>1. x - VIC_BORDER \in 0..(c * 8 - 1) /\ y - VIC_BORDER \in 0..(r * 8 - 1)
    BY <1>7 DEF Along
  <2>2. InFrame(x, y)
    BY <1>7 DEF InFrame, Along
  <2>3. OnMatrix(x, y)
    BY <1>5, <2>1 DEF OnMatrix
  <2> QED
    BY <2>2, <2>3
<1>9. CellAt(x, y) = n
  BY <1>2, <1>5, <1>7 DEF CellAt, Along
<1>10. y * Width(disp) \in Nat
  <2>1. y \in Nat /\ c * 8 + 2 * VIC_BORDER \in Nat
    BY <1>1, <1>4, <1>7 DEF Along
  <2> QED
    BY <1>5, <2>1
<1>11. PixelAt(disp, n, ry, b) = y * Width(disp) + x
  BY <1>6, <1>7, <1>10 DEF Along
<1> QED
  BY <1>7, <1>8, <1>9, <1>11 DEF Along

(* A row of a glyph is a byte, in the ROM, in RAM and in VIC_FONT.          *)
LEMMA GlyphByte ==
  ASSUME RamType, NEW dd, NEW n, NEW ry \in 0..7
  PROVE  GlyphRow(dd, n, ry) \in Byte
<1>1. \A a : vic_ram(a) \in Byte
  BY RamRead
<1>2. ASSUME NEW c \in Byte PROVE builtin_glyph(c)[ry] \in Byte
  <2> DEFINE ascii == IF c % 128 < 32 THEN (c % 128) + 64 ELSE c % 128
  <2>1. ascii - 32 \in 0..95
    BY VideoByte
  <2>2. builtin_glyph(c) = Font[ascii - 32]
    BY DEF builtin_glyph
  <2> HIDE DEF ascii
  <2> QED
    BY <2>1, <2>2, VideoAssumption DEF VideoAssumption
<1> QED
  BY <1>1, <1>2 DEF GlyphRow

(* The colour written for a pixel of a cell is the one of its place.        *)
LEMMA PixelShown ==
  ASSUME RamType, disp = vic_describe,
         NEW n \in Nat, n < disp.cols * disp.rows, NEW ry \in 0..7, NEW b \in 0..7,
         NEW x, NEW y, PixelOf(x, y, n, ry, b)
  PROVE  PixelColour(disp, n, ry, b) = Drawn(x, y)
<1> DEFINE byte == GlyphRow(disp, n, ry)
           bit(j) == Bit(byte, IF disp.builtin THEN j ELSE 7 - j)
           left == b - (b % 2)
<1>1. /\ OnMatrix(x, y) /\ CellAt(x, y) = n
      /\ (x - VIC_BORDER) % 8 = b /\ (y - VIC_BORDER) % 8 = ry
      /\ (x - VIC_BORDER) % 2 = b % 2
  <2>1. disp.cols \in 1..32 /\ disp.rows \in 1..32
    BY DescribeRange
  <2> QED
    BY <2>1, PixelPlace
<1>2. disp.normal \in {0, 1}
  <2>1. vic_ram(36879) \in Byte
    BY RamRead
  <2>2. disp.normal = Bit(vic_ram(36879), 3)
    BY DEF vic_describe
  <2> QED
    BY <2>1, <2>2, BitOf
<1>3. Drawn(x, y) =
        IF Multi(disp, n)
        THEN CASE <<bit(left), bit(left + 1)>> = <<0, 0>> -> disp.bg
               [] <<bit(left), bit(left + 1)>> = <<0, 1>> -> disp.border
               [] <<bit(left), bit(left + 1)>> = <<1, 0>> -> Fg(disp, n)
               [] OTHER -> disp.aux
        ELSE IF bit(b) = disp.normal THEN Fg(disp, n) ELSE disp.bg
  BY <1>1 DEF Drawn, CellDrawn
<1>4. byte \in Byte
  BY GlyphByte
<1>5. \A j \in 0..7 : Bit(byte, j) \in {0, 1}
  BY <1>4, BitOf
<1> HIDE DEF byte
<1>6. CASE Multi(disp, n)
  <2>1. ~disp.builtin
    BY <1>6 DEF Multi
  <2> DEFINE p == b \div 2
  <2>2. p \in 0..3 /\ left = 2 * p
    BY InCell
  <2>3. 7 - left = 7 - 2 * p /\ 7 - (left + 1) = 6 - 2 * p
    BY <2>2
  <2>4. PICK hi, lo \in {0, 1} : hi = Bit(byte, 7 - 2 * p) /\ lo = Bit(byte, 6 - 2 * p)
    <3>1. 7 - 2 * p \in 0..7 /\ 6 - 2 * p \in 0..7
      BY <2>2
    <3> QED
      BY <1>5, <3>1
  <2>5. bit(left) = hi /\ bit(left + 1) = lo
    BY <2>1, <2>3, <2>4
  <2>6. PixelColour(disp, n, ry, b)
          = <<disp.bg, disp.border, Fg(disp, n), disp.aux>>[1 + lo + 2 * hi]
    BY <1>6, <2>4 DEF PixelColour, MultiColour, byte
  <2> HIDE DEF bit, left
  <2>7. Drawn(x, y) = IF hi = 0 /\ lo = 0 THEN disp.bg
                      ELSE IF hi = 0 THEN disp.border
                      ELSE IF lo = 0 THEN Fg(disp, n) ELSE disp.aux
    BY <1>3, <1>6, <2>5
  <2> QED
    BY <2>6, <2>7
<1>7. CASE ~Multi(disp, n)
  <2>1. PICK lit \in {0, 1} : lit = bit(b)
    <3>1. b \in 0..7 /\ 7 - b \in 0..7
      OBVIOUS
    <3> QED
      BY <1>5, <3>1
  <2>2. PixelColour(disp, n, ry, b)
          = LET on == IF disp.normal = 1 THEN lit ELSE 1 - lit
            IN  IF on = 1 THEN Fg(disp, n) ELSE disp.bg
    BY <1>7, <2>1 DEF PixelColour, HiResColour, byte
  <2>3. Drawn(x, y) = IF lit = disp.normal THEN Fg(disp, n) ELSE disp.bg
    BY <1>3, <1>7, <2>1
  <2> HIDE DEF bit
  <2> QED
    BY <1>2, <2>1, <2>2, <2>3
<1> QED
  BY <1>6, <1>7

-----------------------------------------------------------------------------
(* Drawing. *)

(* Nothing is drawn at first. *)
LEMMA DrawInit == VideoInit => DrawInv
BY DEF VideoInit, DrawInv

(* A frame starts with its border everywhere. *)
LEMMA BeginShows == BeginFrame => DrawInv'
<1> SUFFICES ASSUME BeginFrame PROVE DrawInv'
  OBVIOUS
<1>1. /\ stage' = "draw" /\ cell' = 0 /\ disp'.cols \in 1..32 /\ disp'.rows \in 1..32
  BY DescribeRange DEF BeginFrame
<1>2. disp'.cols * disp'.rows \in Nat
  BY <1>1
<1>3. MaxCells \in Nat /\ VIC_BORDER \in Nat
  BY VideoAssumption DEF VideoAssumption
<1>4. ASSUME disp'.cols * disp'.rows <= MaxCells
      PROVE  (DOMAIN out = 0..(Width(disp) * Height(disp) - 1) /\ PixelsShow)'
  <2>1. out' = [i \in 0..(Width(disp') * Height(disp') - 1) |-> disp'.border]
    BY <1>4 DEF BeginFrame
  <2>2. ASSUME NEW x, NEW y, InFrame(x, y)', (OnMatrix(x, y) => CellAt(x, y) < cell)'
        PROVE  out'[y * Width(disp') + x] = Drawn(x, y)'
    <3>1. x \in 0..(Width(disp') - 1) /\ y \in 0..(Height(disp') - 1)
      BY <2>2 DEF InFrame
    <3>2. ~OnMatrix(x, y)'
      <4>1. ASSUME OnMatrix(x, y)' PROVE FALSE
        <5>1. PICK sx \in Nat, sy \in Nat : sx = x - VIC_BORDER /\ sy = y - VIC_BORDER
          BY <4>1 DEF OnMatrix
        <5>2. CellAt(x, y)' = (sy \div 8) * disp'.cols + (sx \div 8)
          BY <5>1 DEF CellAt
        <5>3. sy \div 8 \in Nat /\ sx \div 8 \in Nat
          OBVIOUS
        <5>4. (sy \div 8) * disp'.cols \in Nat
          BY <1>1, <5>3
        <5> QED
          BY <1>1, <2>2, <4>1, <5>2, <5>3, <5>4
      <4> QED
        BY <4>1
    <3>3. Drawn(x, y)' = disp'.border
      BY <3>2 DEF Drawn
    <3>4. Width(disp') \in Nat /\ Height(disp') \in Nat
      BY <1>1, <1>3 DEF Width, Height
    <3>5. x \in Nat /\ y \in Nat /\ x < Width(disp') /\ y < Height(disp')
      BY <3>1, <3>4
    <3>6. y * Width(disp') + x \in 0..(Width(disp') * Height(disp') - 1)
      BY <3>4, <3>5, RowMajor
    <3> QED
      BY <2>1, <3>3, <3>6
  <2> QED
    BY <2>1, <2>2 DEF PixelsShow
<1> QED
  BY <1>1, <1>2, <1>3, <1>4 DEF DrawInv

(* Drawing a cell shows its pixels, and leaves all others.                  *)
LEMMA DrawShows == StageInv /\ DrawInv /\ DrawCell => DrawInv'
<1> SUFFICES ASSUME StageInv, DrawInv, DrawCell PROVE DrawInv'
  OBVIOUS
<1>1. /\ stage = "draw" /\ stage' = stage /\ ram' = ram /\ disp' = disp /\ cell' = cell + 1
      /\ disp.cols * disp.rows <= MaxCells /\ cell < disp.cols * disp.rows
  BY DEF DrawCell
<1>2. RamType /\ disp = vic_describe
  BY <1>1 DEF StageInv
<1>3. disp.cols \in 1..32 /\ disp.rows \in 1..32
  BY <1>2, DescribeRange
<1>4. /\ DOMAIN out = 0..(Width(disp) * Height(disp) - 1) /\ PixelsShow
      /\ cell \in 0..(disp.cols * disp.rows)
  BY <1>1 DEF DrawInv
<1>5. cell \in Nat /\ disp.cols * disp.rows \in Nat
  <2>1. disp.cols * disp.rows \in Nat
    BY <1>3
  <2> QED
    BY <1>4, <2>1
<1> DEFINE at(p) == PixelAt(disp, cell, p[1], p[2])
           pixels == (0..7) \X (0..7)
<1>6. out' = [i \in DOMAIN out \cup {at(p) : p \in pixels} |->
                IF \E p \in pixels : at(p) = i
                THEN LET p == CHOOSE p \in pixels : at(p) = i
                     IN  PixelColour(disp, cell, p[1], p[2])
                ELSE out[i]]
  BY DEF DrawCell
<1>7. \A p \in pixels : at(p) \in DOMAIN out
  BY <1>1, <1>3, <1>4, <1>5, PixelInside
<1>8. VIC_BORDER \in Nat /\ Width(disp) \in Nat /\ Height(disp) \in Nat
  BY <1>3, VideoAssumption DEF VideoAssumption, Width, Height
<1>9. \A x, y : Drawn(x, y)' = Drawn(x, y)
  BY <1>1 DEF Drawn, CellDrawn, OnMatrix, CellAt, GlyphRow, Multi, Fg, CellColour, vic_ram
<1>10. ASSUME NEW x, NEW y, InFrame(x, y), OnMatrix(x, y) => CellAt(x, y) < cell + 1
       PROVE  out'[y * Width(disp) + x] = Drawn(x, y)
  <2> DEFINE i == y * Width(disp) + x
  <2>1. x \in Nat /\ y \in Nat /\ x < Width(disp) /\ y < Height(disp)
    BY <1>8, <1>10 DEF InFrame
  <2>2. i \in DOMAIN out
    BY <1>4, <1>8, <2>1, RowMajor
  <2> HIDE DEF at
  <2>3. CASE \E p \in pixels : at(p) = i
    <3> DEFINE p == CHOOSE p \in pixels : at(p) = i
    <3>1. p \in pixels /\ at(p) = i
      BY <2>3, Zenon
    <3>2. out'[i] = PixelColour(disp, cell, p[1], p[2])
      BY <1>6, <2>2, <2>3
    <3> HIDE DEF p
    <3>3. PICK ry \in 0..7, b \in 0..7 : p[1] = ry /\ p[2] = b
      BY <3>1
    <3> DEFINE px == VIC_BORDER + ((cell % disp.cols) * 8) + b
               py == VIC_BORDER + (cell \div disp.cols) * 8 + ry
    <3>4. PixelOf(px, py, cell, ry, b)
      BY DEF PixelOf
    <3> HIDE DEF px, py
    <3>5. InFrame(px, py) /\ PixelAt(disp, cell, ry, b) = py * Width(disp) + px
      BY <1>1, <1>3, <1>5, <3>4, PixelPlace
    <3>6. px \in Nat /\ py \in Nat /\ px < Width(disp) /\ py < Height(disp)
      BY <1>8, <3>5 DEF InFrame
    <3>7. py * Width(disp) + px = y * Width(disp) + x
      BY <3>1, <3>3, <3>5 DEF at
    <3>8. px = x /\ py = y
      BY <1>8, <2>1, <3>6, <3>7, RowMajorUnique
    <3>9. PixelColour(disp, cell, ry, b) = Drawn(x, y)
      BY <1>1, <1>2, <1>5, <3>4, <3>8, PixelShown
    <3> QED
      BY <3>2, <3>3, <3>9
  <2>4. CASE ~\E p \in pixels : at(p) = i
    <3>1. out'[i] = out[i]
      BY <1>6, <2>2, <2>4
    <3>2. ASSUME OnMatrix(x, y) PROVE CellAt(x, y) < cell
      <4> DEFINE n == CellAt(x, y)
                 ry == (y - VIC_BORDER) % 8
                 b == (x - VIC_BORDER) % 8
      <4>1. /\ n \in Nat /\ n < disp.cols * disp.rows /\ ry \in 0..7 /\ b \in 0..7
            /\ PixelOf(x, y, n, ry, b)
        BY <1>3, <2>1, <3>2, PlaceOf
      <4>2. n < cell + 1
        BY <1>10, <3>2
      <4> HIDE DEF n, ry, b
      <4>3. PixelAt(disp, n, ry, b) = y * Width(disp) + x
        BY <1>3, <4>1, PixelPlace
      <4>4. n # cell
        <5>1. <<ry, b>> \in pixels /\ <<ry, b>>[1] = ry /\ <<ry, b>>[2] = b
          BY <4>1
        <5>2. at(<<ry, b>>) # i
          BY <2>4, <5>1
        <5>3. at(<<ry, b>>) = PixelAt(disp, cell, ry, b)
          BY <5>1 DEF at
        <5> QED
          BY <4>3, <5>2, <5>3
      <4> QED
        BY <1>5, <4>1, <4>2, <4>4 DEF n
    <3>3. out[i] = Drawn(x, y)
      BY <1>4, <1>10, <3>2 DEF PixelsShow
    <3> QED
      BY <3>1, <3>3
  <2> QED
    BY <2>3, <2>4
<1>11. PixelsShow'
  <2>1. \A x, y : /\ InFrame(x, y)' <=> InFrame(x, y)
                  /\ OnMatrix(x, y)' <=> OnMatrix(x, y)
                  /\ CellAt(x, y)' = CellAt(x, y)
    BY <1>1 DEF InFrame, OnMatrix, CellAt
  <2> QED
    BY <1>1, <1>9, <1>10, <2>1 DEF PixelsShow
<1>12. DOMAIN out' = 0..(Width(disp') * Height(disp') - 1)
  <2>1. DOMAIN out' = DOMAIN out \cup {at(p) : p \in pixels}
    BY <1>6
  <2> QED
    BY <1>1, <1>4, <1>7, <2>1
<1>13. cell' \in 0..(disp'.cols * disp'.rows)
  BY <1>1, <1>5
<1>14. ~(disp'.cols * disp'.rows > MaxCells)
  <2>1. MaxCells \in Nat
    BY VideoAssumption DEF VideoAssumption
  <2> QED
    BY <1>1, <1>5, <2>1
<1> QED
  BY <1>1, <1>11, <1>12, <1>13, <1>14 DEF DrawInv

(* The other steps draw nothing.                                            *)
LEMMA DrawStep == StageInv /\ DrawInv /\ [VideoNext]_videoVars => DrawInv'
<1> SUFFICES ASSUME StageInv, DrawInv, [VideoNext]_videoVars PROVE DrawInv'
  OBVIOUS
<1>1. CASE vic_set_default_regs
  BY <1>1 DEF vic_set_default_regs, DrawInv
<1>2. CASE ProgramWrites
  BY <1>2 DEF ProgramWrites, DrawInv
<1>3. CASE BeginFrame
  BY <1>3, BeginShows
<1>4. CASE DrawCell
  BY <1>4, DrawShows
<1>5. ASSUME UNCHANGED <<ram, disp, out, cell>> PROVE PixelsShow' <=> PixelsShow
  <2>1. \A x, y : Drawn(x, y)' = Drawn(x, y)
    BY <1>5 DEF Drawn, CellDrawn, OnMatrix, CellAt, GlyphRow, Multi, Fg, CellColour, vic_ram
  <2>2. \A x, y : /\ InFrame(x, y)' <=> InFrame(x, y)
                  /\ OnMatrix(x, y)' <=> OnMatrix(x, y)
                  /\ CellAt(x, y)' = CellAt(x, y)
    BY <1>5 DEF InFrame, OnMatrix, CellAt
  <2> QED
    BY <1>5, <2>1, <2>2 DEF PixelsShow
<1>6. CASE EndFrame
  <2>1. /\ UNCHANGED <<ram, disp, out, cell>> /\ cell = disp.cols * disp.rows
        /\ stage = "draw" /\ stage' = "drawn"
    BY <1>6 DEF EndFrame
  <2> QED
    BY <1>5, <2>1 DEF DrawInv
<1>7. CASE UNCHANGED videoVars
  BY <1>5, <1>7 DEF videoVars, DrawInv
<1> QED
  BY <1>1, <1>2, <1>3, <1>4, <1>6, <1>7 DEF VideoNext

(* The invariant of the drawing is one of the specification. *)
LEMMA DrawInvariant == VideoSpec => []DrawInv
BY DrawInit, DrawStep, StageInvariant, PTL DEF VideoSpec

(* Every pixel of a drawn frame is the one that the readout gives it.       *)
FrameIsDrawn ==
  stage = "drawn" =>
    \A x \in 0..(Width(disp) - 1), y \in 0..(Height(disp) - 1) :
      out[y * Width(disp) + x] = Drawn(x, y)

(* At the end no cell is left. *)
LEMMA AllDrawn == StageInv /\ DrawInv => FrameIsDrawn
<1> SUFFICES ASSUME StageInv, DrawInv, stage = "drawn" PROVE FrameIsDrawn
  BY DEF FrameIsDrawn
<1>1. disp.cols \in 1..32 /\ disp.rows \in 1..32
  BY DescribeRange DEF StageInv
<1>2. VIC_BORDER \in Nat /\ MaxCells \in Nat
  BY VideoAssumption DEF VideoAssumption
<1>3. disp.cols * disp.rows \in Nat \ {0}
  BY <1>1
<1>4. cell = disp.cols * disp.rows /\ PixelsShow
  BY <1>2, <1>3 DEF DrawInv
<1>5. Width(disp) \in Nat /\ Height(disp) \in Nat
  BY <1>1, <1>2 DEF Width, Height
<1>6. ASSUME NEW x \in 0..(Width(disp) - 1), NEW y \in 0..(Height(disp) - 1)
      PROVE  out[y * Width(disp) + x] = Drawn(x, y)
  <2>1. InFrame(x, y)
    BY DEF InFrame
  <2>2. x \in Int /\ y \in Int
    BY <1>5
  <2>3. OnMatrix(x, y) => CellAt(x, y) < cell
    BY <1>1, <1>4, <2>2, PlaceOf
  <2> QED
    BY <1>4, <2>1, <2>3 DEF PixelsShow
<1> QED
  BY <1>6 DEF FrameIsDrawn

-----------------------------------------------------------------------------
(* What the chip shows. *)

(* The words. *)
LEMMA WordRange ==
  /\ WordSize \in Nat /\ WordSize = 65536
  /\ \A a : a \in Word <=> a \in Nat /\ a < 65536
<1>1. WordSize = 65536
  BY DEF WordSize, ByteSize
<1>2. WordSize \in Nat
  BY <1>1
<1>3. \A a : a \in Word <=> a \in Nat /\ a < WordSize
  BY <1>2 DEF Word
<1> QED
  BY <1>1, <1>2, <1>3

(* Inside the window of a nibble the addresses of the CPU that the readout  *)
(* adds up are those that the chip's address lines reach.                   *)
LEMMA Window ==
  ASSUME NEW nib \in 0..15, NEW k \in Nat, ((1024 * nib) % 8192) + k < 8192
  PROVE  nib_addr(nib) + k = ChipAddress(1024 * nib + k) /\ nib_addr(nib) + k \in Word
<1>1. CASE nib < 8
  <2>1. (1024 * nib) % 8192 = 1024 * nib
    BY <1>1
  <2>2. 1024 * nib + k \in Nat /\ 1024 * nib + k < 8192
    BY <2>1
  <2>3. (1024 * nib + k) % 16384 = 1024 * nib + k
    BY <2>2
  <2>4. nib_addr(nib) = 32768 + nib * 1024
    BY <1>1 DEF nib_addr
  <2>5. ChipAddress(1024 * nib + k) = 32768 + (1024 * nib + k)
    BY <2>2, <2>3 DEF ChipAddress
  <2>6. nib_addr(nib) + k = 32768 + (1024 * nib + k)
    BY <2>4
  <2>7. nib_addr(nib) + k \in Nat /\ nib_addr(nib) + k < 65536
    BY <2>2, <2>6
  <2> QED
    BY <2>5, <2>6, <2>7, WordRange
<1>2. CASE nib >= 8
  <2>1. (1024 * nib) % 8192 = 1024 * (nib - 8)
    BY <1>2
  <2>2. 1024 * nib + k \in Nat /\ 1024 * nib + k >= 8192 /\ 1024 * nib + k < 16384
    BY <1>2, <2>1
  <2>3. (1024 * nib + k) % 16384 = 1024 * nib + k
    BY <2>2
  <2>4. nib_addr(nib) = (nib - 8) * 1024
    BY <1>2 DEF nib_addr
  <2>5. ChipAddress(1024 * nib + k) = (1024 * nib + k) - 8192
    BY <2>2, <2>3 DEF ChipAddress
  <2>6. nib_addr(nib) + k = (1024 * nib + k) - 8192
    BY <2>4
  <2>7. nib_addr(nib) + k \in Nat /\ nib_addr(nib) + k < 65536
    BY <2>2, <2>6
  <2> QED
    BY <2>5, <2>6, <2>7, WordRange
<1> QED
  BY <1>1, <1>2

(* Half a nibble never leaves the window. *)
LEMMA HalfNibble ==
  ASSUME NEW nib \in 0..15, NEW high \in {0, 1}
  PROVE  (1024 * nib + 512 * high) % 8192 = ((1024 * nib) % 8192) + 512 * high
OBVIOUS

(* The fields of a byte. *)
LEMMA ByteFields ==
  ASSUME NEW r \in Byte
  PROVE  /\ r % 16 \in 0..15 /\ r \div 16 \in 0..15 /\ r % 8 \in 0..7
         /\ Bit(r, 7) = r \div 128 /\ Bit(r, 7) \in {0, 1} /\ (r >= 128 <=> Bit(r, 7) = 1)
         /\ Bit(r, 3) = 1 <=> (r % 16) >= 8
<1>1. r \in 0..255
  BY VideoByte
<1>2. Bit(r, 3) = (r \div 8) % 2 /\ Bit(r, 7) = (r \div 128) % 2
  BY BitOf
<1> QED
  BY <1>1, <1>2

(* The built-in font is used when the chip would read the absent ROM.       *)
LEMMA FontUsed ==
  ASSUME RamType, disp = vic_describe
  PROVE  disp.builtin <=> Substituted
<1> DEFINE nib == vic_ram(36869) % 16
<1>1. vic_ram(36869) \in Byte
  BY RamRead
<1>2. nib \in 0..15
  BY <1>1, ByteFields
<1>3. disp.builtin = (nib_addr(nib) \in ChargenRom /\ ~chargen_present)
  <2> DEFINE used == nib_addr(nib) \in ChargenRom /\ ~chargen_present
  <2>1. disp = [vic_describe EXCEPT !.builtin = used] /\ used \in BOOLEAN
    BY DEF vic_describe
  <2> HIDE DEF used
  <2>2. disp.builtin = used
    BY <2>1 DEF vic_describe
  <2> QED
    BY <2>2 DEF used
<1>4. Substituted <=>
        1024 * nib < 4096 /\ \A a \in DOMAIN ram : a \in ChargenRom => ram[a] = 0
  BY DEF Substituted, CharBase
<1> HIDE DEF nib
<1>5. nib_addr(nib) \in ChargenRom <=> 1024 * nib < 4096
  BY <1>2 DEF nib_addr, ChargenRom
<1>6. ~chargen_present <=> \A a \in DOMAIN ram : a \in ChargenRom => ram[a] = 0
  BY DEF chargen_present, vic_ram
<1>7. (nib_addr(nib) \in ChargenRom /\ ~chargen_present) <=> Substituted
  BY <1>4, <1>5, <1>6
<1> QED
  BY <1>3, <1>7, Zenon

(* The readout finds the code and the colour of a cell where the chip does. *)
LEMMA CodeRead ==
  ASSUME RamType, disp = vic_describe, NEW n \in Nat, n < 1024, InWindow(n)
  PROVE  vic_ram(W(disp.screen + n)) = ScreenCode(n) /\ CellColour(disp, n) = ColourCode(n)
<1> DEFINE nib  == vic_ram(36869) \div 16
           high == Bit(vic_ram(36866), 7)
<1>1. nib \in 0..15
  BY RamRead, ByteFields
<1>2. high \in {0, 1} /\ high = vic_ram(36866) \div 128
  BY RamRead, ByteFields
<1>3. vic_ram(36866) >= 128 <=> high = 1
  BY RamRead, ByteFields
<1>4. disp.screen = nib_addr(nib) + 512 * high /\ disp.color = 37888 + 512 * high
  BY DEF vic_describe
<1>5. MatrixBase = 1024 * nib + 512 * high
  BY <1>2 DEF MatrixBase
<1>6. (MatrixBase % 8192) + n < 8192
  BY DEF InWindow
<1>7. ScreenCode(n) = vic_ram(ChipAddress(MatrixBase + n))
  BY DEF ScreenCode
<1>8. ColourCode(n) = vic_ram((IF high = 1 THEN 38400 ELSE 37888) + n)
  BY <1>3 DEF ColourCode
<1>9. CellColour(disp, n) = vic_ram(W(disp.color + n))
  BY DEF CellColour
<1> HIDE DEF nib, high
<1>10. (1024 * nib + 512 * high) % 8192 = ((1024 * nib) % 8192) + 512 * high
  BY <1>1, <1>2, HalfNibble
<1>11. PICK k \in Nat : k = 512 * high + n
  BY <1>2
<1>12. ((1024 * nib) % 8192) + k < 8192
  <2>1. (1024 * nib) % 8192 \in Nat
    BY <1>1
  <2> QED
    BY <1>2, <1>5, <1>6, <1>10, <1>11, <2>1
<1>13. nib_addr(nib) + k = ChipAddress(1024 * nib + k) /\ nib_addr(nib) + k \in Word
  <2>1. \A q \in Nat : ((1024 * nib) % 8192) + q < 8192 =>
          nib_addr(nib) + q = ChipAddress(1024 * nib + q) /\ nib_addr(nib) + q \in Word
    BY <1>1, Window
  <2> QED
    BY <1>12, <2>1
<1>14. nib_addr(nib) \in Int
  BY <1>1 DEF nib_addr
<1>15. disp.screen + n = nib_addr(nib) + k /\ MatrixBase + n = 1024 * nib + k
  BY <1>1, <1>2, <1>4, <1>5, <1>11, <1>14
<1>16. \A a \in Word : W(a) = a
  BY WordRange DEF W
<1>17. vic_ram(W(disp.screen + n)) = ScreenCode(n)
  BY <1>7, <1>13, <1>15, <1>16
<1>18. /\ disp.color + n = (IF high = 1 THEN 38400 ELSE 37888) + n
       /\ disp.color + n \in Word
  <2>1. disp.color + n \in Nat /\ disp.color + n < 65536
    BY <1>2, <1>4
  <2> QED
    BY <1>2, <1>4, <2>1, WordRange
<1> QED
  BY <1>8, <1>9, <1>16, <1>17, <1>18

(* It finds the glyph where the chip does, or a glyph of the font.          *)
LEMMA GlyphRead ==
  ASSUME RamType, disp = vic_describe, NEW n \in Nat, n < 1024, InWindow(n), ~ReversedGlyph(n),
         NEW ry \in 0..7, NEW j \in 0..7
  PROVE  Bit(GlyphRow(disp, n, ry), IF disp.builtin THEN j ELSE 7 - j)
           = PatternBit(ScreenCode(n), ry, j)
<1> DEFINE c   == ScreenCode(n)
           nib == vic_ram(36869) % 16
<1>1. c \in Byte /\ nib \in 0..15
  BY RamRead, ByteFields DEF ScreenCode
<1>2. disp.builtin <=> Substituted
  BY FontUsed
<1>3. GlyphRow(disp, n, ry) =
        IF disp.builtin THEN builtin_glyph(c)[ry] ELSE vic_ram(W(disp.charbase + c * 8 + ry))
  BY CodeRead DEF GlyphRow
<1>4. CASE Substituted
  <2>1. c \in 0..127
    BY <1>1, <1>4, VideoByte DEF ReversedGlyph
  <2>2. builtin_glyph(c) = Font[IF c < 32 THEN c + 32 ELSE c - 32]
    <3>1. c % 128 = c
      BY <2>1
    <3>2. (IF c < 32 THEN c + 64 ELSE c) - 32 = IF c < 32 THEN c + 32 ELSE c - 32
      BY <2>1
    <3> HIDE DEF c
    <3> QED
      BY <3>1, <3>2 DEF builtin_glyph
  <2>3. PatternBit(c, ry, j) = Bit(Font[IF c < 32 THEN c + 32 ELSE c - 32][ry], j)
    <3>1. c % 128 = c /\ c < 128
      BY <2>1
    <3> HIDE DEF c
    <3> QED
      BY <1>4, <3>1 DEF PatternBit
  <2> QED
    BY <1>2, <1>3, <1>4, <2>2, <2>3
<1>5. CASE ~Substituted
  <2>1. disp.charbase = nib_addr(nib) /\ CharBase = 1024 * nib
    BY DEF vic_describe, CharBase
  <2>2. (CharBase % 8192) + 8 * c + 7 < 8192
    BY <1>5 DEF InWindow
  <2>3. PatternBit(c, ry, j) = Bit(vic_ram(ChipAddress(CharBase + 8 * c + ry)), 7 - j)
    BY <1>5 DEF PatternBit
  <2> HIDE DEF c, nib
  <2>4. c \in 0..255
    BY <1>1, VideoByte
  <2>5. PICK k \in Nat : k = 8 * c + ry
    BY <2>4
  <2>6. ((1024 * nib) % 8192) + k < 8192
    <3>1. (1024 * nib) % 8192 \in Nat
      BY <1>1
    <3> QED
      BY <2>1, <2>2, <2>4, <2>5, <3>1
  <2>7. nib_addr(nib) + k = ChipAddress(1024 * nib + k) /\ nib_addr(nib) + k \in Word
    BY <1>1, <2>6, Window
  <2>8. nib_addr(nib) \in Int
    BY <1>1 DEF nib_addr
  <2>9. disp.charbase + c * 8 + ry = nib_addr(nib) + k /\ CharBase + 8 * c + ry = 1024 * nib + k
    BY <1>1, <2>1, <2>4, <2>5, <2>8
  <2>10. \A a \in Word : W(a) = a
    BY WordRange DEF W
  <2>11. GlyphRow(disp, n, ry) = vic_ram(ChipAddress(CharBase + 8 * c + ry))
    BY <1>2, <1>3, <1>5, <2>7, <2>9, <2>10
  <2> QED
    BY <1>2, <1>5, <2>3, <2>11 DEF c
<1> QED
  BY <1>4, <1>5

(* A pixel of a cell is drawn as the chip shows it.                         *)
LEMMA CellRight ==
  ASSUME RamType, disp = vic_describe, NEW n \in Nat, n < 1024, InWindow(n), ~ReversedGlyph(n),
         NEW ry \in 0..7, NEW b \in 0..7
  PROVE  CellDrawn(n, ry, b) = CellShows(n, ry, b)
<1> DEFINE bit(j) == Bit(GlyphRow(disp, n, ry), IF disp.builtin THEN j ELSE 7 - j)
           shown(j) == PatternBit(ScreenCode(n), ry, j)
           left == b - (b % 2)
           back == vic_ram(36879) \div 16
           border == vic_ram(36879) % 8
           aux == vic_ram(36878) \div 16
           own == ColourCode(n) % 8
           pair == 2 * shown(left) + shown(left + 1)
<1>1. \A j \in 0..7 : bit(j) = shown(j)
  BY GlyphRead
<1>2. \A j \in 0..7 : bit(j) \in {0, 1}
  <2>1. GlyphRow(disp, n, ry) \in Byte
    BY GlyphByte
  <2>2. \A j \in 0..7 : j \in 0..7 /\ 7 - j \in 0..7
    OBVIOUS
  <2> QED
    BY <2>1, <2>2, BitOf
<1>3. left \in 0..7 /\ left + 1 \in 0..7
  OBVIOUS
<1>4. /\ disp.bg = back /\ disp.border = border /\ disp.aux = aux
      /\ disp.normal = Bit(vic_ram(36879), 3)
  BY DEF vic_describe
<1>5. vic_ram(36879) \in Byte /\ ColourCode(n) \in Byte
  BY RamRead DEF ColourCode
<1>6. disp.normal = (vic_ram(36879) \div 8) % 2 /\ disp.normal \in {0, 1}
  BY <1>4, <1>5, BitOf
<1>7. Fg(disp, n) = own
  BY CodeRead DEF Fg
<1>8. Multi(disp, n) <=> (ColourCode(n) % 16) >= 8 /\ ~Substituted
  <2>1. Bit(ColourCode(n), 3) = 1 <=> (ColourCode(n) % 16) >= 8
    BY <1>5, ByteFields
  <2> QED
    BY <2>1, CodeRead, FontUsed DEF Multi
<1>9. CellDrawn(n, ry, b) =
        IF Multi(disp, n)
        THEN CASE <<bit(left), bit(left + 1)>> = <<0, 0>> -> disp.bg
               [] <<bit(left), bit(left + 1)>> = <<0, 1>> -> disp.border
               [] <<bit(left), bit(left + 1)>> = <<1, 0>> -> Fg(disp, n)
               [] OTHER -> disp.aux
        ELSE IF bit(b) = disp.normal THEN Fg(disp, n) ELSE disp.bg
  BY DEF CellDrawn
<1>10. CellShows(n, ry, b) =
         IF (ColourCode(n) % 16) >= 8 /\ ~Substituted
         THEN <<back, border, own, aux>>[pair + 1]
         ELSE IF (shown(b) = 1) = ((vic_ram(36879) \div 8) % 2 = 1) THEN own ELSE back
  BY DEF CellShows
<1>11. PICK hi, lo, one \in {0, 1} : hi = bit(left) /\ lo = bit(left + 1) /\ one = bit(b)
  BY <1>2, <1>3
<1>12. hi = shown(left) /\ lo = shown(left + 1) /\ one = shown(b)
  BY <1>1, <1>3, <1>11
<1> HIDE DEF bit, shown, left, back, border, aux, own
<1>13. CASE Multi(disp, n)
  <2>1. CellDrawn(n, ry, b) = IF hi = 0 /\ lo = 0 THEN back
                              ELSE IF hi = 0 THEN border
                              ELSE IF lo = 0 THEN own ELSE aux
    BY <1>4, <1>7, <1>9, <1>11, <1>13
  <2>2. CellShows(n, ry, b) = <<back, border, own, aux>>[(2 * hi + lo) + 1]
    BY <1>8, <1>10, <1>12, <1>13
  <2> QED
    BY <2>1, <2>2
<1>14. CASE ~Multi(disp, n)
  <2>1. CellDrawn(n, ry, b) = IF one = disp.normal THEN own ELSE back
    BY <1>4, <1>7, <1>9, <1>11, <1>14
  <2>2. CellShows(n, ry, b) = IF (one = 1) = (disp.normal = 1) THEN own ELSE back
    BY <1>6, <1>8, <1>10, <1>12, <1>14
  <2>3. (one = disp.normal) <=> ((one = 1) <=> (disp.normal = 1))
    BY <1>6
  <2>4. (one = disp.normal) <=> ((one = 1) = (disp.normal = 1))
    BY <2>3
  <2> QED
    BY <2>1, <2>2, <2>4
<1> QED
  BY <1>13, <1>14

(* Each pixel of a drawn frame is what the chip would scan out there, as    *)
(* video.h describes it from memory and the registers, for every content of *)
(* memory, every font and every size of the matrix; but where the addresses *)
(* of a cell leave the chip's window, and in cells with a reversed code of  *)
(* the built-in font.                                                       *)
THEOREM FrameDrawn == VideoSpec => []FrameShows
<1>1. StageInv /\ FrameIsDrawn => FrameShows
  <2> SUFFICES ASSUME StageInv, FrameIsDrawn, stage = "drawn",
                      NEW x \in 0..(Width(disp) - 1), NEW y \in 0..(Height(disp) - 1),
                      ~(OnMatrix(x, y) /\ (~InWindow(CellAt(x, y)) \/ ReversedGlyph(CellAt(x, y))))
               PROVE  Drawn(x, y) = Shown(x, y)
    BY DEF FrameShows, FrameIsDrawn
  <2>1. RamType /\ disp = vic_describe
    BY DEF StageInv
  <2>2. disp.cols \in 1..32 /\ disp.rows \in 1..32
    BY <2>1, DescribeRange
  <2>3. CASE ~OnMatrix(x, y)
    <3>1. disp.border = vic_ram(36879) % 8
      BY <2>1 DEF vic_describe
    <3> QED
      BY <2>3, <3>1 DEF Drawn, Shown
  <2>4. CASE OnMatrix(x, y)
    <3>1. Width(disp) \in Nat /\ Height(disp) \in Nat
      BY <2>2, VideoAssumption DEF VideoAssumption, Width, Height
    <3>2. x \in Int /\ y \in Int
      BY <3>1
    <3> DEFINE n  == CellAt(x, y)
               ry == (y - VIC_BORDER) % 8
               b  == (x - VIC_BORDER) % 8
    <3>3. n \in Nat /\ n < disp.cols * disp.rows /\ ry \in 0..7 /\ b \in 0..7
      BY <2>2, <2>4, <3>2, PlaceOf
    <3>4. InWindow(n) /\ ~ReversedGlyph(n)
      BY <2>4
    <3>5. Drawn(x, y) = CellDrawn(n, ry, b) /\ Shown(x, y) = CellShows(n, ry, b)
      BY <2>4 DEF Drawn, Shown
    <3> HIDE DEF n, ry, b
    <3>6. n < 1024
      <4>1. \A c, r \in 1..32 : c * r \in Nat /\ c * r <= 1024
        OBVIOUS
      <4>2. disp.cols * disp.rows \in Nat /\ disp.cols * disp.rows <= 1024
        BY <2>2, <4>1
      <4> QED
        BY <3>3, <4>2
    <3> QED
      BY <2>1, <3>3, <3>4, <3>5, <3>6, CellRight
  <2> QED
    BY <2>3, <2>4
<1> QED
  BY <1>1, AllDrawn, StageInvariant, DrawInvariant, PTL

-----------------------------------------------------------------------------
(* The lit pixels. *)

(* Where the bit of pixel b of a row is, and which pixel bit b is.          *)
BitAt(b) == IF disp.builtin THEN b ELSE 7 - b

Matrix == (0..(disp.cols * 8 - 1)) \X (0..(disp.rows * 8 - 1))

DrawnSet ==
  {p \in Matrix : out[(VIC_BORDER + p[2]) * Width(disp) + VIC_BORDER + p[1]] # disp.bg}

BitSet ==
  {p \in (0..(disp.cols * disp.rows - 1)) \X (0..7) \X (0..7) :
     Bit(GlyphRow(disp, p[1], p[2]), p[3]) = 1}

(* The bit a pixel of the matrix comes from. *)
CellOf(p) == CellAt(VIC_BORDER + p[1], VIC_BORDER + p[2])
Source(p) == <<CellOf(p), p[2] % 8, BitAt(p[1] % 8)>>

PlainText ==
  /\ stage = "drawn" /\ disp.normal = 1
  /\ \A n \in 0..(cell - 1) : ~Multi(disp, n) /\ Fg(disp, n) # disp.bg

(* Taking a bit of a row twice is the pixel again. *)
LEMMA BitTwice == \A b \in 0..7 : BitAt(b) \in 0..7 /\ BitAt(BitAt(b)) = b
BY DEF BitAt

(* A pixel of the matrix, in the frame.                                     *)
LEMMA MatrixPlace ==
  ASSUME disp.cols \in 1..32, disp.rows \in 1..32, NEW p \in Matrix
  PROVE  LET x == VIC_BORDER + p[1]
             y == VIC_BORDER + p[2]
         IN  /\ OnMatrix(x, y) /\ InFrame(x, y)
             /\ x - VIC_BORDER = p[1] /\ y - VIC_BORDER = p[2]
             /\ CellOf(p) \in 0..(disp.cols * disp.rows - 1)
             /\ p[1] % 8 \in 0..7 /\ p[2] % 8 \in 0..7
             /\ PixelOf(x, y, CellOf(p), p[2] % 8, p[1] % 8)
<1>1. VIC_BORDER \in Nat
  BY VideoAssumption DEF VideoAssumption
<1>2. PICK sx \in 0..(disp.cols * 8 - 1), sy \in 0..(disp.rows * 8 - 1) :
        sx = p[1] /\ sy = p[2]
  BY DEF Matrix
<1> DEFINE x == VIC_BORDER + sx
           y == VIC_BORDER + sy
<1>3. sx \in Nat /\ sy \in Nat /\ sx < disp.cols * 8 /\ sy < disp.rows * 8
  BY <1>2
<1>4. x \in Int /\ y \in Int /\ x - VIC_BORDER = sx /\ y - VIC_BORDER = sy
  BY <1>1, <1>3
<1>5. x \in 0..(Width(disp) - 1) /\ y \in 0..(Height(disp) - 1)
  BY <1>1, <1>3 DEF Width, Height
<1> HIDE DEF x, y
<1>6. OnMatrix(x, y)
  BY <1>4 DEF OnMatrix
<1>7. InFrame(x, y)
  BY <1>5 DEF InFrame
<1>8. /\ CellAt(x, y) \in Nat /\ CellAt(x, y) < disp.cols * disp.rows
      /\ sx % 8 \in 0..7 /\ sy % 8 \in 0..7
      /\ PixelOf(x, y, CellAt(x, y), sy % 8, sx % 8)
  BY <1>4, <1>6, PlaceOf
<1>9. CellAt(x, y) \in 0..(disp.cols * disp.rows - 1)
  <2>1. disp.cols * disp.rows \in Nat
    OBVIOUS
  <2> QED
    BY <1>8, <2>1
<1>10. x = VIC_BORDER + p[1] /\ y = VIC_BORDER + p[2] /\ CellOf(p) = CellAt(x, y)
  BY <1>2 DEF x, y, CellOf
<1> QED
  BY <1>2, <1>4, <1>6, <1>7, <1>8, <1>9, <1>10

(* In plain text a pixel is drawn where its bit is set. *)
LEMMA PixelLit ==
  ASSUME StageInv, DrawInv, FrameIsDrawn, PlainText, NEW p \in Matrix
  PROVE  /\ Source(p) \in (0..(disp.cols * disp.rows - 1)) \X (0..7) \X (0..7)
         /\ p \in DrawnSet <=> Source(p) \in BitSet
<1>1. disp.cols \in 1..32 /\ disp.rows \in 1..32
  BY DescribeRange DEF StageInv, PlainText
<1> DEFINE x == VIC_BORDER + p[1]
           y == VIC_BORDER + p[2]
           n == CellOf(p)
           ry == p[2] % 8
           b == p[1] % 8
<1>2. /\ OnMatrix(x, y) /\ InFrame(x, y) /\ x - VIC_BORDER = p[1] /\ y - VIC_BORDER = p[2]
      /\ n \in 0..(disp.cols * disp.rows - 1) /\ b \in 0..7 /\ ry \in 0..7
  BY <1>1, MatrixPlace
<1>3. VIC_BORDER \in Nat /\ MaxCells \in Nat
  BY VideoAssumption DEF VideoAssumption
<1>4. cell = disp.cols * disp.rows
  BY DEF PlainText, DrawInv
<1>5. ~Multi(disp, n) /\ Fg(disp, n) # disp.bg
  BY <1>2, <1>4 DEF PlainText
<1>6. out[y * Width(disp) + x] = Drawn(x, y)
  BY <1>2 DEF FrameIsDrawn, PlainText, InFrame
<1>7. CellAt(x, y) = n
  BY DEF CellOf
<1>8. Bit(GlyphRow(disp, n, ry), BitAt(b)) \in {0, 1}
  BY <1>2, BitTwice, GlyphByte, BitOf DEF StageInv
<1> HIDE DEF x, y, n, ry, b
<1>9. Drawn(x, y) = IF Bit(GlyphRow(disp, n, ry), BitAt(b)) = disp.normal
                    THEN Fg(disp, n) ELSE disp.bg
  BY <1>2, <1>5, <1>7 DEF Drawn, CellDrawn, BitAt, ry, b
<1>10. Drawn(x, y) # disp.bg <=> Bit(GlyphRow(disp, n, ry), BitAt(b)) = 1
  BY <1>5, <1>9 DEF PlainText
<1>11. y * Width(disp) + VIC_BORDER + p[1] = y * Width(disp) + x
  <2>1. Width(disp) \in Nat /\ p[1] \in Nat /\ p[2] \in Nat
    BY <1>1, <1>3 DEF Width, Matrix
  <2>2. y \in Nat
    BY <1>3, <2>1 DEF y
  <2>3. y * Width(disp) \in Nat
    BY <2>1, <2>2
  <2>4. \A i, v, k \in Nat : i + v + k = i + (v + k)
    OBVIOUS
  <2> QED
    BY <1>3, <2>1, <2>3, <2>4 DEF x
<1>12. p \in DrawnSet <=> Drawn(x, y) # disp.bg
  BY <1>6, <1>11 DEF DrawnSet, y
<1>13. Source(p) = <<n, ry, BitAt(b)>>
  BY DEF Source, n, ry, b
<1>14. BitAt(b) \in 0..7
  BY <1>2, BitTwice
<1> QED
  BY <1>2, <1>10, <1>12, <1>13, <1>14 DEF BitSet

(* The bits that are set and the pixels that are drawn are as many.         *)
LEMMA LitBijection ==
  ASSUME StageInv, DrawInv, FrameIsDrawn, PlainText
  PROVE  IsFiniteSet(DrawnSet) /\ ExistsBijection(DrawnSet, BitSet)
<1>1. disp.cols \in 1..32 /\ disp.rows \in 1..32
  BY DescribeRange DEF StageInv, PlainText
<1>2. VIC_BORDER \in Nat
  BY VideoAssumption DEF VideoAssumption
<1>3. IsFiniteSet(DrawnSet)
  <2>1. IsFiniteSet(0..(disp.cols * 8 - 1)) /\ IsFiniteSet(0..(disp.rows * 8 - 1))
    <3>1. 0 \in Int /\ disp.cols * 8 - 1 \in Int /\ disp.rows * 8 - 1 \in Int
      BY <1>1
    <3> QED
      BY <3>1, FS_Interval
  <2>2. IsFiniteSet(Matrix)
    BY <2>1, FS_Product DEF Matrix
  <2>3. DrawnSet \subseteq Matrix
    BY DEF DrawnSet
  <2> QED
    BY <2>2, <2>3, FS_Subset
<1> DEFINE F == [p \in DrawnSet |-> Source(p)]
<1>4. \A p \in DrawnSet : p \in Matrix
  BY DEF DrawnSet
<1>5. F \in [DrawnSet -> BitSet]
  BY <1>4, PixelLit
<1>6. ASSUME NEW p \in DrawnSet, NEW q \in DrawnSet, F[p] = F[q] PROVE p = q
  <2>1. Source(p) = Source(q)
    BY <1>6
  <2>2. CellOf(p) = CellOf(q) /\ p[2] % 8 = q[2] % 8 /\ BitAt(p[1] % 8) = BitAt(q[1] % 8)
    BY <2>1 DEF Source
  <2>3. /\ PixelOf(VIC_BORDER + p[1], VIC_BORDER + p[2], CellOf(p), p[2] % 8, p[1] % 8)
        /\ PixelOf(VIC_BORDER + q[1], VIC_BORDER + q[2], CellOf(q), q[2] % 8, q[1] % 8)
        /\ p[1] % 8 \in 0..7 /\ q[1] % 8 \in 0..7
    BY <1>1, <1>4, MatrixPlace
  <2>4. p[1] % 8 = q[1] % 8
    <3>1. BitAt(BitAt(p[1] % 8)) = p[1] % 8 /\ BitAt(BitAt(q[1] % 8)) = q[1] % 8
      BY <2>3, BitTwice
    <3> QED
      BY <2>2, <3>1
  <2>5. VIC_BORDER + p[1] = VIC_BORDER + q[1] /\ VIC_BORDER + p[2] = VIC_BORDER + q[2]
    BY <2>2, <2>3, <2>4 DEF PixelOf
  <2>6. /\ p[1] \in Nat /\ q[1] \in Nat /\ p[2] \in Nat /\ q[2] \in Nat
        /\ p = <<p[1], p[2]>> /\ q = <<q[1], q[2]>>
    BY <1>4, <1>1 DEF Matrix
  <2>7. p[1] = q[1] /\ p[2] = q[2]
    BY <1>2, <2>5, <2>6
  <2> QED
    BY <2>6, <2>7
<1>7. ASSUME NEW t \in BitSet PROVE \E p \in DrawnSet : F[p] = t
  <2>1. PICK n \in 0..(disp.cols * disp.rows - 1), ry \in 0..7, j \in 0..7 : t = <<n, ry, j>>
    BY DEF BitSet
  <2> DEFINE b == BitAt(j)
             x == VIC_BORDER + ((n % disp.cols) * 8) + b
             y == VIC_BORDER + (n \div disp.cols) * 8 + ry
             p == <<x - VIC_BORDER, y - VIC_BORDER>>
  <2>2. b \in 0..7 /\ BitAt(b) = j
    BY BitTwice
  <2>3. n \in Nat /\ n < disp.cols * disp.rows
    <3>1. disp.cols * disp.rows \in Nat
      BY <1>1
    <3> QED
      BY <3>1
  <2>4. PixelOf(x, y, n, ry, b)
    BY DEF PixelOf
  <2> HIDE DEF b, x, y
  <2>5. /\ OnMatrix(x, y) /\ InFrame(x, y) /\ CellAt(x, y) = n
        /\ (x - VIC_BORDER) % 8 = b /\ (y - VIC_BORDER) % 8 = ry
    BY <1>1, <2>2, <2>3, <2>4, PixelPlace
  <2>6. p \in Matrix /\ p[1] = x - VIC_BORDER /\ p[2] = y - VIC_BORDER
    BY <2>5 DEF OnMatrix, Matrix
  <2>7. VIC_BORDER + p[1] = x /\ VIC_BORDER + p[2] = y
    <3>1. x \in Int /\ y \in Int
      BY <2>5 DEF InFrame
    <3> QED
      BY <1>2, <2>6, <3>1
  <2> HIDE DEF p
  <2>8. Source(p) = t
    BY <2>1, <2>2, <2>5, <2>6, <2>7 DEF Source, CellOf
  <2>9. p \in DrawnSet
    BY <2>6, <2>8, PixelLit
  <2> QED
    BY <2>8, <2>9
<1>8. F \in Bijection(DrawnSet, BitSet)
  BY <1>5, <1>6, <1>7, Fun_IsBij
<1> QED
  BY <1>3, <1>8 DEF ExistsBijection

(* vic_lit_pixels counts the pixels that vic_render_rgba draws in another   *)
(* colour than the background, in a frame that is neither reversed nor      *)
(* multicoloured and where no character has the background's colour.        *)
THEOREM LitPixelsCount == VideoSpec => []LitPixelsAreDrawn
<1>1. StageInv /\ DrawInv /\ FrameIsDrawn => LitPixelsAreDrawn
  <2> SUFFICES ASSUME StageInv, DrawInv, FrameIsDrawn, PlainText
               PROVE  vic_lit_pixels = Cardinality(DrawnSet)
    BY DEF LitPixelsAreDrawn, PlainText, DrawnSet, Matrix
  <2>1. disp = vic_describe
    BY DEF StageInv, PlainText
  <2>2. vic_lit_pixels = Cardinality(BitSet)
    BY <2>1 DEF vic_lit_pixels, LitBits, BitSet
  <2>3. IsFiniteSet(DrawnSet) /\ ExistsBijection(DrawnSet, BitSet)
    BY LitBijection
  <2> QED
    BY <2>2, <2>3, FS_Bijection
<1> QED
  BY <1>1, AllDrawn, StageInvariant, DrawInvariant, PTL
=============================================================================
