------------------------------- MODULE Video -------------------------------
(***************************************************************************)
(* The display readout of video.c: a frame is drawn from vic_ram into a    *)
(* buffer of the host, cell by cell, at the place and with the colours the *)
(* registers at $9000 say.  The readout is one call: the program writes    *)
(* memory before it, never during it.  It reads vic_ram, not vic_io_hook.  *)
(***************************************************************************)
EXTENDS Words, FiniteSets

CONSTANTS
  VIC_BORDER,   \* pixels of border on each side, 16 in C
  Font,         \* VIC_FONT: the rows of glyph 0..95, bit 0 leftmost
  Stores,       \* what the program may write: functions from addresses to bytes
  MaxCells      \* larger screens are described but not drawn

VIC_MAX_W == 32 * 8 + 2 * VIC_BORDER
VIC_MAX_H == 32 * 8 + 2 * VIC_BORDER

ASSUME VideoAssumption ==
  /\ VIC_BORDER \in Nat /\ MaxCells \in Nat
  /\ Font \in [0..95 -> [0..7 -> Byte]]
  /\ \A s \in Stores : DOMAIN s \subseteq Word /\ \A a \in DOMAIN s : s[a] \in Byte

VARIABLES
  ram,      \* the bytes of vic_ram that were written; the others are 0
  stage,    \* "booted", "running", "describe", "draw", "drawn"
  disp,     \* d of vic_render_rgba, when drawing
  out,      \* the colour index of each pixel written
  cell      \* cy * cols + cx, the next cell to draw

videoVars == <<ram, stage, disp, out, cell>>

vic_ram(a) == IF a \in DOMAIN ram THEN ram[a] ELSE 0

Written(s) == [a \in DOMAIN ram \cup DOMAIN s |-> IF a \in DOMAIN s THEN s[a] ELSE ram[a]]

-----------------------------------------------------------------------------
(* The description of a frame. *)

(* Mutants: the address line A13 is not inverted, and columns are not capped.*)
nib_addr_NoInversion(nib) == nib * 1024
Columns_NoCap(r2) == IF r2 % 128 < 1 THEN 22 ELSE r2 % 128

(* The VIC sees $0000 of the CPU at $2000 and $8000 at $0000.               *)
nib_addr(nib) == IF nib >= 8 THEN (nib - 8) * 1024 ELSE 32768 + nib * 1024

Columns(r2) == IF (r2 % 128) \in 1..32 THEN r2 % 128 ELSE 22
Rows(r3)    == IF ((r3 \div 2) % 64) \in 1..32 THEN (r3 \div 2) % 64 ELSE 23

(* $8000 to $8FFF, where a character ROM can be loaded. *)
ChargenRom == 32768..36863

chargen_present == \E a \in ChargenRom : vic_ram(a) # 0

vic_describe ==
  LET r2 == vic_ram(36866)   r3 == vic_ram(36867)   r5 == vic_ram(36869)
      rE == vic_ram(36878)   rF == vic_ram(36879)
      high == Bit(r2, 7)
      charbase == nib_addr(r5 % 16)
  IN  [cols |-> Columns(r2), rows |-> Rows(r3),
       screen |-> nib_addr(r5 \div 16) + (512 * high), charbase |-> charbase,
       color |-> 37888 + 512 * high,
       bg |-> rF \div 16, border |-> rF % 8, normal |-> Bit(rF, 3), aux |-> rE \div 16,
       builtin |-> charbase \in ChargenRom /\ ~chargen_present]

Width(d)  == d.cols * 8 + 2 * VIC_BORDER
Height(d) == d.rows * 8 + 2 * VIC_BORDER

-----------------------------------------------------------------------------
(* Glyphs. *)

builtin_glyph(c) ==
  LET ascii == IF c % 128 < 32 THEN (c % 128) + 64 ELSE c % 128
  IN  Font[ascii - 32]

(* Row ry of the glyph in cell n. *)
GlyphRow(d, n, ry) ==
  LET c == vic_ram(W(d.screen + n))
  IN  IF d.builtin THEN builtin_glyph(c)[ry] ELSE vic_ram(W(d.charbase + c * 8 + ry))

CellColour(d, n) == vic_ram(W(d.color + n))

Fg(d, n)    == CellColour(d, n) % 8
Multi(d, n) == Bit(CellColour(d, n), 3) = 1 /\ ~d.builtin

(* Mutant: the pairs of a multicolour row are taken from the right. *)
MultiColour_FromRight(d, n, byte, p) ==
  <<d.bg, d.border, Fg(d, n), d.aux>>[1 + Bit(byte, 2 * p) + 2 * Bit(byte, 2 * p + 1)]

(* The colours of pair p of a multicolour row, and of pixel b of any other. *)
MultiColour(d, n, byte, p) ==
  <<d.bg, d.border, Fg(d, n), d.aux>>[1 + Bit(byte, 6 - 2 * p) + 2 * Bit(byte, 7 - 2 * p)]

HiResColour(d, n, byte, b) ==
  LET lit == Bit(byte, IF d.builtin THEN b ELSE 7 - b)
      on  == IF d.normal = 1 THEN lit ELSE 1 - lit
  IN  IF on = 1 THEN Fg(d, n) ELSE d.bg

PixelColour(d, n, ry, b) ==
  LET byte == GlyphRow(d, n, ry)
  IN  IF Multi(d, n) THEN MultiColour(d, n, byte, b \div 2) ELSE HiResColour(d, n, byte, b)

-----------------------------------------------------------------------------
NoFrame ==
  [cols |-> 0, rows |-> 0, screen |-> 0, charbase |-> 0, color |-> 0, bg |-> 0,
   border |-> 0, normal |-> 0, aux |-> 0, builtin |-> FALSE]

VideoInit ==
  /\ ram = <<>> /\ stage = "booted"
  /\ disp = NoFrame /\ out = <<>> /\ cell = 0

DefaultRegs ==
  [a \in {36864, 36865, 36866, 36867, 36868, 36869, 36878, 36879} |->
     CASE a = 36864 -> 12   [] a = 36865 -> 38  [] a = 36866 -> 150 [] a = 36867 -> 46
       [] a = 36868 -> 0    [] a = 36869 -> 240 [] a = 36878 -> 0   [] a = 36879 -> 27]

vic_set_default_regs ==
  /\ stage = "booted"
  /\ stage' = "running"
  /\ ram' = Written(DefaultRegs)
  /\ UNCHANGED <<disp, out, cell>>

(* The program writes registers, screen, colours and characters.            *)
ProgramWrites ==
  /\ stage \in {"booted", "running"}
  /\ \E s \in Stores : ram' = Written(s)
  /\ stage' = "describe"
  /\ UNCHANGED <<disp, out, cell>>

(* vic_render_rgba up to the loop over the cells.                           *)
BeginFrame ==
  /\ stage = "describe"
  /\ stage' = "draw"
  /\ disp' = vic_describe
  /\ out' = IF disp'.cols * disp'.rows <= MaxCells
            THEN [i \in 0..(Width(disp') * Height(disp') - 1) |-> disp'.border]
            ELSE <<>>
  /\ cell' = 0
  /\ ram' = ram

PixelAt(d, n, ry, b) ==
  ((VIC_BORDER + (n \div d.cols) * 8 + ry) * Width(d)) + VIC_BORDER + ((n % d.cols) * 8) + b

DrawCell ==
  /\ stage = "draw"
  /\ disp.cols * disp.rows <= MaxCells
  /\ cell < disp.cols * disp.rows
  /\ LET at(p) == PixelAt(disp, cell, p[1], p[2])
         pixels == (0..7) \X (0..7)
     IN  out' = [i \in DOMAIN out \cup {at(p) : p \in pixels} |->
                   IF \E p \in pixels : at(p) = i
                   THEN LET p == CHOOSE p \in pixels : at(p) = i
                        IN  PixelColour(disp, cell, p[1], p[2])
                   ELSE out[i]]
  /\ cell' = cell + 1
  /\ UNCHANGED <<ram, stage, disp>>

EndFrame ==
  /\ stage = "draw"
  /\ cell = disp.cols * disp.rows
  /\ stage' = "drawn"
  /\ UNCHANGED <<ram, disp, out, cell>>

VideoNext ==
  vic_set_default_regs \/ ProgramWrites \/ BeginFrame \/ DrawCell \/ EndFrame

VideoSpec == VideoInit /\ [][VideoNext]_videoVars

(* The set bits of the glyphs on the screen.                                *)
LitBits(d) ==
  Cardinality({p \in (0..(d.cols * d.rows - 1)) \X (0..7) \X (0..7) :
                 Bit(GlyphRow(d, p[1], p[2]), p[3]) = 1})

(* Mutant: the count looks for every glyph in memory. *)
vic_lit_pixels_NoFont == LitBits([vic_describe EXCEPT !.builtin = FALSE])

vic_lit_pixels == LitBits(vic_describe)
-----------------------------------------------------------------------------
(* Properties. *)

(* Whatever is in the registers, the frame fits the buffer of VIC_MAX_W by  *)
(* VIC_MAX_H pixels that the host provides, and drawing stays inside the    *)
(* frame.                                                                   *)
InsideBuffer ==
  /\ Width(disp) <= VIC_MAX_W /\ Height(disp) <= VIC_MAX_H
  /\ DOMAIN out \subseteq 0..(Width(disp) * Height(disp) - 1)

(* The registers of mem.c, read by video.c, are the display its comment     *)
(* describes: "screen matrix $1E00, character base $8000, 22x23 8x8 text,   *)
(* white background, cyan border, normal (non-reverse) video".              *)
DefaultDisplay ==
  stage = "running" =>
    vic_describe = [cols |-> 22, rows |-> 23, screen |-> 7680, charbase |-> 32768,
                    color |-> 38400, bg |-> 1, border |-> 3, normal |-> 1, aux |-> 0,
                    builtin |-> TRUE]

(* What the chip scans out, from memory and the registers alone, as video.h *)
(* and docs/hardware.md describe it.  Its fourteen address lines see $8000  *)
(* of the CPU at 0 and $0000 at $2000.                                      *)
ChipAddress(a) == IF a % 16384 < 8192 THEN 32768 + (a % 16384) ELSE (a % 16384) - 8192

MatrixBase  == 1024 * (vic_ram(36869) \div 16) + 512 * (vic_ram(36866) \div 128)
CharBase    == 1024 * (vic_ram(36869) % 16)
ScreenCode(n) == vic_ram(ChipAddress(MatrixBase + n))
ColourCode(n) == vic_ram((IF vic_ram(36866) >= 128 THEN 38400 ELSE 37888) + n)

(* "When no CHARGEN ROM is present and a cell's glyph would come from the   *)
(* empty ROM region, a built-in 8x8 font is substituted."                   *)
Substituted == CharBase < 4096 /\ \A a \in DOMAIN ram : a \in ChargenRom => ram[a] = 0

(* Pixel b of row ry of the cell with code c, from the left.  VIC_FONT is   *)
(* ASCII from the blank on; codes from 128 are those 128 below, reversed.   *)
PatternBit(c, ry, b) ==
  LET glyph == Font[IF c % 128 < 32 THEN (c % 128) + 32 ELSE (c % 128) - 32]
  IN  IF ~Substituted THEN Bit(vic_ram(ChipAddress(CharBase + 8 * c + ry)), 7 - b)
      ELSE IF c < 128 THEN Bit(glyph[ry], b)
      ELSE 1 - Bit(glyph[ry], b)

(* Pairs of bits choose between four colours, single bits between two, and  *)
(* bit 3 of $900F says which is which.  A substituted glyph is text in any  *)
(* case.                                                                    *)
CellShows(n, ry, b) ==
  LET bit(j) == PatternBit(ScreenCode(n), ry, j)
      back   == vic_ram(36879) \div 16
      own    == ColourCode(n) % 8
      pair   == 2 * bit(b - (b % 2)) + bit(b - (b % 2) + 1)
  IN  IF (ColourCode(n) % 16) >= 8 /\ ~Substituted
      THEN <<back, vic_ram(36879) % 8, own, vic_ram(36878) \div 16>>[pair + 1]
      ELSE IF (bit(b) = 1) = ((vic_ram(36879) \div 8) % 2 = 1) THEN own ELSE back

(* The cell of a pixel of the frame, which the border surrounds.            *)
OnMatrix(x, y) ==
  x - VIC_BORDER \in 0..(disp.cols * 8 - 1) /\ y - VIC_BORDER \in 0..(disp.rows * 8 - 1)

CellAt(x, y) == ((y - VIC_BORDER) \div 8) * disp.cols + ((x - VIC_BORDER) \div 8)

Shown(x, y) ==
  IF OnMatrix(x, y)
  THEN CellShows(CellAt(x, y), (y - VIC_BORDER) % 8, (x - VIC_BORDER) % 8)
  ELSE vic_ram(36879) % 8

(* The readout adds to addresses of the CPU, so that it goes on past $1FFF  *)
(* or $9FFF where the chip's lines wrap.                                    *)
InWindow(n) ==
  /\ (MatrixBase % 8192) + n < 8192
  /\ Substituted \/ (CharBase % 8192) + 8 * ScreenCode(n) + 7 < 8192

ReversedGlyph(n) == Substituted /\ ScreenCode(n) >= 128

(* A drawn frame shows at each pixel what the chip would scan out there,    *)
(* but for cells whose addresses leave the chip's window and for reversed   *)
(* codes in the built-in font.                                              *)
FrameShows ==
  stage = "drawn" =>
    \A x \in 0..(Width(disp) - 1), y \in 0..(Height(disp) - 1) :
      \/ out[y * Width(disp) + x] = Shown(x, y)
      \/ /\ OnMatrix(x, y)
         /\ ~InWindow(CellAt(x, y)) \/ ReversedGlyph(CellAt(x, y))

(* builtin_glyph: "drop reverse bit; handled by caller".  Then a cell with  *)
(* that bit shows the glyph reversed.                                       *)
ReverseBitHandled ==
  stage = "drawn" =>
    \A x \in 0..(Width(disp) - 1), y \in 0..(Height(disp) - 1) :
      OnMatrix(x, y) /\ InWindow(CellAt(x, y)) /\ ReversedGlyph(CellAt(x, y)) =>
        out[y * Width(disp) + x] = Shown(x, y)

(* vic_lit_pixels counts the pixels of the matrix that are not background,  *)
(* provided that the frame is neither reversed nor multicoloured and that   *)
(* no character has the colour of the background.                           *)
LitPixelsAreDrawn ==
  stage = "drawn" /\ disp.normal = 1
    /\ (\A n \in 0..(cell - 1) : ~Multi(disp, n) /\ Fg(disp, n) # disp.bg)
  => vic_lit_pixels =
       Cardinality({p \in (0..(disp.cols * 8 - 1)) \X (0..(disp.rows * 8 - 1)) :
         out[(VIC_BORDER + p[2]) * Width(disp) + VIC_BORDER + p[1]] # disp.bg})
=============================================================================
