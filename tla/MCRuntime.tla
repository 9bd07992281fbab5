----------------------------- MODULE MCRuntime -----------------------------
(* The runtime library on its own: its arithmetic on every operand, the     *)
(* stack under a small program, or a frame of the display.  They share no   *)
(* state: each behaviour has one of them, and the others rest.              *)
EXTENDS Alu, Frames, Video

AllBytes  == Byte
NoBytes   == {}
BothModes == {0, 1}

(* A call at $FFFD pushes $FFFF and returns to 0: the carry goes into the   *)
(* page and out of the word.  The second byte pushed is the last of page one.*)
EdgePcs    == {65533}
OneValue   == {195}
NearTheEnd == {[vic_cpu_reset(<<>>) EXCEPT !.s = 1, !.pc = 65533]}

(* Glyphs that differ in each row, none of them symmetric.                  *)
FewGlyphs == [g \in 0..95 |-> [r \in 0..7 |-> B(177 * (r + 1) + g)]]

(* The registers $9002, $9003, $9005, $900E and $900F.                       *)
Registers(r2, r3, r5, rE, rF) ==
  [a \in {36866, 36867, 36869, 36878, 36879} |->
     CASE a = 36866 -> r2
       [] a = 36867 -> r3
       [] a = 36869 -> r5
       [] a = 36878 -> rE
       [] a = 36879 -> rF]

Shapes == {<<r2, r3>> : r2 \in {0, 1, 22, 32, 33, 127, 130, 255}, r3 \in {0, 3, 64, 65, 66, 255}}

Small == {<<r2, r3>> : r2 \in {1, 2, 129, 130}, r3 \in {2, 5}}

Merged(f, g) == [a \in DOMAIN f \cup DOMAIN g |-> IF a \in DOMAIN f THEN f[a] ELSE g[a]]

Cells(base, v, w) == [a \in base..(base + 1) |-> IF a = base THEN v ELSE w]

Characters(base, codes) ==
  [a \in {base + 8 * c + r : c \in codes, r \in {0, 3}} |-> B(9 * a + 27)]

(* A screen at $1E00 or $1C00 with two characters and their colours, and    *)
(* glyphs in the ROM, in RAM at $1400, or nowhere.                          *)
DrawnScreens ==
  UNION {
    LET screen == IF s[1] > 127 THEN 512 ELSE 0
        regs   == Registers(s[1], s[2], r5, 80, rF)
        text   == Merged(Cells(7168 + screen, c, e), Cells(37888 + screen, col, 6))
    IN  {Merged(regs, text), Merged(Merged(regs, text), Characters(32768, {c})),
         Merged(Merged(regs, text), Characters(5120, {c, e}))} :
    s \in Small, r5 \in {240, 253}, rF \in {27, 19}, c \in {1, 63}, e \in {34, 161},
    col \in {2, 13}}

Screens == DrawnScreens \cup {Registers(s[1], s[2], 240, 0, 27) : s \in Shapes}

RuntimeInit ==
  /\ FramesInit /\ VideoInit
  /\ \/ Init
     \/ /\ m = vic_cpu_reset(<<>>) /\ val = 0 /\ prev = m
        /\ last \in {"stack", "video"}

Arithmetic == Next /\ UNCHANGED <<frameVars, videoVars>>
StackUse   == last = "stack" /\ FramesNext /\ UNCHANGED <<vars, videoVars>>
Display    == last = "video" /\ VideoNext /\ UNCHANGED <<vars, frameVars>>

RuntimeNext == Arithmetic \/ StackUse \/ Display

RuntimeSpec == RuntimeInit /\ [][RuntimeNext]_<<vars, frameVars, videoVars>>
=============================================================================
