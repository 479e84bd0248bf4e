--------------------------------- MODULE Cga ---------------------------------
(***************************************************************************)
(* The text screen of kern/driver/console.c: cga_putc writes a character   *)
(* into the video memory at crt_pos and scrolls by one row when the cursor *)
(* leaves the screen.  It is compared with an endless sheet of paper of    *)
(* which the screen shows the last CRT_ROWS rows.                          *)
(***************************************************************************)
EXTENDS Integers

CONSTANTS
    CRT_ROWS,
    CRT_COLS,
    Glyphs,    \* printable characters
    MaxPuts    \* bound on characters written

CgaAssumption ==
    /\ CRT_ROWS \in Nat \ {0}
    /\ CRT_COLS \in Nat \ {0}
    /\ MaxPuts \in Nat
    /\ Glyphs \cap {"BS", "LF", "CR"} = {}

CRT_SIZE == CRT_ROWS * CRT_COLS

VARIABLES
    crt_buf,   \* [0..CRT_SIZE -> cells]: video memory and the cell behind it
    crt_pos,
    cursor,    \* the cursor register of the 6845
    paper,     \* the sheet: a cell for every position
    top,       \* the row of the sheet that is the screen's first
    puts

screen_vars == <<crt_buf, crt_pos, cursor, paper, top, puts>>

Sheet == 0..(CRT_SIZE + CRT_COLS * (MaxPuts + 1))

(* cga_init: the position is taken from the cursor that the firmware left,  *)
(* and so are the contents.                                                 *)
ScreenInit ==
    /\ crt_pos \in 0..(CRT_SIZE - 1)
    /\ cursor = crt_pos
    /\ crt_buf = [i \in 0..CRT_SIZE |-> IF i < CRT_SIZE THEN "bios" ELSE "beyond"]
    /\ paper = [i \in Sheet |-> IF i < CRT_SIZE THEN "bios" ELSE "blank"]
    /\ top = 0
    /\ puts = 0

(* The switch of cga_putc: video memory and position after the character.   *)
cga_write(c) ==
    CASE c = "BS" -> IF crt_pos > 0
                     THEN [buf |-> [crt_buf EXCEPT ![crt_pos - 1] = "blank"],
                           pos |-> crt_pos - 1]
                     ELSE [buf |-> crt_buf, pos |-> crt_pos]
      [] c = "LF" -> [buf |-> crt_buf,
                      pos |-> crt_pos + CRT_COLS - (crt_pos % CRT_COLS)]
      [] c = "CR" -> [buf |-> crt_buf, pos |-> crt_pos - (crt_pos % CRT_COLS)]
      [] OTHER    -> [buf |-> [crt_buf EXCEPT ![crt_pos] = c], pos |-> crt_pos + 1]

(* Faulty variant: the row that scrolling frees keeps its text.          *)
cga_scroll_unblanked(s) ==
    IF s.pos < CRT_SIZE THEN s
    ELSE [buf |-> [i \in 0..CRT_SIZE |->
                     IF i < CRT_SIZE - CRT_COLS THEN s.buf[i + CRT_COLS] ELSE s.buf[i]],
          pos |-> s.pos - CRT_COLS]

(* The memmove up by one row and the blank last row.                        *)
cga_scroll(s) ==
    IF s.pos < CRT_SIZE THEN s
    ELSE [buf |-> [i \in 0..CRT_SIZE |->
                     IF i < CRT_SIZE - CRT_COLS THEN s.buf[i + CRT_COLS]
                     ELSE IF i < CRT_SIZE THEN "blank" ELSE s.buf[i]],
          pos |-> s.pos - CRT_COLS]

(* The same character on the sheet, where nothing moves.                    *)
SheetPos == top * CRT_COLS + crt_pos

Typeset(c) ==
    CASE c = "BS" /\ crt_pos > 0 -> [paper EXCEPT ![SheetPos - 1] = "blank"]
      [] c \in Glyphs            -> [paper EXCEPT ![SheetPos] = c]
      [] OTHER                   -> paper

cga_putc(c) ==
    LET s == cga_write(c)
        t == cga_scroll(s)
    IN  /\ puts < MaxPuts
        /\ puts' = puts + 1
        /\ crt_buf' = t.buf
        /\ crt_pos' = t.pos
        /\ cursor' = t.pos
        /\ paper' = Typeset(c)
        /\ top' = IF s.pos >= CRT_SIZE THEN top + 1 ELSE top

ScreenStep == \E c \in Glyphs \cup {"BS", "LF", "CR"} : cga_putc(c)

ScreenSpec == ScreenInit /\ [][ScreenStep]_screen_vars

(***************************************************************************)
(* The screen shows the last rows of the sheet, for every mix of text,     *)
(* wrapped lines, new lines and backspaces over line ends (cga_putc); the  *)
(* cursor is where the next character goes, always on the screen, so that  *)
(* video memory is never written past its end.                             *)
(***************************************************************************)
ScreenOK ==
    /\ crt_pos \in 0..(CRT_SIZE - 1)
    /\ cursor = crt_pos
    /\ \A i \in 0..(CRT_SIZE - 1) : crt_buf[i] = paper[top * CRT_COLS + i]
    /\ crt_buf[CRT_SIZE] = "beyond"

==============================================================================
