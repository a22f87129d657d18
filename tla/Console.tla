------------------------------- MODULE Console -------------------------------
(***************************************************************************)
(* What is on the screen: the framebuffer console                          *)
(* (drivers/framebuffer_print/framebuffer.c) and the VGA text console      *)
(* (drivers/vga_text/vga_text_ch_device.c), character by character.        *)
(*                                                                         *)
(* A screen is a record of its cursor and its cells, row by row.  The      *)
(* glyphs the framebuffer draws are the characters they stand for.         *)
(***************************************************************************)
EXTENDS Integers, Sequences

CONSTANTS
    WIDTH,    \* characters in a row
    HEIGHT    \* rows of the screen

Cells  == WIDTH * HEIGHT

(* Scrolling up leaves a row; the cursor of the VGA console is a uint16_t.  *)
ASSUME ScreenAssumption == WIDTH \in Nat \ {0} /\ HEIGHT \in Nat \ {0, 1} /\ Cells < 65536

BLANK  == " "
NEW_LINE   == "newline"
BACK_SPACE == "backspace"

(* A cell outside the screen is written to memory that is not the screen's. *)
Put(s, c) == [s EXCEPT !.cell = [i \in DOMAIN @ |-> IF i = s.cursor THEN c ELSE @[i]],
                       !.outside = @ \/ s.cursor \notin DOMAIN s.cell]

MoveTo(s, cursor) == [s EXCEPT !.cursor = cursor]

(* Up by a row, the last one blank. *)
slide_window(s) == [s EXCEPT
    !.cell = [i \in 0 .. (Cells - 1) |-> IF i + WIDTH < Cells THEN @[i + WIDTH] ELSE BLANK],
    !.slides = @ + 1]

(* The same, by pixels: a row of characters is CHAR_PIXEL_HEIGHT of these.  *)
slide_framebuffer(s) == slide_window(s)

Cleared == [cursor |-> 0, cell |-> [i \in 0 .. (Cells - 1) |-> BLANK],
            slides |-> 0, outside |-> FALSE]

-----------------------------------------------------------------------------
(* framebuffer_write; a backspace is a character like any other. *)
SlideLate(s, c) ==                                                  \* mutant
    LET next == IF c = NEW_LINE THEN MoveTo(s, (s.cursor \div WIDTH + 1) * WIDTH)
                ELSE MoveTo(Put(s, c), s.cursor + 1)
    IN IF next.cursor > Cells THEN MoveTo(slide_framebuffer(next), next.cursor - WIDTH) ELSE next
framebuffer_char(s, c) ==
    LET next == IF c = NEW_LINE THEN MoveTo(s, (s.cursor \div WIDTH + 1) * WIDTH)
                ELSE MoveTo(Put(s, c), s.cursor + 1)
    IN IF next.cursor >= Cells THEN MoveTo(slide_framebuffer(next), next.cursor - WIDTH) ELSE next

(* vga_text_write makes room before it writes, and not in the last cell.    *)
(* The cursor is a uint16_t.                                                *)
U16(x) == x % 65536

vga_text_char(s, c) ==
    LET room == IF s.cursor >= Cells - 1 THEN MoveTo(slide_window(s), U16(s.cursor - WIDTH)) ELSE s
        back == MoveTo(room, U16(room.cursor - 1))
    IN CASE c = NEW_LINE -> MoveTo(room, (room.cursor \div WIDTH + 1) * WIDTH)
         [] c = BACK_SPACE -> Put(back, BLANK)
         [] OTHER    -> MoveTo(Put(room, c), U16(room.cursor + 1))

Consoles == {"framebuffer", "vga"}

(* The screen behind every beginning of a text, and behind all of it. *)
Screens(console, text) ==
    LET after[n \in 0 .. Len(text)] ==
        IF n = 0 THEN Cleared
        ELSE IF console = "framebuffer" THEN framebuffer_char(after[n - 1], text[n])
        ELSE vga_text_char(after[n - 1], text[n])
    IN after

Write(console, text) == Screens(console, text)[Len(text)]

-----------------------------------------------------------------------------
(* The reference: paper without an end. *)
Sheet(rows) == [cursor |-> 0, cell |-> [i \in 0 .. (rows * WIDTH - 1) |-> BLANK],
                slides |-> 0, outside |-> FALSE]

Typed(console, text) ==
    LET erases == console = "vga"
        type(s, c) ==
            CASE c = NEW_LINE -> MoveTo(s, (s.cursor \div WIDTH + 1) * WIDTH)
              [] c = BACK_SPACE /\ erases -> Put(MoveTo(s, s.cursor - 1), BLANK)
              [] OTHER -> MoveTo(Put(s, c), s.cursor + 1)
        after[n \in 0 .. Len(text)] ==
            IF n = 0 THEN Sheet(Len(text) + HEIGHT) ELSE type(after[n - 1], text[n])
    IN after[Len(text)]

(* The screen is a window on that paper, at the place of the cursor. *)
WindowOn(screen, paper) ==
    /\ ~ screen.outside
    /\ screen.cursor + screen.slides * WIDTH = paper.cursor
    /\ \A i \in DOMAIN screen.cell :
          screen.cell[i] = paper.cell[i + screen.slides * WIDTH]

=============================================================================
