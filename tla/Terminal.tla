------------------------------- MODULE Terminal -------------------------------
(***************************************************************************)
(* The text screen (console.rs): VirtualTerminal, which keeps the          *)
(* characters and remembers which rows have changed, and ConsoleRenderer,  *)
(* which brings the frame buffer up to date.  Operators only: Console.tla  *)
(* says who calls them.                                                    *)
(*                                                                         *)
(* A terminal is a record of the fields of VirtualTerminal, dirty_row      *)
(* being the set of the rows that are TRUE.  The frame buffer (back_lfb,   *)
(* which flush copies to the display) is a grid of character cells.  It    *)
(* has one column more than the terminal, because the cursor is drawn at   *)
(* the column where the next character would go, and one row more, for     *)
(* what lies below the last line.                                          *)
(***************************************************************************)
EXTENDS Integers

CONSTANTS
  BUFFER_HEIGHT,
  BUFFER_WIDTH,
  Char,          \* the bytes other than newline and backspace
  Unprintable    \* those among them that are painted as a space

ASSUME SizeAssumption ==
  /\ BUFFER_HEIGHT \in Nat /\ BUFFER_HEIGHT >= 2
  /\ BUFFER_WIDTH \in Nat /\ BUFFER_WIDTH >= 1

ASSUME CharAssumption ==
  /\ Unprintable \subseteq Char /\ " " \in Char \ Unprintable
  /\ Char \cap {"nl", "bs", "cursor", "window"} = {}

Rows == 0..(BUFFER_HEIGHT - 1)
Cols == 0..(BUFFER_WIDTH - 1)
LastRow == BUFFER_HEIGHT - 1

\* The rows and the columns of the frame buffer.
Lines == 0..BUFFER_HEIGHT
Places == 0..BUFFER_WIDTH

BlankRow == [c \in Cols |-> " "]

VirtualTerminal ==
  [buffer: [Rows -> [Cols -> Char]], dirty_row: SUBSET Rows,
   column_position: Places, row_position: Rows, needs_scroll: BOOLEAN]

mark_dirty(vt, S) == [vt EXCEPT !.dirty_row = @ \cup S]

\* Mutant: the row that the scroll uncovers is repainted, the one above it is not.
Scroll_one(vt) ==
  [mark_dirty(vt, {LastRow}) EXCEPT
     !.buffer = [r \in Rows |-> IF r = LastRow THEN BlankRow ELSE @[r + 1]],
     !.needs_scroll = TRUE,
     !.column_position = 0]

\* new_line in the last row: move the rows up and clear the last one.
Scroll(vt) ==
  [mark_dirty(vt, {LastRow, LastRow - 1}) EXCEPT
     !.buffer = [r \in Rows |-> IF r = LastRow THEN BlankRow ELSE @[r + 1]],
     !.needs_scroll = TRUE,
     !.column_position = 0]

new_line(vt) ==
  IF vt.row_position = LastRow
  THEN Scroll(vt)
  ELSE [mark_dirty(vt, {vt.row_position}) EXCEPT
          !.row_position = @ + 1,
          !.column_position = 0]

Backspace(vt) ==
  [mark_dirty(vt, {vt.row_position}) EXCEPT
     !.column_position = IF @ = 0 THEN 0 ELSE @ - 1]

Put(vt, byte) ==
  [mark_dirty(vt, {vt.row_position}) EXCEPT
     !.buffer[vt.row_position][vt.column_position] = byte,
     !.column_position = @ + 1]

Full(vt) == vt.column_position >= BUFFER_WIDTH

write_byte(vt, byte) ==
  CASE byte = "nl" -> new_line(vt)
    [] byte = "bs" -> Backspace(vt)
    [] OTHER -> Put(IF Full(vt) THEN new_line(vt) ELSE vt, byte)

\* write_byte will scroll the terminal.
Scrolls(vt, byte) ==
  vt.row_position = LastRow /\ (byte = "nl" \/ (byte # "bs" /\ Full(vt)))

------------------------------------------------------------------------------
(* Painting.                                                                *)

\* paint_char
Glyph(ch) == IF ch \in Unprintable THEN " " ELSE ch

\* Screen::scroll by the height of one line; what lies below the last line is copied
\* into it, and stays.
ScrolledUp(lfb) == [r \in Lines |-> IF r \in Rows THEN lfb[r + 1] ELSE lfb[r]]

\* The frame buffer after the scroll that is due.
Base(vt, lfb) == IF vt.needs_scroll THEN ScrolledUp(lfb) ELSE lfb

paint_dirty(vt, lfb) ==
  [r \in Lines |->
     [c \in Places |->
        IF r \in vt.dirty_row /\ c \in Cols THEN Glyph(vt.buffer[r][c]) ELSE Base(vt, lfb)[r][c]]]

paint_cursor(vt, lfb) ==
  [lfb EXCEPT ![vt.row_position][vt.column_position] = "cursor"]

\* Console::paint: the frame buffer, and the terminal that it leaves.
paint(vt, lfb) == paint_cursor(vt, paint_dirty(vt, lfb))
Painted(vt) == [vt EXCEPT !.dirty_row = {}, !.needs_scroll = FALSE]

------------------------------------------------------------------------------
(* What the dirty rows are for.                                             *)

\* Row r needs no painting: once the scroll that is due is done, it shows its
\* characters, and a cursor only where the cursor is.
RowIsRight(vt, lfb, r) ==
  \A c \in Cols :
    \/ Base(vt, lfb)[r][c] = Glyph(vt.buffer[r][c])
    \/ /\ r = vt.row_position /\ c = vt.column_position
       /\ Base(vt, lfb)[r][c] = "cursor"

\* A scroll does not move the marks along with the rows.  A row that had changed and
\* not been painted is left behind in its new place, wrong and not marked; so is every
\* row when a scroll is due already, because paint_dirty scrolls only once.
LeftBehind(vt, behind, byte) ==
  IF ~Scrolls(vt, byte) THEN behind
  ELSE IF vt.needs_scroll THEN Rows
  ELSE {r \in Rows : r + 1 \in vt.dirty_row \cup behind}
==============================================================================
