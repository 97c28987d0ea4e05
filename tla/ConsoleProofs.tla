----------------------------- MODULE ConsoleProofs -----------------------------
(***************************************************************************)
(* What Console guarantees for every size of the screen, every capacity of *)
(* the queues, every number of processes and any text.                     *)
(***************************************************************************)
EXTENDS Console, SequenceTheorems, TLAPS

------------------------------------------------------------------------------
(* What write_byte and paint do to the rows that need no painting.          *)

(* A terminal is known by its fields; what its cells contain does not       *)
(* matter.                                                                  *)

Fields == {"buffer", "dirty_row", "column_position", "row_position", "needs_scroll"}

HasFields(vt) == vt = [f \in Fields |-> vt[f]]

IsRow(row) == row = [c \in Cols |-> row[c]]

\* A VirtualTerminal with anything in its cells.
IsTerminal(vt) ==
  /\ HasFields(vt)
  /\ vt.buffer = [r \in Rows |-> vt.buffer[r]] /\ \A r \in Rows : IsRow(vt.buffer[r])
  /\ vt.dirty_row \subseteq Rows
  /\ vt.column_position \in Places /\ vt.row_position \in Rows
  /\ vt.needs_scroll \in BOOLEAN

\* Every row is right on the screen, but for the marked ones and those of S.
RightBut(vt, fb, S) == \A r \in Rows \ (vt.dirty_row \cup S) : RowIsRight(vt, fb, r)

\* The rows that a scroll leaves behind, if those of S were behind already.
Passed(vt, S) == IF vt.needs_scroll THEN Rows ELSE {r \in Rows : r + 1 \in vt.dirty_row \cup S}

\* The screen has at least two rows and one column.
LEMMA Sizes ==
  /\ LastRow \in Nat /\ LastRow >= 1 /\ Rows = 0..LastRow
  /\ BUFFER_WIDTH \in Nat /\ BUFFER_WIDTH >= 1 /\ Cols = 0..(BUFFER_WIDTH - 1)
  /\ Lines = 0..(LastRow + 1) /\ Places = 0..BUFFER_WIDTH
BY SizeAssumption DEF LastRow, Rows, Cols, Lines, Places

\* The fields after new_line in the last row.
LEMMA ScrollFields ==
  ASSUME NEW vt, IsTerminal(vt)
  PROVE  LET s == Scroll(vt)
         IN  /\ HasFields(s)
             /\ s.buffer = [r \in Rows |-> IF r = LastRow THEN BlankRow ELSE vt.buffer[r + 1]]
             /\ s.dirty_row = vt.dirty_row \cup {LastRow, LastRow - 1}
             /\ s.column_position = 0 /\ s.row_position = vt.row_position
             /\ s.needs_scroll = TRUE
<1> DEFINE s == Scroll(vt)
<1>1. s = [vt EXCEPT !.dirty_row = vt.dirty_row \cup {LastRow, LastRow - 1},
                     !.buffer = [r \in Rows |-> IF r = LastRow THEN BlankRow ELSE vt.buffer[r + 1]],
                     !.needs_scroll = TRUE,
                     !.column_position = 0]
  BY DEF Scroll, mark_dirty, IsTerminal, HasFields, Fields
<1> QED BY <1>1, Zenon DEF IsTerminal, HasFields, Fields

\* After a scroll the rows that are neither marked nor left behind are right.
LEMMA ScrollShown ==
  ASSUME NEW vt, IsTerminal(vt), vt.row_position = LastRow, NEW fb, NEW S
  PROVE  /\ IsTerminal(Scroll(vt))
         /\ RightBut(vt, fb, S) => RightBut(Scroll(vt), fb, Passed(vt, S))
<1> DEFINE s == Scroll(vt)
<1>1. /\ HasFields(s)
      /\ s.buffer = [r \in Rows |-> IF r = LastRow THEN BlankRow ELSE vt.buffer[r + 1]]
      /\ s.dirty_row = vt.dirty_row \cup {LastRow, LastRow - 1}
      /\ s.column_position = 0 /\ s.row_position = vt.row_position
      /\ s.needs_scroll = TRUE
  BY ScrollFields, Zenon
<1> HIDE DEF s
<1>2. IsTerminal(s)
  <2>1. IsRow(BlankRow)
    BY DEF IsRow, BlankRow
  <2>2. ASSUME NEW r \in Rows PROVE IsRow(s.buffer[r])
    BY <1>1, <2>1, Sizes DEF IsTerminal
  <2>3. s.dirty_row \subseteq Rows
    BY <1>1, Sizes DEF IsTerminal
  <2>4. s.buffer = [r \in Rows |-> s.buffer[r]]
    BY <1>1
  <2>5. s.column_position \in Places /\ s.row_position \in Rows
    BY <1>1, Sizes DEF IsTerminal
  <2> QED BY <1>1, <2>2, <2>3, <2>4, <2>5, Zenon DEF IsTerminal
<1>3. ASSUME RightBut(vt, fb, S) PROVE RightBut(s, fb, Passed(vt, S))
  <2> SUFFICES ASSUME NEW r \in Rows \ (s.dirty_row \cup Passed(vt, S)), NEW c \in Cols
               PROVE  Base(s, fb)[r][c] = Glyph(s.buffer[r][c])
    BY DEF RightBut, RowIsRight
  <2>1. r \in Rows /\ r + 1 \in Rows /\ r \in Lines /\ r # LastRow /\ r + 1 # LastRow
    <3>1. r \in Rows /\ r # LastRow /\ r # LastRow - 1
      BY <1>1
    <3> QED BY <3>1, Sizes
  <2>2. ~ vt.needs_scroll /\ r + 1 \in Rows \ (vt.dirty_row \cup S)
    BY <2>1 DEF Passed
  <2>3. Base(s, fb)[r][c] = fb[r + 1][c] /\ s.buffer[r] = vt.buffer[r + 1]
    BY <1>1, <2>1 DEF Base, ScrolledUp
  <2>4. RowIsRight(vt, fb, r + 1)
    BY <1>3, <2>2, Zenon DEF RightBut
  <2>5. Base(vt, fb)[r + 1][c] = Glyph(vt.buffer[r + 1][c])
    BY <2>1, <2>4 DEF RowIsRight
  <2> QED BY <2>2, <2>3, <2>5 DEF Base
<1> QED BY <1>2, <1>3 DEF s

\* What changes only the current row, and marks it, needs nothing else painted.
LEMMA RowShown ==
  ASSUME NEW vt, IsTerminal(vt), NEW fb, NEW S, NEW w,
         w.dirty_row = vt.dirty_row \cup {vt.row_position},
         w.needs_scroll = vt.needs_scroll,
         \A r \in Rows \ {vt.row_position} : w.buffer[r] = vt.buffer[r],
         RightBut(vt, fb, S)
  PROVE  RightBut(w, fb, S)
<1>1. Base(w, fb) = Base(vt, fb)
  BY DEF Base
<1>2. ASSUME NEW r \in Rows \ (w.dirty_row \cup S), NEW c \in Cols
      PROVE  Base(w, fb)[r][c] = Glyph(w.buffer[r][c])
  <2>1. r \in Rows \ (vt.dirty_row \cup S) /\ r # vt.row_position /\ w.buffer[r] = vt.buffer[r]
    OBVIOUS
  <2>2. Base(vt, fb)[r][c] = Glyph(vt.buffer[r][c])
    BY <2>1 DEF RightBut, RowIsRight
  <2> QED BY <2>1, <2>2, <1>1
<1> QED BY <1>2 DEF RightBut, RowIsRight

\* The fields after new_line in any other row, a backspace and a character.
LEMMA RowFields ==
  ASSUME NEW vt, IsTerminal(vt), NEW byte
  PROVE  /\ LET s == [mark_dirty(vt, {vt.row_position}) EXCEPT
                       !.row_position = @ + 1, !.column_position = 0]
            IN  /\ HasFields(s) /\ s.buffer = vt.buffer
                /\ s.dirty_row = vt.dirty_row \cup {vt.row_position}
                /\ s.column_position = 0 /\ s.row_position = vt.row_position + 1
                /\ s.needs_scroll = vt.needs_scroll
         /\ LET s == Backspace(vt)
            IN  /\ HasFields(s) /\ s.buffer = vt.buffer
                /\ s.dirty_row = vt.dirty_row \cup {vt.row_position}
                /\ s.column_position = IF vt.column_position = 0 THEN 0 ELSE vt.column_position - 1
                /\ s.row_position = vt.row_position
                /\ s.needs_scroll = vt.needs_scroll
         /\ LET s == Put(vt, byte)
            IN  /\ HasFields(s)
                /\ s.buffer = [vt.buffer EXCEPT ![vt.row_position] =
                                 [vt.buffer[vt.row_position] EXCEPT ![vt.column_position] = byte]]
                /\ s.dirty_row = vt.dirty_row \cup {vt.row_position}
                /\ s.column_position = vt.column_position + 1
                /\ s.row_position = vt.row_position
                /\ s.needs_scroll = vt.needs_scroll
<1> DEFINE m == mark_dirty(vt, {vt.row_position})
<1>1. /\ HasFields(m) /\ m.buffer = vt.buffer
      /\ m.dirty_row = vt.dirty_row \cup {vt.row_position}
      /\ m.column_position = vt.column_position /\ m.row_position = vt.row_position
      /\ m.needs_scroll = vt.needs_scroll
  BY DEF mark_dirty, IsTerminal, HasFields, Fields
<1> HIDE DEF m
<1>2. LET s == [m EXCEPT !.row_position = @ + 1, !.column_position = 0]
      IN  /\ HasFields(s) /\ s.buffer = m.buffer /\ s.dirty_row = m.dirty_row
          /\ s.column_position = 0 /\ s.row_position = m.row_position + 1
          /\ s.needs_scroll = m.needs_scroll
  BY <1>1, Zenon DEF HasFields, Fields
<1>3. LET s == [m EXCEPT !.column_position = IF @ = 0 THEN 0 ELSE @ - 1]
      IN  /\ HasFields(s) /\ s.buffer = m.buffer /\ s.dirty_row = m.dirty_row
          /\ s.column_position = IF m.column_position = 0 THEN 0 ELSE m.column_position - 1
          /\ s.row_position = m.row_position /\ s.needs_scroll = m.needs_scroll
  BY <1>1 DEF HasFields, Fields
<1> DEFINE b == [m.buffer EXCEPT ![vt.row_position] =
                   [m.buffer[vt.row_position] EXCEPT ![vt.column_position] = byte]]
<1>5. Put(vt, byte) = [m EXCEPT !.buffer = b, !.column_position = m.column_position + 1]
  BY DEF Put, m
<1> HIDE DEF b
<1>6. Backspace(vt) = [m EXCEPT !.column_position = IF @ = 0 THEN 0 ELSE @ - 1]
  BY DEF Backspace, m
<1>7. LET s == Put(vt, byte)
      IN  /\ HasFields(s) /\ s.buffer = b /\ s.dirty_row = m.dirty_row
          /\ s.column_position = m.column_position + 1
          /\ s.row_position = m.row_position /\ s.needs_scroll = m.needs_scroll
  BY <1>1, <1>5, Zenon DEF HasFields, Fields
<1>8. LET s == [mark_dirty(vt, {vt.row_position}) EXCEPT !.row_position = @ + 1, !.column_position = 0]
      IN  /\ HasFields(s) /\ s.buffer = m.buffer /\ s.dirty_row = m.dirty_row
          /\ s.column_position = 0 /\ s.row_position = m.row_position + 1
          /\ s.needs_scroll = m.needs_scroll
  BY <1>2, Zenon DEF m
<1> QED BY <1>1, <1>8, <1>3, <1>6, <1>7, Zenon DEF b

\* The same of new_line.
LEMMA NewLineShown ==
  ASSUME NEW vt, IsTerminal(vt), NEW fb, NEW S
  PROVE  /\ IsTerminal(new_line(vt)) /\ new_line(vt).column_position = 0
         /\ RightBut(vt, fb, S) =>
              RightBut(new_line(vt), fb, IF vt.row_position = LastRow THEN Passed(vt, S) ELSE S)
<1>1. CASE vt.row_position = LastRow
  BY <1>1, ScrollShown, ScrollFields, Zenon DEF new_line
<1>2. CASE vt.row_position # LastRow
  <2> DEFINE s == new_line(vt)
  <2>1. /\ HasFields(s) /\ s.buffer = vt.buffer
        /\ s.dirty_row = vt.dirty_row \cup {vt.row_position}
        /\ s.column_position = 0 /\ s.row_position = vt.row_position + 1
        /\ s.needs_scroll = vt.needs_scroll
    BY <1>2, RowFields, Zenon DEF new_line
  <2> HIDE DEF s
  <2>2. s.column_position \in Places /\ s.row_position \in Rows
    BY <1>2, <2>1, Sizes DEF IsTerminal
  <2>3. IsTerminal(s)
    BY <2>1, <2>2 DEF IsTerminal
  <2>4. RightBut(vt, fb, S) => RightBut(s, fb, S)
    BY <2>1, RowShown
  <2> QED BY <1>2, <2>1, <2>3, <2>4 DEF s
<1> QED BY <1>1, <1>2

\* What happens to the current row only.
LEMMA BackspaceShown ==
  ASSUME NEW vt, IsTerminal(vt), NEW fb, NEW S
  PROVE  /\ IsTerminal(Backspace(vt))
         /\ RightBut(vt, fb, S) => RightBut(Backspace(vt), fb, S)
<1> DEFINE s == Backspace(vt)
<1>1. /\ HasFields(s) /\ s.buffer = vt.buffer
      /\ s.dirty_row = vt.dirty_row \cup {vt.row_position}
      /\ s.column_position = IF vt.column_position = 0 THEN 0 ELSE vt.column_position - 1
      /\ s.row_position = vt.row_position
      /\ s.needs_scroll = vt.needs_scroll
  BY RowFields, Zenon
<1> HIDE DEF s
<1>2. s.column_position \in Places
  BY <1>1, Sizes DEF IsTerminal
<1>3. IsTerminal(s)
  BY <1>1, <1>2 DEF IsTerminal
<1>4. RightBut(vt, fb, S) => RightBut(s, fb, S)
  BY <1>1, RowShown
<1> QED BY <1>3, <1>4 DEF s

\* So does one byte of output.
LEMMA PutShown ==
  ASSUME NEW vt, IsTerminal(vt), NEW fb, NEW S, NEW byte, vt.column_position \in Cols
  PROVE  /\ IsTerminal(Put(vt, byte))
         /\ RightBut(vt, fb, S) => RightBut(Put(vt, byte), fb, S)
<1> DEFINE s == Put(vt, byte)
           row == [vt.buffer[vt.row_position] EXCEPT ![vt.column_position] = byte]
<1>1. /\ HasFields(s)
      /\ s.buffer = [vt.buffer EXCEPT ![vt.row_position] = row]
      /\ s.dirty_row = vt.dirty_row \cup {vt.row_position}
      /\ s.column_position = vt.column_position + 1
      /\ s.row_position = vt.row_position
      /\ s.needs_scroll = vt.needs_scroll
  BY RowFields, ZenonT(30)
<1> HIDE DEF s
<1>2. s.column_position \in Places
  BY <1>1, Sizes
<1>3. IsRow(row)
  BY Zenon DEF IsTerminal, IsRow
<1> HIDE DEF row
<1>4. /\ s.buffer = [r \in Rows |-> s.buffer[r]]
      /\ \A r \in Rows : s.buffer[r] = IF r = vt.row_position THEN row ELSE vt.buffer[r]
  BY <1>1 DEF IsTerminal
<1>5. IsTerminal(s)
  BY <1>1, <1>2, <1>3, <1>4 DEF IsTerminal
<1>6. RightBut(vt, fb, S) => RightBut(s, fb, S)
  BY <1>1, <1>4, RowShown
<1> QED BY <1>5, <1>6 DEF s

\* VirtualTerminal::write_byte keeps the rows right that are neither marked nor left
\* behind.
LEMMA WriteByteShown ==
  ASSUME NEW vt, IsTerminal(vt), NEW fb, NEW S, NEW byte
  PROVE  /\ IsTerminal(write_byte(vt, byte))
         /\ RightBut(vt, fb, S) => RightBut(write_byte(vt, byte), fb, LeftBehind(vt, S, byte))
<1> DEFINE P == LeftBehind(vt, S, byte)
<1>0. P = IF Scrolls(vt, byte) THEN Passed(vt, S) ELSE S
  BY Zenon DEF LeftBehind, Passed
<1> HIDE DEF P
<1>1. CASE byte = "nl"
  <2>1. write_byte(vt, byte) = new_line(vt)
    BY <1>1 DEF write_byte
  <2>2. P = IF vt.row_position = LastRow THEN Passed(vt, S) ELSE S
    BY <1>0, <1>1 DEF Scrolls
  <2> QED BY <2>1, <2>2, NewLineShown, Zenon DEF P
<1>2. CASE byte = "bs"
  <2>1. write_byte(vt, byte) = Backspace(vt)
    BY <1>2 DEF write_byte
  <2>2. P = S
    BY <1>0, <1>2 DEF Scrolls
  <2> QED BY <2>1, <2>2, BackspaceShown, Zenon DEF P
<1>3. CASE byte # "nl" /\ byte # "bs"
  <2> DEFINE w == IF Full(vt) THEN new_line(vt) ELSE vt
  <2>1. write_byte(vt, byte) = Put(w, byte)
    BY <1>3 DEF write_byte
  <2>2. P = IF Full(vt) /\ vt.row_position = LastRow THEN Passed(vt, S) ELSE S
    BY <1>0, <1>3 DEF Scrolls
  <2>3. IsTerminal(w) /\ (RightBut(vt, fb, S) => RightBut(w, fb, P))
    BY <2>2, NewLineShown, Zenon
  <2>4. w.column_position \in Cols
    <3>1. CASE Full(vt)
      BY <3>1, NewLineShown, Sizes
    <3>2. CASE ~ Full(vt)
      BY <3>2, Sizes DEF Full, IsTerminal
    <3> QED BY <3>1, <3>2
  <2> HIDE DEF w
  <2> QED BY <2>1, <2>3, <2>4, PutShown, Zenon DEF P
<1> QED BY <1>1, <1>2, <1>3

\* Console::paint leaves nothing to be painted, and the rows right that were marked or
\* right before.
LEMMA PaintShown ==
  ASSUME NEW vt, IsTerminal(vt), NEW fb, NEW S
  PROVE  /\ IsTerminal(Painted(vt))
         /\ RightBut(vt, fb, S) => RightBut(Painted(vt), paint(vt, fb), S \ vt.dirty_row)
<1> DEFINE s == Painted(vt)
           g == paint_dirty(vt, fb)
<1>1. /\ HasFields(s) /\ s.buffer = vt.buffer /\ s.dirty_row = {}
      /\ s.column_position = vt.column_position /\ s.row_position = vt.row_position
      /\ s.needs_scroll = FALSE
  BY Zenon DEF Painted, IsTerminal, HasFields, Fields
<1>2. \A r \in Rows : \A c \in Cols :
        g[r][c] = IF r \in vt.dirty_row THEN Glyph(vt.buffer[r][c]) ELSE Base(vt, fb)[r][c]
  BY Sizes DEF paint_dirty
<1>3. \A r \in Rows : \A c \in Cols :
        paint(vt, fb)[r][c] = IF r = vt.row_position /\ c = vt.column_position
                              THEN "cursor" ELSE g[r][c]
  <2> DEFINE row == [g[vt.row_position] EXCEPT ![vt.column_position] = "cursor"]
  <2>1. /\ g = [r \in Lines |-> g[r]]
        /\ \A r \in Lines : g[r] = [c \in Places |-> g[r][c]]
        /\ Rows \subseteq Lines /\ Cols \subseteq Places
    <3>1. Rows \subseteq Lines /\ Cols \subseteq Places
      BY Sizes
    <3> QED BY <3>1 DEF paint_dirty
  <2>2. paint(vt, fb) = [g EXCEPT ![vt.row_position] = row]
    BY DEF paint, paint_cursor
  <2> HIDE DEF g
  <2>3. \A c \in Cols : row[c] = IF c = vt.column_position THEN "cursor" ELSE g[vt.row_position][c]
    BY <2>1 DEF IsTerminal
  <2> HIDE DEF row
  <2> QED BY <2>1, <2>2, <2>3 DEF IsTerminal
<1> HIDE DEF s, g
<1>4. IsTerminal(s)
  BY <1>1, Zenon DEF IsTerminal
<1>5. ASSUME RightBut(vt, fb, S) PROVE RightBut(s, paint(vt, fb), S \ vt.dirty_row)
  <2> SUFFICES ASSUME NEW r \in Rows \ (S \ vt.dirty_row), NEW c \in Cols,
                      ~ (r = vt.row_position /\ c = vt.column_position)
               PROVE  g[r][c] = Glyph(vt.buffer[r][c])
    BY <1>1, <1>3 DEF RightBut, RowIsRight, Base
  <2>1. CASE r \in vt.dirty_row
    BY <1>2, <2>1
  <2>2. CASE r \notin vt.dirty_row
    <3>1. RowIsRight(vt, fb, r)
      BY <1>5, <2>2 DEF RightBut
    <3> QED BY <1>2, <2>2, <3>1 DEF RowIsRight
  <2> QED BY <2>1, <2>2
<1> QED BY <1>4, <1>5 DEF s

------------------------------------------------------------------------------
(* The screen.                                                              *)

ScreenInv == IsTerminal(terminal) /\ ScreenShowsTerminal

\* The screen of the boot is painted.
LEMMA ScreenInit == Init => ScreenInv
<1> SUFFICES ASSUME Init PROVE ScreenInv
  OBVIOUS
<1> DEFINE fb == [r \in Lines |-> [c \in Places |->
                   IF r \in Rows /\ c \in Cols THEN Glyph(terminal.buffer[r][c]) ELSE " "]]
<1>1. terminal \in VirtualTerminal /\ Painted(terminal) = terminal /\ behind = {}
  BY ConsoleAssumption, Zenon DEF Init
<1>2. lfb = paint(terminal, fb)
  BY Zenon DEF Init
<1>3. IsTerminal(terminal)
  BY <1>1 DEF VirtualTerminal, IsTerminal, HasFields, Fields, IsRow
<1>4. terminal.needs_scroll = FALSE /\ terminal.dirty_row = {}
  BY <1>1, Zenon DEF VirtualTerminal, Painted
<1>5. RightBut(terminal, fb, {})
  <2>1. Base(terminal, fb) = fb
    BY <1>4, Zenon DEF Base
  <2>2. ASSUME NEW r \in Rows, NEW c \in Cols PROVE fb[r][c] = Glyph(terminal.buffer[r][c])
    <3>1. r \in Lines /\ c \in Places
      BY Sizes
    <3> QED BY <3>1, Zenon
  <2> HIDE DEF fb
  <2> QED BY <2>1, <2>2 DEF RightBut, RowIsRight
<1> HIDE DEF fb
<1>6. RightBut(terminal, lfb, {} \ terminal.dirty_row)
  BY <1>1, <1>2, <1>3, <1>5, PaintShown, Zenon
<1>7. RightBut(terminal, lfb, behind)
  BY <1>1, <1>6 DEF RightBut
<1> QED BY <1>3, <1>7, Zenon DEF ScreenInv, ScreenShowsTerminal, RightBut

\* Only output and painting touch the screen.
LEMMA ScreenSteps ==
  ASSUME [Next]_vars
  PROVE  \/ UNCHANGED screen \/ (\E t \in ThreadId : OutputByte(t))
         \/ RendererPaint \/ CompositorPaint
<1>1. CASE \E k \in Keys : KeyboardInterrupt(k)
  BY <1>1 DEF KeyboardInterrupt
<1>2. CASE RunReadyTask \/ SleepIfIdle \/ ExecutorBlock
  BY <1>2 DEF RunReadyTask, SleepIfIdle, ExecutorBlock
<1>3. CASE Poll
  BY <1>3 DEF Poll, PollNext, Register, PollAgain
<1>4. CASE HandleKey \/ CommitLine \/ WakeupScan \/ WakeupReader
  BY <1>4, Zenon DEF HandleKey, CommitLine, WakeupScan, WakeupReader
<1>5. CASE \E t \in ThreadId : WakeTtyRenderer(t)
  BY <1>5 DEF WakeTtyRenderer
<1>6. CASE RendererBlock \/ CompositorBlock
  BY <1>6 DEF RendererBlock, CompositorBlock
<1>7. CASE \E p \in Range(Procs) :
             \/ \E s \in Strings : WriteCall(p, s)
             \/ \E n \in ReadLens : ReadCall(p, n)
             \/ ReadTest(p) \/ ReadTestEof(p) \/ ReadClearEof(p) \/ ReadBlock(p) \/ ReadPop(p)
             \/ Return(p) \/ FrameReady(p)
  BY <1>7 DEF WriteCall, ReadCall, ReadTest, ReadTestEof, ReadClearEof, ReadBlock, ReadPop,
     Return, FrameReady
<1>8. CASE UNCHANGED vars
  BY <1>8 DEF vars
<1> QED BY <1>1, <1>2, <1>3, <1>4, <1>5, <1>6, <1>7, <1>8 DEF Next

\* Whatever is written, and whenever the renderer and the compositor run, a row that is
\* neither marked dirty, nor left behind by a scroll, nor hidden by a window is right on
\* the screen: the marks of VirtualTerminal are enough for ConsoleRenderer to repaint
\* only the marked rows, but for the marks that a scroll does not move.
THEOREM ScreenTheorem == Spec => []ScreenShowsTerminal
<1>1. Init => ScreenInv
  BY ScreenInit
<1>2. ScreenInv /\ [Next]_vars => ScreenInv'
  <2> SUFFICES ASSUME ScreenInv, [Next]_vars PROVE ScreenInv'
    OBVIOUS
  <2>0. RightBut(terminal, lfb, behind)
    BY Zenon DEF ScreenInv, ScreenShowsTerminal, RightBut
  <2>1. CASE UNCHANGED screen
    BY <2>1 DEF screen, ScreenInv, ScreenShowsTerminal
  <2>2. ASSUME NEW t \in ThreadId, OutputByte(t) PROVE ScreenInv'
    <3>1. /\ terminal' = write_byte(terminal, Head(out[t])) /\ lfb' = lfb
          /\ behind' = LeftBehind(terminal, behind, Head(out[t]))
      BY <2>2 DEF OutputByte
    <3>2. IsTerminal(terminal') /\ RightBut(terminal', lfb', behind')
      BY <2>0, <3>1, WriteByteShown, Zenon DEF ScreenInv
    <3> QED BY <3>2, Zenon DEF ScreenInv, ScreenShowsTerminal, RightBut
  <2>3. CASE RendererPaint
    <3>1. /\ terminal' = Painted(terminal) /\ lfb' = paint(terminal, lfb)
          /\ behind' = behind \ terminal.dirty_row
      BY <2>3 DEF RendererPaint
    <3>2. IsTerminal(terminal') /\ RightBut(terminal', lfb', behind')
      BY <2>0, <3>1, PaintShown, Zenon DEF ScreenInv
    <3> QED BY <3>2, Zenon DEF ScreenInv, ScreenShowsTerminal, RightBut
  <2>4. CASE CompositorPaint
    <3>1. terminal' = terminal /\ behind' = Rows
      BY <2>4 DEF CompositorPaint
    <3> QED BY <3>1 DEF ScreenInv, ScreenShowsTerminal
  <2> QED BY <2>1, <2>2, <2>3, <2>4, ScreenSteps
<1>3. ScreenInv => ScreenShowsTerminal
  BY DEF ScreenInv
<1> QED BY <1>1, <1>2, <1>3, PTL DEF Spec

------------------------------------------------------------------------------
(* The streams and the executor.                                            *)

Streams == {"keyboard", "console"}

\* push and pop, as to the elements of a queue.
LEMMA QueueElements ==
  ASSUME NEW S, NEW q \in Seq(S)
  PROVE  /\ \A x \in S : Append(q, x) \in Seq(S) /\ Range(Append(q, x)) = Range(q) \cup {x}
         /\ q # << >> => /\ Head(q) \in S /\ Tail(q) \in Seq(S)
                        /\ Range(q) = {Head(q)} \cup Range(Tail(q))
         /\ q = << >> <=> Range(q) = {}
<1>1. ASSUME NEW x \in S
      PROVE  Append(q, x) \in Seq(S) /\ Range(Append(q, x)) = Range(q) \cup {x}
  <2> DEFINE r == Append(q, x)
  <2>1. /\ r \in Seq(S) /\ Len(q) \in Nat /\ r[Len(q) + 1] = x
        /\ \A i \in 1..Len(q) : r[i] = q[i]
        /\ DOMAIN q = 1..Len(q) /\ DOMAIN r = 1..(Len(q) + 1)
    OBVIOUS
  <2> HIDE DEF r
  <2>2. Range(r) \subseteq Range(q) \cup {x}
    BY <2>1 DEF Range
  <2>3. Range(q) \subseteq Range(r)
    BY <2>1 DEF Range
  <2>4. x \in Range(r)
    <3>1. Len(q) + 1 \in DOMAIN r
      BY <2>1
    <3> QED BY <3>1, <2>1 DEF Range
  <2> QED BY <2>1, <2>2, <2>3, <2>4 DEF r
<1>2. ASSUME q # << >>
      PROVE  /\ Head(q) \in S /\ Tail(q) \in Seq(S)
             /\ Range(q) = {Head(q)} \cup Range(Tail(q))
  <2>1. /\ Head(q) \in S /\ Tail(q) \in Seq(S) /\ Len(q) \in Nat /\ Len(q) >= 1
        /\ Head(q) = q[1] /\ Len(Tail(q)) = Len(q) - 1
        /\ \A i \in 1..(Len(q) - 1) : Tail(q)[i] = q[i + 1]
        /\ DOMAIN q = 1..Len(q) /\ DOMAIN Tail(q) = 1..(Len(q) - 1)
    BY <1>2
  <2>2. ASSUME NEW i \in 1..Len(q) PROVE q[i] \in {Head(q)} \cup Range(Tail(q))
    <3>1. CASE i = 1
      BY <3>1, <2>1
    <3>2. CASE i # 1
      <4>1. i - 1 \in DOMAIN Tail(q) /\ Tail(q)[i - 1] = q[i]
        BY <3>2, <2>1
      <4> QED BY <4>1, Zenon DEF Range
    <3> QED BY <3>1, <3>2
  <2>3. ASSUME NEW i \in 1..(Len(q) - 1) PROVE Tail(q)[i] \in Range(q)
    <3>1. i + 1 \in DOMAIN q
      BY <2>1
    <3> QED BY <3>1, <2>1 DEF Range
  <2>4. Head(q) \in Range(q)
    BY <2>1 DEF Range
  <2>5. Range(q) \subseteq {Head(q)} \cup Range(Tail(q))
    BY <2>1, <2>2, Zenon DEF Range
  <2>6. Range(Tail(q)) \subseteq Range(q)
    BY <2>1, <2>3, Zenon DEF Range
  <2> QED BY <2>1, <2>4, <2>5, <2>6, Zenon
<1>3. q = << >> <=> Range(q) = {}
  <2>1. q = << >> => Range(q) = {}
    BY DEF Range
  <2> QED BY <2>1, <1>2, Zenon
<1> QED BY <1>1, <1>2, <1>3

\* A stream with elements has its task queued or polled; one whose task is neither is
\* empty and will wake its task.  Between WAKER.register and the second look, the task
\* is registered or has just been queued.
PollInv ==
  /\ thr \in [ThreadId -> {"runnable"} \cup Reasons]
  /\ pc = [t \in ThreadId |-> pc[t]]
  /\ tasks \in Seq(Streams) /\ task \in Streams \cup {"none"}
  /\ waker \in [Streams -> Streams \cup {"none", "noop"}]
  /\ pc[Executor] \in {"pop", "block"} <=> task = "none"
  /\ \A s \in Streams : s \in Range(tasks) \/ task = s \/ (Queue(s) = << >> /\ waker[s] = s)
  /\ pc[Executor] = "again" => waker[task] = task \/ task \in Range(tasks)
  /\ thr[Executor] = "AsyncExecutorWait" => tasks = << >> \/ Executor \in missed

\* Who is who.
LEMMA ThreadFacts ==
  /\ Executor \in ThreadId /\ Renderer \in ThreadId /\ Compositor \in ThreadId
  /\ Executor # Renderer /\ Executor # Compositor /\ Renderer # Compositor
  /\ Range(Procs) \subseteq ThreadId /\ Executor \notin Range(Procs) /\ Renderer \notin Range(Procs)
  /\ Compositor \notin Range(Procs)
  /\ Reasons = {"CompositorWait", "AsyncExecutorWait", "TtyRenderWait", "WaitStdin"}
  /\ "runnable" \notin Reasons
<1>1. Procs \in Seq(Nat \ {None, Compositor, Executor, Renderer})
  BY ConsoleAssumption
<1>2. Range(Procs) \subseteq Nat \ {None, Compositor, Executor, Renderer}
  BY <1>1 DEF Range
<1> QED BY <1>2, ConsoleAssumption DEF Executor, Renderer, Compositor

\* What unblock_task and block_task do to the others.
LEMMA WakeSleep ==
  ASSUME thr \in [ThreadId -> {"runnable"} \cup Reasons], NEW t \in ThreadId
  PROVE  /\ Wake(t) => /\ thr' \in [ThreadId -> {"runnable"} \cup Reasons]
                       /\ thr'[t] = "runnable"
                       /\ \A u \in ThreadId \ {t} :
                            thr'[u] = thr[u] /\ (u \in missed' <=> u \in missed)
         /\ \A why \in Reasons : \A work \in BOOLEAN :
              Sleep(t, why, work) => /\ thr' \in [ThreadId -> {"runnable"} \cup Reasons]
                                     /\ thr'[t] = why /\ (work => t \in missed')
                                     /\ \A u \in ThreadId \ {t} :
                                          thr'[u] = thr[u] /\ (u \in missed' <=> u \in missed)
BY DEF Wake, Sleep, Block, Unblocked

\* compositor_task and frame_ready concern the compositor and what the screen shows.
LEMMA WindowSteps ==
  ASSUME PollInv, CompositorBlock \/ CompositorPaint \/ (\E p \in Range(Procs) : FrameReady(p))
  PROVE  /\ UNCHANGED <<streams, exec, tty, hist, terminal>>
         /\ pc' = [pc EXCEPT ![Compositor] = pc'[Compositor]]
         /\ pc' = pc \/ pc[Compositor] \in {"sleep", "paint"}
         /\ thr' \in [ThreadId -> {"runnable"} \cup Reasons]
         /\ \A u \in ThreadId \ {Compositor} :
              thr'[u] = thr[u] /\ (u \in missed' <=> u \in missed)
<1>1. CASE CompositorBlock
  BY <1>1, ThreadFacts DEF CompositorBlock, At, Block, Goto, screen, PollInv
<1>2. CASE CompositorPaint
  BY <1>2, ThreadFacts DEF CompositorPaint, At, Goto, PollInv
<1>3. ASSUME NEW p \in Range(Procs), FrameReady(p)
      PROVE  /\ UNCHANGED <<streams, exec, tty, hist, terminal, pc>> /\ Wake(Compositor)
  BY <1>3 DEF FrameReady, screen
<1>4. CASE \E p \in Range(Procs) : FrameReady(p)
  <2>1. UNCHANGED <<streams, exec, tty, hist, terminal, pc>> /\ Wake(Compositor)
    BY <1>3, <1>4
  <2>2. /\ thr' \in [ThreadId -> {"runnable"} \cup Reasons]
        /\ \A u \in ThreadId \ {Compositor} :
             thr'[u] = thr[u] /\ (u \in missed' <=> u \in missed)
    BY <2>1, WakeSleep, ThreadFacts, Zenon DEF PollInv
  <2>3. pc' = [pc EXCEPT ![Compositor] = pc'[Compositor]]
    BY <2>1, ThreadFacts DEF PollInv
  <2> QED BY <2>1, <2>2, <2>3
<1> QED BY <1>1, <1>2, <1>4

\* AtomicWaker::wake on a stream that has just received elements.
LEMMA WakeStreamPolls ==
  ASSUME PollInv, NEW s \in Streams, WakeStream(s), UNCHANGED <<pc, task>>,
         \A u \in Streams \ {s} : Queue(u)' = Queue(u)
  PROVE  PollInv'
<1>1. CASE waker[s] = s
  <2>1. /\ tasks' = Append(tasks, s) /\ Wake(Executor)
        /\ waker' = [waker EXCEPT ![s] = "none"]
    BY <1>1 DEF WakeStream
  <2>2. tasks' \in Seq(Streams) /\ Range(tasks') = Range(tasks) \cup {s}
    BY <2>1, QueueElements DEF PollInv
  <2>3. thr' \in [ThreadId -> {"runnable"} \cup Reasons] /\ thr'[Executor] = "runnable"
    BY <2>1, WakeSleep, ThreadFacts DEF PollInv
  <2>4. \A u \in Streams : u \in Range(tasks') \/ task' = u \/ (Queue(u)' = << >> /\ waker'[u] = u)
    BY <2>1, <2>2 DEF PollInv
  <2>5. pc[Executor] = "again" => waker'[task] = task \/ task \in Range(tasks')
    BY <2>1, <2>2 DEF PollInv
  <2>6. waker' \in [Streams -> Streams \cup {"none", "noop"}]
    BY <2>1 DEF PollInv
  <2> QED BY <2>2, <2>3, <2>4, <2>5, <2>6 DEF PollInv
<1>2. CASE waker[s] # s
  <2>1. UNCHANGED <<tasks, thr, missed>> /\ waker' = [waker EXCEPT ![s] = "none"]
    BY <1>2 DEF WakeStream
  <2>2. \A u \in Streams : u \in Range(tasks') \/ task' = u \/ (Queue(u)' = << >> /\ waker'[u] = u)
    BY <1>2, <2>1 DEF PollInv
  <2>3. pc[Executor] = "again" => waker'[task] = task \/ task \in Range(tasks')
    BY <1>2, <2>1 DEF PollInv, Streams
  <2>4. waker' \in [Streams -> Streams \cup {"none", "noop"}]
    BY <2>1 DEF PollInv
  <2> QED BY <2>1, <2>2, <2>3, <2>4 DEF PollInv
<1> QED BY <1>1, <1>2

\* Steps that leave the streams alone: the executor at work on a task, or another
\* thread.
LEMMA OtherSteps ==
  ASSUME PollInv, UNCHANGED <<scancodes, chars, waker, tasks, task>>,
         NEW t \in ThreadId, pc' = [pc EXCEPT ![t] = pc'[t]],
         t = Executor => task # "none" /\ pc'[t] \notin {"pop", "block", "again"},
         thr' \in [ThreadId -> {"runnable"} \cup Reasons],
         \/ thr'[Executor] = "runnable"
         \/ thr'[Executor] = thr[Executor] /\ (Executor \in missed' <=> Executor \in missed)
  PROVE  PollInv'
<1>1. \A s \in Streams : Queue(s)' = Queue(s)
  BY DEF Queue
<1>2. pc'[Executor] \in {"pop", "block"} <=> task = "none"
  BY ThreadFacts DEF PollInv
<1>3. pc'[Executor] = "again" => pc[Executor] = "again"
  BY ThreadFacts DEF PollInv
<1>4. pc' = [u \in ThreadId |-> pc'[u]]
  BY DEF PollInv
<1>5. thr'[Executor] = "AsyncExecutorWait" => tasks = << >> \/ Executor \in missed'
  BY DEF PollInv
<1> QED BY <1>1, <1>2, <1>3, <1>4, <1>5 DEF PollInv

\* Taking an element leaves the other stream alone.
LEMMA ItemFacts ==
  ASSUME PollInv, task # "none", Item
  PROVE  /\ \A u \in Streams \ {task} : Queue(u)' = Queue(u)
         /\ pc' = [pc EXCEPT ![Executor] = pc'[Executor]]
         /\ pc'[Executor] \in {"key", "emit"}
BY ThreadFacts DEF Item, Queue, Goto, PollInv, Streams

\* poll_next before the waker is registered: the task in hand is still being polled.
LEMMA PollNextPolls ==
  ASSUME PollInv, NEW l, NEW none, PollNext(l, none),
         l \notin {"pop", "block"}, none \notin {"pop", "block", "again"}
  PROVE  PollInv'
<1>1. /\ pc[Executor] = l /\ task # "none"
      /\ UNCHANGED <<thr, missed, waker, tasks, task>>
  BY DEF PollNext, At, PollInv
<1>2. /\ \A u \in Streams \ {task} : Queue(u)' = Queue(u)
      /\ pc' = [pc EXCEPT ![Executor] = pc'[Executor]]
      /\ pc'[Executor] \in {"key", "emit", none}
  <2>1. CASE Item
    BY <1>1, <2>1, ItemFacts
  <2>2. CASE Goto(Executor, none) /\ UNCHANGED <<scancodes, chars>>
    BY <2>2, ThreadFacts DEF Goto, Queue, PollInv
  <2> QED BY <2>1, <2>2 DEF PollNext
<1> QED BY <1>1, <1>2, ThreadFacts DEF PollInv

\* From the registration on, the waker stands for the task.
LEMMA RegisterPolls ==
  ASSUME PollInv, NEW l, NEW w, NEW again, Register(l, w, again),
         l \notin {"pop", "block"}, again \notin {"pop", "block"},
         w = task \/ (w = "noop" /\ again # "again")
  PROVE  PollInv'
<1>1. /\ pc[Executor] = l /\ task # "none" /\ task \in Streams
      /\ UNCHANGED <<thr, missed, scancodes, chars, tasks, task>>
      /\ waker' = [waker EXCEPT ![task] = w] /\ pc' = [pc EXCEPT ![Executor] = again]
  BY DEF Register, At, Goto, PollInv, exec
<1>2. waker' \in [Streams -> Streams \cup {"none", "noop"}]
  BY <1>1 DEF PollInv
<1>3. \A u \in Streams : Queue(u)' = Queue(u)
  BY <1>1 DEF Queue
<1>4. \A u \in Streams \ {task} : waker'[u] = waker[u]
  BY <1>1 DEF PollInv
<1>5. again = "again" => waker'[task] = task
  BY <1>1 DEF PollInv
<1>6. pc' = [t \in ThreadId |-> pc'[t]] /\ pc'[Executor] = again
  BY <1>1, ThreadFacts, Zenon DEF PollInv
<1>7. \A u \in Streams : u \in Range(tasks) \/ task = u \/ (Queue(u)' = << >> /\ waker'[u] = u)
  BY <1>3, <1>4 DEF PollInv
<1> QED BY <1>1, <1>2, <1>5, <1>6, <1>7 DEF PollInv

\* The second look at the queue: empty, the waker is left behind; else the task goes on.
LEMMA PollAgainPolls ==
  ASSUME PollInv, NEW l, NEW none, PollAgain(l, none),
         l \notin {"pop", "block"}, none \notin {"block", "again"},
         none = "pop" => l = "again"
  PROVE  PollInv'
<1>1. /\ pc[Executor] = l /\ task # "none" /\ task \in Streams
      /\ UNCHANGED <<thr, missed, tasks>>
  BY DEF PollAgain, At, PollInv
<1>2. CASE Item /\ waker' = [waker EXCEPT ![task] = "none"] /\ UNCHANGED task
  <2>1. /\ \A u \in Streams \ {task} : Queue(u)' = Queue(u)
        /\ pc' = [pc EXCEPT ![Executor] = pc'[Executor]]
        /\ pc'[Executor] \in {"key", "emit"}
    BY <1>1, <1>2, ItemFacts
  <2>2. waker' \in [Streams -> Streams \cup {"none", "noop"}]
    BY <1>1, <1>2 DEF PollInv
  <2>3. \A u \in Streams \ {task} : waker'[u] = waker[u]
    BY <1>1, <1>2 DEF PollInv
  <2> QED BY <1>1, <1>2, <2>1, <2>2, <2>3, ThreadFacts DEF PollInv
<1>3. CASE /\ Queue(task) = << >> /\ Goto(Executor, none)
           /\ task' = IF none = "pop" THEN "none" ELSE task
           /\ UNCHANGED <<scancodes, chars, key, out, waker>>
  <2>1. \A u \in Streams : Queue(u)' = Queue(u)
    BY <1>3 DEF Queue
  <2>2. pc' = [pc EXCEPT ![Executor] = none]
    BY <1>3 DEF Goto
  <2> QED BY <1>1, <1>3, <2>1, <2>2, ThreadFacts, Zenon DEF PollInv
<1> QED BY <1>2, <1>3 DEF PollAgain

\* Nothing is queued at boot.
LEMMA PollInit == Init => PollInv
<1> SUFFICES ASSUME Init PROVE PollInv
  OBVIOUS
<1>1. tasks \in Seq(Streams) /\ Range(tasks) = Streams
  <2>1. tasks = <<"keyboard", "console">>
    BY Zenon DEF Init
  <2>2. tasks \in Seq(Streams) /\ DOMAIN tasks = {1, 2}
    BY <2>1 DEF Streams
  <2>3. tasks[1] = "keyboard" /\ tasks[2] = "console"
    BY <2>1
  <2> QED BY <2>2, <2>3 DEF Range, Streams
<1>2. thr \in [ThreadId -> {"runnable"} \cup Reasons] /\ thr[Executor] = "runnable"
  BY ThreadFacts, Zenon DEF Init
<1>3. pc = [t \in ThreadId |-> pc[t]] /\ pc[Executor] = "pop" /\ task = "none"
  BY ThreadFacts, Zenon DEF Init
<1>4. waker \in [Streams -> Streams \cup {"none", "noop"}]
  BY Zenon DEF Init, Streams
<1> QED BY <1>1, <1>2, <1>3, <1>4, ThreadFacts DEF PollInv

\* Every step keeps PollInv.
LEMMA PollStep == PollInv /\ [Next]_vars => PollInv'
<1> SUFFICES ASSUME PollInv, [Next]_vars PROVE PollInv'
  OBVIOUS
<1>1. ASSUME NEW k \in Keys, KeyboardInterrupt(k) PROVE PollInv'
  <2>1. UNCHANGED <<pc, task>>
    BY <1>1 DEF KeyboardInterrupt, exec
  <2>2. CASE WakeStream("keyboard") /\ UNCHANGED chars
    BY <2>1, <2>2, WakeStreamPolls DEF Queue, Streams
  <2>3. CASE WakeStream("console") /\ UNCHANGED scancodes
    BY <2>1, <2>3, WakeStreamPolls DEF Queue, Streams
  <2> QED BY <1>1, <2>2, <2>3 DEF KeyboardInterrupt
<1>2. CASE RunReadyTask
  <2>1. /\ tasks # << >> /\ task' = Head(tasks) /\ tasks' = Tail(tasks)
        /\ thr[Executor] = "runnable" /\ pc' = [pc EXCEPT ![Executor] = "next"]
        /\ UNCHANGED <<thr, missed, scancodes, chars, waker>>
        /\ task = "none"
    BY <1>2 DEF RunReadyTask, At, Goto, PollInv
  <2>2. /\ task' \in Streams /\ tasks' \in Seq(Streams)
        /\ Range(tasks) = {task'} \cup Range(tasks')
    BY <2>1, QueueElements DEF PollInv
  <2>3. \A u \in Streams : Queue(u)' = Queue(u)
    BY <2>1 DEF Queue
  <2>4. pc' = [t \in ThreadId |-> pc'[t]] /\ pc'[Executor] = "next"
    BY <2>1, ThreadFacts, Zenon DEF PollInv
  <2> QED BY <2>1, <2>2, <2>3, <2>4, ThreadFacts DEF PollInv, Streams
<1>3. CASE SleepIfIdle
  <2>1. /\ pc' = [pc EXCEPT ![Executor] = "block"] /\ task = "none"
        /\ UNCHANGED <<thr, missed, scancodes, chars, waker, tasks, task>>
    BY <1>3 DEF SleepIfIdle, At, Goto, PollInv, streams, exec
  <2>2. \A u \in Streams : Queue(u)' = Queue(u)
    BY <2>1 DEF Queue
  <2> QED BY <2>1, <2>2, ThreadFacts, Zenon DEF PollInv
<1>4. CASE ExecutorBlock
  <2>1. /\ pc' = [pc EXCEPT ![Executor] = "pop"] /\ task = "none"
        /\ UNCHANGED <<scancodes, chars, waker, tasks, task>>
        /\ Sleep(Executor, "AsyncExecutorWait", tasks # << >>)
    BY <1>4 DEF ExecutorBlock, At, Goto, PollInv, streams, exec
  <2>2. \A u \in Streams : Queue(u)' = Queue(u)
    BY <2>1 DEF Queue
  <2>3. /\ thr' \in [ThreadId -> {"runnable"} \cup Reasons]
        /\ tasks # << >> => Executor \in missed'
    BY <2>1, WakeSleep, ThreadFacts, Zenon DEF PollInv
  <2> QED BY <2>1, <2>2, <2>3, ThreadFacts, Zenon DEF PollInv
<1>5. CASE Poll
  <2>1. CASE PollNext("next", "register") \/ PollNext("flush", "flush_register")
    BY <2>1, PollNextPolls
  <2>2. CASE Register("register", task, "again") \/ Register("flush_register", "noop", "flush_again")
    BY <2>2, RegisterPolls
  <2>3. CASE PollAgain("again", "pop") \/ PollAgain("flush_again", "render")
    BY <2>3, PollAgainPolls
  <2> QED BY <1>5, <2>1, <2>2, <2>3 DEF Poll
<1>6. CASE HandleKey \/ CommitLine \/ WakeupScan
  <2>1. /\ UNCHANGED <<scancodes, chars, waker, tasks, task, thr, missed>>
        /\ pc[Executor] \in {"key", "push", "scan"}
        /\ pc' = [pc EXCEPT ![Executor] = pc'[Executor]]
        /\ pc'[Executor] \notin {"pop", "block", "again"}
    <3>1. CASE HandleKey
      BY <3>1, ThreadFacts, ZenonT(30) DEF HandleKey, KeyCharacter, KeyBackspace, KeyEnter,
         KeyInterrupt, KeyEof, KeyRaw, Echo, At, Goto, streams, PollInv
    <3>2. CASE CommitLine
      BY <3>2, ThreadFacts DEF CommitLine, At, Goto, streams, PollInv
    <3>3. CASE WakeupScan
      BY <3>3, ThreadFacts DEF WakeupScan, At, Goto, streams, PollInv
    <3> QED BY <1>6, <3>1, <3>2, <3>3
  <2> QED BY <2>1, OtherSteps, ThreadFacts DEF PollInv
<1>7. CASE WakeupReader
  <2>1. /\ UNCHANGED <<scancodes, chars, waker, tasks, task>> /\ pc[Executor] = "wake"
        /\ pc' = [pc EXCEPT ![Executor] = pc'[Executor]]
        /\ pc'[Executor] \notin {"pop", "block", "again"}
    BY <1>7, ThreadFacts DEF WakeupReader, At, Goto, streams, PollInv
  <2>2. /\ thr' \in [ThreadId -> {"runnable"} \cup Reasons]
        /\ \/ thr'[Executor] = "runnable"
           \/ thr'[Executor] = thr[Executor] /\ (Executor \in missed' <=> Executor \in missed)
    BY <1>7, ThreadFacts DEF WakeupReader, Wake, Unblocked, PollInv
  <2> QED BY <2>1, <2>2, OtherSteps, ThreadFacts DEF PollInv
<1>8. ASSUME NEW t \in ThreadId, OutputByte(t) PROVE PollInv'
  <2>1. /\ UNCHANGED <<scancodes, chars, waker, tasks, task, thr, missed>> /\ pc[t] = "emit"
        /\ pc' = [pc EXCEPT ![t] = IF Len(out[t]) > 1 THEN "emit" ELSE AfterOutput(t)]
    BY <1>8 DEF OutputByte, At, Goto, streams, exec
  <2>2. t = Executor => task \in Streams
    BY <2>1 DEF PollInv
  <2>3. AfterOutput(t) \in {"render", "flush", "push"}
    BY <2>2 DEF AfterOutput, Streams
  <2>4. pc' = [pc EXCEPT ![t] = pc'[t]] /\ pc'[t] \notin {"pop", "block", "again"}
    BY <2>1, <2>3 DEF PollInv
  <2> QED BY <2>1, <2>2, <2>4, OtherSteps, Zenon DEF PollInv, Streams
<1>9. ASSUME NEW t \in ThreadId, WakeTtyRenderer(t) PROVE PollInv'
  <2>1. /\ UNCHANGED <<scancodes, chars, waker, tasks, task>> /\ pc[t] = "render" /\ Wake(Renderer)
        /\ pc' = [pc EXCEPT ![t] = pc'[t]] /\ pc'[t] \notin {"pop", "block", "again"}
    BY <1>9 DEF WakeTtyRenderer, At, Goto, streams, exec, PollInv
  <2>2. /\ thr' \in [ThreadId -> {"runnable"} \cup Reasons]
        /\ thr'[Executor] = thr[Executor] /\ (Executor \in missed' <=> Executor \in missed)
    <3>1. thr \in [ThreadId -> {"runnable"} \cup Reasons]
      BY Zenon DEF PollInv
    <3>2. Executor \in ThreadId \ {Renderer} /\ Renderer \in ThreadId
      BY ThreadFacts, Zenon
    <3> QED BY <2>1, <3>1, <3>2, WakeSleep, Zenon
  <2> QED BY <2>1, <2>2, OtherSteps DEF PollInv
<1>10. CASE RendererBlock \/ RendererPaint
  <2>1. /\ UNCHANGED <<scancodes, chars, waker, tasks, task>>
        /\ pc' = [pc EXCEPT ![Renderer] = pc'[Renderer]]
    BY <1>10, ThreadFacts DEF RendererBlock, RendererPaint, Goto, streams, exec, PollInv
  <2>2. /\ thr' \in [ThreadId -> {"runnable"} \cup Reasons]
        /\ thr'[Executor] = thr[Executor] /\ (Executor \in missed' <=> Executor \in missed)
    BY <1>10, WakeSleep, ThreadFacts, Zenon DEF RendererBlock, RendererPaint, PollInv
  <2> QED BY <2>1, <2>2, OtherSteps, ThreadFacts DEF PollInv
<1>11. ASSUME NEW p \in Range(Procs),
              \/ \E s \in Strings : WriteCall(p, s)
              \/ \E n \in ReadLens : ReadCall(p, n)
              \/ ReadTest(p) \/ ReadTestEof(p) \/ ReadClearEof(p) \/ ReadPop(p) \/ Return(p)
       PROVE  PollInv'
  <2>1. /\ UNCHANGED <<scancodes, chars, waker, tasks, task, thr, missed>>
        /\ pc' = [pc EXCEPT ![p] = pc'[p]]
    <3>1. CASE ReadTestEof(p) \/ ReadClearEof(p)
      BY <3>1, ThreadFacts, Zenon DEF ReadTestEof, ReadClearEof, Goto, streams, exec, PollInv
    <3>2. CASE \/ \E s \in Strings : WriteCall(p, s)
               \/ \E n \in ReadLens : ReadCall(p, n)
               \/ ReadTest(p) \/ ReadPop(p) \/ Return(p)
      BY <3>2, ThreadFacts, Zenon DEF WriteCall, ReadCall, ReadTest, ReadPop, Return, Goto,
         streams, exec, PollInv
    <3> QED BY <1>11, <3>1, <3>2
  <2> QED BY <2>1, OtherSteps, ThreadFacts DEF PollInv
<1>12. ASSUME NEW p \in Range(Procs), ReadBlock(p) PROVE PollInv'
  <2>1. /\ UNCHANGED <<scancodes, chars, waker, tasks, task>>
        /\ pc' = [pc EXCEPT ![p] = pc'[p]]
        /\ Sleep(p, "WaitStdin", completed_input_queue # << >>)
    BY <1>12, ThreadFacts, Zenon DEF ReadBlock, Goto, streams, exec, PollInv
  <2>2. /\ thr' \in [ThreadId -> {"runnable"} \cup Reasons]
        /\ thr'[Executor] = thr[Executor] /\ (Executor \in missed' <=> Executor \in missed)
    <3>1. thr \in [ThreadId -> {"runnable"} \cup Reasons]
      BY Zenon DEF PollInv
    <3>2. p \in ThreadId /\ Executor \in ThreadId \ {p} /\ "WaitStdin" \in Reasons
      BY ThreadFacts
    <3>3. (completed_input_queue # << >>) \in BOOLEAN
      OBVIOUS
    <3> QED BY <2>1, <3>1, <3>2, <3>3, WakeSleep, Zenon
  <2> QED BY <2>1, <2>2, OtherSteps, ThreadFacts DEF PollInv
<1>13. CASE UNCHANGED vars
  BY <1>13 DEF vars, streams, exec, PollInv, Queue
<1>14. CASE CompositorBlock \/ CompositorPaint \/ (\E p \in Range(Procs) : FrameReady(p))
  BY <1>14, WindowSteps, OtherSteps, ThreadFacts, Zenon DEF streams, exec
<1> QED BY <1>1, <1>2, <1>3, <1>4, <1>5, <1>6, <1>7, <1>8, <1>9, <1>10, <1>11, <1>12, <1>13,
           <1>14 DEF Next

\* Whatever the moment at which interrupts fall into poll_next, a stream with elements
\* has its task queued or polled, and the executor sleeps on a queued task only after
\* the race of sleep_if_idle.
THEOREM PollTheorem == Spec => []QueuedIsPolled
<1>1. PollInv => QueuedIsPolled
  BY DEF PollInv, QueuedIsPolled, Streams
<1> QED BY <1>1, PollInit, PollStep, PTL DEF Spec

------------------------------------------------------------------------------
(* The sleepers: readers first.                                             *)

\* A reader that did not fall asleep over input is going to be woken for it.
ReaderInv ==
  /\ readers_to_wake \in Seq(Range(Procs))
  /\ pc[Executor] = "scan" => index \in 1..Len(Procs)
  /\ \A p \in Range(Procs) \ missed :
       thr[p] = "WaitStdin" /\ completed_input_queue # << >> => WillWakeReader(p)

\* A step that neither commits nor wakes, and puts no reader to sleep over input.
LEMMA ReaderQuiet ==
  ASSUME ReaderInv, UNCHANGED <<index, readers_to_wake>>,
         \/ pc'[Executor] = pc[Executor]
         \/ pc[Executor] \notin {"push", "scan"} /\ pc'[Executor] # "scan",
         completed_input_queue' # << >> =>
           /\ completed_input_queue # << >>
           /\ \A p \in Range(Procs) \ missed' : thr'[p] = "WaitStdin" =>
                p \notin missed /\ thr[p] = "WaitStdin"
  PROVE  ReaderInv'
<1>1. \A p : WillWakeReader(p) => WillWakeReader(p)'
  BY Zenon DEF WillWakeReader
<1> QED BY <1>1, Zenon DEF ReaderInv

\* The same for a step of a thread other than the executor.
LEMMA ReaderElsewhere ==
  ASSUME PollInv, ReaderInv, UNCHANGED <<index, readers_to_wake, completed_input_queue>>,
         NEW t \in ThreadId \ {Executor}, pc' = [pc EXCEPT ![t] = pc'[t]],
         \A p \in Range(Procs) \ missed' : thr'[p] = "WaitStdin" =>
           p \notin missed /\ thr[p] = "WaitStdin"
  PROVE  ReaderInv'
<1>1. pc'[Executor] = pc[Executor]
  BY ThreadFacts DEF PollInv
<1> QED BY <1>1, ReaderQuiet, Zenon

\* unblock_task puts nobody to sleep.
LEMMA WakeReaders ==
  ASSUME PollInv, NEW t, Wake(t)
  PROVE  \A u \in ThreadId \ missed' : thr'[u] \in Reasons =>
           u # t /\ u \notin missed /\ thr[u] = thr'[u]
BY ThreadFacts DEF Wake, Unblocked, PollInv

\* No reader sleeps at boot.
LEMMA ReaderInit == Init => ReaderInv
<1> SUFFICES ASSUME Init PROVE ReaderInv
  OBVIOUS
<1>1. pc[Executor] = "pop" /\ readers_to_wake = << >> /\ completed_input_queue = << >>
  BY ThreadFacts, Zenon DEF Init
<1> QED BY <1>1 DEF ReaderInv

\* Every step keeps ReaderInv.
LEMMA ReaderStep == PollInv /\ ReaderInv /\ [Next]_vars => ReaderInv'
<1> SUFFICES ASSUME PollInv, ReaderInv, [Next]_vars PROVE ReaderInv'
  OBVIOUS
<1>1. ASSUME NEW k \in Keys, KeyboardInterrupt(k) PROVE ReaderInv'
  <2>1. /\ UNCHANGED <<index, readers_to_wake, pc, completed_input_queue>>
        /\ UNCHANGED <<thr, missed>> \/ Wake(Executor)
    BY <1>1 DEF KeyboardInterrupt, WakeStream, exec, tty
  <2>2. \A p \in Range(Procs) \ missed' : thr'[p] = "WaitStdin" =>
          p \notin missed /\ thr[p] = "WaitStdin"
    BY <2>1, WakeReaders, ThreadFacts
  <2> QED BY <2>1, <2>2, ReaderQuiet
<1>2. CASE RunReadyTask \/ SleepIfIdle
  <2>1. /\ UNCHANGED <<index, readers_to_wake, completed_input_queue, thr, missed>>
        /\ pc[Executor] = "pop" /\ pc'[Executor] \in {"next", "block"}
    BY <1>2, ThreadFacts DEF RunReadyTask, SleepIfIdle, At, Goto, exec, tty, PollInv
  <2> QED BY <2>1, ReaderQuiet
<1>3. CASE ExecutorBlock
  <2>1. /\ UNCHANGED <<index, readers_to_wake, completed_input_queue>>
        /\ pc[Executor] = "block" /\ pc'[Executor] = "pop"
        /\ Sleep(Executor, "AsyncExecutorWait", tasks # << >>)
    BY <1>3, ThreadFacts DEF ExecutorBlock, At, Goto, exec, tty, PollInv
  <2>2. \A u \in ThreadId \ {Executor} : thr'[u] = thr[u] /\ (u \in missed' <=> u \in missed)
    BY <2>1, WakeSleep, ThreadFacts, Zenon DEF PollInv
  <2> QED BY <2>1, <2>2, ReaderQuiet, ThreadFacts
<1>4. CASE Poll
  <2>1. /\ UNCHANGED <<index, readers_to_wake, completed_input_queue, thr, missed>>
        /\ pc[Executor] \notin {"push", "scan"} /\ pc'[Executor] # "scan"
    <3>1. CASE PollNext("next", "register") \/ PollNext("flush", "flush_register")
      BY <3>1, ThreadFacts, Zenon DEF PollNext, Item, At, Goto, tty, PollInv
    <3>2. CASE Register("register", task, "again") \/ Register("flush_register", "noop", "flush_again")
      BY <3>2, ThreadFacts DEF Register, At, Goto, exec, tty, PollInv
    <3>3. CASE PollAgain("again", "pop") \/ PollAgain("flush_again", "render")
      BY <3>3, ThreadFacts, Zenon DEF PollAgain, Item, At, Goto, tty, PollInv
    <3> QED BY <1>4, <3>1, <3>2, <3>3, Zenon DEF Poll
  <2> QED BY <2>1, ReaderQuiet
<1>5. CASE HandleKey
  <2>1. /\ UNCHANGED <<index, readers_to_wake, completed_input_queue, thr, missed>>
        /\ pc[Executor] = "key" /\ pc'[Executor] # "scan"
    BY <1>5, ThreadFacts, Zenon DEF HandleKey, KeyCharacter, KeyBackspace, KeyEnter, KeyInterrupt,
       KeyEof, KeyRaw, Echo, At, Goto, PollInv
  <2> QED BY <2>1, ReaderQuiet
<1>6. CASE CommitLine
  <2>1. UNCHANGED <<thr, missed, readers_to_wake>> /\ pc[Executor] = "push"
    BY <1>6 DEF CommitLine, At
  <2>2. CASE UNCHANGED pc
    BY <2>1, <2>2 DEF ReaderInv, WillWakeReader
  <2>3. CASE index' = 1 /\ Goto(Executor, "scan")
    <3>1. pc'[Executor] = "scan"
      BY <2>3, ThreadFacts DEF Goto, PollInv
    <3>2. 1 \in 1..Len(Procs) /\ Range(Procs) = {Procs[i] : i \in 1..Len(Procs)}
      BY ConsoleAssumption DEF Range
    <3> QED BY <2>1, <2>3, <3>1, <3>2 DEF ReaderInv, WillWakeReader
  <2> QED BY <1>6, <2>2, <2>3 DEF CommitLine
<1>7. CASE WakeupScan
  <2>1. /\ UNCHANGED <<thr, missed, completed_input_queue>> /\ pc[Executor] = "scan"
        /\ readers_to_wake' = IF thr[Procs[index]] = "WaitStdin"
                              THEN Append(readers_to_wake, Procs[index]) ELSE readers_to_wake
        /\ index' = index + 1
        /\ pc'[Executor] = IF index < Len(Procs) THEN "scan" ELSE "wake"
    BY <1>7, ThreadFacts DEF WakeupScan, At, Goto, PollInv, tty
  <2>2. index \in 1..Len(Procs) /\ Len(Procs) \in Nat
    <3>1. index \in 1..Len(Procs)
      BY <2>1, Zenon DEF ReaderInv
    <3>2. Len(Procs) \in Nat
      BY ConsoleAssumption
    <3> QED BY <3>1, <3>2
  <2>3. Procs[index] \in Range(Procs)
    BY <2>2, ConsoleAssumption DEF Range
  <2>4. /\ readers_to_wake' \in Seq(Range(Procs))
        /\ Range(readers_to_wake) \subseteq Range(readers_to_wake')
        /\ thr[Procs[index]] = "WaitStdin" => Procs[index] \in Range(readers_to_wake')
    <3>1. readers_to_wake \in Seq(Range(Procs))
      BY Zenon DEF ReaderInv
    <3>2. CASE thr[Procs[index]] = "WaitStdin"
      <4>1. readers_to_wake' = Append(readers_to_wake, Procs[index])
        BY <2>1, <3>2, Zenon
      <4>2. /\ readers_to_wake' \in Seq(Range(Procs))
            /\ Range(readers_to_wake') = Range(readers_to_wake) \cup {Procs[index]}
        BY <2>3, <3>1, <4>1, QueueElements
      <4> QED BY <4>2, Zenon
    <3>3. CASE thr[Procs[index]] # "WaitStdin"
      BY <2>1, <3>1, <3>3, Zenon
    <3> QED BY <3>2, <3>3, Zenon
  <2>5. pc'[Executor] = "scan" => index' \in 1..Len(Procs)
    <3>1. pc'[Executor] = "scan" => index < Len(Procs)
      BY <2>1, Zenon
    <3>2. index' = index + 1
      BY <2>1, Zenon
    <3> QED BY <2>2, <3>1, <3>2
  <2>6. ASSUME NEW p, thr[p] = "WaitStdin", WillWakeReader(p) PROVE WillWakeReader(p)'
    <3>1. CASE p \in Range(readers_to_wake)
      BY <3>1, <2>4 DEF WillWakeReader
    <3>2. ASSUME NEW i \in index..Len(Procs), p = Procs[i] PROVE WillWakeReader(p)'
      <4>1. CASE i = index
        BY <4>1, <3>2, <2>4, <2>6 DEF WillWakeReader
      <4>2. CASE i # index
        <5>1. i \in index'..Len(Procs) /\ pc'[Executor] = "scan"
          BY <4>2, <2>1, <2>2
        <5> QED BY <5>1, <3>2 DEF WillWakeReader
      <4> QED BY <4>1, <4>2
    <3> QED BY <2>1, <2>6, <3>1, <3>2 DEF WillWakeReader
  <2> QED BY <2>1, <2>4, <2>5, <2>6 DEF ReaderInv
<1>8. CASE WakeupReader
  <2>1. pc[Executor] = "wake" /\ UNCHANGED completed_input_queue
    BY <1>8 DEF WakeupReader, At, tty
  <2>2. CASE /\ readers_to_wake # << >> /\ Wake(Head(readers_to_wake))
             /\ readers_to_wake' = Tail(readers_to_wake) /\ UNCHANGED pc
    <3>1. /\ readers_to_wake' \in Seq(Range(Procs))
          /\ Range(readers_to_wake) = {Head(readers_to_wake)} \cup Range(readers_to_wake')
      BY <2>2, QueueElements DEF ReaderInv
    <3>2. ASSUME NEW p \in Range(Procs) \ missed', thr'[p] = "WaitStdin",
                 completed_input_queue' # << >>
          PROVE  p \in Range(readers_to_wake')
      <4>1. p # Head(readers_to_wake) /\ p \notin missed /\ thr[p] = "WaitStdin"
        BY <2>2, <3>2, WakeReaders, ThreadFacts
      <4>2. WillWakeReader(p)
        BY <4>1, <3>2, <2>1 DEF ReaderInv
      <4> QED BY <4>1, <4>2, <3>1, <2>1, Zenon DEF WillWakeReader
    <3> QED BY <2>1, <2>2, <3>1, <3>2, Zenon DEF ReaderInv, WillWakeReader
  <2>3. CASE /\ readers_to_wake = << >> /\ UNCHANGED <<thr, missed, readers_to_wake>>
             /\ Goto(Executor, IF wrote THEN "render" ELSE "next")
    <3>1. pc'[Executor] # "scan"
      BY <2>3, ThreadFacts DEF Goto, PollInv
    <3>2. \A p : ~ WillWakeReader(p)
      BY <2>1, <2>3 DEF WillWakeReader, Range
    <3> QED BY <2>1, <2>3, <3>1, <3>2 DEF ReaderInv
  <2> QED BY <1>8, <2>2, <2>3 DEF WakeupReader
<1>9. ASSUME NEW t \in ThreadId, OutputByte(t) PROVE ReaderInv'
  <2>1. /\ UNCHANGED <<index, readers_to_wake, completed_input_queue, thr, missed>>
        /\ pc' = [pc EXCEPT ![t] = IF Len(out[t]) > 1 THEN "emit" ELSE AfterOutput(t)]
        /\ pc[t] = "emit"
    BY <1>9 DEF OutputByte, At, Goto, exec, tty
  <2>2. t = Executor => task \in Streams
    BY <2>1 DEF PollInv
  <2>3. AfterOutput(t) # "scan"
    BY <2>2 DEF AfterOutput, Streams
  <2> QED BY <2>1, <2>3, ReaderQuiet, ThreadFacts DEF PollInv
<1>10. ASSUME NEW t \in ThreadId, WakeTtyRenderer(t) PROVE ReaderInv'
  <2>1. /\ UNCHANGED <<index, readers_to_wake, completed_input_queue>> /\ Wake(Renderer)
        /\ pc' = [pc EXCEPT ![t] = IF t = Executor THEN "next" ELSE "return"] /\ pc[t] = "render"
    BY <1>10 DEF WakeTtyRenderer, At, Goto, exec, tty
  <2>2. \A p \in Range(Procs) \ missed' : thr'[p] = "WaitStdin" =>
          p \notin missed /\ thr[p] = "WaitStdin"
    BY <2>1, WakeReaders, ThreadFacts
  <2> QED BY <2>1, <2>2, ReaderQuiet, ThreadFacts DEF PollInv
<1>11. CASE RendererBlock \/ RendererPaint
  <2>1. /\ UNCHANGED <<index, readers_to_wake, completed_input_queue>>
        /\ pc' = [pc EXCEPT ![Renderer] = pc'[Renderer]]
    BY <1>11, ThreadFacts DEF RendererBlock, RendererPaint, Goto, exec, tty, PollInv
  <2>2. \A u \in ThreadId \ {Renderer} : thr'[u] = thr[u] /\ (u \in missed' <=> u \in missed)
    BY <1>11, WakeSleep, ThreadFacts, ZenonT(30) DEF RendererBlock, RendererPaint, PollInv
  <2> QED BY <2>1, <2>2, ReaderElsewhere, ThreadFacts
<1>12. ASSUME NEW p \in Range(Procs),
              \/ \E s \in Strings : WriteCall(p, s)
              \/ \E n \in ReadLens : ReadCall(p, n)
              \/ ReadTest(p) \/ ReadTestEof(p) \/ ReadClearEof(p) \/ Return(p)
       PROVE  ReaderInv'
  <2>1. /\ UNCHANGED <<index, readers_to_wake, completed_input_queue, thr, missed>>
        /\ pc' = [pc EXCEPT ![p] = pc'[p]]
    <3>1. CASE ReadTestEof(p) \/ ReadClearEof(p)
      BY <3>1, ThreadFacts, Zenon DEF ReadTestEof, ReadClearEof, Goto, exec, tty, PollInv
    <3>2. CASE \/ \E s \in Strings : WriteCall(p, s)
               \/ \E n \in ReadLens : ReadCall(p, n)
               \/ ReadTest(p) \/ Return(p)
      BY <3>2, ThreadFacts, Zenon DEF WriteCall, ReadCall, ReadTest, Return, Goto, exec, tty,
         PollInv
    <3> QED BY <1>12, <3>1, <3>2
  <2>2. p \in ThreadId \ {Executor}
    BY ThreadFacts
  <2> QED BY <2>1, <2>2, ReaderElsewhere
<1>13. ASSUME NEW p \in Range(Procs), ReadPop(p) PROVE ReaderInv'
  <2>1. /\ UNCHANGED <<index, readers_to_wake, thr, missed>>
        /\ completed_input_queue' # << >> => completed_input_queue # << >>
        /\ pc' = [pc EXCEPT ![p] = pc'[p]]
    BY <1>13, ThreadFacts DEF ReadPop, Goto, exec, PollInv
  <2>2. pc'[Executor] = pc[Executor]
    BY <2>1, ThreadFacts DEF PollInv
  <2> QED BY <2>1, <2>2, ReaderQuiet
<1>14. ASSUME NEW p \in Range(Procs), ReadBlock(p) PROVE ReaderInv'
  <2>1. /\ UNCHANGED <<index, readers_to_wake, completed_input_queue>>
        /\ Sleep(p, "WaitStdin", completed_input_queue # << >>)
        /\ pc' = [pc EXCEPT ![p] = pc'[p]]
    BY <1>14, ThreadFacts, Zenon DEF ReadBlock, Goto, exec, tty, PollInv
  <2>2. pc'[Executor] = pc[Executor]
    BY <2>1, ThreadFacts DEF PollInv
  <2>3. /\ completed_input_queue # << >> => p \in missed'
        /\ \A u \in ThreadId \ {p} : thr'[u] = thr[u] /\ (u \in missed' <=> u \in missed)
    BY <2>1, WakeSleep, ThreadFacts, Zenon DEF PollInv
  <2> QED BY <2>1, <2>2, <2>3, ReaderQuiet, ThreadFacts, Zenon
<1>15. CASE UNCHANGED vars
  BY <1>15, Zenon DEF vars, exec, tty, ReaderInv, WillWakeReader
<1>16. CASE CompositorBlock \/ CompositorPaint \/ (\E p \in Range(Procs) : FrameReady(p))
  <2>1. /\ UNCHANGED <<index, readers_to_wake, completed_input_queue>>
        /\ pc' = [pc EXCEPT ![Compositor] = pc'[Compositor]]
        /\ \A u \in ThreadId \ {Compositor} :
             thr'[u] = thr[u] /\ (u \in missed' <=> u \in missed)
    BY <1>16, WindowSteps, Zenon DEF exec, tty
  <2> QED BY <2>1, ReaderElsewhere, ThreadFacts
<1> QED BY <1>1, <1>2, <1>3, <1>4, <1>5, <1>6, <1>7, <1>8, <1>9, <1>10, <1>11, <1>12, <1>13,
           <1>14, <1>15, <1>16
        DEF Next

------------------------------------------------------------------------------
(* ... and the renderer.                                                    *)

\* The echo of a key reaches the wake-up by way of commit_line only if wrote_bytes is
\* set, and only the console task loops over now_or_never.
OutputInv ==
  /\ wrote \in BOOLEAN
  /\ pc[Executor] = "emit" /\ task = "keyboard" => wrote
  /\ pc[Executor] \in {"flush", "flush_register", "flush_again"} => task = "console"

\* Whoever marked a row of a screen whose renderer sleeps is going to wake it.
RendererInv ==
  /\ OutputInv
  /\ Renderer \notin missed /\ thr[Renderer] = "TtyRenderWait" /\ terminal.dirty_row # {} =>
       \E t \in ThreadId : WillWakeRenderer(t)

\* A step that does not put the renderer to sleep, marks no row, and loses no promise
\* to wake the renderer.
LEMMA RendererQuiet ==
  ASSUME RendererInv, OutputInv', UNCHANGED terminal,
         thr'[Renderer] = "TtyRenderWait" /\ Renderer \notin missed' =>
           thr[Renderer] = "TtyRenderWait" /\ Renderer \notin missed,
         \A t \in ThreadId : WillWakeRenderer(t) => WillWakeRenderer(t)'
  PROVE  RendererInv'
BY Zenon DEF RendererInv

\* The same for a step of a thread t that is not about to wake the renderer.
LEMMA RendererElsewhere ==
  ASSUME PollInv, RendererInv, UNCHANGED terminal,
         NEW t \in ThreadId, pc' = [pc EXCEPT ![t] = pc'[t]],
         \/ t # Executor /\ pc[t] \notin {"emit", "render"} /\ UNCHANGED <<wrote, task>>
         \/ t = Executor /\ OutputInv' /\ (WillWakeRenderer(t) => WillWakeRenderer(t)'),
         thr'[Renderer] = "TtyRenderWait" /\ Renderer \notin missed' =>
           thr[Renderer] = "TtyRenderWait" /\ Renderer \notin missed
  PROVE  RendererInv'
<1>1. \A u \in ThreadId \ {t} : pc'[u] = pc[u]
  BY DEF PollInv
<1>2. OutputInv'
  BY <1>1, ThreadFacts DEF RendererInv, OutputInv
<1>3. ASSUME NEW u \in ThreadId, WillWakeRenderer(u) PROVE WillWakeRenderer(u)'
  <2>1. CASE u = t
    BY <1>3, <2>1 DEF WillWakeRenderer
  <2>2. CASE u # t /\ u # Executor
    BY <1>1, <1>3, <2>2 DEF WillWakeRenderer
  <2>3. CASE u # t /\ u = Executor
    BY <1>1, <1>3, <2>3, SMTT(30) DEF WillWakeRenderer
  <2> QED BY <2>1, <2>2, <2>3
<1> QED BY <1>2, <1>3, RendererQuiet

\* The renderer does not sleep at boot.
LEMMA RendererInit == Init => RendererInv
<1> SUFFICES ASSUME Init PROVE RendererInv
  OBVIOUS
<1>1. pc[Executor] = "pop" /\ thr[Renderer] = "runnable" /\ wrote = FALSE
  BY ThreadFacts, Zenon DEF Init
<1> QED BY <1>1, Zenon DEF RendererInv, OutputInv

\* Every step keeps RendererInv.
LEMMA RendererStep == PollInv /\ RendererInv /\ [Next]_vars => RendererInv'
<1> SUFFICES ASSUME PollInv, RendererInv, [Next]_vars PROVE RendererInv'
  OBVIOUS
<1>1. ASSUME NEW k \in Keys, KeyboardInterrupt(k) PROVE RendererInv'
  <2>1. /\ UNCHANGED <<wrote, task, pc, terminal>>
        /\ UNCHANGED <<thr, missed>> \/ Wake(Executor)
    BY <1>1 DEF KeyboardInterrupt, WakeStream, exec, screen
  <2>2. thr'[Renderer] = "TtyRenderWait" /\ Renderer \notin missed' =>
          thr[Renderer] = "TtyRenderWait" /\ Renderer \notin missed
    BY <2>1, WakeReaders, ThreadFacts
  <2>3. \A t \in ThreadId : WillWakeRenderer(t) => WillWakeRenderer(t)'
    BY <2>1 DEF WillWakeRenderer
  <2> QED BY <2>1, <2>2, <2>3, RendererQuiet DEF RendererInv, OutputInv
<1>2. CASE RunReadyTask \/ SleepIfIdle
  <2>1. /\ UNCHANGED <<wrote, terminal, thr, missed>>
        /\ pc[Executor] = "pop" /\ pc' = [pc EXCEPT ![Executor] = pc'[Executor]]
        /\ pc'[Executor] \in {"next", "block"}
    BY <1>2, ThreadFacts DEF RunReadyTask, SleepIfIdle, At, Goto, exec, screen, PollInv
  <2> QED BY <2>1, RendererElsewhere, ThreadFacts, Zenon DEF RendererInv, OutputInv,
             WillWakeRenderer
<1>3. CASE ExecutorBlock
  <2>1. /\ UNCHANGED <<wrote, terminal>>
        /\ pc[Executor] = "block" /\ pc' = [pc EXCEPT ![Executor] = "pop"]
        /\ Sleep(Executor, "AsyncExecutorWait", tasks # << >>)
    BY <1>3, ThreadFacts DEF ExecutorBlock, At, Goto, exec, screen, PollInv
  <2>2. thr'[Renderer] = thr[Renderer] /\ (Renderer \in missed' <=> Renderer \in missed)
    BY <2>1, WakeSleep, ThreadFacts, Zenon DEF PollInv
  <2>3. pc' = [pc EXCEPT ![Executor] = pc'[Executor]] /\ pc'[Executor] = "pop"
    BY <2>1, ThreadFacts DEF PollInv
  <2> QED BY <2>1, <2>2, <2>3, RendererElsewhere, ThreadFacts, Zenon DEF RendererInv, OutputInv,
             WillWakeRenderer
<1>4. CASE Poll
  <2>1. /\ UNCHANGED <<wrote, terminal, thr, missed>>
        /\ pc' = [pc EXCEPT ![Executor] = pc'[Executor]]
        /\ OutputInv' /\ (WillWakeRenderer(Executor) => WillWakeRenderer(Executor)')
    <3>1. CASE PollNext("next", "register") \/ PollNext("flush", "flush_register")
      BY <3>1, ThreadFacts, Zenon DEF PollNext, Item, At, Goto, screen, PollInv, Streams,
         RendererInv, OutputInv, WillWakeRenderer
    <3>2. CASE Register("register", task, "again") \/ Register("flush_register", "noop", "flush_again")
      BY <3>2, ThreadFacts DEF Register, At, Goto, exec, screen, PollInv,
         RendererInv, OutputInv, WillWakeRenderer
    <3>3. CASE PollAgain("again", "pop") \/ PollAgain("flush_again", "render")
      BY <3>3, ThreadFacts, Zenon DEF PollAgain, Item, At, Goto, screen, PollInv, Streams,
         RendererInv, OutputInv, WillWakeRenderer
    <3> QED BY <1>4, <3>1, <3>2, <3>3 DEF Poll
  <2> QED BY <2>1, RendererElsewhere, ThreadFacts
<1>5. CASE HandleKey
  <2>1. /\ UNCHANGED <<terminal, thr, missed, task>> /\ pc[Executor] = "key"
        /\ pc' = [pc EXCEPT ![Executor] = pc'[Executor]]
        /\ wrote' \in BOOLEAN /\ (pc'[Executor] = "emit" => wrote')
        /\ pc'[Executor] \in {"emit", "next", "push"}
    BY <1>5, ThreadFacts, Zenon DEF HandleKey, KeyCharacter, KeyBackspace, KeyEnter, KeyInterrupt,
       KeyEof, KeyRaw, Echo, At, Goto, screen, PollInv
  <2> QED BY <2>1, RendererElsewhere, ThreadFacts DEF OutputInv, WillWakeRenderer
<1>6. CASE CommitLine \/ WakeupScan
  <2>1. /\ UNCHANGED <<terminal, thr, missed, task, wrote>> /\ pc[Executor] \in {"push", "scan"}
        /\ pc' = [pc EXCEPT ![Executor] = pc'[Executor]]
        /\ pc'[Executor] \in {"push", "scan", "wake"}
    BY <1>6, ThreadFacts DEF CommitLine, WakeupScan, At, Goto, screen, PollInv
  <2> QED BY <2>1, RendererElsewhere, ThreadFacts, Zenon DEF RendererInv, OutputInv,
             WillWakeRenderer
<1>7. CASE WakeupReader
  <2>1. /\ UNCHANGED <<terminal, task, wrote>> /\ pc[Executor] = "wake"
        /\ pc' = [pc EXCEPT ![Executor] = pc'[Executor]]
        /\ pc'[Executor] = "wake" \/ pc'[Executor] = IF wrote THEN "render" ELSE "next"
    BY <1>7, ThreadFacts DEF WakeupReader, At, Goto, screen, PollInv
  <2>2. UNCHANGED <<thr, missed>> \/ Wake(Head(readers_to_wake))
    BY <1>7 DEF WakeupReader
  <2>3. thr'[Renderer] = "TtyRenderWait" /\ Renderer \notin missed' =>
          thr[Renderer] = "TtyRenderWait" /\ Renderer \notin missed
    BY <2>2, WakeReaders, ThreadFacts
  <2> QED BY <2>1, <2>3, RendererElsewhere, ThreadFacts, Zenon DEF RendererInv, OutputInv,
             WillWakeRenderer
<1>8. ASSUME NEW t \in ThreadId, OutputByte(t) PROVE RendererInv'
  <2>1. /\ UNCHANGED <<task, wrote, thr, missed>> /\ pc[t] = "emit"
        /\ pc' = [pc EXCEPT ![t] = IF Len(out[t]) > 1 THEN "emit" ELSE AfterOutput(t)]
    BY <1>8 DEF OutputByte, At, Goto, exec
  <2>2. CASE t # Executor
    <3>1. pc'[t] \in {"emit", "render"} /\ pc'[Executor] = pc[Executor]
      BY <2>1, <2>2, ThreadFacts DEF AfterOutput, PollInv
    <3> QED BY <2>1, <3>1 DEF RendererInv, OutputInv, WillWakeRenderer
  <2>3. CASE t = Executor
    <3>1. task \in Streams
      BY <2>1, <2>3 DEF PollInv
    <3>2. \/ pc'[Executor] \in {"emit", "render"}
          \/ pc'[Executor] = "flush" /\ task = "console"
          \/ pc'[Executor] = "push" /\ task = "keyboard"
      BY <2>1, <2>3, <3>1, ThreadFacts DEF AfterOutput, PollInv, Streams
    <3>3. OutputInv' /\ WillWakeRenderer(Executor)'
      BY <2>1, <2>3, <3>2, Zenon DEF RendererInv, OutputInv, WillWakeRenderer
    <3> QED BY <3>3, ThreadFacts, Zenon DEF RendererInv
  <2> QED BY <2>2, <2>3
<1>9. ASSUME NEW t \in ThreadId, WakeTtyRenderer(t) PROVE RendererInv'
  <2>1. /\ UNCHANGED <<task, wrote>> /\ Wake(Renderer)
        /\ pc' = [pc EXCEPT ![t] = IF t = Executor THEN "next" ELSE "return"]
    BY <1>9 DEF WakeTtyRenderer, Goto, exec
  <2>2. thr'[Renderer] = "runnable"
    BY <2>1, WakeSleep, ThreadFacts DEF PollInv
  <2>3. OutputInv'
    BY <2>1, ThreadFacts DEF RendererInv, OutputInv, PollInv
  <2> QED BY <2>2, <2>3 DEF RendererInv
<1>10. CASE RendererBlock
  <2>1. /\ UNCHANGED <<task, wrote, terminal>> /\ pc' = [pc EXCEPT ![Renderer] = "paint"]
        /\ Sleep(Renderer, "TtyRenderWait", terminal.dirty_row # {})
    BY <1>10 DEF RendererBlock, Goto, exec, screen
  <2>2. terminal.dirty_row # {} => Renderer \in missed'
    BY <2>1, WakeSleep, ThreadFacts, Zenon DEF PollInv
  <2>3. OutputInv'
    BY <2>1, ThreadFacts DEF RendererInv, OutputInv, PollInv
  <2> QED BY <2>1, <2>2, <2>3, Zenon DEF RendererInv
<1>11. CASE RendererPaint
  <2>1. /\ UNCHANGED <<task, wrote, thr>> /\ pc' = [pc EXCEPT ![Renderer] = "sleep"]
        /\ thr[Renderer] = "runnable"
    BY <1>11 DEF RendererPaint, At, Goto, exec
  <2>2. OutputInv'
    BY <2>1, ThreadFacts DEF RendererInv, OutputInv, PollInv
  <2> QED BY <2>1, <2>2 DEF RendererInv
<1>12. ASSUME NEW p \in Range(Procs),
              \/ \E s \in Strings : WriteCall(p, s)
              \/ \E n \in ReadLens : ReadCall(p, n)
              \/ ReadTest(p) \/ ReadTestEof(p) \/ ReadClearEof(p) \/ ReadPop(p) \/ Return(p)
       PROVE  RendererInv'
  <2>1. /\ UNCHANGED <<terminal, task, wrote, thr, missed>>
        /\ pc[p] \notin {"emit", "render"} /\ pc' = [pc EXCEPT ![p] = pc'[p]]
    BY <1>12, ThreadFacts, Zenon DEF WriteCall, ReadCall, ReadTest, ReadTestEof,
       ReadClearEof, ReadPop, Return, At, Goto, exec, screen, PollInv
  <2> QED BY <2>1, RendererElsewhere, ThreadFacts
<1>13. ASSUME NEW p \in Range(Procs), ReadBlock(p) PROVE RendererInv'
  <2>1. /\ UNCHANGED <<terminal, task, wrote>>
        /\ pc[p] \notin {"emit", "render"} /\ pc' = [pc EXCEPT ![p] = pc'[p]]
        /\ Sleep(p, "WaitStdin", completed_input_queue # << >>)
    BY <1>13, ThreadFacts, Zenon DEF ReadBlock, At, Goto, exec, screen, PollInv
  <2>2. thr'[Renderer] = thr[Renderer] /\ (Renderer \in missed' <=> Renderer \in missed)
    BY <2>1, WakeSleep, ThreadFacts, ZenonT(30) DEF PollInv
  <2> QED BY <2>1, <2>2, RendererElsewhere, ThreadFacts, Zenon
<1>14. CASE UNCHANGED vars
  BY <1>14 DEF vars, exec, screen, RendererInv, OutputInv, WillWakeRenderer
<1>15. CASE CompositorBlock \/ CompositorPaint \/ (\E p \in Range(Procs) : FrameReady(p))
  <2>1. /\ UNCHANGED <<terminal, task, wrote>>
        /\ pc' = [pc EXCEPT ![Compositor] = pc'[Compositor]]
        /\ \A u \in ThreadId \ {Compositor} :
             thr'[u] = thr[u] /\ (u \in missed' <=> u \in missed)
    BY <1>15, WindowSteps, Zenon DEF exec
  <2>2. CASE pc[Compositor] \in {"sleep", "paint"}
    BY <2>1, <2>2, RendererElsewhere, ThreadFacts
  <2>3. CASE pc' = pc
    <3>1. OutputInv' /\ \A t \in ThreadId : WillWakeRenderer(t) => WillWakeRenderer(t)'
      BY <2>1, <2>3, Zenon DEF RendererInv, OutputInv, WillWakeRenderer
    <3> QED BY <2>1, <3>1, RendererQuiet, ThreadFacts
  <2> QED BY <1>15, <2>2, <2>3, WindowSteps
<1> QED BY <1>1, <1>2, <1>3, <1>4, <1>5, <1>6, <1>7, <1>8, <1>9, <1>10, <1>11, <1>12, <1>13,
           <1>14, <1>15 DEF Next

\* No wake-up is lost on the way from commit_line to the readers or from write_byte to
\* the renderer: who sleeps over work without a promise to be woken fell asleep in the
\* step between the test and block_task.
THEOREM SleepersTheorem == Spec => []SleepersAreWoken
<1>1. Init => PollInv /\ ReaderInv /\ RendererInv
  BY PollInit, ReaderInit, RendererInit
<1>2. PollInv /\ ReaderInv /\ RendererInv /\ [Next]_vars => (PollInv /\ ReaderInv /\ RendererInv)'
  BY PollStep, ReaderStep, RendererStep
<1>3. ReaderInv /\ RendererInv => SleepersAreWoken
  BY DEF ReaderInv, RendererInv, SleepersAreWoken
<1> QED BY <1>1, <1>2, <1>3, PTL DEF Spec

------------------------------------------------------------------------------
(* The line discipline: where every key is.                                 *)

\* Keys on their way: in the order typed, after lo and up to hi.
Stage(s, lo, hi) ==
  /\ s \in Seq(Nat) /\ lo \in Nat /\ hi \in Nat /\ lo <= hi
  /\ \A i \in 1..Len(s) : lo < s[i] /\ s[i] <= hi
  /\ \A i, j \in 1..Len(s) : i < j => s[i] < s[j]

\* The types of a stage.
LEMMA StageFacts ==
  ASSUME NEW s, NEW lo, NEW hi, Stage(s, lo, hi)
  PROVE  s \in Seq(Nat) /\ Len(s) \in Nat /\ lo \in Nat /\ hi \in Nat /\ lo <= hi
BY DEF Stage

\* A queue without its last element.
LEMMA Front ==
  ASSUME NEW S, NEW q \in Seq(S), q # << >>
  PROVE  /\ SubSeq(q, 1, Len(q) - 1) \in Seq(S) /\ Len(SubSeq(q, 1, Len(q) - 1)) = Len(q) - 1
         /\ \A i \in 1..(Len(q) - 1) : SubSeq(q, 1, Len(q) - 1)[i] = q[i]
<1> DEFINE n == Len(q) - 1
<1>1. n \in Nat /\ n \in Int /\ 1 \in Int /\ \A i \in 1..n : q[i] \in S
  OBVIOUS
<1> HIDE DEF n
<1>2. /\ SubSeq(q, 1, n) \in Seq(S)
      /\ Len(SubSeq(q, 1, n)) = IF 1 <= n THEN n - 1 + 1 ELSE 0
      /\ \A i \in 1..(n - 1 + 1) : SubSeq(q, 1, n)[i] = q[1 + i - 1]
  BY <1>1, SubSeqProperties
<1>3. Len(SubSeq(q, 1, n)) = n /\ 1..(n - 1 + 1) = 1..n /\ \A i \in 1..n : 1 + i - 1 = i
  BY <1>1, <1>2
<1>4. \A i \in 1..n : SubSeq(q, 1, n)[i] = q[i]
  BY <1>2, <1>3
<1> QED BY <1>2, <1>3, <1>4 DEF n

\* A key passes on: the first of a stage leaves it, ...
LEMMA StageTail ==
  ASSUME NEW s, NEW lo, NEW hi, Stage(s, lo, hi), s # << >>
  PROVE  /\ Head(s) \in Nat /\ lo < Head(s) /\ Head(s) <= hi
         /\ Stage(Tail(s), Head(s), hi) /\ Stage(Tail(s), lo, hi)
         /\ Len(Tail(s)) = Len(s) - 1
<1> DEFINE t == Tail(s)
<1>1. /\ s \in Seq(Nat) /\ lo \in Nat /\ hi \in Nat /\ lo <= hi
      /\ \A i \in 1..Len(s) : s[i] \in Nat /\ lo < s[i] /\ s[i] <= hi
      /\ \A i, j \in 1..Len(s) : i < j => s[i] < s[j]
  BY DEF Stage
<1>2. /\ t \in Seq(Nat) /\ Len(s) \in Nat /\ Len(s) >= 1 /\ Len(t) = Len(s) - 1
      /\ Head(s) = s[1] /\ \A i \in 1..Len(t) : t[i] = s[i + 1] /\ t[i] \in Nat
  BY <1>1
<1> HIDE DEF t
<1>3. Head(s) \in Nat /\ lo < Head(s) /\ Head(s) <= hi
  BY <1>1, <1>2
<1>a. ASSUME NEW i \in 1..Len(t) PROVE i + 1 \in 1..Len(s) /\ 1 \in 1..Len(s) /\ 1 < i + 1
  BY <1>2
<1>4. ASSUME NEW i \in 1..Len(t) PROVE Head(s) < t[i] /\ t[i] <= hi /\ lo < t[i]
  <2>1. s[1] < s[i + 1] /\ s[i + 1] <= hi /\ lo < s[i + 1]
    BY <1>a, <1>1
  <2> QED BY <2>1, <1>2
<1>5. ASSUME NEW i \in 1..Len(t), NEW j \in 1..Len(t), i < j PROVE t[i] < t[j]
  <2>1. i + 1 \in 1..Len(s) /\ j + 1 \in 1..Len(s) /\ i + 1 < j + 1
    BY <1>a, <1>5
  <2>2. s[i + 1] < s[j + 1]
    BY <2>1, <1>1
  <2> QED BY <2>2, <1>2
<1> QED BY <1>1, <1>2, <1>3, <1>4, <1>5 DEF Stage, t

\* ... and joins the one before at its end.
LEMMA StageAppend ==
  ASSUME NEW s, NEW lo, NEW hi, Stage(s, lo, hi), NEW x \in Nat, hi < x
  PROVE  Stage(Append(s, x), lo, x) /\ Len(Append(s, x)) = Len(s) + 1
<1> DEFINE t == Append(s, x)
<1>1. /\ s \in Seq(Nat) /\ lo \in Nat /\ hi \in Nat /\ lo <= hi
      /\ \A i \in 1..Len(s) : s[i] \in Nat /\ lo < s[i] /\ s[i] <= hi
      /\ \A i, j \in 1..Len(s) : i < j => s[i] < s[j]
  BY DEF Stage
<1>2. /\ t \in Seq(Nat) /\ Len(s) \in Nat /\ Len(t) = Len(s) + 1 /\ t[Len(s) + 1] = x
      /\ \A i \in 1..Len(s) : t[i] = s[i] /\ t[i] \in Nat
  BY <1>1
<1> HIDE DEF t
<1>3. ASSUME NEW i \in 1..Len(t) PROVE lo < t[i] /\ t[i] <= x
  <2>1. CASE i = Len(s) + 1
    BY <2>1, <1>1, <1>2
  <2>2. CASE i \in 1..Len(s)
    <3>1. t[i] = s[i] /\ s[i] \in Nat /\ lo < s[i] /\ s[i] <= hi
      BY <2>2, <1>1, <1>2
    <3> QED BY <3>1, <1>1
  <2> QED BY <2>1, <2>2, <1>2
<1>4. ASSUME NEW i \in 1..Len(t), NEW j \in 1..Len(t), i < j PROVE t[i] < t[j]
  <2>1. i \in 1..Len(s)
    BY <1>2, <1>4
  <2>2. CASE j = Len(s) + 1
    <3>1. t[i] = s[i] /\ s[i] \in Nat /\ s[i] <= hi /\ t[j] = x
      BY <2>1, <2>2, <1>1, <1>2
    <3> QED BY <3>1, <1>1
  <2>3. CASE j \in 1..Len(s)
    BY <2>1, <2>3, <1>1, <1>2, <1>4
  <2>4. j = Len(s) + 1 \/ j \in 1..Len(s)
    BY <1>2
  <2> QED BY <2>2, <2>3, <2>4
<1>5. lo <= x
  BY <1>1
<1>6. Stage(t, lo, x)
  BY <1>1, <1>2, <1>3, <1>4, <1>5, Zenon DEF Stage
<1> QED BY <1>2, <1>6 DEF t

\* The last key of a stage is erased; more keys may follow; nothing is in order.
LEMMA StageMore ==
  ASSUME NEW s, NEW lo, NEW hi, Stage(s, lo, hi)
  PROVE  /\ s # << >> => /\ Stage(SubSeq(s, 1, Len(s) - 1), lo, hi)
                         /\ Len(SubSeq(s, 1, Len(s) - 1)) = Len(s) - 1
                         /\ \A i \in 1..(Len(s) - 1) : SubSeq(s, 1, Len(s) - 1)[i] = s[i]
         /\ \A x \in Nat : hi <= x => Stage(s, lo, x)
         /\ Stage(<< >>, lo, hi)
<1>1. /\ s \in Seq(Nat) /\ lo \in Nat /\ hi \in Nat /\ lo <= hi
      /\ \A i \in 1..Len(s) : s[i] \in Nat /\ lo < s[i] /\ s[i] <= hi
      /\ \A i, j \in 1..Len(s) : i < j => s[i] < s[j]
  BY DEF Stage
<1>2. ASSUME s # << >>
      PROVE  /\ Stage(SubSeq(s, 1, Len(s) - 1), lo, hi)
             /\ Len(SubSeq(s, 1, Len(s) - 1)) = Len(s) - 1
             /\ \A i \in 1..(Len(s) - 1) : SubSeq(s, 1, Len(s) - 1)[i] = s[i]
  <2> DEFINE t == SubSeq(s, 1, Len(s) - 1)
  <2>1. Len(s) \in Nat /\ Len(s) >= 1
    BY <1>1, <1>2
  <2>2. t \in Seq(Nat) /\ Len(t) = Len(s) - 1 /\ \A i \in 1..(Len(s) - 1) : t[i] = s[i]
    BY <1>1, <1>2, Front
  <2> HIDE DEF t
  <2>3. Stage(t, lo, hi)
    <3>1. \A i \in 1..Len(t) : i \in 1..Len(s) /\ t[i] = s[i]
      BY <2>1, <2>2
    <3> QED BY <1>1, <2>2, <3>1, Zenon DEF Stage
  <2> QED BY <2>2, <2>3 DEF t
<1>3. ASSUME NEW x \in Nat, hi <= x PROVE Stage(s, lo, x)
  <2>1. \A i \in 1..Len(s) : lo < s[i] /\ s[i] <= x
    BY <1>1, <1>3
  <2> QED BY <1>1, <1>3, <2>1 DEF Stage
<1>4. Stage(<< >>, lo, hi)
  BY <1>1 DEF Stage
<1> QED BY <1>2, <1>3, <1>4

\* Two stages, one behind the other.
LEMMA StageConcat ==
  ASSUME NEW s, NEW t, NEW lo, NEW mid, NEW hi, Stage(s, lo, mid), Stage(t, mid, hi)
  PROVE  /\ Len(s \o t) = Len(s) + Len(t)
         /\ \A i, j \in 1..Len(s \o t) : i < j => (s \o t)[i] < (s \o t)[j]
<1> DEFINE u == s \o t
           m == Len(s)
           n == Len(t)
<1>1. /\ s \in Seq(Nat) /\ t \in Seq(Nat) /\ mid \in Nat
      /\ \A i \in 1..m : s[i] <= mid
      /\ \A i, j \in 1..m : i < j => s[i] < s[j]
      /\ \A i \in 1..n : mid < t[i]
      /\ \A i, j \in 1..n : i < j => t[i] < t[j]
  BY DEF Stage
<1>2. /\ m \in Nat /\ n \in Nat /\ \A i \in 1..m : s[i] \in Nat
      /\ \A i \in 1..n : t[i] \in Nat
  BY <1>1
<1>3. Len(u) = m + n /\ \A i \in 1..(m + n) : u[i] = IF i <= m THEN s[i] ELSE t[i - m]
  BY <1>1, ConcatProperties
<1> HIDE DEF u, m, n
<1>4. ASSUME NEW i \in 1..Len(u), NEW j \in 1..Len(u), i < j PROVE u[i] < u[j]
  <2>1. CASE j <= m
    <3>1. i \in 1..m /\ j \in 1..m /\ u[i] = s[i] /\ u[j] = s[j]
      BY <1>2, <1>3, <1>4, <2>1
    <3> QED BY <1>1, <1>4, <3>1, Zenon
  <2>2. CASE i <= m /\ ~(j <= m)
    <3>1. i \in 1..m /\ j - m \in 1..n /\ u[i] = s[i] /\ u[j] = t[j - m]
      BY <1>2, <1>3, <1>4, <2>2
    <3>2. s[i] \in Nat /\ s[i] <= mid /\ t[j - m] \in Nat /\ mid < t[j - m]
      BY <1>1, <1>2, <3>1, Zenon
    <3> QED BY <1>1, <3>1, <3>2
  <2>3. CASE ~(i <= m)
    <3>1. /\ i - m \in 1..n /\ j - m \in 1..n /\ i - m < j - m
          /\ u[i] = t[i - m] /\ u[j] = t[j - m]
      BY <1>2, <1>3, <1>4, <2>3
    <3> QED BY <1>1, <3>1, Zenon
  <2> QED BY <2>1, <2>2, <2>3
<1> QED BY <1>3, <1>4 DEF u, m, n

\* The elements of a stage.
LEMMA StageRange ==
  ASSUME NEW s, NEW lo, NEW hi, Stage(s, lo, hi)
  PROVE  \A x \in Range(s) : x \in Nat /\ lo < x /\ x <= hi
<1>1. /\ s \in Seq(Nat) /\ \A i \in 1..Len(s) : lo < s[i] /\ s[i] <= hi
  BY DEF Stage
<1>2. DOMAIN s = 1..Len(s) /\ \A i \in 1..Len(s) : s[i] \in Nat
  BY <1>1
<1> QED BY <1>1, <1>2, Zenon DEF Range

\* Its first element is nowhere else in it.
LEMMA StageHead ==
  ASSUME NEW s, NEW lo, NEW hi, Stage(s, lo, hi), s # << >>
  PROVE  Range(s) = {Head(s)} \cup Range(Tail(s)) /\ Head(s) \notin Range(Tail(s))
<1>1. s \in Seq(Nat)
  BY DEF Stage
<1>2. Stage(Tail(s), Head(s), hi) /\ Head(s) \in Nat
  BY StageTail
<1>3. \A x \in Range(Tail(s)) : x \in Nat /\ Head(s) < x
  BY <1>2, StageRange
<1>4. Head(s) \notin Range(Tail(s))
  BY <1>2, <1>3
<1> QED BY <1>1, <1>4, QueueElements, Zenon

\* The last element is the greatest.
LEMMA StageLast ==
  ASSUME NEW s, NEW lo, NEW hi, Stage(s, lo, hi), s # << >>
  PROVE  \E x \in Range(s) : /\ Latest(Range(s)) = {x}
                             /\ Range(SubSeq(s, 1, Len(s) - 1)) = Range(s) \ {x}
<1> DEFINE t == SubSeq(s, 1, Len(s) - 1)
           n == Len(s)
<1>1. /\ s \in Seq(Nat) /\ \A i, j \in 1..Len(s) : i < j => s[i] < s[j]
  BY DEF Stage
<1>2. /\ n \in Nat /\ n >= 1 /\ DOMAIN s = 1..n /\ \A i \in 1..n : s[i] \in Nat
  BY <1>1
<1>3. t \in Seq(Nat) /\ Len(t) = n - 1 /\ \A i \in 1..(n - 1) : t[i] = s[i]
  BY <1>1, Front
<1>4. DOMAIN t = 1..(n - 1)
  BY <1>3
<1> HIDE DEF t
<1>5. \A i \in 1..(n - 1) : i \in 1..n /\ n \in 1..n /\ i < n
  BY <1>2
<1>6. \A i \in 1..(n - 1) : s[i] < s[n]
  BY <1>1, <1>5 DEF n
<1> HIDE DEF n
<1>7. \A i \in 1..n : i = n \/ i \in 1..(n - 1)
  <2>1. n \in Nat
    BY <1>2
  <2> QED BY <2>1
<1>8. PICK x : x = s[n]
  OBVIOUS
<1>9. x \in Range(s) /\ x \in Nat
  BY <1>2, <1>8 DEF Range
<1>10. ASSUME NEW y \in Range(s), y # x PROVE y \in Range(t) /\ y \in Nat /\ y < x
  <2>1. PICK i \in 1..n : y = s[i]
    BY <1>2 DEF Range
  <2>2. i \in 1..(n - 1)
    BY <2>1, <1>7, <1>8, <1>10
  <2>3. t[i] = y
    BY <2>1, <2>2, <1>3
  <2> QED BY <2>1, <2>2, <2>3, <1>2, <1>4, <1>6, <1>8 DEF Range
<1>11. ASSUME NEW y \in Range(t) PROVE y \in Range(s) /\ y # x
  <2>1. PICK i \in 1..(n - 1) : y = t[i]
    BY <1>4 DEF Range
  <2>2. i \in 1..n /\ y = s[i] /\ s[i] \in Nat /\ s[i] < x /\ x \in Nat
    BY <2>1, <1>2, <1>3, <1>5, <1>6, <1>8, <1>9
  <2> QED BY <2>2, <1>2 DEF Range
<1>12. Range(t) = Range(s) \ {x}
  BY <1>10, <1>11
<1>13. Latest(Range(s)) = {x}
  <2>1. \A j \in Range(s) : j <= x
    BY <1>9, <1>10
  <2>2. \A y \in Range(s) : y # x => ~ (x <= y)
    BY <1>9, <1>10
  <2> QED BY <1>9, <2>1, <2>2, Zenon DEF Latest
<1> QED BY <1>9, <1>12, <1>13 DEF t, n

\* The keys of the line that are still on their way to the queue: while the line is
\* being committed, those of todo.
Pending == IF Committing THEN todo ELSE line_buf

\* Where the keys are: up to a in read buffers, up to b in the queue or lost, up to c in
\* the line being typed, then the key in hand, the scancodes, and no others.  The keys
\* handled are below the key in hand.
InOrder(a, b, c, d) ==
  /\ Stage(delivered, 0, a) /\ Stage(completed_input_queue, a, b) /\ Stage(Pending, b, c)
  /\ \A k \in lost : k \in Nat /\ k <= b
  /\ c <= d /\ (pc[Executor] = "key" => c < key /\ key <= d)
  /\ \A k \in handled : k \in Nat /\ k <= d /\ (pc[Executor] = "key" => k < key)
  /\ Stage(scancodes, d, Len(typed))

\* No character is forgotten, and none comes back.  While a line is being committed,
\* the part of it that is not in todo has been committed.
Kept ==
  /\ handled \subseteq 1..Len(typed) /\ erased \subseteq handled
  /\ lost \cap (Range(delivered) \cup Range(completed_input_queue)) = {}
  /\ Range(line_buf) \cup Committed = Text \ erased
  /\ Committing => /\ Range(todo) \subseteq Range(line_buf)
                   /\ Range(line_buf) \subseteq Range(todo) \cup Committed
  /\ \A k \in Range(line_buf) : typed[k] = "nl" => Committing

LineInv ==
  /\ typed \in Seq(Keys) /\ key \in Nat
  /\ todo # << >> => task = "keyboard" /\ pc[Executor] \in {"emit", "push"}
  /\ pc[Executor] = "key" => task = "keyboard"
  /\ \E a, b, c, d \in Nat : InOrder(a, b, c, d)
  /\ Kept

\* What has been committed comes before what is pending.
LEMMA CommittedFirst ==
  ASSUME NEW a \in Nat, NEW b \in Nat, NEW c \in Nat, NEW d \in Nat, InOrder(a, b, c, d)
  PROVE  /\ \A k \in Committed : k \in Nat /\ k <= b
         /\ \A k \in Range(Pending) : k \in Nat /\ b < k /\ k <= c
         /\ Range(Pending) \cap Committed = {}
<1>1. Stage(delivered, 0, a) /\ Stage(completed_input_queue, a, b) /\ Stage(Pending, b, c)
  BY Zenon DEF InOrder
<1>2. a <= b
  BY <1>1, StageFacts
<1>3. \A k \in Range(delivered) : k \in Nat /\ k <= a
  BY <1>1, StageRange
<1>4. \A k \in Range(completed_input_queue) : k \in Nat /\ k <= b
  BY <1>1, StageRange
<1>5. \A k \in Range(Pending) : k \in Nat /\ b < k /\ k <= c
  BY <1>1, StageRange
<1>6. \A k \in lost : k \in Nat /\ k <= b
  BY Zenon DEF InOrder
<1>7. \A k \in Range(delivered) : k \in Nat /\ k <= b
  BY <1>2, <1>3
<1>8. \A k \in Committed : k \in Nat /\ k <= b
  BY <1>4, <1>6, <1>7, Zenon DEF Committed
<1>9. \A k \in Nat : ~(b < k /\ k <= b)
  OBVIOUS
<1> QED BY <1>5, <1>8, <1>9, Zenon

\* A step that moves no key.
LEMMA LineQuiet ==
  ASSUME LineInv,
         UNCHANGED <<typed, key, lost, delivered, completed_input_queue, scancodes, todo,
         line_buf, line>>,
         \/ pc'[Executor] = pc[Executor] /\ task' = task
         \/ todo = << >> /\ pc[Executor] # "push" /\ pc'[Executor] \notin {"key", "push"}
         \/ todo # << >> /\ task' = task /\ pc'[Executor] = "push"
  PROVE  LineInv'
<1>0. UNCHANGED <<handled, erased>>
  BY DEF line
<1>1. Pending' = Pending /\ (Committing' <=> Committing)
  BY DEF Pending, Committing
<1>2. PICK a, b, c, d \in Nat : InOrder(a, b, c, d)
  BY Zenon DEF LineInv
<1>3. InOrder(a, b, c, d)'
  BY <1>0, <1>1, <1>2, Zenon DEF InOrder
<1>4. Committed' = Committed /\ Text' = Text
  BY <1>0 DEF Committed, Text
<1>5. Kept'
  BY <1>0, <1>1, <1>4, Zenon DEF LineInv, Kept
<1> QED BY <1>3, <1>5, Zenon DEF LineInv

\* A key is pressed.
LEMMA LineTyped ==
  ASSUME LineInv, NEW k \in Keys, KeyboardInterrupt(k)
  PROVE  LineInv'
<1>1. /\ typed' = Append(typed, k)
      /\ UNCHANGED <<pc, task, key, todo, line_buf, handled, erased, delivered, lost,
                     completed_input_queue>>
      /\ \/ scancodes' = Append(scancodes, Len(typed'))
         \/ scancodes' = scancodes
  BY DEF KeyboardInterrupt, exec, tty, line
<1>2. /\ typed \in Seq(Keys) /\ typed' \in Seq(Keys) /\ Len(typed') = Len(typed) + 1
      /\ Len(typed) \in Nat /\ \A i \in 1..Len(typed) : typed'[i] = typed[i]
  <2> DEFINE t == Append(typed, k)
  <2>1. typed \in Seq(Keys)
    BY Zenon DEF LineInv
  <2>2. t \in Seq(Keys) /\ Len(t) = Len(typed) + 1 /\ Len(typed) \in Nat
    BY <2>1
  <2>3. \A i \in 1..Len(typed) : t[i] = typed[i]
    BY <2>1
  <2> QED BY <1>1, <2>1, <2>2, <2>3, Zenon
<1>3. Pending' = Pending /\ (Committing' <=> Committing) /\ Committed' = Committed
  BY <1>1 DEF Pending, Committing, Committed
<1>4. PICK a, b, c, d \in Nat : InOrder(a, b, c, d)
  BY DEF LineInv
<1>5. Stage(scancodes', d, Len(typed'))
  <2>1. Stage(scancodes, d, Len(typed)) /\ Len(typed') \in Nat /\ Len(typed) < Len(typed')
    <3>1. Stage(scancodes, d, Len(typed))
      BY <1>4, Zenon DEF InOrder
    <3>2. Len(typed') \in Nat /\ Len(typed) < Len(typed')
      BY <1>2
    <3> QED BY <3>1, <3>2
  <2>2. Stage(Append(scancodes, Len(typed')), d, Len(typed'))
    BY <2>1, StageAppend
  <2>3. Stage(scancodes, d, Len(typed'))
    BY <2>1, <1>2, StageMore
  <2> QED BY <1>1, <2>2, <2>3, Zenon
<1>6. InOrder(a, b, c, d)'
  BY <1>1, <1>3, <1>4, <1>5, Zenon DEF InOrder
<1>7. 1..Len(typed) \subseteq 1..Len(typed')
  BY <1>2
<1>8. handled \subseteq 1..Len(typed) /\ Range(line_buf) \subseteq Text
  BY Zenon DEF LineInv, Kept
<1>9. Text' = Text
  BY <1>1, <1>2, <1>8, Zenon DEF Text
<1>10. Range(line_buf) \subseteq 1..Len(typed)
  BY <1>8, Zenon DEF Text
<1>11. Kept'
  BY <1>1, <1>2, <1>3, <1>7, <1>8, <1>9, <1>10, Zenon DEF LineInv, Kept
<1> QED BY <1>1, <1>2, <1>6, <1>11, Zenon DEF LineInv

\* The keyboard task takes a scancode.
LEMMA LineItem ==
  ASSUME PollInv, LineInv, Item, pc[Executor] \notin {"emit", "push"}, task = "keyboard", task' = task,
         UNCHANGED <<typed, lost, delivered, completed_input_queue, todo, line_buf, line>>
  PROVE  LineInv'
<1>0. UNCHANGED <<handled, erased>>
  BY DEF line
<1>1. /\ scancodes # << >> /\ scancodes' = Tail(scancodes) /\ key' = Head(scancodes)
      /\ pc'[Executor] = "key" /\ todo = << >>
  BY ThreadFacts DEF Item, Queue, Goto, PollInv, LineInv
<1>2. Pending' = Pending /\ (Committing' <=> Committing)
  BY <1>1 DEF Pending, Committing
<1>3. PICK a, b, c, d \in Nat : InOrder(a, b, c, d)
  BY DEF LineInv
<1>4. key' \in Nat /\ d < key' /\ Stage(scancodes', key', Len(typed))
  BY <1>1, <1>3, StageTail, Zenon DEF InOrder
<1>5. c < key' /\ c <= key'
  BY <1>3, <1>4 DEF InOrder
<1>6. PICK e \in Nat : e = key'
  BY <1>4
<1>7. InOrder(a, b, c, e)'
  <2>1. /\ Stage(delivered, 0, a) /\ Stage(completed_input_queue, a, b) /\ Stage(Pending, b, c)
        /\ \A k \in lost : k \in Nat /\ k <= b
    BY <1>3, Zenon DEF InOrder
  <2>2. c <= e /\ c < key' /\ key' <= e /\ Stage(scancodes', e, Len(typed'))
    BY <1>4, <1>5, <1>6
  <2>3. \A k \in handled : k \in Nat /\ k <= d
    BY <1>3, Zenon DEF InOrder
  <2>4. \A k \in handled' : k \in Nat /\ k <= e /\ k < key'
    BY <1>0, <1>4, <1>6, <2>3
  <2> QED BY <1>2, <2>1, <2>2, <2>4, Zenon DEF InOrder
<1>8. Committed' = Committed /\ Text' = Text
  BY <1>0 DEF Committed, Text
<1>9. Kept'
  BY <1>0, <1>2, <1>8, Zenon DEF LineInv, Kept
<1> QED BY <1>1, <1>4, <1>7, <1>9, Zenon DEF LineInv

\* What handle_key does to the histories.
LEMMA KeyHistory ==
  ASSUME LineInv, HandleKey
  PROVE  /\ pc[Executor] = "key" /\ todo = << >> /\ ~Committing /\ Pending = line_buf
         /\ task = "keyboard" /\ key \in Nat
         /\ UNCHANGED <<typed, key, lost, delivered, completed_input_queue, scancodes, task>>
         /\ Committed' = Committed
         /\ handled' = handled \cup {key}
         /\ Text' = IF typed[key] \in Char \cup {"nl"} THEN Text \cup {key} ELSE Text
         /\ erased' = IF typed[key] = "bs" THEN erased \cup Latest(Range(line_buf)) ELSE erased
         /\ erased' \subseteq handled'
<1>1. /\ pc[Executor] = "key" /\ todo = << >> /\ ~Committing /\ Pending = line_buf
      /\ task = "keyboard" /\ key \in Nat
      /\ UNCHANGED <<typed, key, lost, delivered, completed_input_queue, scancodes, task>>
      /\ handled' = handled \cup {key}
      /\ erased' = IF typed[key] = "bs" THEN erased \cup Latest(Unfinished) ELSE erased
  BY DEF HandleKey, At, LineInv, Pending, Committing, streams
<1>2. Committed' = Committed
  BY <1>1 DEF Committed
<1>3. Text' = IF typed[key] \in Char \cup {"nl"} THEN Text \cup {key} ELSE Text
  <2>1. CASE typed[key] \in Char \cup {"nl"}
    BY <1>1, <2>1 DEF Text
  <2>2. CASE typed[key] \notin Char \cup {"nl"}
    BY <1>1, <2>2 DEF Text
  <2> QED BY <2>1, <2>2
<1>4. Unfinished = Range(line_buf)
  <2>1. PICK a, b, c, d \in Nat : InOrder(a, b, c, d)
    BY DEF LineInv
  <2>2. Range(line_buf) \cap Committed = {}
    BY <1>1, <2>1, CommittedFirst, Zenon
  <2>3. Range(line_buf) \cup Committed = Text \ erased
    BY Zenon DEF LineInv, Kept
  <2> QED BY <2>2, <2>3 DEF Unfinished
<1>5. erased' \subseteq handled'
  <2>1. erased \subseteq handled /\ Range(line_buf) \subseteq handled
    BY Zenon DEF LineInv, Kept, Text
  <2>2. Latest(Range(line_buf)) \subseteq Range(line_buf)
    BY DEF Latest
  <2> QED BY <1>1, <1>4, <2>1, <2>2
<1> QED BY <1>1, <1>2, <1>3, <1>4, <1>5, Zenon

\* LineInv after handle_key, from what the line has become.
LEMMA LineAfterKey ==
  ASSUME LineInv, HandleKey, NEW a \in Nat, NEW b \in Nat, NEW c \in Nat, NEW d \in Nat,
         InOrder(a, b, c, d), NEW e \in Nat, Stage(line_buf', b, e), e <= d,
         \/ todo' = << >> /\ pc'[Executor] \notin {"key", "push"}
         \/ todo' # << >> /\ todo' = line_buf' /\ pc'[Executor] \in {"emit", "push"},
         Range(line_buf') \cup Committed = Text' \ erased',
         todo' = << >> => \A k \in Range(line_buf') : typed[k] # "nl"
  PROVE  LineInv'
<1>1. /\ pc[Executor] = "key" /\ task = "keyboard" /\ key \in Nat
      /\ UNCHANGED <<typed, key, lost, delivered, completed_input_queue, scancodes, task>>
      /\ Committed' = Committed /\ handled' = handled \cup {key} /\ erased' \subseteq handled'
  BY KeyHistory, Zenon
<1>2. Pending' = line_buf' /\ (Committing' <=> todo' # << >>) /\ pc'[Executor] # "key"
  BY DEF Pending, Committing
<1>3. c < key /\ key <= d
  BY <1>1, Zenon DEF InOrder
<1>4. InOrder(a, b, e, d)'
  <2>1. /\ Stage(delivered, 0, a) /\ Stage(completed_input_queue, a, b)
        /\ \A k \in lost : k \in Nat /\ k <= b
        /\ \A k \in handled : k \in Nat /\ k <= d
        /\ Stage(scancodes, d, Len(typed))
    BY Zenon DEF InOrder
  <2>2. \A k \in handled' : k \in Nat /\ k <= d
    BY <1>1, <1>3, <2>1, Zenon
  <2> QED BY <1>1, <1>2, <2>1, <2>2, Zenon DEF InOrder
<1>5. handled' \subseteq 1..Len(typed)
  <2>1. Stage(scancodes, d, Len(typed)) /\ handled \subseteq 1..Len(typed)
    BY Zenon DEF InOrder, LineInv, Kept
  <2>2. d <= Len(typed) /\ Len(typed) \in Nat
    BY <2>1, StageFacts
  <2>3. key \in 1..Len(typed)
    BY <1>1, <1>3, <2>2
  <2> QED BY <1>1, <2>1, <2>3, Zenon
<1>6. Kept'
  <2>1. lost \cap (Range(delivered) \cup Range(completed_input_queue)) = {}
    BY Zenon DEF LineInv, Kept
  <2>2. (Range(line_buf) \cup Committed = Text \ erased)'
    BY <1>1
  <2>3. Committing' => /\ Range(todo') \subseteq Range(line_buf')
                       /\ Range(line_buf') \subseteq Range(todo') \cup Committed'
    BY <1>2
  <2>4. \A k \in Range(line_buf') : typed'[k] = "nl" => Committing'
    BY <1>1, <1>2
  <2> QED BY <1>1, <1>5, <2>1, <2>2, <2>3, <2>4, Zenon DEF Kept
<1> QED BY <1>1, <1>2, <1>4, <1>6, Zenon DEF LineInv

\* The line discipline handles a key.
LEMMA LineKey ==
  ASSUME PollInv, LineInv, HandleKey
  PROVE  LineInv'
<1>1. /\ pc[Executor] = "key" /\ todo = << >> /\ ~Committing /\ Pending = line_buf /\ key \in Nat
      /\ Text' = IF typed[key] \in Char \cup {"nl"} THEN Text \cup {key} ELSE Text
      /\ erased' = IF typed[key] = "bs" THEN erased \cup Latest(Range(line_buf)) ELSE erased
  BY KeyHistory, Zenon
<1>2. PICK a, b, c, d \in Nat : InOrder(a, b, c, d)
  BY DEF LineInv
<1>3. /\ c < key /\ key <= d /\ Stage(line_buf, b, c) /\ c <= d
      /\ \A k \in handled : k \in Nat /\ k < key
  BY <1>1, <1>2, Zenon DEF InOrder
<1>4. /\ Range(line_buf) \cup Committed = Text \ erased /\ erased \subseteq handled
      /\ \A k \in Range(line_buf) : typed[k] # "nl"
  BY <1>1, Zenon DEF LineInv, Kept
<1>5. Range(line_buf) \cap Committed = {}
  BY <1>1, <1>2, CommittedFirst, Zenon
<1>6. key \notin handled /\ key \notin erased
  BY <1>1, <1>3, <1>4
<1>7. ASSUME KeyCharacter \/ KeyEnter PROVE LineInv'
  <2>1. /\ line_buf' = Append(line_buf, key) /\ pc'[Executor] = "emit"
        /\ \/ todo' = << >> /\ typed[key] \in Char
           \/ todo' = line_buf' /\ typed[key] = "nl"
    <3>1. CASE KeyCharacter
      <4>1. << typed[key] >> # << >>
        OBVIOUS
      <4> QED BY <3>1, <4>1, <1>1, ThreadFacts, Zenon DEF KeyCharacter, Echo, Goto, PollInv
    <3>2. CASE KeyEnter
      <4>1. << "nl" >> # << >>
        OBVIOUS
      <4> QED BY <3>2, <4>1, <1>1, ThreadFacts, Zenon DEF KeyEnter, Echo, Goto, PollInv
    <3> QED BY <1>7, <3>1, <3>2
  <2>2. Stage(line_buf', b, key)
    BY <2>1, <1>1, <1>3, StageAppend
  <2>3. Range(line_buf') = Range(line_buf) \cup {key} /\ line_buf' # << >>
    <3>1. line_buf \in Seq(Nat)
      BY <1>3, StageFacts
    <3>2. Range(Append(line_buf, key)) = Range(line_buf) \cup {key}
      BY <1>1, <3>1, QueueElements
    <3>3. Range(line_buf') # {}
      BY <2>1, <3>2, Zenon
    <3>4. line_buf' # << >>
      BY <3>3 DEF Range
    <3> QED BY <2>1, <3>2, <3>4, Zenon
  <2>4. typed[key] # "bs" /\ typed[key] \in Char \cup {"nl"}
    BY <2>1, CharAssumption
  <2>5. Range(line_buf') \cup Committed = Text' \ erased'
    BY <1>1, <1>4, <1>6, <2>3, <2>4
  <2>6. todo' = << >> => \A k \in Range(line_buf') : typed[k] # "nl"
    BY <1>4, <2>1, <2>3, CharAssumption
  <2>7. \/ todo' = << >> /\ pc'[Executor] \notin {"key", "push"}
        \/ todo' # << >> /\ todo' = line_buf' /\ pc'[Executor] \in {"emit", "push"}
    BY <2>1, <2>3
  <2> QED BY <1>1, <1>2, <1>3, <2>2, <2>5, <2>6, <2>7, LineAfterKey
<1>8. ASSUME KeyBackspace, line_buf # << >> PROVE LineInv'
  <2>1. /\ line_buf' = SubSeq(line_buf, 1, Len(line_buf) - 1) /\ pc'[Executor] = "emit"
        /\ todo' = << >> /\ typed[key] = "bs"
    <3>1. <<"bs", " ", "bs">> # << >>
      OBVIOUS
    <3> QED BY <1>8, <3>1, <1>1, ThreadFacts, Zenon DEF KeyBackspace, Echo, Goto, PollInv
  <2>2. Stage(line_buf', b, c)
    BY <2>1, <1>3, <1>8, StageMore
  <2>3. PICK x \in Range(line_buf) : /\ Latest(Range(line_buf)) = {x}
                                     /\ Range(line_buf') = Range(line_buf) \ {x}
    BY <2>1, <1>3, <1>8, StageLast, Zenon
  <2>4. typed[key] \notin Char \cup {"nl"}
    BY <2>1, CharAssumption
  <2>5. Range(line_buf') \cup Committed = Text' \ erased'
    BY <1>1, <1>4, <1>5, <2>1, <2>3, <2>4
  <2> QED BY <1>2, <1>3, <1>4, <2>1, <2>2, <2>3, <2>5, LineAfterKey
<1>9. ASSUME KeyEof, line_buf # << >> PROVE LineInv'
  <2>1. /\ line_buf' = line_buf /\ todo' = line_buf /\ pc'[Executor] = "push"
        /\ typed[key] = "eof"
    BY <1>9, <1>1, ThreadFacts, Zenon DEF KeyEof, Echo, Goto, PollInv
  <2>2. typed[key] \notin Char \cup {"nl"} /\ typed[key] # "bs"
    BY <2>1, ConsoleAssumption
  <2>3. Range(line_buf') \cup Committed = Text' \ erased'
    BY <1>1, <1>4, <2>1, <2>2
  <2> QED BY <1>2, <1>3, <1>9, <2>1, <2>3, LineAfterKey
<1>10. ASSUME ((KeyBackspace \/ KeyEof) /\ line_buf = << >>) \/ KeyInterrupt \/ KeyRaw
       PROVE  LineInv'
  <2>1. UNCHANGED <<todo, line_buf>> /\ pc'[Executor] \in {"next", "emit"}
    BY <1>10, <1>1, ThreadFacts, Zenon DEF KeyBackspace, KeyEof, KeyInterrupt, KeyRaw, Echo, Goto,
       PollInv
  <2>2. typed[key] \in {"bs", "eof", "ctrl_c", "raw"} /\ (typed[key] = "bs" => line_buf = << >>)
    BY <1>10 DEF KeyBackspace, KeyEof, KeyInterrupt, KeyRaw
  <2>3. typed[key] \notin Char \cup {"nl"}
    BY <2>2, CharAssumption, ConsoleAssumption
  <2>4. typed[key] = "bs" => Latest(Range(line_buf)) = {}
    BY <2>2 DEF Latest, Range
  <2>5. erased' = erased /\ Text' = Text
    BY <1>1, <2>3, <2>4, Zenon
  <2>6. Range(line_buf') \cup Committed = Text' \ erased'
    BY <1>4, <2>1, <2>5
  <2> QED BY <1>1, <1>2, <1>3, <1>4, <2>1, <2>6, LineAfterKey
<1> QED BY <1>7, <1>8, <1>9, <1>10 DEF HandleKey

\* commit_line pushes a key, or is done.
LEMMA LineCommit ==
  ASSUME PollInv, LineInv, CommitLine
  PROVE  LineInv'
<1>1. /\ pc[Executor] = "push" /\ Committing /\ Pending = todo
      /\ UNCHANGED <<typed, key, delivered, scancodes, task, handled, erased>>
  BY Zenon DEF CommitLine, At, Pending, Committing, streams, line
<1>2. PICK a, b, c, d \in Nat : InOrder(a, b, c, d)
  BY DEF LineInv
<1>3. /\ Stage(delivered, 0, a) /\ Stage(completed_input_queue, a, b) /\ Stage(todo, b, c)
      /\ \A k \in lost : k \in Nat /\ k <= b
  BY <1>1, <1>2, Zenon DEF InOrder
<1>4. /\ Range(line_buf) \cup Committed = Text \ erased
      /\ lost \cap (Range(delivered) \cup Range(completed_input_queue)) = {}
      /\ Range(todo) \subseteq Range(line_buf) /\ Range(line_buf) \subseteq Range(todo) \cup Committed
  BY <1>1, Zenon DEF LineInv, Kept
<1>5. Text' = Text
  BY <1>1 DEF Text
<1>6. CASE todo # << >>
  <2> DEFINE q == completed_input_queue
  <2>1. /\ q' = ForcePush(q, Head(todo), InputCap)
        /\ lost' = IF Len(q) >= InputCap THEN lost \cup {Head(q)} ELSE lost
        /\ todo' = Tail(todo) /\ UNCHANGED <<line_buf, pc>>
    BY <1>6 DEF CommitLine
  <2>2. PICK h \in Nat : h = Head(todo) /\ b < h /\ h <= c /\ Stage(Tail(todo), h, c)
    BY <1>3, <1>6, StageTail, Zenon
  <2>3. Pending' = Tail(todo) /\ Committing'
    BY <1>1, <2>1 DEF Pending, Committing
  <2>4. Range(todo) = {h} \cup Range(todo')
    BY <1>3, <1>6, <2>1, <2>2, StageHead, Zenon
  <2>5. h \notin Committed /\ \A k \in Range(q) : k \in Nat /\ a < k /\ k <= b
    <3>1. h \in Range(Pending)
      BY <1>1, <2>4
    <3>2. Range(Pending) \cap Committed = {}
      BY <1>2, CommittedFirst, Zenon
    <3> QED BY <1>3, <3>1, <3>2, StageRange
  <2>6. /\ Stage(q', a, h) /\ Range(q') \cup lost' = Range(q) \cup lost \cup {h}
        /\ lost' \cap (Range(delivered) \cup Range(q')) = {}
        /\ \A k \in lost' : k \in Nat /\ k <= b
    <3>1. q \in Seq(Nat) /\ Len(q) \in Nat /\ InputCap \in Nat \ {0}
      BY <1>3, StageFacts, ConsoleAssumption, Zenon
    <3>2. CASE Len(q) >= InputCap
      <4>1. q # << >>
        BY <3>1, <3>2
      <4>2. Stage(Tail(q), a, b) /\ Head(q) \in Nat /\ a < Head(q) /\ Head(q) <= b
        BY <1>3, <4>1, StageTail
      <4>3. Range(q) = {Head(q)} \cup Range(Tail(q)) /\ Head(q) \notin Range(Tail(q))
        BY <1>3, <4>1, StageHead, Zenon
      <4>4. q' = Append(Tail(q), h) /\ lost' = lost \cup {Head(q)}
        BY <2>1, <2>2, <3>2 DEF ForcePush
      <4>5. Stage(Append(Tail(q), h), a, h)
        BY <4>2, <2>2, StageAppend
      <4>6. Tail(q) \in Seq(Nat)
        BY <4>2, StageFacts
      <4>7. Range(q') = Range(Tail(q)) \cup {h}
        <5>1. PICK u \in Seq(Nat) : u = Tail(q)
          BY <4>6
        <5>2. Range(Append(u, h)) = Range(u) \cup {h}
          BY QueueElements
        <5> QED BY <4>4, <5>1, <5>2, Zenon
      <4>8. Head(q) \notin Range(delivered)
        <5>1. \A k \in Range(delivered) : k \in Nat /\ k <= a
          BY <1>3, StageRange
        <5> QED BY <4>2, <5>1
      <4>9. h # Head(q) /\ h \notin lost
        BY <2>5, <4>3 DEF Committed
      <4>10. lost' \cap (Range(delivered) \cup Range(q')) = {}
        BY <1>4, <4>3, <4>4, <4>7, <4>8, <4>9
      <4>11. Range(q') \cup lost' = Range(q) \cup lost \cup {h}
        BY <4>3, <4>4, <4>7
      <4>12. \A k \in lost' : k \in Nat /\ k <= b
        BY <1>3, <4>2, <4>4
      <4> QED BY <4>4, <4>5, <4>10, <4>11, <4>12
    <3>3. CASE ~(Len(q) >= InputCap)
      <4>1. q' = Append(q, h) /\ lost' = lost
        BY <2>1, <2>2, <3>3 DEF ForcePush
      <4>2. Stage(Append(q, h), a, h)
        BY <1>3, <2>2, StageAppend
      <4>3. Range(q') = Range(q) \cup {h}
        BY <3>1, <4>1, QueueElements
      <4>4. h \notin lost
        BY <2>5 DEF Committed
      <4>5. lost' \cap (Range(delivered) \cup Range(q')) = {}
        BY <1>4, <4>1, <4>3, <4>4
      <4> QED BY <1>3, <4>1, <4>2, <4>3, <4>5
    <3> QED BY <3>2, <3>3
  <2>7. InOrder(a, h, c, d)'
    <3>1. \A k \in lost' : k \in Nat /\ k <= h
      BY <2>2, <2>6
    <3> QED BY <1>1, <1>2, <2>1, <2>2, <2>3, <2>6, <3>1, Zenon DEF InOrder
  <2>8. Committed' = Committed \cup {h}
    BY <1>1, <2>6 DEF Committed
  <2>9. Kept'
    <3>1. h \in Range(line_buf)
      BY <1>4, <2>4
    <3>2. (Range(line_buf) \cup Committed = Text \ erased)'
      BY <1>1, <1>4, <1>5, <2>1, <2>8, <3>1
    <3>3. /\ Range(todo') \subseteq Range(line_buf')
          /\ Range(line_buf') \subseteq Range(todo') \cup Committed'
      BY <1>4, <2>1, <2>4, <2>8
    <3>4. (lost \cap (Range(delivered) \cup Range(completed_input_queue)) = {})'
      BY <1>1, <2>6
    <3> QED BY <1>1, <2>3, <3>2, <3>3, <3>4, Zenon DEF LineInv, Kept
  <2> QED BY <1>1, <1>6, <2>1, <2>7, <2>9, Zenon DEF LineInv
<1>7. CASE todo = << >>
  <2>1. /\ UNCHANGED <<todo, completed_input_queue, lost>> /\ line_buf' = << >>
        /\ pc'[Executor] = "scan"
    BY <1>1, <1>7, ThreadFacts DEF CommitLine, Goto, PollInv
  <2>2. Pending' = << >> /\ ~Committing' /\ Range(<< >>) = {}
    BY <1>1, <1>7, <2>1 DEF Pending, Committing, Range
  <2>3. InOrder(a, b, c, d)'
    <3>1. \A k \in handled : k \in Nat /\ k <= d
      BY <1>2, Zenon DEF InOrder
    <3> QED BY <1>1, <1>2, <1>7, <2>1, <2>2, <3>1, Zenon DEF InOrder
  <2>4. Committed' = Committed
    BY <1>1, <2>1 DEF Committed
  <2>5. Kept'
    <3>1. Range(line_buf) \subseteq Committed
      BY <1>4, <1>7, <2>2
    <3>2. (Range(line_buf) \cup Committed = Text \ erased)'
      BY <1>1, <1>4, <1>5, <2>1, <2>2, <2>4, <3>1
    <3> QED BY <1>1, <2>1, <2>2, <2>4, <3>2, Zenon DEF LineInv, Kept
  <2> QED BY <1>1, <1>7, <2>1, <2>3, <2>5, Zenon DEF LineInv
<1> QED BY <1>6, <1>7

\* A read takes a key from the queue.
LEMMA LinePop ==
  ASSUME PollInv, LineInv, NEW p \in Range(Procs), ReadPop(p)
  PROVE  LineInv'
<1>1. /\ pc'[Executor] = pc[Executor]
      /\ UNCHANGED <<typed, key, scancodes, task, todo, line_buf, line>>
  BY ThreadFacts DEF ReadPop, Goto, PollInv, streams, exec
<1>2. PICK a, b, c, d \in Nat : InOrder(a, b, c, d)
  BY DEF LineInv
<1>3. Pending' = Pending /\ (Committing' <=> Committing) /\ UNCHANGED <<handled, erased>>
  BY <1>1 DEF Pending, Committing, line
<1>4. Text' = Text
  BY <1>1, <1>3 DEF Text
<1>5. CASE completed_input_queue = << >>
  BY <1>1, <1>5, LineQuiet DEF ReadPop
<1>6. CASE completed_input_queue # << >>
  <2> DEFINE q == completed_input_queue
  <2>1. q' = Tail(q) /\ \/ lost' = lost \cup {Head(q)} /\ delivered' = delivered
                        \/ lost' = lost /\ delivered' = Append(delivered, Head(q))
    BY <1>6 DEF ReadPop
  <2>2. /\ Stage(delivered, 0, a) /\ Stage(q, a, b) /\ delivered \in Seq(Nat)
        /\ \A k \in lost : k \in Nat /\ k <= b
    BY <1>2, StageFacts, Zenon DEF InOrder
  <2>3. PICK h \in Nat : /\ h = Head(q) /\ a < h /\ h <= b /\ Stage(Tail(q), h, b)
                         /\ Stage(Tail(q), a, b)
    BY <1>6, <2>2, StageTail, Zenon
  <2>4. Range(q) = {h} \cup Range(q') /\ h \notin Range(q')
    BY <1>6, <2>1, <2>2, <2>3, StageHead, Zenon
  <2>5. /\ lost \cap (Range(delivered) \cup Range(q)) = {}
        /\ Range(line_buf) \cup Committed = Text \ erased
    BY Zenon DEF LineInv, Kept
  <2>6. CASE lost' = lost \cup {Head(q)} /\ delivered' = delivered
    <3>1. \A k \in lost' : k \in Nat /\ k <= b
      BY <2>2, <2>3, <2>6
    <3>2. InOrder(a, b, c, d)'
      BY <1>1, <1>2, <1>3, <2>1, <2>3, <2>6, <3>1, Zenon DEF InOrder
    <3>3. h \notin Range(delivered)
      <4>1. \A k \in Range(delivered) : k \in Nat /\ k <= a
        BY <2>2, StageRange
      <4> QED BY <2>3, <4>1
    <3>4. (lost \cap (Range(delivered) \cup Range(q)) = {})'
      BY <2>3, <2>4, <2>5, <2>6, <3>3
    <3>5. Committed' = Committed
      BY <2>3, <2>4, <2>6 DEF Committed
    <3>6. Kept'
      BY <1>1, <1>3, <1>4, <3>4, <3>5, Zenon DEF LineInv, Kept
    <3> QED BY <1>1, <3>2, <3>6, Zenon DEF LineInv
  <2>7. CASE lost' = lost /\ delivered' = Append(delivered, Head(q))
    <3>1. Stage(delivered', 0, h)
      BY <2>2, <2>3, <2>7, StageAppend
    <3>2. Range(delivered') = Range(delivered) \cup {h}
      BY <2>2, <2>3, <2>7, QueueElements
    <3>3. InOrder(h, b, c, d)'
      BY <1>1, <1>2, <1>3, <2>1, <2>3, <2>7, <3>1, Zenon DEF InOrder
    <3>4. (lost \cap (Range(delivered) \cup Range(q)) = {})'
      BY <2>4, <2>5, <2>7, <3>2
    <3>5. Committed' = Committed
      BY <2>4, <2>7, <3>2 DEF Committed
    <3>6. Kept'
      BY <1>1, <1>3, <1>4, <3>4, <3>5, Zenon DEF LineInv, Kept
    <3> QED BY <1>1, <3>3, <3>6, Zenon DEF LineInv
  <2> QED BY <2>1, <2>6, <2>7
<1> QED BY <1>5, <1>6

\* No key has been typed at boot.
LEMMA LineInit == Init => LineInv
<1> SUFFICES ASSUME Init PROVE LineInv
  OBVIOUS
<1>1. /\ pc[Executor] = "pop" /\ key = 0 /\ lost = {} /\ typed = << >> /\ todo = << >>
      /\ delivered = << >> /\ completed_input_queue = << >> /\ scancodes = << >>
      /\ line_buf = << >> /\ handled = {} /\ erased = {}
  BY ThreadFacts, Zenon DEF Init, None
<1>2. Pending = << >> /\ ~Committing
  BY <1>1 DEF Pending, Committing
<1>3. Stage(<< >>, 0, 0)
  BY DEF Stage
<1>4. InOrder(0, 0, 0, 0)
  BY <1>1, <1>2, <1>3 DEF InOrder
<1>5. Range(<< >>) = {}
  BY DEF Range
<1>6. Committed = {} /\ Text = {}
  BY <1>1, <1>5 DEF Committed, Text
<1>7. Kept
  BY <1>1, <1>2, <1>5, <1>6 DEF Kept
<1> QED BY <1>1, <1>4, <1>7 DEF LineInv

\* Every step keeps the keys in order.
LEMMA LineStep == PollInv /\ LineInv /\ [Next]_vars => LineInv'
<1> SUFFICES ASSUME PollInv, LineInv, [Next]_vars PROVE LineInv'
  OBVIOUS
<1>1. ASSUME NEW k \in Keys, KeyboardInterrupt(k) PROVE LineInv'
  BY <1>1, LineTyped
<1>2. CASE RunReadyTask \/ SleepIfIdle \/ ExecutorBlock
  <2>1. /\ pc[Executor] \in {"pop", "block"} /\ pc'[Executor] \in {"next", "block", "pop"}
        /\ UNCHANGED <<typed, key, lost, delivered, completed_input_queue, scancodes, todo,
                       line_buf, line>>
    BY <1>2, ThreadFacts, Zenon DEF RunReadyTask, SleepIfIdle, ExecutorBlock, At, Goto, PollInv, streams,
       exec,
       tty, hist
  <2>2. todo = << >>
    BY <2>1, Zenon DEF LineInv
  <2> QED BY <2>1, <2>2, LineQuiet, Zenon
<1>3. CASE Poll
  <2>1. /\ pc[Executor] \in {"next", "register", "again", "flush", "flush_register", "flush_again"}
        /\ UNCHANGED <<typed, lost, delivered, completed_input_queue, todo, line_buf, line>>
        /\ \/ Item /\ task' = task
           \/ /\ pc'[Executor] \in {"next", "register", "again", "flush_register", "flush_again",
                                   "render", "pop"}
              /\ UNCHANGED <<scancodes, key>>
    BY <1>3, ThreadFacts, Zenon DEF Poll, PollNext, Register, PollAgain, At, Goto, PollInv, tty,
       hist, exec
  <2>2. todo = << >>
    BY <2>1, Zenon DEF LineInv
  <2>3. CASE UNCHANGED <<scancodes, key>> /\ pc'[Executor] \notin {"key", "push"}
    BY <2>1, <2>2, <2>3, LineQuiet
  <2>4. CASE Item /\ task' = task /\ task # "keyboard"
    <3>1. UNCHANGED <<scancodes, key>> /\ pc'[Executor] = "emit"
      BY <2>4, ThreadFacts DEF Item, Goto, PollInv
    <3> QED BY <3>1, <2>3
  <2>5. CASE Item /\ task' = task /\ task = "keyboard"
    BY <2>1, <2>5, LineItem
  <2> QED BY <2>1, <2>3, <2>4, <2>5, Zenon
<1>4. CASE HandleKey
  BY <1>4, LineKey
<1>5. CASE CommitLine
  BY <1>5, LineCommit
<1>6. CASE WakeupScan \/ WakeupReader
  <2>1. /\ pc[Executor] \in {"scan", "wake"} /\ pc'[Executor] \in {"scan", "wake", "render", "next"}
        /\ UNCHANGED <<typed, key, lost, delivered, completed_input_queue, scancodes, todo,
                       line_buf, line>>
    BY <1>6, ThreadFacts DEF WakeupScan, WakeupReader, At, Goto, PollInv, streams, tty, hist
  <2>2. todo = << >>
    BY <2>1, Zenon DEF LineInv
  <2> QED BY <2>1, <2>2, LineQuiet
<1>7. ASSUME NEW t \in ThreadId, OutputByte(t) PROVE LineInv'
  <2>1. /\ pc[t] = "emit"
        /\ pc' = [pc EXCEPT ![t] = IF Len(out[t]) > 1 THEN "emit" ELSE AfterOutput(t)]
        /\ UNCHANGED <<typed, key, lost, delivered, completed_input_queue, scancodes, todo,
                       line_buf, line, task>>
    BY <1>7 DEF OutputByte, At, Goto, streams, exec, tty, hist
  <2>2. CASE t # Executor
    <3>1. pc'[Executor] = pc[Executor]
      BY <2>1, <2>2, ThreadFacts DEF PollInv
    <3> QED BY <2>1, <3>1, LineQuiet
  <2>3. CASE t = Executor
    <3>1. task \in Streams /\ pc[Executor] = "emit"
      BY <2>1, <2>3 DEF PollInv
    <3>2. pc'[Executor] = IF Len(out[t]) > 1 THEN "emit" ELSE AfterOutput(Executor)
      BY <2>1, <2>3, ThreadFacts DEF PollInv
    <3>3. AfterOutput(Executor) = IF task = "console" THEN "flush"
                                  ELSE IF todo # << >> THEN "push" ELSE "render"
      BY <3>1 DEF AfterOutput, Streams
    <3>4. todo # << >> => task = "keyboard"
      BY DEF LineInv
    <3>5. \/ pc'[Executor] = "emit"
          \/ todo = << >> /\ pc'[Executor] \in {"flush", "render"}
          \/ todo # << >> /\ pc'[Executor] = "push"
      BY <3>1, <3>2, <3>3, <3>4, Zenon DEF Streams
    <3> QED BY <2>1, <3>1, <3>5, LineQuiet
  <2> QED BY <2>2, <2>3
<1>8. ASSUME NEW t \in ThreadId, WakeTtyRenderer(t) PROVE LineInv'
  <2>1. /\ pc[t] = "render" /\ pc' = [pc EXCEPT ![t] = IF t = Executor THEN "next" ELSE "return"]
        /\ UNCHANGED <<typed, key, lost, delivered, completed_input_queue, scancodes, todo,
                       line_buf, line, task>>
    BY <1>8 DEF WakeTtyRenderer, At, Goto, streams, exec, tty, hist
  <2>2. CASE t # Executor
    <3>1. pc'[Executor] = pc[Executor]
      BY <2>1, <2>2, ThreadFacts DEF PollInv
    <3> QED BY <2>1, <3>1, LineQuiet
  <2>3. CASE t = Executor
    <3>1. pc[Executor] = "render" /\ pc'[Executor] = "next" /\ todo = << >>
      BY <2>1, <2>3, ThreadFacts DEF PollInv, LineInv
    <3> QED BY <2>1, <3>1, LineQuiet
  <2> QED BY <2>2, <2>3
<1>9. CASE RendererBlock \/ RendererPaint
  <2>1. /\ pc'[Executor] = pc[Executor]
        /\ UNCHANGED <<typed, key, lost, delivered, completed_input_queue, scancodes, todo,
                       line_buf, line, task>>
    BY <1>9, ThreadFacts DEF RendererBlock, RendererPaint, Goto, PollInv, streams, exec, tty, hist
  <2> QED BY <2>1, LineQuiet
<1>10. ASSUME NEW p \in Range(Procs),
              \/ \E s \in Strings : WriteCall(p, s)
              \/ \E n \in ReadLens : ReadCall(p, n)
              \/ ReadTest(p) \/ ReadTestEof(p) \/ ReadClearEof(p) \/ ReadBlock(p) \/ Return(p)
       PROVE  LineInv'
  <2>1. /\ pc' = [pc EXCEPT ![p] = pc'[p]]
        /\ UNCHANGED <<typed, key, lost, delivered, completed_input_queue, scancodes, todo,
                       line_buf, line, task>>
    BY <1>10, ThreadFacts, Zenon DEF WriteCall, ReadCall, ReadTest, ReadTestEof,
       ReadClearEof, ReadBlock, Return, Goto, PollInv, streams, exec, tty, hist
  <2>2. pc'[Executor] = pc[Executor]
    BY <2>1, ThreadFacts DEF PollInv
  <2> QED BY <2>1, <2>2, LineQuiet
<1>11. ASSUME NEW p \in Range(Procs), ReadPop(p) PROVE LineInv'
  BY <1>11, LinePop
<1>12. CASE UNCHANGED vars
  BY <1>12, LineQuiet DEF vars, streams, exec, tty, hist
<1>13. CASE CompositorBlock \/ CompositorPaint \/ (\E p \in Range(Procs) : FrameReady(p))
  <2>1. /\ pc' = [pc EXCEPT ![Compositor] = pc'[Compositor]]
        /\ UNCHANGED <<typed, key, lost, delivered, completed_input_queue, scancodes, todo,
                       line_buf, line, task>>
    BY <1>13, WindowSteps, Zenon DEF streams, exec, tty, hist
  <2>2. pc'[Executor] = pc[Executor]
    BY <2>1, ThreadFacts DEF PollInv
  <2> QED BY <2>1, <2>2, LineQuiet
<1> QED BY <1>1, <1>2, <1>3, <1>4, <1>5, <1>6, <1>7, <1>8, <1>9, <1>10, <1>11, <1>12,
           <1>13 DEF Next

\* In every behaviour, ReadersGetLines: readers get the keys of the committed lines in
\* the order typed, each once and none that a backspace erased; a character that they
\* have not got is in the line, in the queue, or lost to a full queue or a full buffer.
THEOREM LinesTheorem == Spec => []ReadersGetLines
<1>1. LineInv => ReadersGetLines
  <2> SUFFICES ASSUME LineInv PROVE ReadersGetLines
    OBVIOUS
  <2> DEFINE seen == delivered \o completed_input_queue
  <2>1. PICK a, b \in Nat : Stage(delivered, 0, a) /\ Stage(completed_input_queue, a, b)
    BY DEF LineInv, InOrder
  <2>2. \A i, j \in 1..Len(seen) : i < j => seen[i] < seen[j]
    BY <2>1, StageConcat, Zenon
  <2> QED BY <2>2, Zenon DEF ReadersGetLines, LineInv, Kept
<1> QED BY <1>1, LineInit, LineStep, PollInit, PollStep, PTL DEF Spec

------------------------------------------------------------------------------
(* The scheduler's interface.                                               *)

\* Whomever unblock_task is called for, it is a step of Threads.tla or does nothing.
LEMMA UnblockIsStep ==
  ASSUME thr = [t \in ThreadId |-> thr[t]], NEW S, thr' = Unblocked(S)
  PROVE  ThrNext \/ thr' = thr
<1> DEFINE W == {t \in ThreadId : t \in S /\ thr[t] \in Reasons}
<1>1. Unblocked(S) = Unblocked(W) /\ W \in SUBSET ThreadId
  BY DEF Unblocked
<1>2. CASE W = {}
  <2>1. \A t \in ThreadId : ~(t \in S /\ thr[t] \in Reasons)
    BY <1>2
  <2> QED BY <2>1, Zenon DEF Unblocked
<1>3. CASE W # {}
  <2>1. Unblock(W)
    BY <1>1, <1>3 DEF Unblock
  <2> QED BY <1>1, <2>1, Zenon DEF ThrNext
<1> QED BY <1>2, <1>3

\* Console asks of the scheduler only what Threads.tla, and so the scheduler, provides.
THEOREM ThreadsTheorem == Spec => ThrSpec
<1>1. Init => ThrInit
  BY Zenon DEF Init, ThrInit
<1>2. ASSUME PollInv, [Next]_vars PROVE [ThrNext]_thr
  <2>1. thr = [t \in ThreadId |-> thr[t]]
    <3>1. thr \in [ThreadId -> {"runnable"} \cup Reasons]
      BY <1>2 DEF PollInv
    <3> QED BY <3>1
  <2>2. \/ thr' = thr
        \/ \E t : Wake(t)
        \/ \E t \in ThreadId, why \in Reasons : Block(t, why)
    <3>1. CASE \E k \in Keys : KeyboardInterrupt(k)
      BY <3>1, Zenon DEF KeyboardInterrupt, WakeStream
    <3>2. CASE RunReadyTask \/ SleepIfIdle \/ Poll \/ HandleKey \/ CommitLine \/ WakeupScan
      BY <3>2, Zenon DEF RunReadyTask, SleepIfIdle, Poll, PollNext, Register, PollAgain, HandleKey,
         CommitLine, WakeupScan
    <3>3. CASE ExecutorBlock \/ RendererBlock \/ \E p \in Range(Procs) : ReadBlock(p)
      BY <3>3, ThreadFacts, Zenon DEF ExecutorBlock, RendererBlock, ReadBlock, Sleep
    <3>8. CASE CompositorBlock
      BY <3>8, ThreadFacts, Zenon DEF CompositorBlock
    <3>7. CASE \E p \in Range(Procs) : FrameReady(p)
      BY <3>7, Zenon DEF FrameReady
    <3>4. CASE WakeupReader \/ \E t \in ThreadId : WakeTtyRenderer(t)
      BY <3>4, Zenon DEF WakeupReader, WakeTtyRenderer
    <3>5. CASE RendererPaint \/ CompositorPaint \/ (\E t \in ThreadId : OutputByte(t)) \/ UNCHANGED vars
      BY <3>5, Zenon DEF RendererPaint, CompositorPaint, OutputByte, vars
    <3>6. ASSUME NEW p \in Range(Procs), \/ \E s \in Strings : WriteCall(p, s)
                                         \/ \E n \in ReadLens : ReadCall(p, n)
                                         \/ ReadTest(p) \/ ReadTestEof(p) \/ ReadClearEof(p)
                                         \/ ReadPop(p) \/ Return(p)
          PROVE  thr' = thr
      BY <3>6, Zenon DEF WriteCall, ReadCall, ReadTest, ReadTestEof, ReadClearEof, ReadPop, Return
    <3> QED BY <1>2, <3>1, <3>2, <3>3, <3>4, <3>5, <3>6, <3>7, <3>8 DEF Next
  <2> QED BY <2>1, <2>2, UnblockIsStep, Zenon DEF ThrNext, Wake
<1> QED BY <1>1, <1>2, PollInit, PollStep, PTL DEF Spec, ThrSpec
==============================================================================
