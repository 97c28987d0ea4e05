----------------------------- MODULE XiangqiGame -----------------------------
(***************************************************************************)
(* The xiangqi program and the mouse it is played with: the PS/2 interrupt *)
(* that assembles packets, the packet queue behind /dev/mouse, the read    *)
(* that blocks on it, and the main loop that turns presses of the left     *)
(* button into selections and moves and draws the board.  Xiangqi.tla is   *)
(* the engine; Threads.tla stands for the scheduler.                       *)
(*                                                                         *)
(* The interrupt handler is one step, for the three bytes of a packet: the *)
(* state between them is its own.  The read makes one step per access to   *)
(* the queue or the scheduler.  The main loop's work on a batch of packets *)
(* touches nothing that is shared and is one step.                         *)
(*                                                                         *)
(* A packet is known by its left button.  Where the pointer is after a     *)
(* batch, and whether it moved, is left open: the motion bytes are not     *)
(* followed, so every click may fall on every square or outside the board. *)
(***************************************************************************)
EXTENDS Threads, Xiangqi

CONSTANTS
  Fens,       \* the positions that the game may start from
  PacketCap,  \* capacity of PACKET_QUEUE
  BatchMax,   \* packets that fit into mouse_buffer
  MaxMoves,   \* bound: no button is pressed after that many moves
  MaxOwed     \* bound: presses that no click has answered

App == 6
None == << >>

\* A position to play from: pieces on the board, and one General of each side, in
\* its palace.
Generals(b, c) == {p \in DOMAIN b.points : b.points[p] = [type |-> "General", color |-> c]}

Playable(b) ==
  /\ DOMAIN b.points \subseteq Squares
  /\ \A c \in Color : \E p \in Squares : Generals(b, c) = {p} /\ is_in_palace(p, c)

ASSUME XiangqiGameAssumption ==
  /\ ThreadId = {App} /\ Reasons = {"WaitMouse"}
  /\ \A fen \in Fens : from_str(fen).ok /\ Playable(from_str(fen).board)
  /\ PacketCap \in Nat \ {0} /\ BatchMax \in Nat \ {0}

VARIABLES
  pc,                \* the next step of the program
  button,            \* the left button of the mouse is down
  packets,           \* PACKET_QUEUE
  got,               \* the packets of this read: how many, and the last one's button
  board,
  selected,          \* None or <<the position, the piece>>
  redraw,
  was_left_clicked,
  drawn,             \* what the window shows: the pieces, and the marked squares
  moves,             \* history: the moves played
  owed,              \* history: presses of the button minus clicks handled
  sent               \* history: the button in the last packet that was queued

game == <<board, selected, redraw, was_left_clicked, drawn, moves>>
vars == <<thr, pc, button, packets, got, game, owed, sent>>

Init ==
  /\ thr = [t \in ThreadId |-> "runnable"] /\ pc = "start" /\ sent = FALSE
  /\ button = FALSE /\ packets = << >>
  /\ got = [n |-> 0, left |-> FALSE]
  /\ board \in {from_str(fen).board : fen \in Fens}
  /\ selected = None /\ redraw = FALSE /\ was_left_clicked = FALSE
  /\ drawn = [points |-> board.points, marks |-> {}]
  /\ moves = 0 /\ owed = 0

At(l) == thr[App] = "runnable" /\ pc = l

------------------------------------------------------------------------------
(* The mouse.                                                               *)

\* Mutant: a full queue keeps what it has (push instead of force_push).
add_packet_push(left) ==
  /\ packets' = IF Len(packets) >= PacketCap THEN packets ELSE Append(packets, left)
  /\ thr' = Unblocked({App})
  /\ sent' = left

\* add_packet: force_push, and wake_mouse_sleepers.
add_packet(left) ==
  /\ packets' = Append(IF Len(packets) >= PacketCap THEN Tail(packets) ELSE packets, left)
  /\ thr' = Unblocked({App})
  /\ sent' = left

\* mouse_interrupt_handler and handle_ps2_byte: the three bytes of a packet with the
\* button as it is now.  A packet with an overflow bit is discarded.
MouseInterrupt(left, overflow) ==
  /\ left /\ ~button => moves < MaxMoves /\ owed < MaxOwed
  /\ button' = left
  /\ owed' = IF left /\ ~button THEN owed + 1 ELSE owed
  /\ IF overflow THEN UNCHANGED <<thr, packets, sent>> ELSE add_packet(left)
  /\ UNCHANGED <<pc, got, game>>

\* The board is drawn and /dev/mouse opened; what is queued by then is kept.
Start ==
  /\ At("start")
  /\ pc' = "read"
  /\ UNCHANGED <<thr, button, packets, got, game, owed, sent>>

\* MouseDeviceHandle::read: pop until the buffer is full or the queue is empty.
ReadPop ==
  /\ At("read")
  /\ IF got.n < BatchMax /\ packets # << >>
     THEN /\ got' = [n |-> got.n + 1, left |-> Head(packets)]
          /\ packets' = Tail(packets)
          /\ UNCHANGED pc
     ELSE /\ pc' = IF got.n > 0 THEN "loop" ELSE "block"
          /\ UNCHANGED <<got, packets>>
  /\ UNCHANGED <<thr, button, game, owed, sent>>

\* block_task(WaitMouse); the read goes on with pop when it is woken.
ReadBlock ==
  /\ At("block")
  /\ Block(App, "WaitMouse")
  /\ pc' = "read"
  /\ UNCHANGED <<button, packets, got, game, owed, sent>>

------------------------------------------------------------------------------
(* The main loop, once a read has returned.                                 *)

IsClick == got.left /\ ~was_left_clicked

NextRead == pc' = "read" /\ got' = [n |-> 0, left |-> FALSE]

\* draw_legal_moves: the squares that get a mark.
Marks(b, sel) == IF sel = None THEN {} ELSE PieceMoves(b, sel[2], sel[1])

\* drawboard paints over everything; the marks are added to what is there.
Drawn(b, sel, all, legal) ==
  IF all THEN [points |-> b.points, marks |-> Marks(b, sel)]
  ELSE IF legal THEN [drawn EXCEPT !.marks = @ \cup Marks(b, sel)]
  ELSE drawn

\* Mutant: the board from before the click is drawn.
Refresh_stale(b, sel, all, legal) ==
  /\ board' = b /\ selected' = sel
  /\ drawn' = Drawn(board, sel, all, legal)
  /\ redraw' = FALSE /\ was_left_clicked' = got.left
  /\ NextRead

\* The end of an iteration: the board and the selection, drawn if need be.
Refresh(b, sel, all, legal) ==
  /\ board' = b /\ selected' = sel
  /\ drawn' = Drawn(b, sel, all, legal)
  /\ redraw' = FALSE /\ was_left_clicked' = got.left
  /\ NextRead

\* No press: only the pointer may have to be drawn again.
NoClick ==
  /\ At("loop") /\ ~IsClick
  /\ \E moved \in BOOLEAN : Refresh(board, selected, redraw \/ moved, FALSE)
  /\ UNCHANGED <<thr, button, packets, moves, owed, sent>>

\* Mutant: the state of the button is not saved.
ClickOutside_again ==
  /\ At("loop") /\ IsClick
  /\ \E moved \in BOOLEAN : redraw' = (redraw \/ moved)
  /\ NextRead
  /\ owed' = owed - 1
  /\ UNCHANGED <<thr, button, packets, board, selected, was_left_clicked, drawn, moves, sent>>

\* A press outside the board: the loop starts over without drawing.
ClickOutside ==
  /\ At("loop") /\ IsClick
  /\ \E moved \in BOOLEAN : redraw' = (redraw \/ moved)
  /\ was_left_clicked' = got.left
  /\ NextRead
  /\ owed' = owed - 1
  /\ UNCHANGED <<thr, button, packets, board, selected, drawn, moves, sent>>

\* A press on pos while nothing is selected.
Select(pos) ==
  /\ At("loop") /\ IsClick /\ selected = None
  /\ \E moved \in BOOLEAN :
       IF has_ally_piece(board, pos, board.turn)
       THEN Refresh(board, <<pos, board.points[pos]>>, redraw \/ moved, TRUE)
       ELSE Refresh(board, None, redraw \/ moved, FALSE)
  /\ owed' = owed - 1
  /\ UNCHANGED <<thr, button, packets, moves, sent>>

\* The program returns from main, or panics: its thread ends.
End(why) ==
  /\ Terminate(App)
  /\ pc' = why
  /\ UNCHANGED <<got, game>>

\* A press on pos while a piece is selected: the move is played.  An illegal move
\* to an ally selects that one, an illegal move to an enemy selects nothing, and
\* one to an empty square is an unwrap of None.
Play(pos) ==
  /\ At("loop") /\ IsClick /\ selected # None
  /\ LET r == play_move(board, selected[1], pos)
     IN CASE r.result = "Continuing" ->
               Refresh(r.board, None, TRUE, FALSE) /\ moves' = moves + 1 /\ UNCHANGED thr
          [] r.result = "IllegalMove" /\ has_piece(board, pos) ->
               /\ IF board.points[pos].color = board.turn
                  THEN Refresh(board, <<pos, board.points[pos]>>, TRUE, TRUE)
                  ELSE Refresh(board, None, TRUE, FALSE)
               /\ UNCHANGED <<moves, thr>>
          [] r.result = "IllegalMove" /\ ~has_piece(board, pos) -> End("panicked")
          [] r.result = "Panic" -> End("panicked")
          [] r.result = "Victory" -> End("over")
  /\ owed' = owed - 1
  /\ UNCHANGED <<button, packets, sent>>

Next ==
  \/ \E left, overflow \in BOOLEAN : MouseInterrupt(left, overflow)
  \/ Start \/ ReadPop \/ ReadBlock
  \/ NoClick \/ ClickOutside
  \/ \E pos \in Squares : Select(pos) \/ Play(pos)

Spec == Init /\ [][Next]_vars

------------------------------------------------------------------------------
(* Properties.                                                              *)

\* The squares strictly between two squares of a row or of a column.
Between(p, q) ==
  {s \in Squares : \/ /\ p[1] = q[1] /\ s[1] = p[1]
                      /\ (p[2] < s[2] /\ s[2] < q[2]) \/ (q[2] < s[2] /\ s[2] < p[2])
                   \/ /\ p[2] = q[2] /\ s[2] = p[2]
                      /\ (p[1] < s[1] /\ s[1] < q[1]) \/ (q[1] < s[1] /\ s[1] < p[1])}

\* The rules of the game for the pieces other than the Elephant, independent of
\* the engine: how many pieces a move passes, and where it may end.
Rule(b, p, q) ==
  LET c == b.points[p].color
      passed == Cardinality(Between(p, q) \cap DOMAIN b.points)
      dr == q[1] - p[1]
      dc == q[2] - p[2]
      ahead == IF c = "Red" THEN 1 ELSE -1
      palace == (IF c = "Red" THEN 0..2 ELSE 7..9) \X (3..5)
      enemy == {g \in DOMAIN b.points : b.points[g].type = "General" /\ b.points[g].color # c}
  IN /\ p # q /\ (q \in DOMAIN b.points => b.points[q].color # c)
     /\ CASE b.points[p].type = "Rook" -> (dr = 0 \/ dc = 0) /\ passed = 0
          [] b.points[p].type = "Cannon" ->
               (dr = 0 \/ dc = 0) /\ passed = (IF q \in DOMAIN b.points THEN 1 ELSE 0)
          [] b.points[p].type = "Horse" ->
               /\ dr * dr + dc * dc = 5
               /\ (IF dr * dr = 4 THEN <<p[1] + dr \div 2, p[2]>> ELSE <<p[1], p[2] + dc \div 2>>)
                    \notin DOMAIN b.points
          [] b.points[p].type = "Pawn" ->
               \/ dr = ahead /\ dc = 0
               \/ dr = 0 /\ dc \in {-1, 1} /\ p[1] \in (IF c = "Red" THEN 5..9 ELSE 0..4)
          [] b.points[p].type = "Advisor" -> dr * dr = 1 /\ dc * dc = 1 /\ q \in palace
          [] b.points[p].type = "General" ->
               /\ dr * dr + dc * dc = 1 /\ q \in palace
               /\ \A g \in enemy : g[2] = q[2] => (Between(g, q) \ {p}) \cap DOMAIN b.points # {}

\* A General does not step back from the enemy's side: known deviation.
StepsBack(b, p, q) ==
  b.points[p].type = "General" /\ q[2] = p[2] /\ q = pawn_down(p, b.points[p].color)

FollowsRules(b) ==
  \A p \in {s \in DOMAIN b.points : b.points[s].type # "Elephant"}, q \in Squares :
    /\ PieceMove(b, p, q) <=> Rule(b, p, q) /\ ~StepsBack(b, p, q)
    /\ PieceMove(b, p, q) => q \in get_canidates(b.points[p], p)

\* In every position of a game, is_legal_move (piece.rs) accepts for a Rook, Cannon,
\* Horse, Pawn, Advisor or General exactly the moves that the rules of the game
\* allow, a General's step back aside, and get_canidates lists every one of them, so
\* that mate and stalemate are not declared over a move that was not looked at.
MovesFollowRules ==
  [][board' # board \/ (pc = "start" /\ pc' # pc) => FollowsRules(board')]_vars

\* Once a move has been played, both Generals are in their palaces and the side
\* that has just moved is not in check: play_move and its callers never let a move
\* stand that exposes the mover's own General (board.rs, is_legal_move), so
\* get_general_pos cannot panic on the next one.
GeneralsSafe ==
  moves > 0 =>
    /\ \A c \in Color : \E p \in DOMAIN board.points :
         board.points[p] = [type |-> "General", color |-> c] /\ is_in_palace(p, c)
    /\ ~is_in_check(board, Not(board.turn))

\* While the program runs, the window shows the board as it is, with marks on the
\* squares where the selected piece may go and nowhere else, and the selected piece
\* is a piece of the side to move that stands where the selection says (the main
\* loop of xiangqi.rs, whose redraw flags are skipped by a press outside).
ScreenMatchesGame ==
  pc \notin {"over", "panicked"} =>
    /\ drawn = [points |-> board.points, marks |-> Marks(board, selected)]
    /\ selected # None => /\ has_ally_piece(board, selected[1], board.turn)
                          /\ board.points[selected[1]] = selected[2]

\* The program never handles more clicks than the button was pressed, however the
\* packets are batched, dropped from a full queue or discarded for an overflow: a
\* button that is held down is not clicked again (was_left_clicked in xiangqi.rs).
ClicksArePresses == owed >= 0

\* Once the program has handled every packet of the queue, its idea of the button
\* (was_left_clicked in xiangqi.rs) is the one in the last packet that the mouse
\* delivered: however many packets a full queue has dropped and however they were
\* batched, no press is remembered as held, so that the next one counts, and none is
\* forgotten, so that it does not count again.
ButtonIsKnown == packets = << >> /\ got.n = 0 => was_left_clicked = sent

==============================================================================
