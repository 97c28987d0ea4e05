----------------------------- MODULE XiangqiProofs ---------------------------
(***************************************************************************)
(* What the xiangqi program guarantees for every starting position with    *)
(* the Generals at home, any capacity of the mouse queue and of a read, and *)
(* games of any length.                                                    *)
(***************************************************************************)
EXTENDS XiangqiEngineProofs

\* The one thread, and why it sleeps.
LEMMA AppFacts ==
  /\ ThreadId = {App} /\ Reasons = {"WaitMouse"}
  /\ PacketCap \in Nat \ {0} /\ BatchMax \in Nat \ {0}
BY XiangqiGameAssumption

------------------------------------------------------------------------------
(* Presses and clicks.  A press is a rise of the button.  The packets that  *)
(* have not been handled are a subsequence of what the button went through, *)
(* and what will be handled of them is a subsequence again; so the rises    *)
(* left in it are paid for.  A ledger numbers the states of the button in   *)
(* the pipeline, from the last one handled to the present one, such that    *)
(* every rise counts.                                                       *)

Rise(a, b) == ~a /\ b

Ledger(f, v, m, low, high) ==
  /\ m \in Nat /\ v \in [0..m -> BOOLEAN] /\ f \in [0..m -> Int] /\ low \in Int /\ high \in Int
  /\ low <= f[0] /\ f[m] <= high
  /\ \A i, j \in 0..m : i < j => f[i] <= f[j] /\ (Rise(v[i], v[j]) => f[i] + 1 <= f[j])

\* The ledger is never in debt.
LEMMA LedgerPays ==
  ASSUME NEW f, NEW v, NEW m, NEW low, NEW high, Ledger(f, v, m, low, high)
  PROVE  low <= high
<1>1. /\ m \in Nat /\ 0 \in 0..m /\ m \in 0..m /\ f[0] \in Int /\ f[m] \in Int
      /\ low \in Int /\ high \in Int /\ low <= f[0] /\ f[m] <= high
  BY DEF Ledger
<1>2. 0 < m => f[0] <= f[m]
  BY <1>1 DEF Ledger
<1> QED BY <1>1, <1>2

\* w is what is left of v: s says which states, in their order.
Skips(v, m, w, k, s) ==
  /\ k \in Nat /\ s \in [0..k -> 0..m] /\ (\A i, j \in 0..k : i < j => s[i] < s[j])
  /\ w \in [0..k -> BOOLEAN] /\ (\A i \in 0..k : w[i] = v[s[i]])

\* Some of the states are lost.
LEMMA LedgerSkip ==
  ASSUME NEW f, NEW v, NEW m, NEW low, NEW high, Ledger(f, v, m, low, high),
         NEW w, NEW k, NEW s, Skips(v, m, w, k, s),
         NEW up \in Int, up <= f[s[0]]
  PROVE  \E g : Ledger(g, w, k, up, high)
<1> USE DEF Skips
<1> DEFINE g == [i \in 0..k |-> f[s[i]]]
<1>1. g \in [0..k -> Int] /\ up <= g[0] /\ high \in Int
  BY DEF Ledger
<1>2. g[k] <= high
  <2>1. /\ s[k] \in 0..m /\ f[s[k]] \in Int /\ f[m] \in Int /\ m \in Nat /\ high \in Int /\ m \in 0..m
        /\ f[m] <= high /\ g[k] = f[s[k]]
    BY DEF Ledger
  <2>2. s[k] < m => f[s[k]] <= f[m]
    BY <2>1 DEF Ledger
  <2> QED BY <2>1, <2>2
<1>3. ASSUME NEW i \in 0..k, NEW j \in 0..k, i < j
      PROVE  g[i] <= g[j] /\ (Rise(w[i], w[j]) => g[i] + 1 <= g[j])
  <2>1. /\ s[i] \in 0..m /\ s[j] \in 0..m /\ s[i] < s[j] /\ g[i] = f[s[i]] /\ g[j] = f[s[j]]
        /\ w[i] = v[s[i]] /\ w[j] = v[s[j]]
    BY <1>3
  <2>2. f[s[i]] <= f[s[j]] /\ (Rise(v[s[i]], v[s[j]]) => f[s[i]] + 1 <= f[s[j]])
    BY <2>1 DEF Ledger
  <2> QED BY <2>1, <2>2
<1> QED BY <1>1, <1>2, <1>3, Zenon DEF Ledger

\* The button changes, and its press is entered.
Turns(v, m, w) == m >= 1 /\ w \in [0..m -> BOOLEAN] /\ \A i \in 0..(m - 1) : w[i] = v[i]

\* The last state changes.
LEMMA LedgerTurn ==
  ASSUME NEW f, NEW v, NEW m, NEW low, NEW high, Ledger(f, v, m, low, high), NEW w, Turns(v, m, w)
  PROVE  \E g : Ledger(g, w, m, low, IF Rise(v[m], w[m]) THEN high + 1 ELSE high)
<1> USE DEF Turns
<1> DEFINE h == IF Rise(v[m], w[m]) THEN high + 1 ELSE high
           g == [i \in 0..m |-> IF i < m THEN f[i] ELSE IF Rise(v[m], w[m]) THEN f[m] + 1 ELSE f[m]]
<1>1. /\ m \in Nat /\ g \in [0..m -> Int] /\ h \in Int /\ low \in Int /\ low <= g[0] /\ g[m] <= h
  BY DEF Ledger
<1>2. ASSUME NEW i \in 0..m, NEW j \in 0..m, i < j
      PROVE  g[i] <= g[j] /\ (Rise(w[i], w[j]) => g[i] + 1 <= g[j])
  <2>0. /\ m \in Nat /\ i \in 0..(m - 1) /\ g[i] = f[i] /\ w[i] = v[i] /\ f[i] \in Int /\ f[j] \in Int
        /\ f[i] <= f[j] /\ (Rise(v[i], v[j]) => f[i] + 1 <= f[j])
    BY <1>2 DEF Ledger
  <2>1. CASE j < m
    <3>1. g[j] = f[j] /\ w[j] = v[j]
      BY <2>0, <2>1
    <3> QED BY <2>0, <3>1
  <2>2. CASE j = m
    <3>1. g[j] = IF Rise(v[m], w[m]) THEN f[m] + 1 ELSE f[m]
      BY <2>2, <2>0
    <3>2. Rise(v[i], w[m]) => Rise(v[i], v[m]) \/ Rise(v[m], w[m])
      BY DEF Rise
    <3> QED BY <2>0, <2>2, <3>1, <3>2
  <2> QED BY <2>0, <2>1, <2>2
<1> HIDE DEF g, h
<1>3. Ledger(g, w, m, low, h)
  BY <1>1, <1>2 DEF Ledger
<1> QED BY <1>3 DEF h

\* The present state of the button is recorded in a packet.
Records(v, m, w) ==
  w \in [0..(m + 1) -> BOOLEAN] /\ (\A i \in 0..m : w[i] = v[i]) /\ w[m + 1] = v[m]

\* The last state is recorded once more.
LEMMA LedgerRecord ==
  ASSUME NEW f, NEW v, NEW m, NEW low, NEW high, Ledger(f, v, m, low, high), NEW w, Records(v, m, w)
  PROVE  \E g : Ledger(g, w, m + 1, low, high)
<1> USE DEF Records
<1> DEFINE g == [i \in 0..(m + 1) |-> IF i <= m THEN f[i] ELSE f[m]]
<1>1. /\ m \in Nat /\ g \in [0..(m + 1) -> Int] /\ low <= g[0] /\ g[m + 1] <= high
      /\ low \in Int /\ high \in Int
  BY DEF Ledger
<1>2. ASSUME NEW i \in 0..(m + 1), NEW j \in 0..(m + 1), i < j
      PROVE  g[i] <= g[j] /\ (Rise(w[i], w[j]) => g[i] + 1 <= g[j])
  <2>0. m \in Nat /\ i \in 0..m /\ g[i] = f[i] /\ w[i] = v[i] /\ f[i] \in Int /\ f[m] \in Int
    BY <1>2 DEF Ledger
  <2>1. CASE j <= m
    <3>1. /\ j \in 0..m /\ g[j] = f[j] /\ w[j] = v[j]
      BY <2>1, <2>0
    <3>2. f[i] <= f[j] /\ (Rise(v[i], v[j]) => f[i] + 1 <= f[j])
      BY <3>1, <2>0, <1>2 DEF Ledger
    <3> QED BY <2>0, <3>1, <3>2
  <2>2. CASE j = m + 1
    <3>1. /\ g[j] = f[m] /\ w[j] = v[m]
      BY <2>2, <2>0
    <3>2. i < m => f[i] <= f[m] /\ (Rise(v[i], v[m]) => f[i] + 1 <= f[m])
      BY <2>0 DEF Ledger
    <3>3. i = m => ~Rise(v[i], v[m])
      BY DEF Rise
    <3> QED BY <2>0, <3>1, <3>2, <3>3
  <2> QED BY <2>0, <2>1, <2>2
<1> HIDE DEF g
<1>3. Ledger(g, w, m + 1, low, high)
  BY <1>1, <1>2 DEF Ledger
<1> QED BY <1>3

\* A click is paid for.
LEMMA LedgerPay ==
  ASSUME NEW f, NEW v, NEW m, NEW low, NEW high, Ledger(f, v, m, low, high)
  PROVE  \E g : Ledger(g, v, m, low - 1, high - 1)
<1> DEFINE g == [i \in 0..m |-> f[i] - 1]
<1>1. /\ m \in Nat /\ v \in [0..m -> BOOLEAN] /\ low \in Int /\ high \in Int
      /\ low <= f[0] /\ f[m] <= high /\ \A i \in 0..m : f[i] \in Int
      /\ \A i, j \in 0..m : i < j => f[i] <= f[j] /\ (Rise(v[i], v[j]) => f[i] + 1 <= f[j])
  BY DEF Ledger
<1>2. g \in [0..m -> Int] /\ \A i \in 0..m : g[i] = f[i] - 1
  BY <1>1
<1> HIDE DEF g
<1>3. low - 1 <= g[0] /\ g[m] <= high - 1
  BY <1>1, <1>2
<1>4. ASSUME NEW i \in 0..m, NEW j \in 0..m, i < j
      PROVE  g[i] <= g[j] /\ (Rise(v[i], v[j]) => g[i] + 1 <= g[j])
  <2>1. f[i] \in Int /\ f[j] \in Int /\ g[i] = f[i] - 1 /\ g[j] = f[j] - 1
    BY <1>1, <1>2, Zenon
  <2>2. f[i] <= f[j] /\ (Rise(v[i], v[j]) => f[i] + 1 <= f[j])
    BY <1>1, <1>4, Zenon
  <2>3. (f[i] <= f[j] => g[i] <= g[j]) /\ (f[i] + 1 <= f[j] => g[i] + 1 <= g[j])
    BY <2>1
  <2> QED BY <2>2, <2>3, Zenon
<1>5. low - 1 \in Int /\ high - 1 \in Int
  BY <1>1
<1> QED BY <1>1, <1>2, <1>3, <1>4, <1>5, Zenon DEF Ledger

------------------------------------------------------------------------------
(* Control: where the thread is, and what the read has in its hands.        *)

Labels == {"start", "read", "block", "loop", "over", "panicked"}

Control ==
  /\ thr \in [ThreadId -> {"runnable", "WaitMouse", "dead"}] /\ pc \in Labels
  /\ thr[App] = "dead" <=> pc \in {"over", "panicked"}
  /\ thr[App] = "WaitMouse" => pc = "read"
  /\ got \in [n : Nat, left : BOOLEAN]
  /\ (pc = "loop" => got.n > 0) /\ (pc = "block" => got.n = 0)
  /\ button \in BOOLEAN /\ was_left_clicked \in BOOLEAN /\ packets \in Seq(BOOLEAN)
  /\ owed \in Int /\ moves \in Nat

\* What each step of the main loop does to the control, whatever the click means.
LoopStep ==
  /\ At("loop")
  /\ UNCHANGED <<button, packets, sent>>
  /\ \/ thr' = thr /\ NextRead /\ was_left_clicked' = got.left
     \/ Terminate(App) /\ pc' \in {"over", "panicked"} /\ UNCHANGED <<got, game>>
  /\ moves' \in {moves, moves + 1}
  /\ \/ ~IsClick /\ owed' = owed /\ thr' = thr
     \/ IsClick /\ owed' = owed - 1

\* play_move answers in one of four ways; a board comes with the first only, and it
\* is the board after the legal move, with the turn changed.
LEMMA PlayMoveAnswers ==
  ASSUME NEW b, NEW from, NEW to
  PROVE  LET r == play_move(b, from, to)
         IN /\ r.result \in {"IllegalMove", "Panic", "Victory", "Continuing"}
            /\ r.result = "Continuing" =>
                 /\ is_legal_move(b, from, to, b.turn)
                 /\ r.board = change_turn(move_piece(b, from, to))
                 /\ GeneralAt(r.board, r.board.turn) # 0
<1> DEFINE n == change_turn(move_piece(b, from, to))
           P == play_move(b, from, to)
           Moved == IF GeneralAt(n, n.turn) = 0 THEN [result |-> "Panic"]
                    ELSE IF is_checkmate(n) THEN [result |-> "Victory", color |-> b.turn]
                    ELSE IF is_stalemate(n) THEN [result |-> "Victory", color |-> Not(b.turn)]
                    ELSE [result |-> "Continuing", board |-> n]
<1>1. P = CASE ~is_legal_move(b, from, to, b.turn) -> [result |-> "IllegalMove"] [] OTHER -> Moved
  BY DEF play_move
<1> HIDE DEF n, P
<1>2. CASE ~is_legal_move(b, from, to, b.turn)
  <2>1. P = [result |-> "IllegalMove"]
    BY <1>1, <1>2
  <2> QED BY <2>1 DEF P
<1>3. CASE is_legal_move(b, from, to, b.turn)
  <2>1. P = Moved
    BY <1>1, <1>3
  <2>2. \/ P = [result |-> "Panic"] \/ P = [result |-> "Victory", color |-> b.turn]
        \/ P = [result |-> "Victory", color |-> Not(b.turn)]
        \/ P = [result |-> "Continuing", board |-> n] /\ GeneralAt(n, n.turn) # 0
    BY <2>1
  <2> QED BY <2>2, <1>3 DEF P, n
<1> QED BY <1>2, <1>3

\* Playing a click: one of six outcomes.
LEMMA PlayCases ==
  ASSUME NEW pos, Play(pos)
  PROVE  /\ At("loop") /\ IsClick /\ selected # None /\ owed' = owed - 1
         /\ UNCHANGED <<button, packets, sent>>
         /\ \/ /\ UNCHANGED thr /\ moves' = moves + 1
               /\ is_legal_move(board, selected[1], pos, board.turn)
               /\ LET n == change_turn(move_piece(board, selected[1], pos))
                  IN Refresh(n, None, TRUE, FALSE) /\ GeneralAt(n, n.turn) # 0
            \/ /\ UNCHANGED <<moves, thr>>
               /\ has_ally_piece(board, pos, board.turn)
               /\ Refresh(board, <<pos, board.points[pos]>>, TRUE, TRUE)
            \/ UNCHANGED <<moves, thr>> /\ Refresh(board, None, TRUE, FALSE)
            \/ End("panicked") \/ End("over")
<1> DEFINE r == play_move(board, selected[1], pos)
           n == change_turn(move_piece(board, selected[1], pos))
<1>1. /\ At("loop") /\ IsClick /\ selected # None /\ owed' = owed - 1
      /\ UNCHANGED <<button, packets, sent>>
      /\ CASE r.result = "Continuing" ->
               Refresh(r.board, None, TRUE, FALSE) /\ moves' = moves + 1 /\ UNCHANGED thr
          [] r.result = "IllegalMove" /\ has_piece(board, pos) ->
               /\ IF board.points[pos].color = board.turn
                  THEN Refresh(board, <<pos, board.points[pos]>>, TRUE, TRUE)
                  ELSE Refresh(board, None, TRUE, FALSE)
               /\ UNCHANGED <<moves, thr>>
          [] r.result = "IllegalMove" /\ ~has_piece(board, pos) -> End("panicked")
          [] r.result = "Panic" -> End("panicked")
          [] r.result = "Victory" -> End("over")
  BY Zenon DEF Play
<1>2. /\ r.result \in {"IllegalMove", "Panic", "Victory", "Continuing"}
      /\ r.result = "Continuing" =>
           /\ is_legal_move(board, selected[1], pos, board.turn) /\ r.board = n
           /\ GeneralAt(n, n.turn) # 0
  BY PlayMoveAnswers
<1> HIDE DEF r, n
<1>3. CASE r.result = "Continuing"
  BY <1>1, <1>2, <1>3, Zenon DEF n
<1>4. CASE r.result = "IllegalMove" /\ has_piece(board, pos)
  <2>1. /\ IF board.points[pos].color = board.turn
           THEN Refresh(board, <<pos, board.points[pos]>>, TRUE, TRUE)
           ELSE Refresh(board, None, TRUE, FALSE)
        /\ UNCHANGED <<moves, thr>>
    BY <1>1, <1>4, Zenon
  <2> QED BY <1>1, <1>4, <2>1, Zenon DEF has_ally_piece
<1>5. CASE r.result = "IllegalMove" /\ ~has_piece(board, pos)
  BY <1>1, <1>5, Zenon
<1>6. CASE r.result = "Panic"
  BY <1>1, <1>6, Zenon
<1>7. CASE r.result = "Victory"
  BY <1>1, <1>7, Zenon
<1> QED BY <1>2, <1>3, <1>4, <1>5, <1>6, <1>7, Zenon

\* The steps of the main loop.
LEMMA LoopSteps ==
  ASSUME Control, NoClick \/ ClickOutside \/ (\E pos \in Squares : Select(pos) \/ Play(pos))
  PROVE  LoopStep
<1>1. CASE NoClick
  BY <1>1 DEF NoClick, Refresh, LoopStep, Control
<1>2. CASE ClickOutside
  BY <1>2 DEF ClickOutside, LoopStep, Control
<1>3. ASSUME NEW pos \in Squares, Select(pos) PROVE LoopStep
  BY <1>3, Zenon DEF Select, Refresh, LoopStep, Control
<1>4. ASSUME NEW pos \in Squares, Play(pos) PROVE LoopStep
  <2>1. /\ At("loop") /\ IsClick /\ owed' = owed - 1 /\ UNCHANGED <<button, packets, sent>>
    BY <1>4, PlayCases, Zenon
  <2>2. \/ \E b, sel, all, legal : /\ UNCHANGED thr /\ moves' \in {moves, moves + 1}
                                   /\ Refresh(b, sel, all, legal)
        \/ End("panicked") \/ End("over")
    BY <1>4, PlayCases, Zenon
  <2>3. ASSUME NEW b, NEW sel, NEW all, NEW legal, UNCHANGED thr, moves' \in {moves, moves + 1},
               Refresh(b, sel, all, legal)
        PROVE  LoopStep
    BY <2>1, <2>3 DEF Refresh, LoopStep
  <2>4. ASSUME End("panicked") \/ End("over") PROVE LoopStep
    BY <2>1, <2>4 DEF End, game, LoopStep
  <2> QED BY <2>2, <2>3, <2>4
<1> QED BY <1>1, <1>2, <1>3, <1>4

\* The program starts in control.
LEMMA ControlInit == Init => Control
<1> SUFFICES ASSUME Init PROVE Control
  OBVIOUS
<1>1. /\ thr \in [ThreadId -> {"runnable", "WaitMouse", "dead"}] /\ thr[App] = "runnable"
      /\ pc = "start"
  BY AppFacts DEF Init
<1>2. got \in [n : Nat, left : BOOLEAN] /\ moves \in Nat /\ owed \in Int
  BY DEF Init
<1>3. button \in BOOLEAN /\ was_left_clicked \in BOOLEAN
  BY Zenon DEF Init
<1>4. packets \in Seq(BOOLEAN)
  BY DEF Init
<1> QED BY <1>1, <1>2, <1>3, <1>4 DEF Control, Labels

\* Every step keeps it.
LEMMA ControlStep == Control /\ [Next]_vars => Control'
<1> SUFFICES ASSUME Control, [Next]_vars PROVE Control'
  OBVIOUS
<1>a. App \in ThreadId /\ ThreadId = {App} /\ Reasons = {"WaitMouse"}
  BY AppFacts
<1>1. ASSUME NEW left \in BOOLEAN, NEW overflow \in BOOLEAN, MouseInterrupt(left, overflow)
      PROVE  Control'
  <2>1. /\ button' \in BOOLEAN /\ owed' \in Int /\ UNCHANGED <<pc, got, was_left_clicked, moves>>
    BY <1>1 DEF MouseInterrupt, Control, game
  <2>2. CASE overflow
    BY <2>1, <2>2, <1>1 DEF MouseInterrupt, Control
  <2>3. CASE ~overflow
    <3>1. add_packet(left)
      BY <1>1, <2>3 DEF MouseInterrupt
    <3>2. packets' \in Seq(BOOLEAN)
      <4>1. Len(packets) >= PacketCap => Tail(packets) \in Seq(BOOLEAN)
        BY AppFacts DEF Control
      <4> DEFINE q == IF Len(packets) >= PacketCap THEN Tail(packets) ELSE packets
      <4>2. q \in Seq(BOOLEAN)
        BY <4>1, Zenon DEF Control
      <4>3. packets' = Append(q, left)
        BY <3>1 DEF add_packet
      <4> HIDE DEF q
      <4> QED BY <4>2, <4>3
    <3>3. /\ thr' \in [ThreadId -> {"runnable", "WaitMouse", "dead"}]
          /\ thr'[App] = "dead" <=> thr[App] = "dead"
          /\ thr'[App] # "WaitMouse"
      BY <3>1, <1>a DEF add_packet, Unblocked, Control
    <3> QED BY <2>1, <3>2, <3>3 DEF Control
  <2> QED BY <2>2, <2>3
<1>2. CASE Start
  BY <1>2, <1>a DEF Start, At, Control, game, Labels
<1>3. CASE ReadPop
  <2>1. /\ thr' = thr /\ pc = "read" /\ thr[App] = "runnable"
        /\ UNCHANGED <<button, was_left_clicked, owed, moves>>
    BY <1>3 DEF ReadPop, At, game
  <2>2. CASE got.n < BatchMax /\ packets # << >>
    <3>1. got' = [n |-> got.n + 1, left |-> Head(packets)] /\ packets' = Tail(packets) /\ pc' = pc
      BY <1>3, <2>2 DEF ReadPop
    <3>2. Head(packets) \in BOOLEAN /\ Tail(packets) \in Seq(BOOLEAN) /\ got.n + 1 \in Nat
      BY <2>2 DEF Control
    <3>3. got' \in [n : Nat, left : BOOLEAN] /\ packets' \in Seq(BOOLEAN)
      BY <3>1, <3>2
    <3> QED BY <2>1, <3>1, <3>3 DEF Control, Labels
  <2>3. CASE ~(got.n < BatchMax /\ packets # << >>)
    <3>1. got' = got /\ packets' = packets /\ pc' = IF got.n > 0 THEN "loop" ELSE "block"
      BY <1>3, <2>3 DEF ReadPop
    <3>2. pc' \in {"loop", "block"} /\ (pc' = "loop" => got.n > 0) /\ (pc' = "block" => got.n = 0)
      BY <3>1 DEF Control
    <3> QED BY <2>1, <3>1, <3>2 DEF Control, Labels
  <2> QED BY <2>2, <2>3
<1>4. CASE ReadBlock
  BY <1>4, <1>a DEF ReadBlock, Block, At, Control, game, Labels
<1>5. CASE NoClick \/ ClickOutside \/ (\E pos \in Squares : Select(pos) \/ Play(pos))
  <2>1. LoopStep
    BY <1>5, LoopSteps
  <2>2. /\ owed' \in Int /\ moves' \in Nat /\ UNCHANGED <<button, packets>>
        /\ pc = "loop" /\ thr[App] = "runnable"
    BY <2>1 DEF LoopStep, At, Control
  <2>3. CASE thr' = thr /\ NextRead /\ was_left_clicked' = got.left
    <3>1. /\ got' \in [n : Nat, left : BOOLEAN] /\ was_left_clicked' \in BOOLEAN /\ pc' = "read"
      BY <2>3 DEF NextRead, Control
    <3> QED BY <2>2, <2>3, <3>1 DEF Control, Labels
  <2>4. CASE Terminate(App) /\ pc' \in {"over", "panicked"} /\ UNCHANGED <<got, game>>
    <3>1. /\ thr' \in [ThreadId -> {"runnable", "WaitMouse", "dead"}] /\ thr'[App] = "dead"
      BY <2>4, <1>a DEF Terminate, Control
    <3> QED BY <2>2, <2>4, <3>1 DEF Control, Labels, game
  <2> QED BY <2>1, <2>3, <2>4 DEF LoopStep
<1>6. CASE UNCHANGED vars
  BY <1>6 DEF vars, game, Control
<1> QED BY <1>1, <1>2, <1>3, <1>4, <1>5, <1>6 DEF Next

------------------------------------------------------------------------------
(* What the program knows of the button: the last packet of the pipeline,   *)
(* wherever it is, has the button that the mouse reported last.             *)

Reported ==
  /\ packets # << >> => packets[Len(packets)] = sent
  /\ packets = << >> /\ got.n > 0 => got.left = sent
  /\ packets = << >> /\ got.n = 0 => was_left_clicked = sent

\* In every behaviour, ButtonIsKnown.
THEOREM ButtonTheorem == Spec => []ButtonIsKnown
<1>1. Init => Reported
  <2> SUFFICES ASSUME Init PROVE Reported
    OBVIOUS
  <2>1. packets = << >> /\ got.n = 0
    BY DEF Init
  <2>2. was_left_clicked = sent
    BY Zenon DEF Init
  <2> QED BY <2>1, <2>2 DEF Reported
<1>2. Control /\ Reported /\ [Next]_vars => Reported'
  <2> SUFFICES ASSUME Control, Reported, [Next]_vars PROVE Reported'
    OBVIOUS
  <2>1. ASSUME NEW left \in BOOLEAN, NEW overflow \in BOOLEAN, MouseInterrupt(left, overflow)
        PROVE  Reported'
    <3>1. CASE overflow
      BY <2>1, <3>1 DEF MouseInterrupt, game, Reported
    <3>2. CASE ~overflow
      <4>1. PICK q : q = IF Len(packets) >= PacketCap THEN Tail(packets) ELSE packets
        OBVIOUS
      <4>2. Len(packets) >= PacketCap => Tail(packets) \in Seq(BOOLEAN)
        BY AppFacts DEF Control
      <4>3. q \in Seq(BOOLEAN)
        BY <4>1, <4>2, Zenon DEF Control
      <4>4. packets' = Append(q, left) /\ sent' = left
        BY <2>1, <3>2, <4>1, Zenon DEF MouseInterrupt, add_packet
      <4>5. packets' # << >> /\ packets'[Len(packets')] = left
        BY <4>3, <4>4, SMTT(30)
      <4> QED BY <4>4, <4>5 DEF Reported
    <3> QED BY <3>1, <3>2
  <2>2. CASE Start
    BY <2>2 DEF Start, game, Reported
  <2>3. CASE ReadPop
    <3>1. UNCHANGED <<was_left_clicked, sent>>
      BY <2>3 DEF ReadPop, game
    <3>2. CASE got.n < BatchMax /\ packets # << >>
      <4>1. /\ got'.n = got.n + 1 /\ got'.left = Head(packets) /\ packets' = Tail(packets)
        BY <2>3, <3>2 DEF ReadPop
      <4>2. packets \in Seq(BOOLEAN) /\ got.n \in Nat
        BY DEF Control
      <4>3. packets' # << >> => packets'[Len(packets')] = packets[Len(packets)]
        BY <3>2, <4>1, <4>2, SMTT(30)
      <4>4. packets' = << >> => got'.left = packets[Len(packets)]
        <5>1. Tail(packets) = << >> => Len(packets) = 1
          <6>1. Len(Tail(packets)) = Len(packets) - 1 /\ Len(packets) \in Nat
            BY <3>2, <4>2
          <6>2. Tail(packets) = << >> => Len(Tail(packets)) = 0
            <7>1. Len(<< >>) = 0
              OBVIOUS
            <7> QED BY <7>1, Zenon
          <6> QED BY <6>1, <6>2
        <5>2. Head(packets) = packets[1]
          BY <3>2, <4>2
        <5> QED BY <4>1, <5>1, <5>2, Zenon
      <4>5. got'.n > 0
        BY <4>1, <4>2
      <4> QED BY <3>1, <3>2, <4>3, <4>4, <4>5 DEF Reported
    <3>3. CASE ~(got.n < BatchMax /\ packets # << >>)
      BY <2>3, <3>1, <3>3 DEF ReadPop, Reported
    <3> QED BY <3>2, <3>3
  <2>4. CASE ReadBlock
    BY <2>4 DEF ReadBlock, game, Reported
  <2>5. CASE NoClick \/ ClickOutside \/ (\E pos \in Squares : Select(pos) \/ Play(pos))
    <3>1. LoopStep
      BY <2>5, LoopSteps
    <3>2. got.n > 0
      BY <3>1 DEF LoopStep, At, Control
    <3>3. UNCHANGED <<packets, sent>>
      BY <3>1 DEF LoopStep
    <3>4. \/ was_left_clicked' = got.left /\ got'.n = 0
          \/ UNCHANGED <<got, was_left_clicked>>
      BY <3>1 DEF LoopStep, NextRead, game
    <3> QED BY <3>2, <3>3, <3>4 DEF Reported
  <2>6. CASE UNCHANGED vars
    BY <2>6 DEF vars, game, Reported
  <2> QED BY <2>1, <2>2, <2>3, <2>4, <2>5, <2>6 DEF Next
<1>3. Reported => ButtonIsKnown
  BY DEF Reported, ButtonIsKnown
<1> QED BY <1>1, <1>2, <1>3, ControlInit, ControlStep, PTL DEF Spec

------------------------------------------------------------------------------
(* The window and the game.                                                 *)

\* In every behaviour, ScreenMatchesGame.
THEOREM ScreenTheorem == Spec => []ScreenMatchesGame
<1> DEFINE Shows(b, sel, d) ==
      /\ d = [points |-> b.points, marks |-> Marks(b, sel)]
      /\ sel # None => has_ally_piece(b, sel[1], b.turn) /\ b.points[sel[1]] = sel[2]
<1>0. \A b : Marks(b, None) = {}
  BY DEF Marks
<1>1. Init => ScreenMatchesGame
  BY <1>0, Zenon DEF Init, ScreenMatchesGame
<1>2. Control /\ ScreenMatchesGame /\ [Next]_vars => ScreenMatchesGame'
  <2> SUFFICES ASSUME Control, ScreenMatchesGame, [Next]_vars PROVE ScreenMatchesGame'
    OBVIOUS
  <2>a. Shows(board', selected', drawn') => ScreenMatchesGame'
    BY DEF ScreenMatchesGame, Marks
  <2>b. At("loop") => Shows(board, selected, drawn)
    BY DEF At, ScreenMatchesGame
  <2>r. ASSUME NEW b, NEW sel, NEW all \in BOOLEAN, NEW legal \in BOOLEAN, Refresh(b, sel, all, legal),
               sel # None => has_ally_piece(b, sel[1], b.turn) /\ b.points[sel[1]] = sel[2],
               all \/ Drawn(b, sel, all, legal) = [points |-> b.points, marks |-> Marks(b, sel)]
        PROVE  ScreenMatchesGame'
    <3>1. Drawn(b, sel, all, legal) = [points |-> b.points, marks |-> Marks(b, sel)]
      BY <2>r DEF Drawn
    <3> QED BY <2>a, <2>r, <3>1 DEF Refresh
  <2> HIDE DEF Shows
  <2>1. ASSUME NEW left \in BOOLEAN, NEW overflow \in BOOLEAN, MouseInterrupt(left, overflow)
        PROVE  ScreenMatchesGame'
    BY <2>1 DEF MouseInterrupt, game, ScreenMatchesGame, Marks
  <2>2. CASE Start
    BY <2>2 DEF Start, At, game, ScreenMatchesGame, Marks
  <2>3. CASE ReadPop
    BY <2>3 DEF ReadPop, At, game, ScreenMatchesGame, Marks
  <2>4. CASE ReadBlock
    BY <2>4 DEF ReadBlock, At, game, ScreenMatchesGame, Marks
  <2>5. CASE NoClick
    <3>1. PICK moved \in BOOLEAN : Refresh(board, selected, redraw \/ moved, FALSE)
      BY <2>5, Zenon DEF NoClick
    <3>2. Shows(board, selected, drawn)
      BY <2>5, <2>b DEF NoClick
    <3>3. CASE redraw \/ moved
      <4>1. Refresh(board, selected, TRUE, FALSE)
        BY <3>1, <3>3 DEF Refresh, Drawn
      <4> QED BY <4>1, <3>2, <2>r, Zenon DEF Shows
    <3>4. CASE ~(redraw \/ moved)
      <4>1. Refresh(board, selected, FALSE, FALSE)
        BY <3>1, <3>4 DEF Refresh, Drawn
      <4>2. Drawn(board, selected, FALSE, FALSE) = drawn
        BY DEF Drawn
      <4> QED BY <4>1, <4>2, <3>2, <2>r, Zenon DEF Shows
    <3> QED BY <3>3, <3>4
  <2>6. CASE ClickOutside
    BY <2>6, <2>a, <2>b DEF ClickOutside
  <2>7. ASSUME NEW pos \in Squares, Select(pos) PROVE ScreenMatchesGame'
    <3>1. At("loop") /\ selected = None
      BY <2>7 DEF Select
    <3>2. drawn = [points |-> board.points, marks |-> {}]
      BY <3>1, <2>b, <1>0 DEF Shows
    <3>3. PICK all \in BOOLEAN :
            IF has_ally_piece(board, pos, board.turn)
            THEN Refresh(board, <<pos, board.points[pos]>>, all, TRUE)
            ELSE Refresh(board, None, all, FALSE)
      <4>1. PICK moved \in BOOLEAN :
              IF has_ally_piece(board, pos, board.turn)
              THEN Refresh(board, <<pos, board.points[pos]>>, redraw \/ moved, TRUE)
              ELSE Refresh(board, None, redraw \/ moved, FALSE)
        BY <2>7, Zenon DEF Select
      <4> QED BY <4>1, Zenon
    <3>4. CASE has_ally_piece(board, pos, board.turn)
      <4> DEFINE sel == <<pos, board.points[pos]>>
      <4>1. Refresh(board, sel, all, TRUE)
        BY <3>3, <3>4, Zenon
      <4>2. sel[1] = pos /\ sel[2] = board.points[pos]
        OBVIOUS
      <4> HIDE DEF sel
      <4>3. Drawn(board, sel, all, TRUE) = [points |-> board.points, marks |-> Marks(board, sel)]
        BY <3>2 DEF Drawn
      <4> QED BY <4>1, <4>2, <4>3, <3>4, <2>r, Zenon
    <3>5. CASE ~has_ally_piece(board, pos, board.turn)
      <4>1. Refresh(board, None, all, FALSE)
        BY <3>3, <3>5, Zenon
      <4>2. Drawn(board, None, all, FALSE) = [points |-> board.points, marks |-> Marks(board, None)]
        BY <3>2, <1>0 DEF Drawn
      <4> QED BY <4>1, <4>2, <2>r, Zenon
    <3> QED BY <3>4, <3>5
  <2>8. ASSUME NEW pos \in Squares, Play(pos) PROVE ScreenMatchesGame'
    <3>1. \/ \E b : Refresh(b, None, TRUE, FALSE)
          \/ /\ has_ally_piece(board, pos, board.turn)
             /\ Refresh(board, <<pos, board.points[pos]>>, TRUE, TRUE)
          \/ End("panicked") \/ End("over")
      BY <2>8, PlayCases, Zenon
    <3>2. ASSUME NEW b, Refresh(b, None, TRUE, FALSE) PROVE ScreenMatchesGame'
      BY <3>2, <2>r, Zenon
    <3>3. CASE /\ has_ally_piece(board, pos, board.turn)
               /\ Refresh(board, <<pos, board.points[pos]>>, TRUE, TRUE)
      <4> DEFINE sel == <<pos, board.points[pos]>>
      <4>1. sel[1] = pos /\ sel[2] = board.points[pos]
        OBVIOUS
      <4>2. Refresh(board, sel, TRUE, TRUE)
        BY <3>3, Zenon
      <4> HIDE DEF sel
      <4> QED BY <4>1, <4>2, <3>3, <2>r, Zenon
    <3>4. CASE End("panicked") \/ End("over")
      BY <3>4 DEF End, ScreenMatchesGame
    <3> QED BY <3>1, <3>2, <3>3, <3>4, Zenon
  <2>9. CASE UNCHANGED vars
    BY <2>9 DEF vars, game, ScreenMatchesGame, Marks
  <2> QED BY <2>1, <2>2, <2>3, <2>4, <2>5, <2>6, <2>7, <2>8, <2>9 DEF Next
<1> QED BY <1>1, <1>2, ControlInit, ControlStep, PTL DEF Spec

------------------------------------------------------------------------------
(* Clicks are presses: the ledger of the pipeline.                          *)

\* The states of the button from the last one handled, or the last one read, to the
\* present one.
Pipeline(last, q, now) ==
  [i \in 0..(Len(q) + 1) |-> IF i = 0 THEN last ELSE IF i <= Len(q) THEN q[i] ELSE now]

LastRead == IF got.n > 0 THEN got.left ELSE was_left_clicked
Due == IF got.n > 0 /\ IsClick THEN 1 ELSE 0

Covered(last, q, now, low, high) ==
  \E f : Ledger(f, Pipeline(last, q, now), Len(q) + 1, low, high)

Paid == IF pc \in {"over", "panicked"} THEN owed >= 0
        ELSE Covered(LastRead, packets, button, Due, owed)

\* The states of the button that are still to be seen, by index.
LEMMA PipelineFacts ==
  ASSUME NEW last \in BOOLEAN, NEW q \in Seq(BOOLEAN), NEW now \in BOOLEAN
  PROVE  /\ Len(q) \in Nat /\ Len(q) + 1 >= 1
         /\ Pipeline(last, q, now) \in [0..(Len(q) + 1) -> BOOLEAN]
         /\ Pipeline(last, q, now)[0] = last
         /\ \A i \in 1..Len(q) : Pipeline(last, q, now)[i] = q[i]
         /\ Pipeline(last, q, now)[Len(q) + 1] = now
BY DEF Pipeline

\* The rest of a queue.
Rest(t, q) == Len(q) = Len(t) + 1 /\ \A i \in 1..Len(t) : t[i] = q[i + 1]

\* The oldest packet of a full queue is dropped.
LEMMA CoveredDrop ==
  ASSUME NEW last \in BOOLEAN, NEW q \in Seq(BOOLEAN), NEW now \in BOOLEAN, NEW low, NEW high,
         NEW t \in Seq(BOOLEAN), Rest(t, q), Covered(last, q, now, low, high)
  PROVE  Covered(last, t, now, low, high)
<1> DEFINE v == Pipeline(last, q, now)
           w == Pipeline(last, t, now)
           m == Len(q) + 1
           k == Len(t) + 1
           s == [i \in 0..k |-> IF i = 0 THEN 0 ELSE i + 1]
<1>1. PICK f : Ledger(f, v, m, low, high)
  BY DEF Covered
<1>2. k \in Nat /\ k >= 1 /\ Len(q) = k /\ m = k + 1
  BY DEF Rest
<1>3. /\ w \in [0..k -> BOOLEAN] /\ w[0] = last /\ w[k] = now
      /\ \A i \in 1..(k - 1) : w[i] = q[i + 1]
  BY PipelineFacts DEF Rest
<1>4. v[0] = last /\ v[m] = now /\ \A i \in 1..Len(q) : v[i] = q[i]
  BY PipelineFacts
<1> HIDE DEF v, w, m, k
<1>5. s \in [0..k -> 0..m] /\ (\A i, j \in 0..k : i < j => s[i] < s[j]) /\ s[0] = 0
  BY <1>2
<1>6. ASSUME NEW i \in 0..k PROVE w[i] = v[s[i]]
  <2>1. CASE i = 0
    BY <2>1, <1>3, <1>4, <1>5
  <2>2. CASE i = k /\ i # 0
    BY <2>2, <1>2, <1>3, <1>4
  <2>3. CASE i \in 1..(k - 1)
    BY <2>3, <1>2, <1>3, <1>4
  <2> QED BY <2>1, <2>2, <2>3, <1>2
<1>7. low \in Int /\ low <= f[s[0]]
  BY <1>1, <1>5 DEF Ledger
<1> HIDE DEF s
<1>8. Skips(v, m, w, k, s)
  BY <1>2, <1>3, <1>5, <1>6 DEF Skips
<1>9. \E g : Ledger(g, w, k, low, high)
  BY <1>1, <1>7, <1>8, LedgerSkip, Zenon
<1> QED BY <1>9 DEF Covered, w, k

\* A packet is popped: its button, x, is the one that was read last.
LEMMA CoveredPop ==
  ASSUME NEW last \in BOOLEAN, NEW q \in Seq(BOOLEAN), NEW now \in BOOLEAN, NEW low \in Int, NEW high,
         NEW t \in Seq(BOOLEAN), Rest(t, q), NEW x \in BOOLEAN, x = q[1],
         Covered(last, q, now, low, high)
  PROVE  Covered(x, t, now, IF Rise(last, x) THEN low + 1 ELSE low, high)
<1> DEFINE v == Pipeline(last, q, now)
           w == Pipeline(x, t, now)
           m == Len(q) + 1
           k == Len(t) + 1
           s == [i \in 0..k |-> i + 1]
           up == IF Rise(last, x) THEN low + 1 ELSE low
<1>1. PICK f : Ledger(f, v, m, low, high)
  BY DEF Covered
<1>2. k \in Nat /\ k >= 1 /\ Len(q) = k /\ m = k + 1
  BY DEF Rest
<1>3. /\ w \in [0..k -> BOOLEAN] /\ w[0] = x /\ w[k] = now
      /\ \A i \in 1..(k - 1) : w[i] = q[i + 1]
  BY PipelineFacts DEF Rest
<1>4. v[0] = last /\ v[m] = now /\ \A i \in 1..Len(q) : v[i] = q[i]
  BY PipelineFacts
<1> HIDE DEF v, w, m, k
<1>5. s \in [0..k -> 0..m] /\ (\A i, j \in 0..k : i < j => s[i] < s[j]) /\ s[0] = 1
  BY <1>2
<1>6. ASSUME NEW i \in 0..k PROVE w[i] = v[s[i]]
  <2>1. CASE i = 0
    BY <2>1, <1>2, <1>3, <1>4, <1>5, SMTT(30)
  <2>2. CASE i = k /\ i # 0
    BY <2>2, <1>2, <1>3, <1>4
  <2>3. CASE i \in 1..(k - 1)
    BY <2>3, <1>2, <1>3, <1>4
  <2> QED BY <2>1, <2>2, <2>3, <1>2
<1>7. up \in Int /\ up <= f[s[0]]
  <2>1. /\ f[0] <= f[1] /\ (Rise(v[0], v[1]) => f[0] + 1 <= f[1]) /\ f[0] \in Int /\ f[1] \in Int
        /\ low <= f[0]
    BY <1>1, <1>2 DEF Ledger
  <2>2. v[0] = last /\ v[1] = x
    BY <1>2, <1>4
  <2> QED BY <1>5, <2>1, <2>2
<1> HIDE DEF s, up
<1>8. Skips(v, m, w, k, s)
  BY <1>2, <1>3, <1>5, <1>6 DEF Skips
<1>9. \E g : Ledger(g, w, k, up, high)
  BY <1>1, <1>7, <1>8, LedgerSkip, Zenon
<1> QED BY <1>9 DEF Covered, w, k, up

\* The button changes, and a packet may record it.
LEMMA CoveredTurn ==
  ASSUME NEW last \in BOOLEAN, NEW q \in Seq(BOOLEAN), NEW now \in BOOLEAN, NEW low, NEW high,
         Covered(last, q, now, low, high), NEW x \in BOOLEAN
  PROVE  Covered(last, q, x, low, IF Rise(now, x) THEN high + 1 ELSE high)
<1> DEFINE v == Pipeline(last, q, now)
           w == Pipeline(last, q, x)
           m == Len(q) + 1
<1>1. PICK f : Ledger(f, v, m, low, high)
  BY DEF Covered
<1>2. /\ w \in [0..m -> BOOLEAN] /\ w[0] = last /\ w[m] = x /\ \A i \in 1..Len(q) : w[i] = q[i]
  BY PipelineFacts
<1>3. v[0] = last /\ v[m] = now /\ (\A i \in 1..Len(q) : v[i] = q[i]) /\ m >= 1
      /\ Len(q) \in Nat /\ Len(q) = m - 1
  BY PipelineFacts
<1> HIDE DEF v, w, m
<1>4. \A i \in 0..(m - 1) : w[i] = v[i]
  BY <1>2, <1>3
<1>5. \E g : Ledger(g, w, m, low, IF Rise(v[m], w[m]) THEN high + 1 ELSE high)
  <2>1. Turns(v, m, w)
    BY <1>2, <1>3, <1>4 DEF Turns
  <2> QED BY <1>1, <2>1, LedgerTurn
<1> QED BY <1>2, <1>3, <1>5 DEF Covered, w, m

\* The packet that records the state of the button joins the queue.
LEMMA CoveredRecord ==
  ASSUME NEW last \in BOOLEAN, NEW q \in Seq(BOOLEAN), NEW x \in BOOLEAN, NEW low, NEW high,
         NEW t \in Seq(BOOLEAN), Len(t) = Len(q) + 1, \A i \in 1..Len(q) : t[i] = q[i],
         t[Len(t)] = x,
         Covered(last, q, x, low, high)
  PROVE  Covered(last, t, x, low, high)
<1> DEFINE v == Pipeline(last, q, x)
           w == Pipeline(last, t, x)
           m == Len(q) + 1
<1>1. PICK f : Ledger(f, v, m, low, high)
  BY DEF Covered
<1>2. m \in Nat /\ m >= 1 /\ Len(q) = m - 1 /\ Len(t) = m /\ t[m] = x
  OBVIOUS
<1>3. /\ w \in [0..(m + 1) -> BOOLEAN] /\ w[0] = last /\ w[m + 1] = x
      /\ \A i \in 1..m : w[i] = t[i]
  BY PipelineFacts
<1>4. v[0] = last /\ v[m] = x /\ (\A i \in 1..Len(q) : v[i] = q[i])
  BY PipelineFacts
<1> HIDE DEF v, w, m
<1>5. ASSUME NEW i \in 0..m PROVE w[i] = v[i]
  <2>1. CASE i = 0
    BY <2>1, <1>3, <1>4
  <2>2. CASE i = m /\ i # 0
    BY <2>2, <1>2, <1>3, <1>4
  <2>3. CASE i \in 1..(m - 1)
    BY <2>3, <1>2, <1>3, <1>4
  <2>4. i = 0 \/ (i = m /\ i # 0) \/ i \in 1..(m - 1)
    BY <1>2
  <2> QED BY <2>1, <2>2, <2>3, <2>4, Zenon
<1>6. w[m + 1] = v[m]
  BY <1>3, <1>4
<1>7. \E g : Ledger(g, w, m + 1, low, high)
  <2>1. Records(v, m, w)
    BY <1>3, <1>6, <1>5 DEF Records
  <2> QED BY <1>1, <2>1, LedgerRecord
<1> QED BY <1>2, <1>7 DEF Covered, w

\* A ledger that covers the pipeline is not in debt.
LEMMA CoveredPays ==
  ASSUME NEW last, NEW q, NEW now, NEW low, NEW high, Covered(last, q, now, low, high)
  PROVE  low <= high
BY LedgerPays DEF Covered

\* The click that is due is played.
LEMMA CoveredPay ==
  ASSUME NEW last, NEW q, NEW now, Covered(last, q, now, 1, owed)
  PROVE  Covered(last, q, now, 0, owed - 1)
BY LedgerPay DEF Covered

\* No press has been made and none is owed.
LEMMA PaidInit == Init => Paid
<1> SUFFICES ASSUME Init PROVE Paid
  OBVIOUS
<1> DEFINE f == [i \in 0..1 |-> 0]
<1>1. Pipeline(FALSE, << >>, FALSE) = [i \in 0..1 |-> FALSE]
  BY DEF Pipeline
<1>2. Ledger(f, [i \in 0..1 |-> FALSE], 1, 0, 0)
  BY DEF Ledger, Rise
<1>3. Covered(FALSE, << >>, FALSE, 0, 0)
  BY <1>1, <1>2 DEF Covered
<1>4. /\ pc \notin {"over", "panicked"} /\ got.n = 0 /\ LastRead = FALSE /\ packets = << >>
      /\ button = FALSE /\ Due = 0 /\ owed = 0
  BY SMTT(30) DEF Init, LastRead, Due
<1> QED BY <1>3, <1>4, Zenon DEF Paid

\* Every step keeps the presses covered.
LEMMA PaidStep == Control /\ Paid /\ [Next]_vars => Paid'
<1> SUFFICES ASSUME Control, Paid, [Next]_vars PROVE Paid'
  OBVIOUS
<1> DEFINE ended == pc \in {"over", "panicked"}
<1>a. LastRead \in BOOLEAN /\ Due \in {0, 1} /\ packets \in Seq(BOOLEAN) /\ button \in BOOLEAN /\ owed \in Int
  BY DEF LastRead, Due, Control
<1>b. ~ended => Covered(LastRead, packets, button, Due, owed)
  BY DEF Paid
<1>1. ASSUME NEW left \in BOOLEAN, NEW overflow \in BOOLEAN, MouseInterrupt(left, overflow)
      PROVE  Paid'
  <2>1. /\ button' = left /\ owed' = (IF Rise(button, left) THEN owed + 1 ELSE owed)
        /\ UNCHANGED <<pc, got, was_left_clicked>>
    BY <1>1 DEF MouseInterrupt, Rise, game
  <2>2. LastRead' = LastRead /\ Due' = Due
    BY <2>1 DEF LastRead, Due, IsClick
  <2>3. CASE ended
    BY <2>1, <2>3, <1>a DEF Paid
  <2>4. CASE ~ended /\ overflow
    <3>1. packets' = packets
      BY <1>1, <2>4 DEF MouseInterrupt
    <3>2. Covered(LastRead, packets, left, Due, IF Rise(button, left) THEN owed + 1 ELSE owed)
      BY <1>a, <1>b, <2>4, CoveredTurn
    <3> QED BY <2>1, <2>2, <2>4, <3>1, <3>2 DEF Paid
  <2>5. CASE ~ended /\ ~overflow
    <3> DEFINE q == IF Len(packets) >= PacketCap THEN Tail(packets) ELSE packets
    <3>1. packets' = Append(q, left)
      BY <1>1, <2>5 DEF MouseInterrupt, add_packet
    <3>2. q \in Seq(BOOLEAN) /\ Covered(LastRead, q, button, Due, owed)
      <4>1. CASE Len(packets) >= PacketCap
        <5>1. packets # << >> /\ Tail(packets) \in Seq(BOOLEAN) /\ Rest(Tail(packets), packets)
          BY <4>1, <1>a, AppFacts DEF Rest
        <5>2. Covered(LastRead, Tail(packets), button, Due, owed)
          BY <5>1, <1>a, <1>b, <2>5, CoveredDrop, Zenon
        <5> QED BY <4>1, <5>1, <5>2
      <4>2. CASE ~(Len(packets) >= PacketCap)
        BY <4>2, <1>a, <1>b, <2>5
      <4> QED BY <4>1, <4>2
    <3> HIDE DEF q
    <3>3. Covered(LastRead, q, left, Due, IF Rise(button, left) THEN owed + 1 ELSE owed)
      BY <3>2, <1>a, CoveredTurn
    <3>4. Covered(LastRead, Append(q, left), left, Due, IF Rise(button, left) THEN owed + 1 ELSE owed)
      <4> DEFINE t == Append(q, left)
      <4>1. /\ t \in Seq(BOOLEAN) /\ Len(t) = Len(q) + 1 /\ (\A i \in 1..Len(q) : t[i] = q[i])
            /\ t[Len(t)] = left
        BY <3>2
      <4> HIDE DEF t
      <4>2. Covered(LastRead, t, left, Due, IF Rise(button, left) THEN owed + 1 ELSE owed)
        BY <3>2, <3>3, <4>1, <1>a, CoveredRecord
      <4> QED BY <4>2 DEF t
    <3> QED BY <2>1, <2>2, <2>5, <3>1, <3>4 DEF Paid
  <2> QED BY <2>3, <2>4, <2>5
<1>2. CASE Start
  <2>1. UNCHANGED <<button, packets, got, was_left_clicked, owed>> /\ ~ended /\ pc' = "read"
    BY <1>2 DEF Start, At, game
  <2>2. LastRead' = LastRead /\ Due' = Due
    BY <2>1 DEF LastRead, Due, IsClick
  <2> QED BY <2>1, <2>2 DEF Paid
<1>3. CASE ReadPop
  <2>0. UNCHANGED <<button, was_left_clicked, owed>> /\ ~ended /\ pc' \in {"read", "loop", "block"}
    BY <1>3 DEF ReadPop, At, game
  <2>1. CASE got.n < BatchMax /\ packets # << >>
    <3>1. got' = [n |-> got.n + 1, left |-> Head(packets)] /\ packets' = Tail(packets)
      BY <1>3, <2>1 DEF ReadPop
    <3>2. Covered(Head(packets), Tail(packets), button, IF Rise(LastRead, Head(packets)) THEN Due + 1 ELSE Due, owed)
      <4> DEFINE t == Tail(packets)
                 x == Head(packets)
      <4>1. t \in Seq(BOOLEAN) /\ Rest(t, packets) /\ x \in BOOLEAN /\ x = packets[1]
        BY <1>a, <2>1 DEF Rest
      <4>2. Due \in Int /\ Covered(LastRead, packets, button, Due, owed)
        BY <1>a, <1>b, <2>0
      <4> HIDE DEF t, x
      <4>3. Covered(x, t, button, IF Rise(LastRead, x) THEN Due + 1 ELSE Due, owed)
        BY <4>1, <4>2, <1>a, CoveredPop
      <4> QED BY <4>3 DEF t, x
    <3>3. Head(packets) \in BOOLEAN
      BY <1>a, <2>1
    <3> DEFINE up == IF Rise(was_left_clicked, Head(packets)) THEN 1 ELSE 0
    <3>a. got'.n > 0 /\ got'.left = Head(packets)
      BY <3>1 DEF Control
    <3>4. LastRead' = Head(packets) /\ Due' = up
      BY <3>a, <2>0, Zenon DEF LastRead, Due, IsClick, Rise
    <3>5. Due' <= IF Rise(LastRead, Head(packets)) THEN Due + 1 ELSE Due
      <4>1. CASE got.n > 0
        <5>1. Due = IF Rise(was_left_clicked, LastRead) THEN 1 ELSE 0
          BY <4>1 DEF Due, LastRead, IsClick, Rise
        <5>2. Rise(was_left_clicked, Head(packets)) =>
                Rise(was_left_clicked, LastRead) \/ Rise(LastRead, Head(packets))
          BY Zenon DEF Rise
        <5> QED BY <5>1, <5>2, <3>4
      <4>2. CASE ~(got.n > 0)
        <5>1. Due = 0 /\ LastRead = was_left_clicked
          BY <4>2 DEF Due, LastRead
        <5> QED BY <5>1, <3>4
      <4> QED BY <4>1, <4>2
    <3>6. Due' \in Int
      BY <3>4
    <3>7. Covered(Head(packets), Tail(packets), button, Due', owed)
      <4>1. ASSUME NEW a, NEW b \in Int, NEW q, Covered(Head(packets), q, button, a, owed), b <= a
            PROVE  Covered(Head(packets), q, button, b, owed)
        <5>1. ASSUME NEW f, NEW v, NEW m, Ledger(f, v, m, a, owed)
              PROVE  Ledger(f, v, m, b, owed)
          BY <4>1, <5>1 DEF Ledger
        <5> QED BY <4>1, <5>1 DEF Covered
      <4> QED BY <4>1, <3>2, <3>5, <3>6
    <3> QED BY <2>0, <3>1, <3>4, <3>7 DEF Paid
  <2>2. CASE ~(got.n < BatchMax /\ packets # << >>)
    <3>1. UNCHANGED <<got, packets>>
      BY <1>3, <2>2 DEF ReadPop
    <3>2. LastRead' = LastRead /\ Due' = Due
      BY <2>0, <3>1 DEF LastRead, Due, IsClick
    <3> QED BY <2>0, <3>1, <3>2 DEF Paid
  <2> QED BY <2>1, <2>2
<1>4. CASE ReadBlock
  <2>1. UNCHANGED <<button, packets, got, was_left_clicked, owed>> /\ ~ended /\ pc' = "read"
    BY <1>4 DEF ReadBlock, At, game
  <2>2. LastRead' = LastRead /\ Due' = Due
    BY <2>1 DEF LastRead, Due, IsClick
  <2> QED BY <2>1, <2>2 DEF Paid
<1>5. CASE NoClick \/ ClickOutside \/ (\E pos \in Squares : Select(pos) \/ Play(pos))
  <2>1. LoopStep
    BY <1>5, LoopSteps
  <2>2. ~ended /\ got.n > 0 /\ LastRead = got.left /\ UNCHANGED <<button, packets>>
    BY <2>1 DEF LoopStep, At, Control, LastRead
  <2>3. /\ ~IsClick => Due = 0 /\ owed' = owed
        /\ IsClick => Due = 1 /\ owed' = owed - 1
    BY <2>1, <2>2 DEF LoopStep, Due
  <2>4. Covered(LastRead, packets, button, 0, owed')
    <3>1. CASE ~IsClick
      BY <3>1, <2>2, <2>3, <1>b
    <3>2. CASE IsClick
      BY <3>2, <2>2, <2>3, <1>b, CoveredPay
    <3> QED BY <3>1, <3>2
  <2>5. CASE NextRead /\ was_left_clicked' = got.left
    <3>1. pc' = "read" /\ got'.n = 0 /\ LastRead' = LastRead /\ Due' = 0
      BY <2>2, <2>5 DEF NextRead, LastRead, Due
    <3> QED BY <3>1, <2>2, <2>4 DEF Paid
  <2>6. CASE pc' \in {"over", "panicked"}
    <3>1. 0 <= owed'
      BY <2>4, CoveredPays
    <3>2. owed' \in Int
      BY <2>3, <1>a
    <3> QED BY <3>1, <3>2, <2>6 DEF Paid
  <2> QED BY <2>1, <2>5, <2>6 DEF LoopStep
<1>6. CASE UNCHANGED vars
  <2>1. LastRead' = LastRead /\ Due' = Due /\ UNCHANGED <<pc, packets, button, owed>>
    BY <1>6 DEF vars, game, LastRead, Due, IsClick
  <2> QED BY <2>1 DEF Paid
<1> QED BY <1>1, <1>2, <1>3, <1>4, <1>5, <1>6 DEF Next

\* In every behaviour, ClicksArePresses.
THEOREM ClickTheorem == Spec => []ClicksArePresses
<1>1. Control /\ Paid => ClicksArePresses
  <2> SUFFICES ASSUME Control, Paid PROVE ClicksArePresses
    OBVIOUS
  <2>1. CASE pc \in {"over", "panicked"}
    BY <2>1 DEF Paid, ClicksArePresses
  <2>2. CASE pc \notin {"over", "panicked"}
    <3>1. Due <= owed
      BY <2>2, CoveredPays DEF Paid
    <3>2. Due \in {0, 1} /\ owed \in Int
      BY DEF Due, Control
    <3> QED BY <3>1, <3>2 DEF ClicksArePresses
  <2> QED BY <2>1, <2>2
<1> QED BY <1>1, ControlInit, ControlStep, PaidInit, PaidStep, PTL DEF Spec

------------------------------------------------------------------------------
(* The game.                                                                *)

Home == WellFormed(board) /\ Playable(board)

Safe == Home /\ moves \in Nat /\ (moves > 0 => ~is_in_check(board, Not(board.turn)))

\* A step either keeps the board, or plays a move that stands.
LEMMA BoardSteps ==
  ASSUME [Next]_vars
  PROVE  \/ board' = board /\ moves' = moves
         \/ /\ moves' = moves + 1
            /\ \E from, to : /\ is_legal_move(board, from, to, board.turn)
                             /\ board' = change_turn(move_piece(board, from, to))
                             /\ GeneralAt(board', board'.turn) # 0
<1> DEFINE Moved ==
      \/ board' = board /\ moves' = moves
      \/ /\ moves' = moves + 1
         /\ \E from, to : /\ is_legal_move(board, from, to, board.turn)
                          /\ board' = change_turn(move_piece(board, from, to))
                          /\ GeneralAt(board', board'.turn) # 0
<1>1. ASSUME NEW left \in BOOLEAN, NEW overflow \in BOOLEAN, MouseInterrupt(left, overflow)
      PROVE  board' = board /\ moves' = moves
  BY <1>1 DEF MouseInterrupt, game
<1>2. CASE Start \/ ReadPop \/ ReadBlock
  BY <1>2, Zenon DEF Start, ReadPop, ReadBlock, game
<1>3. CASE NoClick \/ ClickOutside
  BY <1>3, Zenon DEF NoClick, ClickOutside, Refresh
<1>4. ASSUME NEW pos, Select(pos) PROVE board' = board /\ moves' = moves
  BY <1>4, Zenon DEF Select, Refresh
<1>5. ASSUME NEW pos, Play(pos) PROVE Moved
  <2>1. \/ /\ moves' = moves + 1
           /\ is_legal_move(board, selected[1], pos, board.turn)
           /\ LET n == change_turn(move_piece(board, selected[1], pos))
              IN Refresh(n, None, TRUE, FALSE) /\ GeneralAt(n, n.turn) # 0
        \/ \E sel, legal : moves' = moves /\ Refresh(board, sel, TRUE, legal)
        \/ End("panicked") \/ End("over")
    BY <1>5, PlayCases, Zenon
  <2>2. ASSUME NEW sel, NEW legal, moves' = moves, Refresh(board, sel, TRUE, legal) PROVE Moved
    BY <2>2 DEF Refresh
  <2>3. CASE End("panicked") \/ End("over")
    BY <2>3 DEF End, game
  <2> DEFINE n == change_turn(move_piece(board, selected[1], pos))
  <2>4. CASE /\ moves' = moves + 1
             /\ is_legal_move(board, selected[1], pos, board.turn)
             /\ Refresh(n, None, TRUE, FALSE) /\ GeneralAt(n, n.turn) # 0
    <3>1. board' = n
      BY <2>4 DEF Refresh
    <3> QED BY <2>4, <3>1
  <2> QED BY <2>1, <2>2, <2>3, <2>4, Zenon
<1>6. CASE UNCHANGED vars
  BY <1>6 DEF vars, game
<1> QED BY <1>1, <1>2, <1>3, <1>4, <1>5, <1>6 DEF Next

\* The position of every game starts with its Generals at home.
LEMMA SafeInit == Init => Safe
<1> SUFFICES ASSUME Init PROVE Safe
  OBVIOUS
<1>1. PICK fen \in Fens : board = from_str(fen).board
  BY Zenon DEF Init
<1>2. from_str(fen).ok /\ Playable(from_str(fen).board)
  BY XiangqiGameAssumption
<1>3. board = from_str(fen).board /\ WellFormed(board)
  BY <1>1, <1>2, FromStr, Zenon
<1>4. moves = 0
  BY Zenon DEF Init
<1>5. moves \in Nat /\ ~(moves > 0)
  BY <1>4
<1> QED BY <1>1, <1>2, <1>3, <1>5, Zenon DEF Safe, Home

\* Every step keeps them there.
LEMMA SafeStep == Safe /\ [Next]_vars => Safe'
<1> SUFFICES ASSUME Safe, [Next]_vars PROVE Safe'
  OBVIOUS
<1>1. CASE board' = board /\ moves' = moves
  BY <1>1 DEF Safe, Home
<1>2. CASE /\ moves' = moves + 1
           /\ \E from, to : /\ is_legal_move(board, from, to, board.turn)
                            /\ board' = change_turn(move_piece(board, from, to))
                            /\ GeneralAt(board', board'.turn) # 0
  <2>1. PICK from, to : /\ is_legal_move(board, from, to, board.turn)
                        /\ board' = change_turn(move_piece(board, from, to))
                        /\ GeneralAt(board', board'.turn) # 0
    BY <1>2
  <2>2. WellFormed(board') /\ Playable(board') /\ ~is_in_check(board', Not(board'.turn))
    BY <2>1, MoveKeeps DEF Safe, Home
  <2> QED BY <2>2, <1>2, SMTT(30) DEF Safe, Home
<1> QED BY <1>1, <1>2, BoardSteps

\* In every behaviour, GeneralsSafe.
THEOREM GeneralsTheorem == Spec => []GeneralsSafe
<1>1. Safe => GeneralsSafe
  <2> SUFFICES ASSUME Safe, moves > 0
               PROVE  /\ \A c \in Color : \E p \in DOMAIN board.points :
                           board.points[p] = [type |-> "General", color |-> c] /\ is_in_palace(p, c)
                      /\ ~is_in_check(board, Not(board.turn))
    BY Zenon DEF GeneralsSafe
  <2>1. ASSUME NEW c \in Color
        PROVE  \E p \in DOMAIN board.points :
                 board.points[p] = [type |-> "General", color |-> c] /\ is_in_palace(p, c)
    <3>1. PICK p \in Squares : Generals(board, c) = {p} /\ is_in_palace(p, c)
      BY DEF Safe, Home, Playable
    <3>2. p \in Generals(board, c)
      BY <3>1
    <3> QED BY <3>1, <3>2 DEF Generals
  <2> QED BY <2>1, Zenon DEF Safe
<1> QED BY <1>1, SafeInit, SafeStep, PTL DEF Spec

\* In every behaviour, MovesFollowRules: the engine plays by the rules in every
\* position that a game reaches.
THEOREM RulesTheorem == Spec => MovesFollowRules
<1>1. Safe' => FollowsRules(board')
  <2> SUFFICES ASSUME Safe' PROVE FollowsRules(board')
    OBVIOUS
  <2>1. WellFormed(board') /\ Playable(board')
    BY DEF Safe, Home
  <2> QED BY <2>1, RulesFollowed, Zenon
<1>2. Safe /\ [Next]_vars =>
        [board' # board \/ (pc = "start" /\ pc' # pc) => FollowsRules(board')]_vars
  BY <1>1, SafeStep
<1> QED BY <1>2, SafeInit, SafeStep, PTL DEF Spec, MovesFollowRules

------------------------------------------------------------------------------
(* The scheduler's interface.                                               *)

\* Whomever unblock_task is called for, it is a step of Threads.tla or does nothing.
LEMMA UnblockIsStep ==
  ASSUME thr = [t \in ThreadId |-> thr[t]], NEW S, thr' = Unblocked(S)
  PROVE  ThrNext \/ thr' = thr
<1> DEFINE W == {t \in ThreadId : t \in S /\ thr[t] \in Reasons}
<1>1. Unblocked(S) = Unblocked(W) /\ W \in SUBSET ThreadId
  BY DEF Unblocked
<1>2. CASE W = {}
  <2>1. \A t \in ThreadId : ~(t \in S /\ thr[t] \in Reasons)
    BY <1>2
  <2> QED BY <2>1, Zenon DEF Unblocked
<1>3. CASE W # {}
  <2>1. Unblock(W)
    BY <1>1, <1>3 DEF Unblock
  <2> QED BY <1>1, <2>1, Zenon DEF ThrNext
<1> QED BY <1>2, <1>3

\* The program asks of the scheduler only what Threads.tla, and so the scheduler, provides.
THEOREM ThreadsTheorem == Spec => ThrSpec
<1>1. Init => ThrInit
  BY Zenon DEF Init, ThrInit
<1>2. ASSUME Control, [Next]_vars PROVE [ThrNext]_thr
  <2>1. App \in ThreadId /\ "WaitMouse" \in Reasons
    BY AppFacts
  <2>2. thr = [t \in ThreadId |-> thr[t]]
    <3>1. thr \in [ThreadId -> {"runnable", "WaitMouse", "dead"}]
      BY <1>2 DEF Control
    <3> QED BY <3>1
  <2>3. \/ thr' = thr
        \/ thr' = Unblocked({App})
        \/ Block(App, "WaitMouse")
        \/ Terminate(App)
    <3>1. CASE \E left, overflow \in BOOLEAN : MouseInterrupt(left, overflow)
      BY <3>1, Zenon DEF MouseInterrupt, add_packet
    <3>2. CASE Start \/ ReadPop \/ ReadBlock \/ UNCHANGED vars
      BY <3>2, Zenon DEF Start, ReadPop, ReadBlock, vars
    <3>3. CASE NoClick \/ ClickOutside \/ (\E pos \in Squares : Select(pos) \/ Play(pos))
      BY <1>2, <3>3, LoopSteps, Zenon DEF LoopStep
    <3> QED BY <1>2, <3>1, <3>2, <3>3, Zenon DEF Next
  <2> QED BY <2>1, <2>2, <2>3, UnblockIsStep, Zenon DEF ThrNext
<1> QED BY <1>1, <1>2, ControlInit, ControlStep, PTL DEF Spec, ThrSpec
==============================================================================
