------------------------- MODULE XiangqiEngineProofs -------------------------
(***************************************************************************)
(* The xiangqi engine on every position: what from_str builds, what a move *)
(* that stands keeps, and that the moves it accepts are those of the rules.*)
(***************************************************************************)
EXTENDS XiangqiGame, FiniteSetTheorems, TLAPS

\* What SelectInSeq finds in a short sequence: the first index that passes.
LEMMA FirstFound ==
  ASSUME NEW I \in SUBSET (1..9), I # {}
  PROVE  Min(I) \in I /\ \A j \in I : Min(I) <= j
<1>1. \E x \in I : \A y \in I : x <= y
  <2>1. CASE 1 \in I
    BY <2>1
  <2>2. CASE 1 \notin I /\ 2 \in I
    BY <2>2
  <2>3. CASE I \cap 1..2 = {} /\ 3 \in I
    BY <2>3
  <2>4. CASE I \cap 1..3 = {} /\ 4 \in I
    BY <2>4
  <2>5. CASE I \cap 1..4 = {} /\ 5 \in I
    BY <2>5
  <2>6. CASE I \cap 1..5 = {} /\ 6 \in I
    BY <2>6
  <2>7. CASE I \cap 1..6 = {} /\ 7 \in I
    BY <2>7
  <2>8. CASE I \cap 1..7 = {} /\ 8 \in I
    BY <2>8
  <2>9. CASE I \cap 1..8 = {}
    <3>1. \A y \in I : y = 9
      BY <2>9
    <3>2. PICK x \in I : TRUE
      OBVIOUS
    <3>3. x <= 9 /\ x = 9
      BY <3>1
    <3> QED BY <3>1, <3>2, <3>3
  <2> QED BY <2>1, <2>2, <2>3, <2>4, <2>5, <2>6, <2>7, <2>8, <2>9
<1> QED BY <1>1, Zenon DEF Min

PieceType == {"Pawn", "Horse", "Elephant", "Rook", "Cannon", "General", "Advisor"}

\* try_from makes a piece of every letter.
LEMMA TryFrom ==
  ASSUME NEW t, IsPiece(t)
  PROVE  \E ty \in PieceType, co \in Color : try_from(t) = [type |-> ty, color |-> co]
<1>1. ASSUME NEW letters, Len(letters) = 7, DOMAIN letters = 1..7, t \in Range(letters)
      PROVE  SelectInSeq(letters, LAMBDA l : l = t) \in 1..7
  <2> DEFINE I == {i \in 1..7 : letters[i] = t}
  <2>1. I # {} /\ I \in SUBSET (1..9)
    BY <1>1 DEF Range
  <2>2. Min(I) \in I
    BY <2>1, FirstFound
  <2>3. SelectInSeq(letters, LAMBDA l : l = t) = Min(I)
    BY <1>1, <2>1 DEF SelectInSeq
  <2> QED BY <2>2, <2>3
<1>2. \A i \in 1..7 : Types[i] \in PieceType
  BY DEF Types, PieceType
<1>3. CASE t \in Range(Letters)
  <2>1. Len(Letters) = 7 /\ DOMAIN Letters = 1..7
    BY DEF Letters
  <2> QED BY <1>1, <1>2, <1>3, <2>1, Zenon DEF try_from, Color
<1>4. CASE t \notin Range(Letters)
  <2>1. Len(SmallLetters) = 7 /\ DOMAIN SmallLetters = 1..7
    BY DEF SmallLetters
  <2>2. t \in Range(SmallLetters)
    BY <1>4 DEF IsPiece
  <2>3. SelectInSeq(SmallLetters, LAMBDA l : l = t) \in 1..7
    BY <1>1, <2>1, <2>2, Zenon
  <2> QED BY <2>3, <1>2, <1>4, Zenon DEF try_from, Color
<1> QED BY <1>3, <1>4

\* A board as the engine builds it: coloured pieces, and a side to move.
WellFormed(b) ==
  /\ b = [points |-> b.points, turn |-> b.turn] /\ b.turn \in Color
  /\ \A p \in DOMAIN b.points :
       /\ b.points[p] = [type |-> b.points[p].type, color |-> b.points[p].color]
       /\ b.points[p].type \in PieceType /\ b.points[p].color \in Color

\* A position that from_str reads is well formed.
LEMMA FromStr ==
  ASSUME NEW fen, from_str(fen).ok
  PROVE  WellFormed(from_str(fen).board)
<1> DEFINE n == Len(fen.ranks)
           Error(i) == RankError(fen.ranks[i],
           IF i < n THEN "InvalidRowLength" ELSE "InvalidBoardLayout")
           bad == SelectInSeq([i \in 1..n |-> Error(i)], LAMBDA e : e # "")
           err == IF bad > 0 THEN Error(bad)
                  ELSE IF fen.side \notin {"w", "b"} THEN "InvalidSideToMove"
                  ELSE IF fen.fullmove = 0 THEN "FullmoveMustBePositive" ELSE ""
           pieces == {ij \in (1..n) \X (1..9) :
                   ij[2] \in DOMAIN fen.ranks[ij[1]] /\ IsPiece(fen.ranks[ij[1]][ij[2]])}
           Pos(ij) == <<10 - ij[1], Columns(fen.ranks[ij[1]], ij[2] - 1)>>
           Index(pos) == CHOOSE ij \in pieces : Pos(ij) = pos
           T(pos) == fen.ranks[Index(pos)[1]][Index(pos)[2]]
           S == {Pos(ij) : ij \in pieces}
           b == from_str(fen).board
<1>1. \E no, yes :
        /\ no = [ok |-> FALSE, err |-> err]
        /\ yes = [ok |-> TRUE, board |-> [empty EXCEPT !.points = [pos \in S |-> try_from(T(pos))]]]
        /\ from_str(fen) = IF err # "" THEN no ELSE yes
  BY Zenon DEF from_str
<1>2. ASSUME NEW p \in S PROVE IsPiece(T(p))
  <2>1. Index(p) \in pieces
    <3>1. \E ij \in pieces : Pos(ij) = p
      BY Zenon
    <3> QED BY <3>1, Zenon
  <2> QED BY <2>1, Zenon
<1> HIDE DEF n, Error, bad, err, pieces, Pos, Index, T, S
<1>3. b = [empty EXCEPT !.points = [pos \in S |-> try_from(T(pos))]]
  <2>1. PICK no, yes :
        /\ no = [ok |-> FALSE, err |-> err]
        /\ yes = [ok |-> TRUE, board |-> [empty EXCEPT !.points = [pos \in S |-> try_from(T(pos))]]]
        /\ from_str(fen) = IF err # "" THEN no ELSE yes
    BY <1>1, Zenon
  <2>2. ~no.ok
    BY <2>1, Zenon
  <2>3. from_str(fen) = yes
    BY <2>1, <2>2, Zenon
  <2>4. yes.board = [empty EXCEPT !.points = [pos \in S |-> try_from(T(pos))]]
    BY <2>1, Zenon
  <2> QED BY <2>3, <2>4
<1>4. b = [points |-> [pos \in S |-> try_from(T(pos))], turn |-> "Red"]
  BY <1>3 DEF empty
<1> HIDE DEF b
<1>5. b = [points |-> b.points, turn |-> b.turn] /\ b.turn \in Color
      /\ b.points = [pos \in S |-> try_from(T(pos))]
  BY <1>4 DEF Color
<1>6. ASSUME NEW p \in DOMAIN b.points
      PROVE  /\ b.points[p] = [type |-> b.points[p].type, color |-> b.points[p].color]
             /\ b.points[p].type \in PieceType /\ b.points[p].color \in Color
  <2>1. p \in S /\ b.points[p] = try_from(T(p))
    BY <1>5
  <2>2. \E ty \in PieceType, co \in Color : b.points[p] = [type |-> ty, color |-> co]
    BY <2>1, <1>2, TryFrom
  <2> QED BY <2>2
<1> QED BY <1>5, <1>6 DEF WellFormed, b

------------------------------------------------------------------------------
(* Whether a piece may move, and whether a side is in check, does not depend *)
(* on whose turn it is.                                                      *)

\* Whether a piece may move does not depend on whose turn it is.
LEMMA PieceMoveTurn ==
  ASSUME NEW pts, NEW t1, NEW t2, NEW p, pts[p].type \in PieceType, NEW q
  PROVE  PieceMove([points |-> pts, turn |-> t1], p, q) <=> PieceMove([points |-> pts, turn |-> t2], p, q)
<1> DEFINE b1 == [points |-> pts, turn |-> t1]
           b2 == [points |-> pts, turn |-> t2]
<1>0. b1.points = pts /\ b2.points = pts
  OBVIOUS
<1>1. ASSUME NEW s PROVE has_piece(b1, s) <=> has_piece(b2, s)
  BY DEF has_piece
<1>2. ASSUME NEW s, NEW c
      PROVE  /\ has_ally_piece(b1, s, c) <=> has_ally_piece(b2, s, c)
             /\ has_enemy_piece(b1, s, c) <=> has_enemy_piece(b2, s, c)
  BY DEF has_ally_piece, has_enemy_piece, has_piece
<1>3. ASSUME NEW way PROVE OnTheWay(b1, way) = OnTheWay(b2, way)
  BY DEF OnTheWay, has_piece
<1>4. ASSUME NEW c PROVE SeesGeneral(b1, q, c) <=> SeesGeneral(b2, q, c)
  BY DEF SeesGeneral, has_piece, SelectInSeq
<1> HIDE DEF b1, b2
<1> DEFINE c == pts[p].color
<1>5. GeneralMove(b1, p, q, c) <=> GeneralMove(b2, p, q, c)
  BY <1>4 DEF GeneralMove
<1>6. PawnMove(b1, p, q, c) <=> PawnMove(b2, p, q, c)
  BY DEF PawnMove
<1>7. CannonMove(b1, p, q, c) <=> CannonMove(b2, p, q, c)
  BY <1>2, <1>3 DEF CannonMove
<1>8. RookMove(b1, p, q, c) <=> RookMove(b2, p, q, c)
  BY <1>3 DEF RookMove
<1>9. HorseMove(b1, p, q, c) <=> HorseMove(b2, p, q, c)
  BY <1>1 DEF HorseMove
<1>10. AdvisorMove(b1, p, q, c) <=> AdvisorMove(b2, p, q, c)
  BY DEF AdvisorMove
<1>11. ElephantMove(b1, p, q, c) <=> ElephantMove(b2, p, q, c)
  BY <1>3 DEF ElephantMove
<1> HIDE DEF c
<1>12. PieceMove(b1, p, q) <=> PieceMove(b2, p, q)
  <2> DEFINE M(b) == CASE pts[p].type = "General" -> GeneralMove(b, p, q, c)
                       [] pts[p].type = "Pawn" -> PawnMove(b, p, q, c)
                       [] pts[p].type = "Cannon" -> CannonMove(b, p, q, c)
                       [] pts[p].type = "Rook" -> RookMove(b, p, q, c)
                       [] pts[p].type = "Horse" -> HorseMove(b, p, q, c)
                       [] pts[p].type = "Advisor" -> AdvisorMove(b, p, q, c)
                       [] pts[p].type = "Elephant" -> ElephantMove(b, p, q, c)
  <2>1. ASSUME NEW b, b.points = pts
        PROVE  PieceMove(b, p, q) <=> q \in Squares /\ ~has_ally_piece(b, q, c) /\ M(b)
    BY <2>1 DEF PieceMove, c
  <2>2. M(b1) <=> M(b2)
    BY <1>5, <1>6, <1>7, <1>8, <1>9, <1>10, <1>11 DEF PieceType
  <2> HIDE DEF M
  <2> QED BY <1>0, <1>2, <2>1, <2>2
<1> QED BY <1>12 DEF b1, b2

\* Neither does whether a side is in check.
LEMMA CheckTurn ==
  ASSUME NEW pts, NEW t1, NEW t2, NEW c, \A p \in DOMAIN pts : pts[p].type \in PieceType
  PROVE  is_in_check([points |-> pts, turn |-> t1], c) <=> is_in_check([points |-> pts, turn |-> t2], c)
<1> DEFINE b1 == [points |-> pts, turn |-> t1]
           b2 == [points |-> pts, turn |-> t2]
<1>1. get_general_pos(b1, c) = get_general_pos(b2, c)
  BY DEF get_general_pos, GeneralAt, has_piece, SelectInSeq
<1>2. ASSUME NEW s PROVE is_threatened(b1, s, c) <=> is_threatened(b2, s, c)
  BY PieceMoveTurn DEF is_threatened
<1> HIDE DEF b1, b2
<1>3. is_in_check(b1, c) <=> is_in_check(b2, c)
  BY <1>1, <1>2 DEF is_in_check
<1> QED BY <1>3 DEF b1, b2

\* A move that stands keeps one General of each side in its palace, and leaves the
\* mover's out of check.
LEMMA MoveKeeps ==
  ASSUME NEW b, WellFormed(b), Playable(b), NEW from, NEW to, is_legal_move(b, from, to, b.turn),
         LET n == change_turn(move_piece(b, from, to)) IN GeneralAt(n, n.turn) # 0
  PROVE  LET n == change_turn(move_piece(b, from, to))
         IN WellFormed(n) /\ Playable(n) /\ ~is_in_check(n, Not(n.turn))
<1> DEFINE pts == [q \in (DOMAIN b.points \cup {to}) \ {from} |->
                     IF q = to THEN b.points[from] ELSE b.points[q]]
           c == b.turn
           d == Not(c)
           n == [points |-> pts, turn |-> d]
<1>1. /\ from \in DOMAIN b.points /\ from \in Squares /\ to \in Squares /\ PieceMove(b, from, to)
      /\ b.points[from].color = c /\ ~is_in_check(move_piece(b, from, to), c)
      /\ ~has_ally_piece(b, to, c)
  BY Zenon DEF is_legal_move, has_piece, PieceMove, Playable
<1>2. from # to
  BY <1>1 DEF has_ally_piece, has_piece
<1>3. move_piece(b, from, to) = [points |-> pts, turn |-> c]
  <2>1. b = [points |-> b.points, turn |-> c]
    BY DEF WellFormed
  <2> QED BY <1>1, <2>1 DEF move_piece
<1>4. change_turn(move_piece(b, from, to)) = n
  BY <1>3 DEF change_turn
<1>5. c \in Color /\ d \in Color /\ c # d /\ Not(d) = c /\ Color = {c, d}
  BY DEF WellFormed, Color, Not
<1>6. DOMAIN pts = (DOMAIN b.points \cup {to}) \ {from} /\ pts[to] = b.points[from]
      /\ \A q \in DOMAIN pts : q # to => q \in DOMAIN b.points /\ pts[q] = b.points[q]
  BY <1>2
<1>7. n.points = pts /\ n.turn = d
  OBVIOUS
<1> HIDE DEF pts, c, d
<1>9. WellFormed(n)
  <2>1. ASSUME NEW p \in DOMAIN pts
        PROVE  /\ pts[p] = [type |-> pts[p].type, color |-> pts[p].color]
               /\ pts[p].type \in PieceType /\ pts[p].color \in Color
    <3>1. \E q \in DOMAIN b.points : pts[p] = b.points[q]
      BY <1>1, <1>6
    <3> QED BY <3>1 DEF WellFormed
  <2> QED BY <2>1, <1>5, <1>7 DEF WellFormed
<1>8. ~is_in_check(n, Not(n.turn))
  <2>1. \A p \in DOMAIN pts : pts[p].type \in PieceType
    BY <1>9, <1>7 DEF WellFormed
  <2>2. ~is_in_check([points |-> pts, turn |-> c], c)
    BY <1>1, <1>3
  <2>3. ~is_in_check([points |-> pts, turn |-> d], c)
    BY <2>1, <2>2, CheckTurn, Zenon
  <2> QED BY <2>3, <1>5, <1>7
<1>10. DOMAIN n.points \subseteq Squares
  BY <1>1, <1>6, <1>7, Zenon DEF Playable
<1> DEFINE G(co) == [type |-> "General", color |-> co]
<1>11. \E p \in Squares : Generals(n, c) = {p} /\ is_in_palace(p, c)
  <2>1. PICK g \in Squares : Generals(b, c) = {g} /\ is_in_palace(g, c)
    BY <1>5 DEF Playable
  <2>2. g \in DOMAIN b.points /\ b.points[g] = G(c) /\ \A q \in DOMAIN b.points : b.points[q] = G(c) => q = g
    BY <2>1 DEF Generals
  <2>3. CASE from = g
    <3>1. b.points[from].type = "General" /\ b.points[from].color = c
      BY <2>2, <2>3
    <3>2. GeneralMove(b, from, to, c)
      BY <3>1, <1>1 DEF PieceMove
    <3>3. is_in_palace(to, c)
      BY <3>2 DEF GeneralMove
    <3>4. Generals(n, c) = {to}
      <4>1. to \in DOMAIN pts /\ pts[to] = G(c)
        BY <1>2, <1>6, <2>2, <2>3
      <4>2. \A q \in DOMAIN pts : pts[q] = G(c) => q = to
        BY <1>6, <2>2, <2>3
      <4> QED BY <4>1, <4>2, <1>7 DEF Generals
    <3> QED BY <3>3, <3>4, <1>1
  <2>4. CASE from # g
    <3>1. to # g
      BY <1>1, <2>2 DEF has_ally_piece, has_piece
    <3>2. b.points[from] # G(c)
      BY <1>1, <2>2, <2>4, Zenon
    <3>3. g \in DOMAIN pts /\ pts[g] = G(c)
      BY <1>6, <2>2, <2>4, <3>1
    <3>4. \A q \in DOMAIN pts : pts[q] = G(c) => q = g
      BY <1>6, <2>2, <3>2
    <3>5. Generals(n, c) = {g}
      BY <3>3, <3>4, <1>7 DEF Generals
    <3> QED BY <3>5, <2>1
  <2> QED BY <2>3, <2>4
<1>12. \E p \in Squares : Generals(n, d) = {p} /\ is_in_palace(p, d)
  <2>1. PICK g \in Squares : Generals(b, d) = {g} /\ is_in_palace(g, d)
    BY <1>5 DEF Playable
  <2>2. g \in DOMAIN b.points /\ b.points[g] = G(d) /\ \A q \in DOMAIN b.points : b.points[q] = G(d) => q = g
    BY <2>1 DEF Generals
  <2>3. g # from /\ b.points[from] # G(d)
    BY <1>1, <1>5, <2>2
  <2>4. to # g
    <3> SUFFICES ASSUME to = g PROVE FALSE
      OBVIOUS
    <3>1. \A q \in DOMAIN pts : pts[q] # G(d)
      BY <1>6, <2>2, <2>3, Zenon
    <3>2. GeneralAt(n, d) # 0
      BY <1>4, <1>7
    <3>3. PICK i \in 1..9 : /\ PALACE(d)[i] \in DOMAIN pts
                            /\ pts[PALACE(d)[i]].type = "General"
      <4>1. Len(PALACE(d)) = 9 /\ DOMAIN PALACE(d) = 1..9
        BY DEF PALACE
      <4> QED BY <3>2, <4>1, <1>7, Zenon DEF GeneralAt, SelectInSeq, has_piece
    <3> DEFINE x == PALACE(d)[i]
    <3>4. is_in_palace(x, d)
      BY DEF PALACE, is_in_palace
    <3> HIDE DEF x
    <3>5. x \in DOMAIN pts /\ pts[x] = [type |-> "General", color |-> pts[x].color] /\ pts[x].color \in {c, d}
      BY <3>3, <1>5, <1>7, <1>9 DEF x, WellFormed
    <3>6. pts[x] = G(c)
      BY <3>1, <3>5
    <3>7. x \in Generals(n, c)
      BY <3>5, <3>6, <1>7 DEF Generals
    <3>8. is_in_palace(x, c)
      BY <3>7, <1>11
    <3> QED BY <3>4, <3>8, <3>5, <1>10, <1>7, <1>5 DEF is_in_palace, Color, Squares
  <2>5. g \in DOMAIN pts /\ pts[g] = G(d)
    BY <1>6, <2>2, <2>3, <2>4, Zenon
  <2>6. \A q \in DOMAIN pts : pts[q] = G(d) => q = g
    BY <1>6, <2>2, <2>3
  <2>7. Generals(n, d) = {g}
    BY <2>5, <2>6, <1>7 DEF Generals
  <2> QED BY <2>7, <2>1
<1>13. Playable(n)
  BY <1>5, <1>10, <1>11, <1>12 DEF Playable
<1> QED BY <1>4, <1>8, <1>9, <1>13

-----------------------------------------------------------------------------
(* The moves of the pieces against the rules of the game.                    *)

\* The walk in each of the four directions.
LEMMA WalkUp ==
  ASSUME NEW a \in Int, NEW c \in Int, NEW k \in Int, a < c
  PROVE  orthogonals_to(<<a, k>>, <<c, k>>) = [i \in 1..(c - a) |-> <<a + i, k>>]
<1>1. Sign(c - a) = 1 /\ Abs(a - c) = c - a /\ a # c
  BY DEF Sign, Abs
<1>2. orthogonal_distance(<<a, k>>, <<c, k>>) = c - a /\ is_orthogonal_to(<<a, k>>, <<c, k>>)
  BY <1>1 DEF orthogonal_distance, is_orthogonal_to
<1> QED BY <1>1, <1>2 DEF orthogonals_to, Walk, Step

\* Down the column.
LEMMA WalkDown ==
  ASSUME NEW a \in Int, NEW c \in Int, NEW k \in Int, a > c
  PROVE  orthogonals_to(<<a, k>>, <<c, k>>) = [i \in 1..(a - c) |-> <<a - i, k>>]
<1>1. Sign(c - a) = -1 /\ Abs(a - c) = a - c /\ a # c
  BY DEF Sign, Abs
<1>2. orthogonal_distance(<<a, k>>, <<c, k>>) = a - c /\ is_orthogonal_to(<<a, k>>, <<c, k>>)
  BY <1>1 DEF orthogonal_distance, is_orthogonal_to
<1> QED BY <1>1, <1>2 DEF orthogonals_to, Walk, Step

\* Along the row, to the right.
LEMMA WalkRight ==
  ASSUME NEW a \in Int, NEW k \in Int, NEW l \in Int, k < l
  PROVE  orthogonals_to(<<a, k>>, <<a, l>>) = [i \in 1..(l - k) |-> <<a, k + i>>]
<1>1. Sign(a - a) = 0 /\ Sign(l - k) = 1 /\ Abs(k - l) = l - k
  BY DEF Sign, Abs
<1>2. orthogonal_distance(<<a, k>>, <<a, l>>) = l - k /\ is_orthogonal_to(<<a, k>>, <<a, l>>)
  BY <1>1 DEF orthogonal_distance, is_orthogonal_to
<1> QED BY <1>1, <1>2 DEF orthogonals_to, Walk, Step

\* Along the row, to the left.
LEMMA WalkLeft ==
  ASSUME NEW a \in Int, NEW k \in Int, NEW l \in Int, k > l
  PROVE  orthogonals_to(<<a, k>>, <<a, l>>) = [i \in 1..(k - l) |-> <<a, k - i>>]
<1>1. Sign(a - a) = 0 /\ Sign(l - k) = -1 /\ Abs(k - l) = k - l
  BY DEF Sign, Abs
<1>2. orthogonal_distance(<<a, k>>, <<a, l>>) = k - l /\ is_orthogonal_to(<<a, k>>, <<a, l>>)
  BY <1>1 DEF orthogonal_distance, is_orthogonal_to
<1> QED BY <1>1, <1>2 DEF orthogonals_to, Walk, Step

\* A walk of n steps along a row or a column, ending on q, that visits the squares
\* between p and q on its way.
Walked(w, n, p, q) ==
  /\ n \in Nat /\ n >= 1 /\ w \in [1..n -> Squares] /\ Len(w) = n /\ w[n] = q
  /\ \A i, j \in 1..n : w[i] = w[j] => i = j
  /\ Between(p, q) = {w[i] : i \in 1..(n - 1)}

\* A walk up the column visits the squares between its ends, in order.
LEMMA WalkedUp ==
  ASSUME NEW a \in 0..9, NEW c \in 0..9, NEW k \in 0..8, a < c
  PROVE  Walked(orthogonals_to(<<a, k>>, <<c, k>>), c - a, <<a, k>>, <<c, k>>)
<1> DEFINE n == c - a
           f == [i \in 1..n |-> <<a + i, k>>]
<1>1. orthogonals_to(<<a, k>>, <<c, k>>) = f
  <2>1. a \in Int /\ k \in Int /\ c \in Int
    OBVIOUS
  <2> QED BY <2>1, WalkUp, Zenon
<1>2. n \in Nat /\ n >= 1
  OBVIOUS
<1>3. ASSUME NEW i \in 1..n
      PROVE  a + i \in 0..9 /\ k \in 0..8
  OBVIOUS
<1>4. ASSUME NEW i \in 1..n PROVE f[i] = <<a + i, k>> /\ f[i] \in Squares
  BY <1>3 DEF Squares
<1>5. f[n] = <<c, k>> /\ Len(f) = n /\ f \in [1..n -> Squares]
  <2>1. n \in 1..n
    BY <1>2
  <2>2. f[n] = <<a + n, k>>
    BY <1>4, <2>1
  <2>3. <<a + n, k>> = <<c, k>>
    OBVIOUS
  <2> QED BY <1>2, <1>4, <2>2, <2>3
<1>6. ASSUME NEW i \in 1..n, NEW j \in 1..n, f[i] = f[j] PROVE i = j
  <2>1. <<a + i, k>> = <<a + j, k>>
    BY <1>4, <1>6
  <2> QED BY <2>1
<1> HIDE DEF f
<1>7. ASSUME NEW s \in Squares
      PROVE  s \in Between(<<a, k>>, <<c, k>>) <=> s[2] = k /\ a < s[1] /\ s[1] < c
  BY DEF Between, Squares
<1>8. ASSUME NEW i \in 1..(n - 1) PROVE f[i] \in Between(<<a, k>>, <<c, k>>)
  <2>1. i \in 1..n
    BY <1>2
  <2>2. f[i] \in Squares /\ f[i][1] = a + i /\ f[i][2] = k
    BY <1>4, <2>1
  <2> QED BY <1>7, <2>2
<1>9. ASSUME NEW s \in Between(<<a, k>>, <<c, k>>) PROVE \E i \in 1..(n - 1) : s = f[i]
  <2>1. s \in Squares
    BY DEF Between
  <2>2. s[2] = k /\ a < s[1] /\ s[1] < c
    BY <2>1, <1>7
  <2>3. s[1] \in 0..9 /\ s[2] \in 0..8 /\ s = <<s[1], s[2]>>
    BY <2>1 DEF Squares
  <2>4. s[1] - a \in 1..n /\ s[1] - a \in 1..(n - 1)
    BY <2>2, <2>3
  <2>5. f[s[1] - a] = <<a + (s[1] - a), k>>
    BY <1>4, <2>4
  <2>6. <<a + (s[1] - a), k>> = <<s[1], s[2]>>
    BY <2>2, <2>3
  <2> QED BY <2>3, <2>4, <2>5, <2>6
<1>10. Between(<<a, k>>, <<c, k>>) = {f[i] : i \in 1..(n - 1)}
  BY <1>8, <1>9
<1> HIDE DEF n
<1>11. Walked(f, n, <<a, k>>, <<c, k>>)
  BY <1>2, <1>5, <1>6, <1>10, Zenon DEF Walked
<1> QED BY <1>1, <1>11 DEF n

\* A walk down the column does.
LEMMA WalkedDown ==
  ASSUME NEW a \in 0..9, NEW c \in 0..9, NEW k \in 0..8, a > c
  PROVE  Walked(orthogonals_to(<<a, k>>, <<c, k>>), a - c, <<a, k>>, <<c, k>>)
<1> DEFINE n == a - c
           f == [i \in 1..n |-> <<a - i, k>>]
<1>1. orthogonals_to(<<a, k>>, <<c, k>>) = f
  <2>1. a \in Int /\ k \in Int /\ c \in Int
    OBVIOUS
  <2> QED BY <2>1, WalkDown, Zenon
<1>2. n \in Nat /\ n >= 1
  OBVIOUS
<1>3. ASSUME NEW i \in 1..n
      PROVE  a - i \in 0..9 /\ k \in 0..8
  OBVIOUS
<1>4. ASSUME NEW i \in 1..n PROVE f[i] = <<a - i, k>> /\ f[i] \in Squares
  BY <1>3 DEF Squares
<1>5. f[n] = <<c, k>> /\ Len(f) = n /\ f \in [1..n -> Squares]
  <2>1. n \in 1..n
    BY <1>2
  <2>2. f[n] = <<a - n, k>>
    BY <1>4, <2>1
  <2>3. <<a - n, k>> = <<c, k>>
    OBVIOUS
  <2> QED BY <1>2, <1>4, <2>2, <2>3
<1>6. ASSUME NEW i \in 1..n, NEW j \in 1..n, f[i] = f[j] PROVE i = j
  <2>1. <<a - i, k>> = <<a - j, k>>
    BY <1>4, <1>6
  <2> QED BY <2>1
<1> HIDE DEF f
<1>7. ASSUME NEW s \in Squares
      PROVE  s \in Between(<<a, k>>, <<c, k>>) <=> s[2] = k /\ c < s[1] /\ s[1] < a
  BY DEF Between, Squares
<1>8. ASSUME NEW i \in 1..(n - 1) PROVE f[i] \in Between(<<a, k>>, <<c, k>>)
  <2>1. i \in 1..n
    BY <1>2
  <2>2. f[i] \in Squares /\ f[i][1] = a - i /\ f[i][2] = k
    BY <1>4, <2>1
  <2> QED BY <1>7, <2>2
<1>9. ASSUME NEW s \in Between(<<a, k>>, <<c, k>>) PROVE \E i \in 1..(n - 1) : s = f[i]
  <2>1. s \in Squares
    BY DEF Between
  <2>2. s[2] = k /\ c < s[1] /\ s[1] < a
    BY <2>1, <1>7
  <2>3. s[1] \in 0..9 /\ s[2] \in 0..8 /\ s = <<s[1], s[2]>>
    BY <2>1 DEF Squares
  <2>4. a - s[1] \in 1..n /\ a - s[1] \in 1..(n - 1)
    BY <2>2, <2>3
  <2>5. f[a - s[1]] = <<a - (a - s[1]), k>>
    BY <1>4, <2>4
  <2>6. <<a - (a - s[1]), k>> = <<s[1], s[2]>>
    BY <2>2, <2>3
  <2> QED BY <2>3, <2>4, <2>5, <2>6
<1>10. Between(<<a, k>>, <<c, k>>) = {f[i] : i \in 1..(n - 1)}
  BY <1>8, <1>9
<1> HIDE DEF n
<1>11. Walked(f, n, <<a, k>>, <<c, k>>)
  BY <1>2, <1>5, <1>6, <1>10, Zenon DEF Walked
<1> QED BY <1>1, <1>11 DEF n

\* A walk to the right does.
LEMMA WalkedRight ==
  ASSUME NEW a \in 0..9, NEW k \in 0..8, NEW l \in 0..8, k < l
  PROVE  Walked(orthogonals_to(<<a, k>>, <<a, l>>), l - k, <<a, k>>, <<a, l>>)
<1> DEFINE n == l - k
           f == [i \in 1..n |-> <<a, k + i>>]
<1>1. orthogonals_to(<<a, k>>, <<a, l>>) = f
  <2>1. a \in Int /\ k \in Int /\ l \in Int
    OBVIOUS
  <2> QED BY <2>1, WalkRight, Zenon
<1>2. n \in Nat /\ n >= 1
  OBVIOUS
<1>3. ASSUME NEW i \in 1..n
      PROVE  a \in 0..9 /\ k + i \in 0..8
  OBVIOUS
<1>4. ASSUME NEW i \in 1..n PROVE f[i] = <<a, k + i>> /\ f[i] \in Squares
  BY <1>3 DEF Squares
<1>5. f[n] = <<a, l>> /\ Len(f) = n /\ f \in [1..n -> Squares]
  <2>1. n \in 1..n
    BY <1>2
  <2>2. f[n] = <<a, k + n>>
    BY <1>4, <2>1
  <2>3. <<a, k + n>> = <<a, l>>
    OBVIOUS
  <2> QED BY <1>2, <1>4, <2>2, <2>3
<1>6. ASSUME NEW i \in 1..n, NEW j \in 1..n, f[i] = f[j] PROVE i = j
  <2>1. <<a, k + i>> = <<a, k + j>>
    BY <1>4, <1>6
  <2> QED BY <2>1
<1> HIDE DEF f
<1>7. ASSUME NEW s \in Squares
      PROVE  s \in Between(<<a, k>>, <<a, l>>) <=> s[1] = a /\ k < s[2] /\ s[2] < l
  BY DEF Between, Squares
<1>8. ASSUME NEW i \in 1..(n - 1) PROVE f[i] \in Between(<<a, k>>, <<a, l>>)
  <2>1. i \in 1..n
    BY <1>2
  <2>2. f[i] \in Squares /\ f[i][1] = a /\ f[i][2] = k + i
    BY <1>4, <2>1
  <2> QED BY <1>7, <2>2
<1>9. ASSUME NEW s \in Between(<<a, k>>, <<a, l>>) PROVE \E i \in 1..(n - 1) : s = f[i]
  <2>1. s \in Squares
    BY DEF Between
  <2>2. s[1] = a /\ k < s[2] /\ s[2] < l
    BY <2>1, <1>7
  <2>3. s[1] \in 0..9 /\ s[2] \in 0..8 /\ s = <<s[1], s[2]>>
    BY <2>1 DEF Squares
  <2>4. s[2] - k \in 1..n /\ s[2] - k \in 1..(n - 1)
    BY <2>2, <2>3
  <2>5. f[s[2] - k] = <<a, k + (s[2] - k)>>
    BY <1>4, <2>4
  <2>6. <<a, k + (s[2] - k)>> = <<s[1], s[2]>>
    BY <2>2, <2>3
  <2> QED BY <2>3, <2>4, <2>5, <2>6
<1>10. Between(<<a, k>>, <<a, l>>) = {f[i] : i \in 1..(n - 1)}
  BY <1>8, <1>9
<1> HIDE DEF n
<1>11. Walked(f, n, <<a, k>>, <<a, l>>)
  BY <1>2, <1>5, <1>6, <1>10, Zenon DEF Walked
<1> QED BY <1>1, <1>11 DEF n

\* A walk to the left does.
LEMMA WalkedLeft ==
  ASSUME NEW a \in 0..9, NEW k \in 0..8, NEW l \in 0..8, k > l
  PROVE  Walked(orthogonals_to(<<a, k>>, <<a, l>>), k - l, <<a, k>>, <<a, l>>)
<1> DEFINE n == k - l
           f == [i \in 1..n |-> <<a, k - i>>]
<1>1. orthogonals_to(<<a, k>>, <<a, l>>) = f
  <2>1. a \in Int /\ k \in Int /\ l \in Int
    OBVIOUS
  <2> QED BY <2>1, WalkLeft, Zenon
<1>2. n \in Nat /\ n >= 1
  OBVIOUS
<1>3. ASSUME NEW i \in 1..n
      PROVE  a \in 0..9 /\ k - i \in 0..8
  OBVIOUS
<1>4. ASSUME NEW i \in 1..n PROVE f[i] = <<a, k - i>> /\ f[i] \in Squares
  BY <1>3 DEF Squares
<1>5. f[n] = <<a, l>> /\ Len(f) = n /\ f \in [1..n -> Squares]
  <2>1. n \in 1..n
    BY <1>2
  <2>2. f[n] = <<a, k - n>>
    BY <1>4, <2>1
  <2>3. <<a, k - n>> = <<a, l>>
    OBVIOUS
  <2> QED BY <1>2, <1>4, <2>2, <2>3
<1>6. ASSUME NEW i \in 1..n, NEW j \in 1..n, f[i] = f[j] PROVE i = j
  <2>1. <<a, k - i>> = <<a, k - j>>
    BY <1>4, <1>6
  <2> QED BY <2>1
<1> HIDE DEF f
<1>7. ASSUME NEW s \in Squares
      PROVE  s \in Between(<<a, k>>, <<a, l>>) <=> s[1] = a /\ l < s[2] /\ s[2] < k
  BY DEF Between, Squares
<1>8. ASSUME NEW i \in 1..(n - 1) PROVE f[i] \in Between(<<a, k>>, <<a, l>>)
  <2>1. i \in 1..n
    BY <1>2
  <2>2. f[i] \in Squares /\ f[i][1] = a /\ f[i][2] = k - i
    BY <1>4, <2>1
  <2> QED BY <1>7, <2>2
<1>9. ASSUME NEW s \in Between(<<a, k>>, <<a, l>>) PROVE \E i \in 1..(n - 1) : s = f[i]
  <2>1. s \in Squares
    BY DEF Between
  <2>2. s[1] = a /\ l < s[2] /\ s[2] < k
    BY <2>1, <1>7
  <2>3. s[1] \in 0..9 /\ s[2] \in 0..8 /\ s = <<s[1], s[2]>>
    BY <2>1 DEF Squares
  <2>4. k - s[2] \in 1..n /\ k - s[2] \in 1..(n - 1)
    BY <2>2, <2>3
  <2>5. f[k - s[2]] = <<a, k - (k - s[2])>>
    BY <1>4, <2>4
  <2>6. <<a, k - (k - s[2])>> = <<s[1], s[2]>>
    BY <2>2, <2>3
  <2> QED BY <2>3, <2>4, <2>5, <2>6
<1>10. Between(<<a, k>>, <<a, l>>) = {f[i] : i \in 1..(n - 1)}
  BY <1>8, <1>9
<1> HIDE DEF n
<1>11. Walked(f, n, <<a, k>>, <<a, l>>)
  BY <1>2, <1>5, <1>6, <1>10 DEF Walked
<1> QED BY <1>1, <1>11 DEF n

\* On every line of the board orthogonals_to visits the squares between its ends.
LEMMA WalkFacts ==
  ASSUME NEW a \in 0..9, NEW k \in 0..8, NEW c \in 0..9, NEW l \in 0..8,
         <<a, k>> # <<c, l>>, is_orthogonal_to(<<a, k>>, <<c, l>>)
  PROVE  \E n : Walked(orthogonals_to(<<a, k>>, <<c, l>>), n, <<a, k>>, <<c, l>>)
<1>1. a = c \/ k = l
  BY DEF is_orthogonal_to
<1>2. a # c \/ k # l
  OBVIOUS
<1>3. CASE k = l /\ a < c
  <2>1. Walked(orthogonals_to(<<a, k>>, <<c, k>>), c - a, <<a, k>>, <<c, k>>)
    BY <1>3, WalkedUp, Zenon
  <2> QED BY <1>3, <2>1, Zenon
<1>4. CASE k = l /\ a > c
  <2>1. Walked(orthogonals_to(<<a, k>>, <<c, k>>), a - c, <<a, k>>, <<c, k>>)
    BY <1>4, WalkedDown, Zenon
  <2> QED BY <1>4, <2>1, Zenon
<1>5. CASE a = c /\ k < l
  <2>1. Walked(orthogonals_to(<<a, k>>, <<a, l>>), l - k, <<a, k>>, <<a, l>>)
    BY <1>5, WalkedRight, Zenon
  <2> QED BY <1>5, <2>1, Zenon
<1>6. CASE a = c /\ k > l
  <2>1. Walked(orthogonals_to(<<a, k>>, <<a, l>>), k - l, <<a, k>>, <<a, l>>)
    BY <1>6, WalkedLeft, Zenon
  <2> QED BY <1>6, <2>1, Zenon
<1> QED BY <1>1, <1>2, <1>3, <1>4, <1>5, <1>6

\* The engine counts on its walk the pieces that stand between the squares.
LEMMA Passing ==
  ASSUME NEW w, NEW n, NEW p, NEW q, Walked(w, n, p, q), NEW b
  PROVE  /\ IsFiniteSet(OnTheWay(b, w))
         /\ Cardinality(OnTheWay(b, w)) = Cardinality(Between(p, q) \cap DOMAIN b.points)
<1> DEFINE S == OnTheWay(b, w)
           T == Between(p, q) \cap DOMAIN b.points
           f == [i \in S |-> w[i]]
<1>1. S = {i \in 1..(n - 1) : w[i] \in DOMAIN b.points} /\ n \in Nat /\ S \in SUBSET (1..(n - 1))
  BY DEF OnTheWay, has_piece, Walked
<1>2. IsFiniteSet(S)
  <2>1. IsFiniteSet(1..(n - 1))
    BY <1>1, FS_Interval
  <2> QED BY <1>1, <2>1, FS_Subset
<1>3. T = {w[i] : i \in S}
  BY <1>1 DEF Walked
<1> HIDE DEF S, T
<1>4. f \in [S -> T] /\ \A t \in T : \E i \in S : f[i] = t
  BY <1>3
<1>5. \A i, j \in S : f[i] = f[j] => i = j
  BY <1>1 DEF Walked
<1> HIDE DEF f
<1>6. f \in Bijection(S, T)
  BY <1>4, <1>5 DEF Bijection, Injection, Surjection, IsInjective
<1>7. ExistsBijection(S, T)
  BY <1>6 DEF ExistsBijection
<1> QED BY <1>2, <1>7, FS_Bijection DEF S, T

------------------------------------------------------------------------------
(* The pieces, one by one: from <<a, k>> to <<c, l>>.                       *)

Palace(co) == (IF co = "Red" THEN 0..2 ELSE 7..9) \X (3..5)

\* is_in_palace is the palace of the rules.
LEMMA InPalace ==
  ASSUME NEW c \in 0..9, NEW l \in 0..8, NEW co \in Color
  PROVE  is_in_palace(<<c, l>>, co) <=> <<c, l>> \in Palace(co)
<1>1. CASE co = "Red"
  <2>1. Palace(co) = (0..2) \X (3..5)
    BY <1>1 DEF Palace
  <2>2. is_in_palace(<<c, l>>, co) <=> l \in 3..5 /\ c <= 2
    BY <1>1 DEF is_in_palace
  <2> QED BY <2>1, <2>2
<1>2. CASE co = "Black"
  <2>1. Palace(co) = (7..9) \X (3..5)
    BY <1>2 DEF Palace
  <2>2. is_in_palace(<<c, l>>, co) <=> l \in 3..5 /\ c \in 7..9
    BY <1>2 DEF is_in_palace
  <2> QED BY <2>1, <2>2
<1> QED BY <1>1, <1>2 DEF Color

PawnStep(a, k, c, l, co) ==
  \/ c - a = (IF co = "Red" THEN 1 ELSE -1) /\ l - k = 0
  \/ c - a = 0 /\ l - k \in {-1, 1} /\ a \in (IF co = "Red" THEN 5..9 ELSE 0..4)

\* A Pawn goes ahead, and sideways once it is over the river; its candidates are neighbours.
LEMMA PawnRule ==
  ASSUME NEW b, NEW a \in 0..9, NEW k \in 0..8, NEW c \in 0..9, NEW l \in 0..8, NEW co \in Color
  PROVE  /\ PawnMove(b, <<a, k>>, <<c, l>>, co) <=> PawnStep(a, k, c, l, co)
         /\ PawnMove(b, <<a, k>>, <<c, l>>, co) => <<c, l>> \in Neighbours(<<a, k>>)
<1>1. /\ next_above(<<a, k>>) = <<a + 1, k>> /\ next_below(<<a, k>>) = <<a - 1, k>>
      /\ next_right(<<a, k>>) = <<a, k + 1>> /\ next_left(<<a, k>>) = <<a, k - 1>>
  BY DEF next_above, next_below, next_right, next_left, Step
<1>2. CASE co = "Red"
  <2>1. PawnMove(b, <<a, k>>, <<c, l>>, co) <=>
          <<c, l>> = <<a + 1, k>> \/ (a >= 5 /\ <<c, l>> \in {<<a, k + 1>>, <<a, k - 1>>})
    BY <1>1, <1>2 DEF PawnMove, pawn_up, is_past_river
  <2>2. (IF co = "Red" THEN 1 ELSE -1) = 1 /\ (IF co = "Red" THEN 5..9 ELSE 0..4) = 5..9
    BY <1>2
  <2> QED BY <1>1, <2>1, <2>2 DEF Neighbours, PawnStep
<1>3. CASE co = "Black"
  <2>1. PawnMove(b, <<a, k>>, <<c, l>>, co) <=>
          <<c, l>> = <<a - 1, k>> \/ (a <= 4 /\ <<c, l>> \in {<<a, k + 1>>, <<a, k - 1>>})
    BY <1>1, <1>3 DEF PawnMove, pawn_up, is_past_river
  <2>2. (IF co = "Red" THEN 1 ELSE -1) = -1 /\ (IF co = "Red" THEN 5..9 ELSE 0..4) = 0..4
    BY <1>3
  <2> QED BY <1>1, <2>1, <2>2 DEF Neighbours, PawnStep
<1> QED BY <1>2, <1>3 DEF Color

\* Small differences are known by their squares.
LEMMA Squared ==
  ASSUME NEW n \in Int
  PROVE  /\ n * n \in Nat /\ (n \in {-1, 1} => n * n = 1) /\ (n \in {-2, 2} => n * n = 4)
         /\ (n = 0 => n * n = 0) /\ (n >= 3 \/ n <= -3 => n * n >= 9)
OBVIOUS

\* An Advisor goes one square diagonally, within the palace.
LEMMA AdvisorRule ==
  ASSUME NEW b, NEW a \in 0..9, NEW k \in 0..8, NEW c \in 0..9, NEW l \in 0..8, NEW co \in Color
  PROVE  /\ AdvisorMove(b, <<a, k>>, <<c, l>>, co) <=>
              /\ (c - a) * (c - a) = 1 /\ (l - k) * (l - k) = 1
              /\ <<c, l>> \in Palace(co)
         /\ AdvisorMove(b, <<a, k>>, <<c, l>>, co) => <<c, l>> \in Corners(<<a, k>>, 1)
<1>1. Corners(<<c, l>>, 1) = {<<c + 1, l + 1>>, <<c + 1, l - 1>>, <<c - 1, l + 1>>, <<c - 1, l - 1>>}
  BY DEF Corners, Step
<1>2. Corners(<<a, k>>, 1) = {<<a + 1, k + 1>>, <<a + 1, k - 1>>, <<a - 1, k + 1>>, <<a - 1, k - 1>>}
  BY DEF Corners, Step
<1>3. <<a, k>> \in Corners(<<c, l>>, 1) <=> c - a \in {-1, 1} /\ l - k \in {-1, 1}
  BY <1>1
<1>4. <<c, l>> \in Corners(<<a, k>>, 1) <=> c - a \in {-1, 1} /\ l - k \in {-1, 1}
  BY <1>2
<1>5. c - a \in {-1, 1} /\ l - k \in {-1, 1} => is_diagonal_to(<<c, l>>, <<a, k>>)
  BY DEF is_diagonal_to, Abs
<1>6. /\ (c - a) * (c - a) = 1 <=> c - a \in {-1, 1}
      /\ (l - k) * (l - k) = 1 <=> l - k \in {-1, 1}
  BY Squared
<1> QED BY <1>3, <1>4, <1>5, <1>6, InPalace, Zenon DEF AdvisorMove

HorseStep(b, a, k, c, l) ==
  LET dr == c - a
      dc == l - k
  IN /\ dr * dr + dc * dc = 5
     /\ (IF dr * dr = 4 THEN <<a + dr \div 2, k>> ELSE <<a, k + dc \div 2>>) \notin DOMAIN b.points

\* A Horse jumps one and two, and its leg is the square that the long side passes.
LEMMA HorseRule ==
  ASSUME NEW b, NEW a \in 0..9, NEW k \in 0..8, NEW c \in 0..9, NEW l \in 0..8, NEW co
  PROVE  HorseMove(b, <<a, k>>, <<c, l>>, co) <=> HorseStep(b, a, k, c, l)
<1> DEFINE dr == c - a
           dc == l - k
           Leg == IF dr * dr = 4 THEN <<a + dr \div 2, k>> ELSE <<a, k + dc \div 2>>
           leg == IF Abs(c - a) > 1
                  THEN IF c > a THEN next_above(<<a, k>>) ELSE next_below(<<a, k>>)
                  ELSE IF l > k THEN next_right(<<a, k>>) ELSE next_left(<<a, k>>)
           L == (dr \in {-2, 2} /\ dc \in {-1, 1}) \/ (dr \in {-1, 1} /\ dc \in {-2, 2})
<1>1. is_horse_move(<<a, k>>, <<c, l>>) <=> L
  BY DEF is_horse_move, Abs
<1>2. dr * dr + dc * dc = 5 <=> L
  <2>1. dr \in Int /\ dc \in Int
    OBVIOUS
  <2> HIDE DEF dr, dc
  <2> QED BY <2>1, Squared
<1>3. /\ next_above(<<a, k>>) = <<a + 1, k>> /\ next_below(<<a, k>>) = <<a - 1, k>>
      /\ next_right(<<a, k>>) = <<a, k + 1>> /\ next_left(<<a, k>>) = <<a, k - 1>>
  BY DEF next_above, next_below, next_right, next_left, Step
<1>4. L => Leg = leg
  <2>1. CASE dr \in {-2, 2} /\ dc \in {-1, 1}
    <3>1. dr * dr = 4 /\ Abs(c - a) > 1
      BY <2>1 DEF Abs
    <3>2. CASE dr = 2
      BY <1>3, <3>1, <3>2
    <3>3. CASE dr = -2
      BY <1>3, <3>1, <3>3
    <3> QED BY <2>1, <3>2, <3>3
  <2>2. CASE dr \in {-1, 1} /\ dc \in {-2, 2}
    <3>1. dr * dr # 4 /\ ~(Abs(c - a) > 1)
      BY <2>2 DEF Abs
    <3>2. CASE dc = 2
      BY <1>3, <3>1, <3>2
    <3>3. CASE dc = -2
      BY <1>3, <3>1, <3>3
    <3> QED BY <2>2, <3>2, <3>3
  <2> QED BY <2>1, <2>2
<1>5. HorseMove(b, <<a, k>>, <<c, l>>, co) <=> L /\ leg \notin DOMAIN b.points
  BY <1>1 DEF HorseMove, has_piece
<1> HIDE DEF leg, Leg, L
<1>6. HorseMove(b, <<a, k>>, <<c, l>>, co) <=> dr * dr + dc * dc = 5 /\ Leg \notin DOMAIN b.points
  BY <1>2, <1>4, <1>5
<1> QED BY <1>6 DEF Leg, HorseStep

HorseJumps(from) == {Step(from, d[1][1] * d[2], d[1][2] * d[3]) :
                       d \in {<<1, 2>>, <<2, 1>>} \X {1, -1} \X {1, -1}}

\* The candidates of a Horse are the eight jumps.
LEMMA HorseCandidates ==
  ASSUME NEW a \in 0..9, NEW k \in 0..8, NEW c \in 0..9, NEW l \in 0..8,
         is_horse_move(<<a, k>>, <<c, l>>)
  PROVE  <<c, l>> \in HorseJumps(<<a, k>>)
<1> DEFINE J(d) == Step(<<a, k>>, d[1][1] * d[2], d[1][2] * d[3])
           S == {<<1, 2>>, <<2, 1>>} \X {1, -1} \X {1, -1}
<1>1. ASSUME NEW m \in {<<1, 2>>, <<2, 1>>}, NEW x \in {1, -1}, NEW y \in {1, -1}
      PROVE  <<m, x, y>> \in S /\ J(<<m, x, y>>) = <<a + m[1] * x, k + m[2] * y>>
  BY DEF Step
<1>2. \E m \in {<<1, 2>>, <<2, 1>>}, x \in {1, -1}, y \in {1, -1} :
        c = a + m[1] * x /\ l = k + m[2] * y
  <2>1. \/ (c - a \in {-2, 2} /\ l - k \in {-1, 1}) \/ (c - a \in {-1, 1} /\ l - k \in {-2, 2})
    BY DEF is_horse_move, Abs
  <2>2. CASE c - a \in {-2, 2} /\ l - k \in {-1, 1}
    <3>1. \E x \in {1, -1}, y \in {1, -1} : c = a + 2 * x /\ l = k + 1 * y
      BY <2>2
    <3> QED BY <3>1
  <2>3. CASE c - a \in {-1, 1} /\ l - k \in {-2, 2}
    <3>1. \E x \in {1, -1}, y \in {1, -1} : c = a + 1 * x /\ l = k + 2 * y
      BY <2>3
    <3> QED BY <3>1
  <2> QED BY <2>1, <2>2, <2>3
<1>3. PICK m \in {<<1, 2>>, <<2, 1>>}, x \in {1, -1}, y \in {1, -1} :
        c = a + m[1] * x /\ l = k + m[2] * y
  BY <1>2
<1>4. <<c, l>> = J(<<m, x, y>>) /\ <<m, x, y>> \in S
  BY <1>1, <1>3
<1> HIDE DEF J, S
<1>5. <<c, l>> \in {J(d) : d \in S}
  BY <1>4
<1> QED BY <1>5 DEF J, S, HorseJumps

\* A Rook goes along a line with no piece on its way.
LEMMA RookRule ==
  ASSUME NEW b, NEW a \in 0..9, NEW k \in 0..8, NEW c \in 0..9, NEW l \in 0..8, NEW co,
         <<a, k>> # <<c, l>>
  PROVE  RookMove(b, <<a, k>>, <<c, l>>, co) <=>
           /\ c - a = 0 \/ l - k = 0
           /\ Cardinality(Between(<<a, k>>, <<c, l>>) \cap DOMAIN b.points) = 0
<1> DEFINE w == orthogonals_to(<<a, k>>, <<c, l>>)
           N == Cardinality(Between(<<a, k>>, <<c, l>>) \cap DOMAIN b.points)
<1>1. is_orthogonal_to(<<a, k>>, <<c, l>>) <=> c - a = 0 \/ l - k = 0
  BY DEF is_orthogonal_to
<1>2. ASSUME is_orthogonal_to(<<a, k>>, <<c, l>>)
      PROVE  OnTheWay(b, w) = {} <=> N = 0
  <2>1. PICK n : Walked(w, n, <<a, k>>, <<c, l>>)
    BY <1>2, WalkFacts, Zenon
  <2>2. IsFiniteSet(OnTheWay(b, w)) /\ Cardinality(OnTheWay(b, w)) = N
    BY <2>1, Passing
  <2> QED BY <2>2, FS_EmptySet, Zenon
<1> HIDE DEF w, N
<1>3. RookMove(b, <<a, k>>, <<c, l>>, co) <=> is_orthogonal_to(<<a, k>>, <<c, l>>) /\ OnTheWay(b, w) = {}
  BY DEF RookMove, w
<1>4. RookMove(b, <<a, k>>, <<c, l>>, co) <=> (c - a = 0 \/ l - k = 0) /\ N = 0
  BY <1>1, <1>2, <1>3
<1> QED BY <1>4 DEF N

CannonStep(b, a, k, c, l) ==
  /\ c - a = 0 \/ l - k = 0
  /\ Cardinality(Between(<<a, k>>, <<c, l>>) \cap DOMAIN b.points) =
       (IF <<c, l>> \in DOMAIN b.points THEN 1 ELSE 0)

\* A Cannon goes along a free line, and captures over exactly one piece.
LEMMA CannonRule ==
  ASSUME NEW b, NEW a \in 0..9, NEW k \in 0..8, NEW c \in 0..9, NEW l \in 0..8, NEW co,
         <<a, k>> # <<c, l>>, ~has_ally_piece(b, <<c, l>>, co)
  PROVE  CannonMove(b, <<a, k>>, <<c, l>>, co) <=> CannonStep(b, a, k, c, l)
<1> DEFINE w == orthogonals_to(<<a, k>>, <<c, l>>)
           N == Cardinality(Between(<<a, k>>, <<c, l>>) \cap DOMAIN b.points)
           I == IF <<c, l>> \in DOMAIN b.points THEN 1 ELSE 0
<1>1. is_orthogonal_to(<<a, k>>, <<c, l>>) <=> c - a = 0 \/ l - k = 0
  BY DEF is_orthogonal_to
<1>2. ASSUME is_orthogonal_to(<<a, k>>, <<c, l>>)
      PROVE  Cardinality(OnTheWay(b, w)) = N
  <2>1. PICK n : Walked(w, n, <<a, k>>, <<c, l>>)
    BY <1>2, WalkFacts, Zenon
  <2> QED BY <2>1, Passing
<1>3. (IF has_enemy_piece(b, <<c, l>>, co) THEN 1 ELSE 0) = I
  BY DEF has_enemy_piece, has_ally_piece, has_piece
<1> HIDE DEF w, N, I
<1>4. CannonMove(b, <<a, k>>, <<c, l>>, co) <=>
        is_orthogonal_to(<<a, k>>, <<c, l>>) /\ Cardinality(OnTheWay(b, w)) = I
  BY <1>3 DEF CannonMove, w
<1>5. CannonMove(b, <<a, k>>, <<c, l>>, co) <=> (c - a = 0 \/ l - k = 0) /\ N = I
  BY <1>1, <1>2, <1>4
<1> QED BY <1>5 DEF N, I, CannonStep

\* The lines to the edges of the board hold every square of the row and the column.
LEMMA LineCandidates ==
  ASSUME NEW a \in 0..9, NEW k \in 0..8, NEW c \in 0..9, NEW l \in 0..8,
         <<a, k>> # <<c, l>>, c - a = 0 \/ l - k = 0
  PROVE  <<c, l>> \in Line(<<a, k>>)
<1> DEFINE Ends == {<<a, 8>>, <<a, 0>>, <<0, k>>, <<9, k>>}
<1>1. Line(<<a, k>>) = UNION {Range(orthogonals_to(<<a, k>>, q)) : q \in Ends}
  BY DEF Line
<1>2. a # c \/ k # l
  OBVIOUS
<1>3. CASE l = k /\ a < c
  <2>1. orthogonals_to(<<a, k>>, <<9, k>>) = [i \in 1..(9 - a) |-> <<a + i, k>>]
    <3>1. a \in Int /\ k \in Int /\ 9 \in Int /\ a < 9
      BY <1>3
    <3> QED BY <3>1, WalkUp, Zenon
  <2>2. c - a \in 1..(9 - a) /\ <<a + (c - a), k>> = <<c, l>>
    BY <1>3
  <2>3. <<c, l>> \in Range(orthogonals_to(<<a, k>>, <<9, k>>))
    BY <2>1, <2>2, Zenon DEF Range
  <2> QED BY <1>1, <2>3
<1>4. CASE l = k /\ a > c
  <2>1. orthogonals_to(<<a, k>>, <<0, k>>) = [i \in 1..(a - 0) |-> <<a - i, k>>]
    <3>1. a \in Int /\ k \in Int /\ 0 \in Int /\ a > 0
      BY <1>4
    <3> QED BY <3>1, WalkDown, Zenon
  <2>2. a - c \in 1..(a - 0) /\ <<a - (a - c), k>> = <<c, l>>
    BY <1>4
  <2>3. <<c, l>> \in Range(orthogonals_to(<<a, k>>, <<0, k>>))
    BY <2>1, <2>2, Zenon DEF Range
  <2> QED BY <1>1, <2>3
<1>5. CASE a = c /\ k < l
  <2>1. orthogonals_to(<<a, k>>, <<a, 8>>) = [i \in 1..(8 - k) |-> <<a, k + i>>]
    <3>1. a \in Int /\ k \in Int /\ 8 \in Int /\ k < 8
      BY <1>5
    <3> QED BY <3>1, WalkRight, Zenon
  <2>2. l - k \in 1..(8 - k) /\ <<a, k + (l - k)>> = <<c, l>>
    BY <1>5
  <2>3. <<c, l>> \in Range(orthogonals_to(<<a, k>>, <<a, 8>>))
    BY <2>1, <2>2, Zenon DEF Range
  <2> QED BY <1>1, <2>3
<1>6. CASE a = c /\ k > l
  <2>1. orthogonals_to(<<a, k>>, <<a, 0>>) = [i \in 1..(k - 0) |-> <<a, k - i>>]
    <3>1. a \in Int /\ k \in Int /\ 0 \in Int /\ k > 0
      BY <1>6
    <3> QED BY <3>1, WalkLeft, Zenon
  <2>2. k - l \in 1..(k - 0) /\ <<a, k - (k - l)>> = <<c, l>>
    BY <1>6
  <2>3. <<c, l>> \in Range(orthogonals_to(<<a, k>>, <<a, 0>>))
    BY <2>1, <2>2, Zenon DEF Range
  <2> QED BY <1>1, <2>3
<1>7. c = a \/ l = k
  OBVIOUS
<1> QED BY <1>2, <1>3, <1>4, <1>5, <1>6, <1>7

\* The squares between two squares are the same both ways.
LEMMA BetweenSym ==
  ASSUME NEW c \in Int, NEW l \in Int, NEW x \in Int, NEW y \in Int
  PROVE  Between(<<x, y>>, <<c, l>>) = Between(<<c, l>>, <<x, y>>)
BY DEF Between

\* SelectInSeq on a walk: the index of the first square with a piece.
FirstPiece(b, w) ==
  LET I == {i \in 1..Len(w) : w[i] \in DOMAIN b.points} IN IF I # {} THEN Min(I) ELSE 0

\* The first piece on a way: none, or one with no piece before it.
LEMMA FirstOnWay ==
  ASSUME NEW b, NEW n \in 1..9, NEW w, DOMAIN w = 1..n, Len(w) = n, NEW G,
         \A s \in DOMAIN b.points : b.points[s].type = "General" <=> s \in G
  PROVE  FirstPiece(b, w) > 0 /\ b.points[w[FirstPiece(b, w)]].type = "General"
         <=> \E i \in 1..n : /\ w[i] \in DOMAIN b.points /\ w[i] \in G
                             /\ \A j \in 1..(i - 1) : w[j] \notin DOMAIN b.points
<1> DEFINE D == DOMAIN b.points
           I == {i \in 1..n : w[i] \in D}
           m == FirstPiece(b, w)
<1>1. m = IF I # {} THEN Min(I) ELSE 0
  BY DEF FirstPiece
<1>2. I \in SUBSET (1..9)
  OBVIOUS
<1>3. CASE I = {}
  <2>1. m = 0 /\ \A i \in 1..n : w[i] \notin D
    BY <1>1, <1>3
  <2> QED BY <2>1
<1>4. CASE I # {}
  <2>1. m \in I /\ \A j \in I : m <= j
    <3>1. m = Min(I)
      BY <1>1, <1>4, Zenon
    <3> HIDE DEF m, I
    <3>2. Min(I) \in I /\ \A j \in I : Min(I) <= j
      BY <1>2, <1>4, FirstFound, Zenon
    <3> QED BY <3>1, <3>2, Zenon
  <2> HIDE DEF m
  <2>2. m \in 1..n /\ w[m] \in D /\ \A j \in 1..n : w[j] \in D => m <= j
    BY <2>1
  <2>3. m > 0 /\ \A j \in 1..(m - 1) : w[j] \notin D
    BY <2>2
  <2>4. \A i \in 1..n : w[i] \in D /\ (\A j \in 1..(i - 1) : w[j] \notin D) => i = m
    BY <2>2
  <2>5. b.points[w[m]].type = "General" <=> w[m] \in G
    BY <2>2
  <2> QED BY <2>2, <2>3, <2>4, <2>5 DEF m
<1> QED BY <1>3, <1>4

\* The first piece of a walk is one of the Generals p and g: it is p, a step ahead,
\* or g with nothing but p in between.
Faces(n, w, D, p, g, B, l) ==
  /\ n \in 1..9 /\ p \in D /\ g \in D
  /\ \A i \in 1..n : w[i] = p => i = 1
  /\ g[2] = l <=> \E i \in 1..n : w[i] = g
  /\ \A i \in 1..n : w[i] = g => B = {w[j] : j \in 1..(i - 1)}

\* The walk meets a general first exactly if it starts at p or runs along g's file.
Faced(n, w, D, p, g, B, l) ==
  (\E i \in 1..n : w[i] \in D /\ w[i] \in {p, g} /\ \A j \in 1..(i - 1) : w[j] \notin D) <=>
    w[1] = p \/ (g[2] = l /\ (B \ {p}) \cap D = {})

\* The first piece on a way is the enemy General exactly when no other piece stands before it.
LEMMA FirstFaced ==
  ASSUME NEW n, NEW w, NEW D, NEW p, NEW g, NEW B, NEW l, Faces(n, w, D, p, g, B, l)
  PROVE  Faced(n, w, D, p, g, B, l)
<1> USE DEF Faces, Faced
<1>1. ASSUME NEW i \in 1..n, w[i] \in D, w[i] \in {p, g}, \A j \in 1..(i - 1) : w[j] \notin D
      PROVE  w[1] = p \/ (g[2] = l /\ (B \ {p}) \cap D = {})
  <2>1. CASE w[i] = p
    BY <1>1, <2>1
  <2>2. CASE w[i] = g
    <3>1. g[2] = l /\ B = {w[j] : j \in 1..(i - 1)}
      BY <2>2
    <3> QED BY <1>1, <3>1
  <2> QED BY <1>1, <2>1, <2>2
<1>2. ASSUME w[1] = p
      PROVE  \E i \in 1..n : w[i] \in D /\ w[i] \in {p, g} /\ \A j \in 1..(i - 1) : w[j] \notin D
  <2>1. 1 \in 1..n /\ w[1] \in D /\ \A j \in 1..(1 - 1) : w[j] \notin D
    BY <1>2
  <2> QED BY <1>2, <2>1
<1>3. ASSUME w[1] # p, g[2] = l, (B \ {p}) \cap D = {}
      PROVE  \E i \in 1..n : w[i] \in D /\ w[i] \in {p, g} /\ \A j \in 1..(i - 1) : w[j] \notin D
  <2>1. PICK i \in 1..n : w[i] = g
    BY <1>3
  <2>2. ASSUME NEW j \in 1..(i - 1) PROVE w[j] \notin D
    <3>1. j \in 1..n /\ w[j] # p
      BY <1>3, <2>1
    <3>2. w[j] \in B
      BY <2>1
    <3> QED BY <3>1, <3>2, <1>3
  <2> QED BY <2>1, <2>2
<1> QED BY <1>1, <1>2, <1>3

\* A Red General, which looks up the board.
LEMMA SeesRed ==
  ASSUME NEW b, NEW a \in 0..9, NEW k \in 0..8, NEW c \in 0..9, NEW l \in 0..8,
         WellFormed(b), Playable(b), <<a, k>> \in Generals(b, "Red"), c \in 0..2,
         <<c, l>> \in Neighbours(<<a, k>>)
  PROVE  SeesGeneral(b, <<c, l>>, "Red") <=>
           \/ <<c, l>> = <<a - 1, k>>
           \/ \E g \in Generals(b, "Black") :
                g[2] = l /\ (Between(g, <<c, l>>) \ {<<a, k>>}) \cap DOMAIN b.points = {}
<1> DEFINE p == <<a, k>>
           q == <<c, l>>
           D == DOMAIN b.points
           n == 9 - c
           w == [i \in 1..n |-> <<c + i, l>>]
<1>1. PICK g \in Squares : Generals(b, "Black") = {g} /\ is_in_palace(g, "Black")
  BY DEF Playable, Color
<1>2. PICK x \in 0..9, y \in 0..8 : g = <<x, y>>
  BY DEF Squares
<1>3. x \in 7..9
  BY <1>1, <1>2 DEF is_in_palace
<1>4. ASSUME NEW s \in D PROVE b.points[s].type = "General" <=> s \in {p, g}
  <2>1. Generals(b, "Red") = {p}
    BY DEF Playable, Color
  <2>2. /\ b.points[s] = [type |-> b.points[s].type, color |-> b.points[s].color]
        /\ b.points[s].color \in {"Red", "Black"}
    BY DEF WellFormed, Color
  <2>3. b.points[s].type = "General" <=>
          b.points[s] \in {[type |-> "General", color |-> "Red"], [type |-> "General",
          color |-> "Black"]}
    BY <2>2
  <2> QED BY <1>1, <2>1, <2>3, Zenon DEF Generals
<1>5. n \in 1..9 /\ DOMAIN w = 1..n /\ \A i \in 1..n : w[i] = <<c + i, l>>
  OBVIOUS
<1>6. orthogonals_to(q, <<9, l>>) = w
  <2>1. c \in Int /\ l \in Int /\ 9 \in Int /\ c < 9
    OBVIOUS
  <2> QED BY <2>1, WalkUp, Zenon
<1>7. SeesGeneral(b, q, "Red") <=>
        \E i \in 1..n : w[i] \in D /\ w[i] \in {p, g} /\ \A j \in 1..(i - 1) : w[j] \notin D
  <2>1. SeesGeneral(b, q, "Red") <=>
          FirstPiece(b, w) > 0 /\ b.points[w[FirstPiece(b, w)]].type = "General"
    BY <1>6, Zenon DEF SeesGeneral, SelectInSeq, has_piece, FirstPiece
  <2>2. \A s \in DOMAIN b.points : b.points[s].type = "General" <=> s \in {p, g}
    BY <1>4
  <2>3. n \in 1..9 /\ DOMAIN w = 1..n /\ Len(w) = n
    BY <1>5
  <2> HIDE DEF w, n, p
  <2>4. FirstPiece(b, w) > 0 /\ b.points[w[FirstPiece(b, w)]].type = "General"
         <=> \E i \in 1..n : /\ w[i] \in DOMAIN b.points /\ w[i] \in {p, g}
                             /\ \A j \in 1..(i - 1) : w[j] \notin DOMAIN b.points
    BY <2>2, <2>3, FirstOnWay, Zenon
  <2> QED BY <2>1, <2>4, Zenon
<1>8. ASSUME NEW i \in 1..n, w[i] = p PROVE i = 1
  <2>1. <<c + i, l>> = <<a, k>>
    BY <1>5, <1>8
  <2>2. c + i = a /\ l = k
    BY <2>1
  <2>3. <<c, l>> \in {<<a + 1, k>>, <<a - 1, k>>, <<a, k + 1>>, <<a, k - 1>>}
    BY DEF Neighbours, next_above, next_below, next_right, next_left, Step
  <2>4. c = a + 1 \/ c = a - 1
    BY <2>2, <2>3
  <2> QED BY <2>2, <2>4
<1>9. w[1] = p <=> q = <<a - 1, k>>
  <2>1. w[1] = <<c + 1, l>>
    BY <1>5
  <2> QED BY <2>1
<1>10. g[2] = l <=> \E i \in 1..n : w[i] = g
  <2>1. ASSUME g[2] = l PROVE x - c \in 1..n /\ w[x - c] = g
    <3>1. y = l
      BY <1>2, <2>1
    <3>2. x - c \in 1..n
      BY <1>3
    <3>3. w[x - c] = <<c + (x - c), l>>
      BY <1>5, <3>2
    <3>4. <<c + (x - c), l>> = <<x, y>>
      BY <3>1
    <3> QED BY <1>2, <3>2, <3>3, <3>4
  <2>2. ASSUME NEW i \in 1..n, w[i] = g PROVE g[2] = l
    BY <1>5, <2>2
  <2> QED BY <2>1, <2>2, Zenon
<1>11. ASSUME NEW i \in 1..n, w[i] = g PROVE Between(g, q) = {w[j] : j \in 1..(i - 1)}
  <2>1. <<c + i, l>> = <<x, y>>
    BY <1>2, <1>5, <1>11
  <2>2. x = c + i /\ y = l
    BY <2>1
  <2>3. c < x
    BY <2>2
  <2>4. Walked(orthogonals_to(q, <<x, l>>), x - c, q, <<x, l>>)
    BY <2>3, WalkedUp, Zenon
  <2>5. orthogonals_to(q, <<x, l>>) = [j \in 1..(x - c) |-> <<c + j, l>>]
    <3>1. c \in Int /\ l \in Int /\ x \in Int
      OBVIOUS
    <3> QED BY <2>3, <3>1, WalkUp, Zenon
  <2>6. x - c = i
    BY <2>2
  <2>7. Between(q, g) = {orthogonals_to(q, <<x, l>>)[j] : j \in 1..(i - 1)}
    BY <1>2, <2>2, <2>4, <2>6, Zenon DEF Walked
  <2>8. \A j \in 1..(i - 1) : orthogonals_to(q, <<x, l>>)[j] = w[j]
    <3>1. ASSUME NEW j \in 1..(i - 1) PROVE orthogonals_to(q, <<x, l>>)[j] = w[j]
      <4>1. j \in 1..n /\ j \in 1..(x - c)
        BY <1>5, <2>6
      <4>2. orthogonals_to(q, <<x, l>>)[j] = <<c + j, l>>
        BY <2>5, <4>1, Zenon
      <4> QED BY <4>1, <4>2, <1>5
    <3> QED BY <3>1, Zenon
  <2>9. Between(g, q) = Between(q, g)
    BY <1>2, BetweenSym
  <2> HIDE DEF w
  <2> QED BY <2>7, <2>8, <2>9
<1> HIDE DEF w, n, D, p, q
<1>12. (\E i \in 1..n : w[i] \in D /\ w[i] \in {p, g} /\ \A j \in 1..(i - 1) : w[j] \notin D) <=>
         w[1] = p \/ (g[2] = l /\ (Between(g, q) \ {p}) \cap D = {})
  <2>1. p \in D /\ g \in D
    BY <1>1 DEF Generals, D, p
  <2>2. Faces(n, w, D, p, g, Between(g, q), l)
    BY <1>5, <1>8, <1>10, <1>11, <2>1, Zenon DEF Faces
  <2>3. Faced(n, w, D, p, g, Between(g, q), l)
    BY <2>2, FirstFaced, Zenon
  <2> QED BY <2>3, Zenon DEF Faced
<1> QED BY <1>1, <1>7, <1>9, <1>12 DEF p, q, D

\* A Black General, which looks down the board.
LEMMA SeesBlack ==
  ASSUME NEW b, NEW a \in 0..9, NEW k \in 0..8, NEW c \in 0..9, NEW l \in 0..8,
         WellFormed(b), Playable(b), <<a, k>> \in Generals(b, "Black"), c \in 7..9,
         <<c, l>> \in Neighbours(<<a, k>>)
  PROVE  SeesGeneral(b, <<c, l>>, "Black") <=>
           \/ <<c, l>> = <<a + 1, k>>
           \/ \E g \in Generals(b, "Red") :
                g[2] = l /\ (Between(g, <<c, l>>) \ {<<a, k>>}) \cap DOMAIN b.points = {}
<1> DEFINE p == <<a, k>>
           q == <<c, l>>
           D == DOMAIN b.points
           n == c - 0
           w == [i \in 1..n |-> <<c - i, l>>]
<1>1. PICK g \in Squares : Generals(b, "Red") = {g} /\ is_in_palace(g, "Red")
  BY DEF Playable, Color
<1>2. PICK x \in 0..9, y \in 0..8 : g = <<x, y>>
  BY DEF Squares
<1>3. x \in 0..2
  BY <1>1, <1>2 DEF is_in_palace
<1>4. ASSUME NEW s \in D PROVE b.points[s].type = "General" <=> s \in {p, g}
  <2>1. Generals(b, "Black") = {p}
    BY DEF Playable, Color
  <2>2. /\ b.points[s] = [type |-> b.points[s].type, color |-> b.points[s].color]
        /\ b.points[s].color \in {"Red", "Black"}
    BY DEF WellFormed, Color
  <2>3. b.points[s].type = "General" <=>
          b.points[s] \in {[type |-> "General", color |-> "Red"], [type |-> "General",
          color |-> "Black"]}
    BY <2>2
  <2> QED BY <1>1, <2>1, <2>3, Zenon DEF Generals
<1>5. n \in 1..9 /\ DOMAIN w = 1..n /\ \A i \in 1..n : w[i] = <<c - i, l>>
  OBVIOUS
<1>6. orthogonals_to(q, <<0, l>>) = w
  <2>1. c \in Int /\ l \in Int /\ 0 \in Int /\ c > 0
    OBVIOUS
  <2> QED BY <2>1, WalkDown, Zenon
<1>7. SeesGeneral(b, q, "Black") <=>
        \E i \in 1..n : w[i] \in D /\ w[i] \in {p, g} /\ \A j \in 1..(i - 1) : w[j] \notin D
  <2>1. SeesGeneral(b, q, "Black") <=>
          FirstPiece(b, w) > 0 /\ b.points[w[FirstPiece(b, w)]].type = "General"
    BY <1>6, Zenon DEF SeesGeneral, SelectInSeq, has_piece, FirstPiece
  <2>2. \A s \in DOMAIN b.points : b.points[s].type = "General" <=> s \in {p, g}
    BY <1>4
  <2>3. n \in 1..9 /\ DOMAIN w = 1..n /\ Len(w) = n
    BY <1>5
  <2> HIDE DEF w, n, p
  <2>4. FirstPiece(b, w) > 0 /\ b.points[w[FirstPiece(b, w)]].type = "General"
         <=> \E i \in 1..n : /\ w[i] \in DOMAIN b.points /\ w[i] \in {p, g}
                             /\ \A j \in 1..(i - 1) : w[j] \notin DOMAIN b.points
    BY <2>2, <2>3, FirstOnWay, Zenon
  <2> QED BY <2>1, <2>4, Zenon
<1>8. ASSUME NEW i \in 1..n, w[i] = p PROVE i = 1
  <2>1. <<c - i, l>> = <<a, k>>
    BY <1>5, <1>8
  <2>2. c - i = a /\ l = k
    BY <2>1
  <2>3. <<c, l>> \in {<<a + 1, k>>, <<a - 1, k>>, <<a, k + 1>>, <<a, k - 1>>}
    BY DEF Neighbours, next_above, next_below, next_right, next_left, Step
  <2>4. c = a + 1 \/ c = a - 1
    BY <2>2, <2>3
  <2> QED BY <2>2, <2>4
<1>9. w[1] = p <=> q = <<a + 1, k>>
  <2>1. w[1] = <<c - 1, l>>
    BY <1>5
  <2> QED BY <2>1
<1>10. g[2] = l <=> \E i \in 1..n : w[i] = g
  <2>1. ASSUME g[2] = l PROVE c - x \in 1..n /\ w[c - x] = g
    <3>1. y = l
      BY <1>2, <2>1
    <3>2. c - x \in 1..n
      BY <1>3
    <3>3. w[c - x] = <<c - (c - x), l>>
      BY <1>5, <3>2
    <3>4. <<c - (c - x), l>> = <<x, y>>
      BY <3>1
    <3> QED BY <1>2, <3>2, <3>3, <3>4, Zenon
  <2>2. ASSUME NEW i \in 1..n, w[i] = g PROVE g[2] = l
    BY <1>5, <2>2
  <2> QED BY <2>1, <2>2, Zenon
<1>11. ASSUME NEW i \in 1..n, w[i] = g PROVE Between(g, q) = {w[j] : j \in 1..(i - 1)}
  <2>1. <<c - i, l>> = <<x, y>>
    BY <1>2, <1>5, <1>11
  <2>2. x = c - i /\ y = l
    BY <2>1
  <2>3. c > x
    BY <2>2
  <2>4. Walked(orthogonals_to(q, <<x, l>>), c - x, q, <<x, l>>)
    BY <2>3, WalkedDown, Zenon
  <2>5. orthogonals_to(q, <<x, l>>) = [j \in 1..(c - x) |-> <<c - j, l>>]
    <3>1. c \in Int /\ l \in Int /\ x \in Int
      OBVIOUS
    <3> QED BY <2>3, <3>1, WalkDown, Zenon
  <2>6. c - x = i
    BY <2>2
  <2>7. Between(q, g) = {orthogonals_to(q, <<x, l>>)[j] : j \in 1..(i - 1)}
    BY <1>2, <2>2, <2>4, <2>6, Zenon DEF Walked
  <2>8. \A j \in 1..(i - 1) : orthogonals_to(q, <<x, l>>)[j] = w[j]
    <3>1. ASSUME NEW j \in 1..(i - 1) PROVE orthogonals_to(q, <<x, l>>)[j] = w[j]
      <4>1. j \in 1..n /\ j \in 1..(c - x)
        BY <1>5, <2>6
      <4>2. orthogonals_to(q, <<x, l>>)[j] = <<c - j, l>>
        BY <2>5, <4>1, Zenon
      <4> QED BY <4>1, <4>2, <1>5, Zenon
    <3> QED BY <3>1, Zenon
  <2>9. Between(g, q) = Between(q, g)
    BY <1>2, BetweenSym
  <2> HIDE DEF w
  <2> QED BY <2>7, <2>8, <2>9
<1> HIDE DEF w, n, D, p, q
<1>12. (\E i \in 1..n : w[i] \in D /\ w[i] \in {p, g} /\ \A j \in 1..(i - 1) : w[j] \notin D) <=>
         w[1] = p \/ (g[2] = l /\ (Between(g, q) \ {p}) \cap D = {})
  <2>1. p \in D /\ g \in D
    BY <1>1 DEF Generals, D, p
  <2>2. Faces(n, w, D, p, g, Between(g, q), l)
    BY <1>5, <1>8, <1>10, <1>11, <2>1, Zenon DEF Faces
  <2>3. Faced(n, w, D, p, g, Between(g, q), l)
    BY <2>2, FirstFaced, Zenon
  <2> QED BY <2>3, Zenon DEF Faced
<1> QED BY <1>1, <1>7, <1>9, <1>12, Zenon DEF p, q, D

\* A General goes one square within its palace, never faces the enemy General, and never steps back.
LEMMA GeneralRule ==
  ASSUME NEW b, NEW a \in 0..9, NEW k \in 0..8, NEW c \in 0..9, NEW l \in 0..8, NEW co \in Color,
         WellFormed(b), Playable(b), <<a, k>> \in Generals(b, co)
  PROVE  LET dr == c - a
             dc == l - k
         IN /\ GeneralMove(b, <<a, k>>, <<c, l>>, co) <=>
                 /\ dr * dr + dc * dc = 1 /\ <<c, l>> \in Palace(co)
                 /\ \A g \in Generals(b, Not(co)) :
                      g[2] = l => (Between(g, <<c, l>>) \ {<<a, k>>}) \cap DOMAIN b.points # {}
                 /\ ~StepsBack(b, <<a, k>>, <<c, l>>)
            /\ GeneralMove(b, <<a, k>>, <<c, l>>, co) => <<c, l>> \in Neighbours(<<a, k>>)
<1> DEFINE p == <<a, k>>
           q == <<c, l>>
           dr == c - a
           dc == l - k
           Free == \A g \in Generals(b, Not(co)) :
                      g[2] = l => (Between(g, q) \ {p}) \cap DOMAIN b.points # {}
           Sees == SeesGeneral(b, q, co)
<1>1. dr * dr + dc * dc = 1 <=> q \in Neighbours(p)
  <2>1. q \in Neighbours(p) <=>
          (dr \in {-1, 1} /\ dc = 0) \/ (dr = 0 /\ dc \in {-1, 1})
    BY DEF Neighbours, next_above, next_below, next_right, next_left, Step
  <2>2. dr * dr + dc * dc = 1 <=> (dr \in {-1, 1} /\ dc = 0) \/ (dr = 0 /\ dc \in {-1, 1})
    <3>1. dr \in Int /\ dc \in Int
      OBVIOUS
    <3> HIDE DEF dr, dc
    <3> QED BY <3>1, Squared
  <2> QED BY <2>1, <2>2
<1>2. p \in DOMAIN b.points /\ b.points[p].type = "General" /\ b.points[p].color = co
  BY DEF Generals
<1>3. ASSUME q \in Palace(co), q \in Neighbours(p) PROVE ~Sees <=> Free /\ ~StepsBack(b, p, q)
  <2>1. CASE co = "Red"
    <3>1. StepsBack(b, p, q) <=> q = <<a - 1, k>>
      BY <1>2, <2>1 DEF StepsBack, pawn_down, pawn_up, Not, next_below, Step
    <3>2. c \in 0..2
      BY <1>3, <2>1 DEF Palace
    <3>3. Not(co) = "Black" /\ p \in Generals(b, "Red")
      BY <2>1 DEF Not
    <3>4. SeesGeneral(b, q, "Red") <=>
           \/ q = <<a - 1, k>>
           \/ \E g \in Generals(b, "Black") :
                g[2] = l /\ (Between(g, q) \ {p}) \cap DOMAIN b.points = {}
      BY <1>3, <3>2, <3>3, SeesRed, Zenon
    <3> HIDE DEF p, q
    <3> QED BY <2>1, <3>1, <3>3, <3>4, Zenon
  <2>2. CASE co = "Black"
    <3>1. StepsBack(b, p, q) <=> q = <<a + 1, k>>
      BY <1>2, <2>2, SMTT(30) DEF StepsBack, pawn_down, pawn_up, Not, next_above, Step
    <3>2. c \in 7..9
      BY <1>3, <2>2 DEF Palace
    <3>3. Not(co) = "Red" /\ p \in Generals(b, "Black")
      BY <2>2 DEF Not
    <3>4. SeesGeneral(b, q, "Black") <=>
           \/ q = <<a + 1, k>>
           \/ \E g \in Generals(b, "Red") :
                g[2] = l /\ (Between(g, q) \ {p}) \cap DOMAIN b.points = {}
      BY <1>3, <3>2, <3>3, SeesBlack, Zenon
    <3> HIDE DEF p, q
    <3> QED BY <2>2, <3>1, <3>3, <3>4, Zenon
  <2> QED BY <2>1, <2>2, Zenon DEF Color
<1>4. is_in_palace(q, co) <=> q \in Palace(co)
  BY InPalace, Zenon
<1>5. GeneralMove(b, p, q, co) <=> is_in_palace(q, co) /\ ~Sees /\ q \in Neighbours(p)
  BY DEF GeneralMove
<1> HIDE DEF p, q, dr, dc, Free, Sees
<1>6. /\ GeneralMove(b, p, q, co) <=>
           dr * dr + dc * dc = 1 /\ q \in Palace(co) /\ Free /\ ~StepsBack(b, p, q)
      /\ GeneralMove(b, p, q, co) => q \in Neighbours(p)
  BY <1>1, <1>3, <1>4, <1>5
<1> QED BY <1>6, Zenon DEF p, q, dr, dc, Free

\* For every piece but the Elephant, the engine accepts what the rule says, among its candidates.
LEMMA RuleAt ==
  ASSUME NEW b, WellFormed(b), Playable(b),
         NEW a \in 0..9, NEW k \in 0..8, NEW c \in 0..9, NEW l \in 0..8,
         <<a, k>> \in DOMAIN b.points, b.points[<<a, k>>].type # "Elephant"
  PROVE  LET p == <<a, k>>
             q == <<c, l>>
         IN /\ PieceMove(b, p, q) <=> Rule(b, p, q) /\ ~StepsBack(b, p, q)
            /\ PieceMove(b, p, q) => q \in get_canidates(b.points[p], p)
<1> DEFINE p == <<a, k>>
           q == <<c, l>>
           ty == b.points[p].type
           co == b.points[p].color
<1>1. q \in Squares /\ p \in Squares
  BY DEF Squares
<1>3. ty \in PieceType /\ co \in Color /\ b.points[p].type = ty /\ b.points[p].color = co
      /\ b.points[p] = [type |-> ty, color |-> co]
  BY DEF WellFormed
<1>4. has_ally_piece(b, p, co) /\ (~has_ally_piece(b, q, co) => p # q)
  BY DEF has_ally_piece, has_piece
<1>d. q[1] - p[1] = c - a /\ q[2] - p[2] = l - k /\ p[1] = a /\ p[2] = k /\ q[2] = l
  OBVIOUS
<1> DEFINE dr == c - a
           dc == l - k
           N == Cardinality(Between(p, q) \cap DOMAIN b.points)
           Enemy == {g \in DOMAIN b.points : b.points[g].type = "General" /\ b.points[g].color # co}
           RRook == (dr = 0 \/ dc = 0) /\ N = 0
           RCannon == CannonStep(b, a, k, c, l)
           RHorse == HorseStep(b, a, k, c, l)
           RPawn == PawnStep(a, k, c, l, co)
           RAdvisor == dr * dr = 1 /\ dc * dc = 1 /\ q \in Palace(co)
           RGeneral == /\ dr * dr + dc * dc = 1 /\ q \in Palace(co)
                       /\ \A g \in Enemy : g[2] = l => (Between(g, q) \ {p}) \cap DOMAIN b.points # {}
<1>r. Rule(b, p, q) <=>
        /\ p # q /\ ~has_ally_piece(b, q, co)
        /\ CASE ty = "Rook" -> RRook
             [] ty = "Cannon" -> RCannon
             [] ty = "Horse" -> RHorse
             [] ty = "Pawn" -> RPawn
             [] ty = "Advisor" -> RAdvisor
             [] ty = "General" -> RGeneral
  BY <1>d, Zenon DEF Rule, Palace, has_ally_piece, has_piece, CannonStep, HorseStep, PawnStep
<1>m. PieceMove(b, p, q) <=>
        /\ ~has_ally_piece(b, q, co)
        /\ CASE ty = "General" -> GeneralMove(b, p, q, co)
             [] ty = "Pawn" -> PawnMove(b, p, q, co)
             [] ty = "Cannon" -> CannonMove(b, p, q, co)
             [] ty = "Rook" -> RookMove(b, p, q, co)
             [] ty = "Horse" -> HorseMove(b, p, q, co)
             [] ty = "Advisor" -> AdvisorMove(b, p, q, co)
             [] ty = "Elephant" -> ElephantMove(b, p, q, co)
  BY <1>1, Zenon DEF PieceMove
<1>5. CASE ty = "Rook"
  <2>1. ~has_ally_piece(b, q, co) => (RookMove(b, p, q, co) <=> RRook)
    BY <1>3, <1>4, RookRule, Zenon
  <2>2. RookMove(b, p, q, co) /\ p # q => q \in get_canidates(b.points[p], p)
    <3>1. get_canidates(b.points[p], p) = Line(p)
      BY <1>5 DEF get_canidates
    <3>2. RookMove(b, p, q, co) => c - a = 0 \/ l - k = 0
      BY SMTT(30) DEF RookMove, is_orthogonal_to
    <3> QED BY <3>1, <3>2, LineCandidates, Zenon
  <2>3. ~StepsBack(b, p, q)
    BY <1>5 DEF StepsBack
  <2> HIDE DEF ty, co, RRook
  <2> QED BY <1>r, <1>m, <1>4, <1>5, <2>1, <2>2, <2>3
<1>6. CASE ty = "Cannon"
  <2>1. ~has_ally_piece(b, q, co) => (CannonMove(b, p, q, co) <=> RCannon)
    <3>1. ASSUME ~has_ally_piece(b, q, co) PROVE CannonMove(b, p, q, co) <=> RCannon
      <4>1. p # q
        BY <1>4, <3>1, Zenon
      <4> QED BY <3>1, <4>1, CannonRule, Zenon
    <3> QED BY <3>1, Zenon
  <2>2. CannonMove(b, p, q, co) /\ p # q => q \in get_canidates(b.points[p], p)
    <3>1. get_canidates(b.points[p], p) = Line(p)
      BY <1>6 DEF get_canidates
    <3>2. CannonMove(b, p, q, co) => c - a = 0 \/ l - k = 0
      BY DEF CannonMove, is_orthogonal_to
    <3> QED BY <3>1, <3>2, LineCandidates, Zenon
  <2>3. ~StepsBack(b, p, q)
    BY <1>6 DEF StepsBack
  <2> HIDE DEF ty, co, RCannon
  <2> QED BY <1>r, <1>m, <1>4, <1>6, <2>1, <2>2, <2>3
<1>7. CASE ty = "Horse"
  <2>1. ~has_ally_piece(b, q, co) => (HorseMove(b, p, q, co) <=> RHorse)
    <3>1. HorseMove(b, p, q, co) <=> RHorse
      BY HorseRule, Zenon
    <3> QED BY <3>1, Zenon
  <2>2. HorseMove(b, p, q, co) /\ p # q => q \in get_canidates(b.points[p], p)
    <3>1. get_canidates(b.points[p], p) = HorseJumps(p)
      BY <1>7 DEF get_canidates, HorseJumps
    <3> QED BY <3>1, HorseCandidates, Zenon DEF HorseMove
  <2>3. ~StepsBack(b, p, q)
    BY <1>7, Zenon DEF StepsBack
  <2> HIDE DEF ty, co, RHorse
  <2> QED BY <1>r, <1>m, <1>4, <1>7, <2>1, <2>2, <2>3
<1>8. CASE ty = "Pawn"
  <2>1. ~has_ally_piece(b, q, co) => (PawnMove(b, p, q, co) <=> RPawn)
    <3>1. co \in Color
      BY <1>3, Zenon
    <3>2. PawnMove(b, p, q, co) <=> RPawn
      BY <3>1, PawnRule, Zenon
    <3> QED BY <3>2, Zenon
  <2>2. PawnMove(b, p, q, co) /\ p # q => q \in get_canidates(b.points[p], p)
    <3>1. get_canidates(b.points[p], p) = Neighbours(p)
      BY <1>8 DEF get_canidates
    <3>2. co \in Color
      BY <1>3
    <3>3. PawnMove(b, p, q, co) => q \in Neighbours(p)
      BY <3>2, PawnRule, Zenon
    <3> QED BY <3>1, <3>3, Zenon
  <2>3. ~StepsBack(b, p, q)
    BY <1>8 DEF StepsBack
  <2> HIDE DEF ty, co, RPawn
  <2> QED BY <1>r, <1>m, <1>4, <1>8, <2>1, <2>2, <2>3
<1>9. CASE ty = "Advisor"
  <2>1. ~has_ally_piece(b, q, co) => (AdvisorMove(b, p, q, co) <=> RAdvisor)
    <3>1. co \in Color
      BY <1>3
    <3>2. AdvisorMove(b, p, q, co) <=> RAdvisor
      BY <3>1, AdvisorRule, Zenon
    <3> QED BY <3>2, Zenon
  <2>2. AdvisorMove(b, p, q, co) /\ p # q => q \in get_canidates(b.points[p], p)
    <3>1. get_canidates(b.points[p], p) = Corners(p, 1)
      BY <1>9 DEF get_canidates
    <3>2. co \in Color
      BY <1>3
    <3>3. AdvisorMove(b, p, q, co) => q \in Corners(p, 1)
      BY <3>2, AdvisorRule, ZenonT(30)
    <3> QED BY <3>1, <3>3, Zenon
  <2>3. ~StepsBack(b, p, q)
    BY <1>9 DEF StepsBack
  <2> HIDE DEF ty, co, RAdvisor
  <2> QED BY <1>r, <1>m, <1>4, <1>9, <2>1, <2>2, <2>3
<1>10. CASE ty = "General"
  <2>1. p \in Generals(b, co)
    BY <1>3, <1>10 DEF Generals
  <2>2. Enemy = Generals(b, Not(co))
    <3>1. ASSUME NEW s \in DOMAIN b.points
          PROVE  b.points[s].type = "General" /\ b.points[s].color # co
                 <=> b.points[s] = [type |-> "General", color |-> Not(co)]
      <4>1. /\ b.points[s] = [type |-> b.points[s].type, color |-> b.points[s].color]
            /\ b.points[s].color \in Color
        BY DEF WellFormed
      <4>2. b.points[s].color # co <=> b.points[s].color = Not(co)
        BY <1>3, <4>1, Zenon DEF Color, Not
      <4>3. ASSUME b.points[s] = [type |-> "General", color |-> Not(co)]
            PROVE  b.points[s].type = "General" /\ b.points[s].color = Not(co)
        BY <4>3
      <4>4. ASSUME b.points[s].type = "General", b.points[s].color = Not(co)
            PROVE  b.points[s] = [type |-> "General", color |-> Not(co)]
        BY <4>1, <4>4, Zenon
      <4> QED BY <4>2, <4>3, <4>4, Zenon
    <3> QED BY <3>1, Zenon DEF Generals
  <2>3. /\ GeneralMove(b, p, q, co) <=> RGeneral /\ ~StepsBack(b, p, q)
        /\ GeneralMove(b, p, q, co) => q \in Neighbours(p)
    <3>1. co \in Color
      BY <1>3
    <3>2. /\ GeneralMove(b, p, q, co) <=>
               /\ dr * dr + dc * dc = 1 /\ q \in Palace(co)
               /\ \A g \in Generals(b, Not(co)) :
                    g[2] = l => (Between(g, q) \ {p}) \cap DOMAIN b.points # {}
               /\ ~StepsBack(b, p, q)
          /\ GeneralMove(b, p, q, co) => q \in Neighbours(p)
      BY <2>1, <3>1, GeneralRule, Zenon
    <3> HIDE DEF p, q, co
    <3> QED BY <2>2, <3>2, Zenon
  <2>4. get_canidates(b.points[p], p) = Neighbours(p)
    BY <1>10 DEF get_canidates
  <2> HIDE DEF ty, co, RGeneral
  <2> QED BY <1>r, <1>m, <1>4, <1>10, <2>3, <2>4
<1> QED BY <1>3, <1>5, <1>6, <1>7, <1>8, <1>9, <1>10, Zenon DEF PieceType

\* In every position with one General of each side in its palace, is_legal_move
\* (piece.rs) accepts for every piece but an Elephant exactly the moves that the rules
\* allow, a General's step back aside, and get_canidates lists every one of them.
THEOREM RulesFollowed ==
  ASSUME NEW b, WellFormed(b), Playable(b)
  PROVE  FollowsRules(b)
<1>1. ASSUME NEW p \in DOMAIN b.points, b.points[p].type # "Elephant", NEW q \in Squares
      PROVE  /\ PieceMove(b, p, q) <=> Rule(b, p, q) /\ ~StepsBack(b, p, q)
             /\ PieceMove(b, p, q) => q \in get_canidates(b.points[p], p)
  <2>1. p \in Squares
    BY DEF Playable
  <2>2. PICK a \in 0..9, k \in 0..8 : p = <<a, k>>
    BY <2>1, SMTT(30) DEF Squares
  <2>3. PICK c \in 0..9, l \in 0..8 : q = <<c, l>>
    BY DEF Squares
  <2> QED BY <1>1, <2>2, <2>3, RuleAt, Zenon
<1> QED BY <1>1, Zenon DEF FollowsRules
=============================================================================
