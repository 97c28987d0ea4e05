------------------------------- MODULE Xiangqi -------------------------------
(***************************************************************************)
(* The xiangqi engine, as operators: positions, the moves of the pieces,   *)
(* check, mate and stalemate, play_move, and the reader of FEN strings.    *)
(*                                                                         *)
(* A Position is <<row, col>>.  The points of a Board are a function from  *)
(* the occupied positions to pieces: the pos of a Piece always equals the  *)
(* index where it is stored (set_piece, move_piece), so it is not repeated.*)
(* full_move never changes after Board::empty and is left out.             *)
(***************************************************************************)
EXTENDS Integers, Sequences, FiniteSetsExt

\* The index of the first element of s that passes Test, 0 if none does.
SelectInSeq(s, Test(_)) ==
  LET I == {i \in 1..Len(s) : Test(s[i])} IN IF I # {} THEN Min(I) ELSE 0

Color == {"Red", "Black"}
Not(color) == IF color = "Red" THEN "Black" ELSE "Red"

Squares == (0..9) \X (0..8)
Step(pos, rows, cols) == <<pos[1] + rows, pos[2] + cols>>

Abs(n) == IF n < 0 THEN -n ELSE n
Sign(n) == IF n > 0 THEN 1 ELSE IF n < 0 THEN -1 ELSE 0

next_right(pos) == Step(pos, 0, 1)
next_left(pos) == Step(pos, 0, -1)
next_above(pos) == Step(pos, 1, 0)
next_below(pos) == Step(pos, -1, 0)

is_in_palace(pos, color) ==
  /\ pos[2] \in 3..5
  /\ IF color = "Red" THEN pos[1] <= 2 ELSE pos[1] \in 7..9

pawn_up(pos, color) == IF color = "Red" THEN next_above(pos) ELSE next_below(pos)
pawn_down(pos, color) == pawn_up(pos, Not(color))

is_past_river(pos, color) == IF color = "Red" THEN pos[1] >= 5 ELSE pos[1] <= 4

is_orthogonal_to(p, q) == p[1] = q[1] \/ p[2] = q[2]
is_diagonal_to(p, q) == Abs(p[2] - q[2]) = Abs(p[1] - q[1])
is_horse_move(p, q) == <<Abs(p[1] - q[1]), Abs(p[2] - q[2])>> \in {<<2, 1>>, <<1, 2>>}

orthogonal_distance(p, q) == IF p[1] # q[1] THEN Abs(p[1] - q[1]) ELSE Abs(p[2] - q[2])
diagonal_distance(p, q) == Abs(p[2] - q[2])

\* The walk from p towards q: n positions, along the rows if the rows differ and
\* along the columns only if they do not.
Walk(p, q, n) ==
  LET dr == Sign(q[1] - p[1])
      dc == IF dr = 0 THEN Sign(q[2] - p[2]) ELSE 0
  IN [i \in 1..n |-> Step(p, i * dr, i * dc)]

orthogonals_to(p, q) ==
  IF is_orthogonal_to(p, q) THEN Walk(p, q, orthogonal_distance(p, q)) ELSE << >>

\* The same walk: on a diagonal it leaves the diagonal and follows the column.
diagonals_to(p, q) ==
  IF is_diagonal_to(p, q) THEN Walk(p, q, diagonal_distance(p, q)) ELSE << >>

------------------------------------------------------------------------------
(* Board: lookups, and the moves of each type of piece.                     *)

has_piece(b, pos) == pos \in DOMAIN b.points
has_ally_piece(b, pos, color) == has_piece(b, pos) /\ b.points[pos].color = color
has_enemy_piece(b, pos, color) == has_piece(b, pos) /\ b.points[pos].color # color

\* The pieces on the way, the last position not counted (traveling.pop()).
OnTheWay(b, traveling) == {i \in 1..(Len(traveling) - 1) : has_piece(b, traveling[i])}

\* The first piece seen from pos towards the enemy's end of the file is a General.
SeesGeneral(b, pos, color) ==
  LET traveling == orthogonals_to(pos, <<IF color = "Red" THEN 9 ELSE 0, pos[2]>>)
      i == SelectInSeq(traveling, LAMBDA p : has_piece(b, p))
  IN i > 0 /\ b.points[traveling[i]].type = "General"

Neighbours(pos) == {next_above(pos), next_below(pos), next_right(pos), next_left(pos)}

\* Mutant: the generals may face each other.
GeneralMove_blind(b, from, to, color) ==
  is_in_palace(to, color) /\ to \in Neighbours(from)

GeneralMove(b, from, to, color) ==
  is_in_palace(to, color) /\ ~SeesGeneral(b, to, color) /\ to \in Neighbours(from)

PawnMove(b, from, to, color) ==
  \/ to = pawn_up(from, color)
  \/ is_past_river(from, color) /\ to \in {next_right(from), next_left(from)}

CannonMove(b, from, to, color) ==
  /\ is_orthogonal_to(from, to)
  /\ Cardinality(OnTheWay(b, orthogonals_to(from, to))) =
       IF has_enemy_piece(b, to, color) THEN 1 ELSE 0

RookMove(b, from, to, color) ==
  is_orthogonal_to(from, to) /\ OnTheWay(b, orthogonals_to(from, to)) = {}

\* The leg: the neighbour of the horse in the direction of the longer part.
HorseMove(b, from, to, color) ==
  /\ is_horse_move(from, to)
  /\ ~has_piece(b, IF Abs(to[1] - from[1]) > 1
                   THEN IF to[1] > from[1] THEN next_above(from) ELSE next_below(from)
                   ELSE IF to[2] > from[2] THEN next_right(from) ELSE next_left(from))

Corners(pos, n) == {Step(pos, n, n), Step(pos, n, -n), Step(pos, -n, n), Step(pos, -n, -n)}

AdvisorMove(b, from, to, color) ==
  is_diagonal_to(to, from) /\ is_in_palace(to, color) /\ from \in Corners(to, 1)

ElephantMove(b, from, to, color) ==
  /\ ~is_past_river(to, color)
  /\ is_diagonal_to(from, to) /\ diagonal_distance(from, to) >= 2
  /\ OnTheWay(b, diagonals_to(from, to)) = {}

\* Piece::is_legal_move for the piece on from.
PieceMove(b, from, to) ==
  LET piece == b.points[from]
      color == piece.color
  IN /\ to \in Squares /\ ~has_ally_piece(b, to, color)
     /\ CASE piece.type = "General" -> GeneralMove(b, from, to, color)
          [] piece.type = "Pawn" -> PawnMove(b, from, to, color)
          [] piece.type = "Cannon" -> CannonMove(b, from, to, color)
          [] piece.type = "Rook" -> RookMove(b, from, to, color)
          [] piece.type = "Horse" -> HorseMove(b, from, to, color)
          [] piece.type = "Advisor" -> AdvisorMove(b, from, to, color)
          [] piece.type = "Elephant" -> ElephantMove(b, from, to, color)

Line(from) ==
  UNION {Range(orthogonals_to(from, q)) :
           q \in {<<from[1], 8>>, <<from[1], 0>>, <<0, from[2]>>, <<9, from[2]>>}}

\* The targets of piece, standing on from, that are worth testing (those off the
\* board are rejected by is_legal_move).
get_canidates(piece, from) ==
  CASE piece.type = "Advisor" -> Corners(from, 1)
    [] piece.type \in {"Cannon", "Rook"} -> Line(from)
    [] piece.type = "Elephant" -> Corners(from, 2)
    [] piece.type \in {"General", "Pawn"} -> Neighbours(from)
    [] piece.type = "Horse" -> {Step(from, d[1][1] * d[2], d[1][2] * d[3]) :
                                  d \in {<<1, 2>>, <<2, 1>>} \X {1, -1} \X {1, -1}}

------------------------------------------------------------------------------
(* Board: check, mate, and playing a move.                                  *)

empty == [points |-> << >>, turn |-> "Red"]

move_piece(b, from, to) ==
  IF from \notin Squares \/ to \notin Squares THEN b
  ELSE [b EXCEPT !.points = [q \in (DOMAIN @ \cup {to}) \ {from} |->
                               IF q = to THEN @[from] ELSE @[q]]]

change_turn(b) == [b EXCEPT !.turn = Not(@)]

is_threatened(b, pos, color) ==
  \E p \in DOMAIN b.points :
    /\ is_orthogonal_to(p, pos) \/ is_diagonal_to(p, pos) \/ is_horse_move(p, pos)
    /\ b.points[p].color # color
    /\ PieceMove(b, p, pos)

PALACE(color) ==
  [i \in 1..9 |-> <<(IF color = "Red" THEN 0 ELSE 7) + ((i - 1) % 3), 3 + ((i - 1) \div 3)>>]

\* The place of the first General in the palace; 0 stands for the panic.
GeneralAt(b, color) ==
  SelectInSeq(PALACE(color), LAMBDA p : has_piece(b, p) /\ b.points[p].type = "General")

get_general_pos(b, color) == PALACE(color)[GeneralAt(b, color)]

is_in_check(b, color) == is_threatened(b, get_general_pos(b, color), color)

\* Mutant: a move may leave the own General in check.
is_legal_move_exposed(b, from, to, color) ==
  has_piece(b, from) /\ PieceMove(b, from, to) /\ b.points[from].color = color

\* Board::is_legal_move of Move::Piece(from, to)
is_legal_move(b, from, to, color) ==
  /\ has_piece(b, from)
  /\ PieceMove(b, from, to)
  /\ b.points[from].color = color
  /\ ~is_in_check(move_piece(b, from, to), color)

\* Piece::get_legal_moves: the targets.
PieceMoves(b, piece, from) ==
  {to \in get_canidates(piece, from) : is_legal_move(b, from, to, piece.color)}

\* Board::get_legal_moves is empty.
NoMoves(b) ==
  \A p \in DOMAIN b.points :
    b.points[p].color = b.turn => PieceMoves(b, b.points[p], p) = {}

is_checkmate(b) == is_in_check(b, b.turn) /\ NoMoves(b)
is_stalemate(b) == NoMoves(b) /\ ~is_in_check(b, b.turn)

\* Board::play_move of Move::Piece(from, to).  "Panic": the opponent's General is
\* not in its palace.
play_move(b, from, to) ==
  LET next_turn == change_turn(move_piece(b, from, to))
  IN CASE ~is_legal_move(b, from, to, b.turn) -> [result |-> "IllegalMove"]
       [] OTHER ->
            IF GeneralAt(next_turn, next_turn.turn) = 0 THEN [result |-> "Panic"]
            ELSE IF is_checkmate(next_turn) THEN [result |-> "Victory", color |-> b.turn]
            ELSE IF is_stalemate(next_turn) THEN [result |-> "Victory", color |-> Not(b.turn)]
            ELSE [result |-> "Continuing", board |-> next_turn]

------------------------------------------------------------------------------
(* FEN.  A string is given by its fields: the ranks of the board, the side,*)
(* the number of the move.                                                  *)

Letters == <<"P", "N", "B", "R", "C", "K", "A">>
Types == <<"Pawn", "Horse", "Elephant", "Rook", "Cannon", "General", "Advisor">>
SmallLetters == <<"p", "n", "b", "r", "c", "k", "a">>
Digits == <<"1", "2", "3", "4", "5", "6", "7", "8", "9">>

\* Piece::try_from
IsPiece(t) == t \in Range(Letters) \cup Range(SmallLetters)
try_from(t) ==
  IF t \in Range(Letters)
  THEN [type |-> Types[SelectInSeq(Letters, LAMBDA l : l = t)], color |-> "Red"]
  ELSE [type |-> Types[SelectInSeq(SmallLetters, LAMBDA l : l = t)], color |-> "Black"]

\* The columns that the first n tokens of a rank take.
Width(t) == IF t \in Range(Digits) THEN SelectInSeq(Digits, LAMBDA d : d = t) ELSE 1
Columns(rank, n) == MapThenSumSet(LAMBDA i : Width(rank[i]), 1..n)

\* The error met in a rank, or "" if there is none.
RankError(rank, length_error) ==
  IF \E i \in DOMAIN rank : rank[i] \notin Range(Digits) /\ ~IsPiece(rank[i]) THEN "InvalidPiece"
  ELSE IF Columns(rank, Len(rank)) # 9 THEN length_error ELSE ""

\* Board::from_str.  fen.ranks is the board field, split at every "/"; rank i of it
\* is row 10 - i.  The results of set_turn and set_full_move are dropped, so the side
\* to move is Red whatever the string says.
from_str(fen) ==
  LET n == Len(fen.ranks)
      Error(i) == RankError(fen.ranks[i], IF i < n THEN "InvalidRowLength" ELSE "InvalidBoardLayout")
      bad == SelectInSeq([i \in 1..n |-> Error(i)], LAMBDA e : e # "")
      err == IF bad > 0 THEN Error(bad)
             ELSE IF fen.side \notin {"w", "b"} THEN "InvalidSideToMove"
             ELSE IF fen.fullmove = 0 THEN "FullmoveMustBePositive" ELSE ""
      pieces == {ij \in (1..n) \X (1..9) :
                   ij[2] \in DOMAIN fen.ranks[ij[1]] /\ IsPiece(fen.ranks[ij[1]][ij[2]])}
      Pos(ij) == <<10 - ij[1], Columns(fen.ranks[ij[1]], ij[2] - 1)>>
      Index(pos) == CHOOSE ij \in pieces : Pos(ij) = pos
  IN IF err # "" THEN [ok |-> FALSE, err |-> err]
     ELSE [ok |-> TRUE,
           board |-> [empty EXCEPT !.points = [pos \in {Pos(ij) : ij \in pieces} |->
                       try_from(fen.ranks[Index(pos)[1]][Index(pos)[2]])]]]

\* Board::default: the 32 pieces where a game starts.
BackRank ==
  <<"Rook", "Horse", "Elephant", "Advisor", "General", "Advisor", "Elephant", "Horse", "Rook">>

default ==
  LET Home(r, cols, color) == [p \in {r} \X cols |->
        [type |-> CASE r \in {0, 9} -> BackRank[p[2] + 1]
                    [] r \in {2, 7} -> "Cannon"
                    [] OTHER -> "Pawn",
         color |-> color]]
      Even == {0, 2, 4, 6, 8}
  IN [empty EXCEPT !.points =
        LET all == {Home(0, 0..8, "Red"), Home(2, {1, 7}, "Red"), Home(3, Even, "Red"),
                    Home(9, 0..8, "Black"), Home(7, {1, 7}, "Black"), Home(6, Even, "Black")}
        IN [p \in UNION {DOMAIN f : f \in all} |-> (CHOOSE f \in all : p \in DOMAIN f)[p]]]

==============================================================================
