------------------------------ MODULE MCXiangqi ------------------------------
(* The game of xiangqi.rs and positions of the engine's tests. *)
EXTENDS XiangqiGame

MCThreadId == {6}
MCReasons == {"WaitMouse"}

Fen(ranks) == [ranks |-> ranks, side |-> "w", fullmove |-> 1]
E == <<"9">>

\* fen_str of xiangqi.rs, also the position of test_mate
GameFen == Fen(<<<<"1", "R", "7">>, <<"4", "k", "c", "3">>, E, E, E, E, E, E,
                 <<"4", "A", "4">>, <<"3", "K", "C", "4">>>>)
DefaultFen ==
  Fen(<<<<"r", "n", "b", "a", "k", "a", "b", "n", "r">>, E,
              <<"1", "c", "5", "c", "1">>, <<"p", "1", "p", "1", "p", "1", "p", "1", "p">>,
              E, E, <<"P", "1", "P", "1", "P", "1", "P", "1", "P">>,
              <<"1", "C", "5", "C", "1">>, E,
              <<"R", "N", "B", "A", "K", "A", "B", "N", "R">>>>)
CheckFen == Fen(<<<<"3", "r", "k", "r", "3">>, E, E, E, E, E, E, E,
                 <<"3", "K", "A", "4">>, E>>)
CannonFen == Fen(<<<<"4", "k", "4">>, <<"4", "a", "4">>, E, <<"4", "n", "4">>, E, E,
                  <<"4", "C", "4">>, E, E, <<"4", "K", "4">>>>)
PawnFen == Fen(<<<<"4", "k", "4">>, <<"4", "a", "4">>, E, <<"4", "n", "4">>,
                 <<"2", "P", "6">>, <<"6", "P", "2">>, <<"4", "C", "4">>, E, E,
                 <<"4", "K", "4">>>>)
HorseFen == Fen(<<<<"4", "k", "4">>, E, E, <<"5", "c", "3">>, <<"4", "p", "n", "3">>,
                 E, E, E, E, <<"3", "K", "5">>>>)

MCFens == {GameFen, CheckFen, HorseFen}

\* What the tests of testpositions.rs assert, test_mate aside.
ASSUME TestsPass ==
  LET check == from_str(CheckFen).board
      cannon == from_str(CannonFen).board
      pawn == from_str(PawnFen).board
      horse == from_str(HorseFen).board
  IN /\ from_str(DefaultFen).board = default
     /\ is_in_check(check, "Red")
     /\ is_legal_move(cannon, <<3, 4>>, <<5, 4>>, "Red")
     /\ ~is_legal_move(cannon, <<3, 4>>, <<6, 4>>, "Red")
     /\ is_threatened(cannon, <<8, 4>>, "Black")
     /\ is_legal_move(pawn, <<4, 6>>, <<5, 6>>, "Red")
     /\ ~is_legal_move(pawn, <<4, 6>>, <<7, 6>>, "Red")
     /\ ~is_legal_move(pawn, <<5, 2>>, <<7, 2>>, "Red")
     /\ is_legal_move(pawn, <<5, 2>>, <<5, 3>>, "Red")
     /\ \A q \in {<<6, 7>>, <<4, 7>>, <<3, 4>>, <<3, 6>>} : is_legal_move(horse, <<5, 5>>, q, "Black")
     /\ \A q \in {<<7, 4>>, <<7, 6>>, <<4, 3>>, <<6, 3>>} : ~is_legal_move(horse, <<5, 5>>, q, "Black")

\* The positions that are not played from follow the rules, too.
ASSUME \A fen \in {DefaultFen, CannonFen, PawnFen} : FollowsRules(from_str(fen).board)

==============================================================================
