------------------------------ MODULE MCConsole ------------------------------
(* The shell and a child; a screen of three rows. *)
EXTENDS Console, TLC

MCProcs == <<6, 7>>
MCThreadId == {3, 4, 5, 6, 7}
MCReasons == {"CompositorWait", "AsyncExecutorWait", "TtyRenderWait", "WaitStdin"}
MCChar == {" ", "x", "t", "^", "C"}
MCUses == (6 :> {"read"}) @@ (7 :> {"write", "frame"})
MCScreen(row) ==
  [buffer |-> [r \in Rows |-> [c \in Cols |-> IF r < row THEN "x" ELSE " "]],
   dirty_row |-> {}, column_position |-> 0, row_position |-> row, needs_scroll |-> FALSE]
MCWarning == <<"t">>
MCStrings == {<<"nl", "x">>}
MCLoad(row, message, keys, w, f) ==
  [screen |-> MCScreen(row), message |-> message, keys |-> keys, writes |-> w, frames |-> f]
\* Typing, erasing, typing again and committing a line; keys, and a line and a write,
\* on a screen that scrolls; the end of input on an empty line and on another; keys that
\* are not text; two writes and a window.
MCLoads ==
  {MCLoad(0, << >>, <<"x", "bs", "x", "nl">>, 0, 0), MCLoad(2, <<"x">>, <<"x", "nl">>, 0, 0),
   MCLoad(2, <<"x">>, <<"nl">>, 1, 0), MCLoad(2, <<"x">>, <<"eof", "eof">>, 0, 0),
   MCLoad(2, <<"x">>, <<"x", "eof">>, 0, 0), MCLoad(2, << >>, <<"bs", "ctrl_c", "raw">>, 0, 0),
   MCLoad(1, <<"x">>, << >>, 2, 1)}
==============================================================================
