------------------------------- MODULE MCPipe -------------------------------
(* A reader, a writer and a process with both ends, as after two forks. *)
EXTENDS Pipe, TLC

MCProcs == <<6, 7, 8>>
MCThreadId == {6, 7, 8}
MCEnds == (6 :> {"read"}) @@ (7 :> {"write"}) @@ (8 :> {"read", "write"})
MCReasons == {"WaitPipeRead", "WaitPipeWrite"}
=============================================================================
