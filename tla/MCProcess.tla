----------------------------- MODULE MCProcess -----------------------------
(* The boot thread, the executor, the compositor and up to three processes. *)
EXTENDS Process

MCThreadId == {1, 3, 4} \cup (FirstPid..LastPid)
MCReasons == {"WaitThread", "WaitPipe", "WaitStdin", "CompositorWait"}
=============================================================================
