----------------------------- MODULE MCIrqLock -----------------------------
(* Three threads, guards nested two deep at either level.                  *)
EXTENDS IrqLock

MCThread == {1, 3, 4}
=============================================================================
