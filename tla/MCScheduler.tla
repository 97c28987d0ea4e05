---------------------------- MODULE MCScheduler ----------------------------
(***************************************************************************)
(* One kernel thread and two processes beside the idle thread and the      *)
(* cleaner; slices of two ticks and sleeps of up to two.                   *)
(***************************************************************************)
EXTENDS Scheduler

MCBootThreads == <<3>>
MCProcs == {6, 7}
=============================================================================
