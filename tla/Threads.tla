------------------------------- MODULE Threads -------------------------------
(***************************************************************************)
(* What the rest of the kernel relies on the scheduler for: the life of a  *)
(* thread.  A thread is unborn, then runnable; only a runnable thread      *)
(* blocks, for a named reason, and it stays blocked until somebody         *)
(* unblocks it; termination is final.  Which runnable thread has the CPU,  *)
(* and when, is left open: a step of any runnable thread may come next.    *)
(*                                                                         *)
(* Scheduler.tla implements this module.  Process.tla, Pipe.tla,           *)
(* Console.tla and XiangqiGame.tla are written on top of it.               *)
(***************************************************************************)

CONSTANTS
  ThreadId,   \* thread identifiers (a process and its thread share one)
  Reasons     \* the BlockReasons that an unblock_task can end

VARIABLE thr  \* [ThreadId -> {"unborn", "runnable", "dead"} \cup Reasons]

Status == {"unborn", "runnable", "dead"} \cup Reasons

ThrInit == thr \in [ThreadId -> {"unborn", "runnable"}]

Spawn(t) == thr[t] = "unborn" /\ thr' = [thr EXCEPT ![t] = "runnable"]

Block(t, why) == thr[t] = "runnable" /\ thr' = [thr EXCEPT ![t] = why]

\* unblock_task(id) for every id of S that is Blocked(_); the others ignore it.
Unblocked(S) ==
  [t \in ThreadId |-> IF t \in S /\ thr[t] \in Reasons THEN "runnable" ELSE thr[t]]

Unblock(S) == S # {} /\ (\A t \in S : thr[t] \in Reasons) /\ thr' = Unblocked(S)

Terminate(t) == thr[t] = "runnable" /\ thr' = [thr EXCEPT ![t] = "dead"]

ThrNext ==
  \/ \E t \in ThreadId : Spawn(t) \/ Terminate(t) \/ (\E why \in Reasons : Block(t, why))
  \/ \E S \in SUBSET ThreadId : Unblock(S)

ThrSpec == ThrInit /\ [][ThrNext]_thr

==============================================================================
