------------------------------ MODULE Scheduler ------------------------------
(***************************************************************************)
(* The preemptive round-robin scheduler of one CPU (kernel/src/task/       *)
(* thread.rs, switch.s, the timer handler of interrupts.rs).               *)
(*                                                                         *)
(* Granularity.  A region under SCHEDULER.lock() runs with interrupts off  *)
(* (IrqLock.tla), so it is one step; so is an interrupt handler, which     *)
(* runs with interrupts off to its end, the context switch at the end of   *)
(* the timer handler included.  Between two regions interrupts are on: a   *)
(* thread that blocks or yields crosses switch_if_needed in four steps,    *)
(* and an interrupt may be taken before each of them.  pc[t] is the step   *)
(* thread t executes when it has the CPU:                                  *)
(*    "thread"     its own code, outside the scheduler                     *)
(*    "terminate"  terminate_task, between its two regions                 *)
(*    "load"       switch_if_needed, about to load NEEDS_RESCHEDULE        *)
(*    "clear"      the flag was set; about to clear it                     *)
(*    "pick"       about to lock SCHEDULER and pick the next thread        *)
(*    "switch"     next thread picked, guard dropped, about to call        *)
(*                 switch_to_task(next[t])                                 *)
(***************************************************************************)
EXTENDS Naturals, Sequences, FiniteSets, Functions

CONSTANTS
  BootThreads, \* kernel threads spawned at boot after the cleaner: <<3, 4, 5>>
  Procs,       \* process ids that spawn_proc and fork may hand out
  SliceTicks,  \* TIME_SLICE / TIME_BETWEEN_TICKS (100)
  MaxSleep     \* bound: the longest sleep, in ticks

Idle == 1      \* MAIN_THREAD: _start, then hlt_loop; not in Scheduler.threads
Cleaner == 2   \* cleaner_task

ThreadId == {Idle, Cleaner} \cup Range(BootThreads) \cup Procs

ASSUME SchedulerAssumption ==
  /\ BootThreads \in Seq(Nat) /\ IsInjective(BootThreads)
  /\ Procs \subseteq Nat /\ IsFiniteSet(Procs)
  /\ \A t \in Range(BootThreads) \cup Procs : t > 2
  /\ Range(BootThreads) \cap Procs = {}
  /\ SliceTicks \in Nat /\ SliceTicks > 1
  /\ MaxSleep \in Nat

VARIABLES
  threads,      \* Scheduler.threads: ids in spawn order
  ready_queue,  \* Scheduler.ready_queue
  state,        \* ThreadControlBlock.state, "Unborn" before the TCB exists
  slice,        \* time_slice_remaining, in ticks
  left,         \* ticks until Sleep(expire_time) is over
  curr,         \* *CURR_THREAD_PTR
  needs,        \* NEEDS_RESCHEDULE
  pc,           \* see above
  next          \* the local next_thread of switch_if_needed while pc is "switch"

vars == <<threads, ready_queue, state, slice, left, curr, needs, pc, next>>

\* BlockReason: "Wait" stands for every reason ended by an unblock_task call
\* (WaitPipeRead, WaitThread, WaitStdin, CompositorWait, ...).
BlockReason == {"Paused", "Sleep", "Terminated", "Wait"}
ThreadState == {"Unborn", "Ready", "Running"} \cup BlockReason
Window == {"load", "clear", "pick", "switch"}

\* The state after _start has spawned the kernel threads: spawn() queues only
\* ids above 2, and the boot code still runs on MAIN_THREAD.
Init ==
  /\ threads = <<Cleaner>> \o BootThreads
  /\ ready_queue = BootThreads
  /\ state = [t \in ThreadId |-> IF t = Idle THEN "Running"
                                 ELSE IF t \in Procs THEN "Unborn" ELSE "Ready"]
  /\ slice = [t \in ThreadId |-> SliceTicks]
  /\ left = [t \in ThreadId |-> 0]
  /\ curr = Idle
  /\ needs = FALSE
  /\ pc = [t \in ThreadId |-> "thread"]
  /\ next = [t \in ThreadId |-> Idle]

------------------------------------------------------------------------------
(* Pieces of the scheduler that several operations share.                   *)

\* Requeueing in switch_if_needed: a current thread that is still Running goes
\* to the back of the queue; the idle thread never does.
StillRunning(st) == st[curr] = "Running" /\ curr # Idle
Requeued(st, q) == IF StillRunning(st) THEN Append(q, curr) ELSE q
RequeuedState(st) == IF StillRunning(st) THEN [st EXCEPT ![curr] = "Ready"] ELSE st
RequeuedSlice(st, sl) == IF StillRunning(st) THEN [sl EXCEPT ![curr] = SliceTicks] ELSE sl

\* pick_next_thread: the front of the queue, the idle thread if it is empty.
NextOf(q) == IF q = <<>> THEN Idle ELSE Head(q)
\* Mutant: pop_back instead of pop_front.
RestOf_pop_back(q) == IF q = <<>> THEN q ELSE SubSeq(q, 1, Len(q) - 1)

RestOf(q) == IF q = <<>> THEN q ELSE Tail(q)

\* The locked region of switch_if_needed, entered with the states st, the queue
\* q and the slices sl: the chosen thread is NextOf(Requeued(st, q)).
PickRegion(st, q, sl) ==
  /\ ready_queue' = RestOf(Requeued(st, q))
  /\ state' = [RequeuedState(st) EXCEPT ![NextOf(Requeued(st, q))] = "Running"]
  /\ slice' = RequeuedSlice(st, sl)

\* Mutant: queues the thread without looking at its state.
UnblockEffect_unchecked(id) ==
  /\ state' = [state EXCEPT ![id] = "Ready"]
  /\ ready_queue' = Append(ready_queue, id)
  /\ needs' = TRUE

\* unblock_task(id).
UnblockEffect(id) ==
  IF state[id] \in BlockReason
    THEN /\ state' = [state EXCEPT ![id] = "Ready"]
         /\ ready_queue' = Append(ready_queue, id)
         /\ needs' = TRUE
    ELSE UNCHANGED <<state, ready_queue, needs>>

------------------------------------------------------------------------------
(* Steps of the thread that has the CPU.                                    *)

\* Mutant: does not ask for a reschedule.
BlockTask_no_resched(t, why) ==
  /\ curr = t /\ t # Idle /\ pc[t] = "thread" /\ why \in {"Wait"}
  /\ state' = [state EXCEPT ![t] = why]
  /\ slice' = [slice EXCEPT ![t] = SliceTicks]
  /\ pc' = [pc EXCEPT ![t] = "load"]
  /\ UNCHANGED <<threads, ready_queue, left, curr, needs, next>>

\* block_task and block_task_drop_lock up to the end of their locked region.
BlockTask(t, why) ==
  /\ curr = t /\ t # Idle /\ pc[t] = "thread" /\ why \in {"Wait"}
  /\ state' = [state EXCEPT ![t] = why]
  /\ slice' = [slice EXCEPT ![t] = SliceTicks]
  /\ needs' = TRUE
  /\ pc' = [pc EXCEPT ![t] = "load"]
  /\ UNCHANGED <<threads, ready_queue, left, curr, next>>

\* nano_sleep for d ticks; it returns at once when the time has passed already.
NanoSleep(t, d) ==
  /\ curr = t /\ t \in Procs /\ pc[t] = "thread" /\ d > 0
  /\ state' = [state EXCEPT ![t] = "Sleep"]
  /\ left' = [left EXCEPT ![t] = d]
  /\ slice' = [slice EXCEPT ![t] = SliceTicks]
  /\ needs' = TRUE
  /\ pc' = [pc EXCEPT ![t] = "load"]
  /\ UNCHANGED <<threads, ready_queue, curr, next>>

\* terminate_task: wake the cleaner in one region, block in another.
TerminateTask(t) ==
  /\ curr = t /\ t \in Procs /\ pc[t] = "thread"
  /\ UnblockEffect(Cleaner)
  /\ pc' = [pc EXCEPT ![t] = "terminate"]
  /\ UNCHANGED <<threads, slice, left, curr, next>>

BlockTerminated(t) ==
  /\ curr = t /\ pc[t] = "terminate"
  /\ state' = [state EXCEPT ![t] = "Terminated"]
  /\ slice' = [slice EXCEPT ![t] = SliceTicks]
  /\ needs' = TRUE
  /\ pc' = [pc EXCEPT ![t] = "load"]
  /\ UNCHANGED <<threads, ready_queue, left, curr, next>>

YieldSched(t) ==
  /\ curr = t /\ t # Idle /\ pc[t] = "thread"
  /\ state' = [state EXCEPT ![t] = "Ready"]
  /\ slice' = [slice EXCEPT ![t] = SliceTicks]
  /\ ready_queue' = Append(ready_queue, t)
  /\ needs' = TRUE
  /\ pc' = [pc EXCEPT ![t] = "load"]
  /\ UNCHANGED <<threads, left, curr, next>>

\* The last region of spawn_proc (the boot thread, once) and of fork.
SpawnProc(t, p) ==
  /\ curr = t /\ pc[t] = "thread" /\ state[p] = "Unborn" /\ p \in Procs
  /\ IF t = Idle THEN \A r \in Procs : state[r] = "Unborn" /\ p <= r
                 ELSE t \in Procs
  /\ threads' = Append(threads, p)
  /\ state' = [state EXCEPT ![p] = "Ready"]
  /\ ready_queue' = Append(ready_queue, p)
  /\ UNCHANGED <<slice, left, curr, needs, pc, next>>

\* switch_if_needed in thread context, step by step.
SwitchLoad(t) ==
  /\ curr = t /\ pc[t] = "load"
  /\ pc' = [pc EXCEPT ![t] = IF needs THEN "clear" ELSE "thread"]
  /\ UNCHANGED <<threads, ready_queue, state, slice, left, curr, needs, next>>

SwitchClear(t) ==
  /\ curr = t /\ pc[t] = "clear"
  /\ needs' = FALSE
  /\ pc' = [pc EXCEPT ![t] = "pick"]
  /\ UNCHANGED <<threads, ready_queue, state, slice, left, curr, next>>

SwitchPick(t) ==
  /\ curr = t /\ pc[t] = "pick"
  /\ PickRegion(state, ready_queue, slice)
  /\ next' = [next EXCEPT ![t] = NextOf(Requeued(state, ready_queue))]
  /\ pc' = [pc EXCEPT ![t] = "switch"]
  /\ UNCHANGED <<threads, left, curr, needs>>

\* switch_to_task(next_thread); t returns from it when it is switched to again.
SwitchToTask(t) ==
  /\ curr = t /\ pc[t] = "switch"
  /\ curr' = next[t]
  /\ next' = [next EXCEPT ![t] = Idle]
  /\ pc' = [pc EXCEPT ![t] = "thread"]
  /\ UNCHANGED <<threads, ready_queue, state, slice, left, needs>>

------------------------------------------------------------------------------
(* Interrupts, taken between two steps of the current thread.               *)

\* Mutant: a stale id, of a thread that has terminated since.
UnblockTask_stale(id) ==
  /\ state[id] \in {"Wait", "Terminated"}
  /\ UnblockEffect(id)
  /\ UNCHANGED <<threads, slice, left, curr, pc, next>>

\* unblock_task called by the keyboard, mouse or HDA handler, or by the current
\* thread: neither calls switch_if_needed afterwards.
UnblockTask(id) ==
  /\ state[id] = "Wait"
  /\ UnblockEffect(id)
  /\ UNCHANGED <<threads, slice, left, curr, pc, next>>

\* timer_interrupt_handler.  The sleepers whose time is over, in Vec order:
Woken == {t \in Range(threads) : state[t] = "Sleep" /\ left[t] <= 1}

SpawnedBefore(a, b) ==
  \E i, j \in DOMAIN threads : i < j /\ threads[i] = a /\ threads[j] = b

WakeOrders(S) ==
  {w \in [1..Cardinality(S) -> S] :
     /\ Range(w) = S
     /\ \A i, j \in DOMAIN w : i < j => SpawnedBefore(w[i], w[j])}

SliceOver == curr # Idle /\ slice[curr] <= 1

TickQueue(w) ==
  IF SliceOver THEN Append(ready_queue \o w, curr) ELSE ready_queue \o w

TickState ==
  [t \in ThreadId |->
     IF t \in Woken \/ (SliceOver /\ t = curr) THEN "Ready" ELSE state[t]]

\* Mutant: the slice is not refilled when it is over.
TickSlice_no_refill ==
  IF curr = Idle THEN slice ELSE [slice EXCEPT ![curr] = @ - 1]

TickSlice ==
  IF curr = Idle THEN slice
  ELSE [slice EXCEPT ![curr] = IF SliceOver THEN SliceTicks ELSE @ - 1]

\* Mutant: the idle thread is not preempted for a queued thread.
TickNeeds_not_idle(w) == needs \/ Woken # {} \/ SliceOver

TickNeeds(w) ==
  \/ needs \/ Woken # {} \/ SliceOver
  \/ curr = Idle /\ TickQueue(w) # <<>>

\* Real time: the few instructions of switch_if_needed do not last until the end
\* of a slice (100 ms); ticks before that may fall anywhere in them.
WindowFitsSlice == pc[curr] \in Window => ~SliceOver

\* The handler ends with switch_if_needed, interrupts still off: a switch from
\* here is part of the step, and the interrupted thread keeps its pc.
TimerTick ==
  /\ WindowFitsSlice
  /\ left' = [t \in ThreadId |->
                IF state[t] = "Sleep" /\ left[t] > 0 THEN left[t] - 1 ELSE left[t]]
  /\ needs' = FALSE
  /\ \E w \in WakeOrders(Woken) :
       IF TickNeeds(w)
         THEN /\ PickRegion(TickState, TickQueue(w), TickSlice)
              /\ curr' = NextOf(Requeued(TickState, TickQueue(w)))
         ELSE /\ ready_queue' = TickQueue(w)
              /\ state' = TickState
              /\ slice' = TickSlice
              /\ curr' = curr
  /\ UNCHANGED <<threads, pc, next>>

------------------------------------------------------------------------------
\* What a thread inside the scheduler does next without waiting for anybody.
SwitchStep ==
  \E t \in ThreadId :
    \/ BlockTerminated(t)
    \/ SwitchLoad(t)
    \/ SwitchClear(t)
    \/ SwitchPick(t)
    \/ SwitchToTask(t)

Next ==
  \/ \E t \in ThreadId :
       \/ BlockTask(t, "Wait")
       \/ \E d \in 1..MaxSleep : NanoSleep(t, d)
       \/ TerminateTask(t)
       \/ YieldSched(t)
       \/ \E p \in Procs : SpawnProc(t, p)
       \/ UnblockTask(t)
  \/ SwitchStep
  \/ TimerTick

Spec == Init /\ [][Next]_vars

\* The PIT keeps ticking and the CPU keeps executing; what a thread asks for, and
\* when a device interrupts, is up to them.
FairSpec == Spec /\ WF_vars(TimerTick) /\ WF_vars(SwitchStep)

------------------------------------------------------------------------------
(* Correctness.                                                             *)

TypeOK ==
  /\ threads \in Seq(ThreadId) /\ ready_queue \in Seq(ThreadId)
  /\ state \in [ThreadId -> ThreadState]
  /\ slice \in [ThreadId -> 1..SliceTicks]
  /\ left \in [ThreadId -> 0..MaxSleep]
  /\ curr \in ThreadId /\ needs \in BOOLEAN
  /\ pc \in [ThreadId -> {"thread", "terminate"} \cup Window]
  /\ next \in [ThreadId -> ThreadId]

\* The ready queue holds each Ready thread exactly once and nothing else, and
\* only ids of Scheduler.threads: pick_next_thread never panics with "thread not
\* found" and never dispatches a blocked or an already running thread.  (The
\* cleaner is born Ready and is never queued.)
QueueDiscipline ==
  /\ IsInjective(ready_queue)
  /\ Range(ready_queue) = {t \in ThreadId \ {Cleaner} : state[t] = "Ready"}
  /\ Range(ready_queue) \subseteq Range(threads)

\* block_task, yield_sched and nano_sleep return only to a thread that has been
\* unblocked and dispatched: a thread that executes its own code is Running, in
\* whatever windows of switch_if_needed ticks and wakeups fell.
OnlyRunningExecutes == pc[curr] \in {"thread", "terminate"} => state[curr] = "Running"

\* Round robin: whoever leaves the ready queue, everybody who was ahead of them
\* has left it in an earlier step.
NoOvertaking ==
  [][\A i, j \in DOMAIN ready_queue :
       i < j /\ ready_queue[j] \notin Range(ready_queue')
         => ready_queue[i] \notin Range(ready_queue')]_vars

\* switch.s: "Caller is expected to disable IRQs before calling" switch_to_task.
\* If callers did, a thread that has picked its successor would keep the CPU
\* until it has switched to it.
SwitchNotInterrupted == \A t \in ThreadId : pc[t] = "switch" => curr = t

\* No starvation: in every execution that meets the contract of switch_to_task
\* (SwitchNotInterrupted), each Ready thread but the cleaner eventually has
\* the CPU.
ReadyGetsCpu ==
  []SwitchNotInterrupted
    => \A t \in ThreadId \ {Cleaner} : state[t] = "Ready" ~> curr = t

\* The abstract life of a thread (Threads.tla).
ThreadLife(t) ==
  CASE state[t] = "Unborn" -> "unborn"
    [] state[t] \in {"Ready", "Running"} -> "runnable"
    [] state[t] = "Terminated" -> "dead"
    [] OTHER -> state[t]

Lives == [t \in ThreadId |-> ThreadLife(t)]

Abstract == INSTANCE Threads WITH Reasons <- {"Paused", "Sleep", "Wait"}, thr <- Lives

\* The scheduler implements Threads.tla: a tick, a switch or a yield changes no
\* thread's life, a blocked thread becomes runnable only by unblock_task or by its
\* sleep expiring, and a terminated thread never runs again.
ImplementsThreads == Abstract!ThrSpec
==============================================================================
