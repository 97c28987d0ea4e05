------------------------------- MODULE IrqLock -------------------------------
(***************************************************************************)
(* SimpleIrqLock (kernel/src/task/lock.rs): the lock of the scheduler.  On *)
(* one CPU it excludes by masking interrupts; guards nest by a counter     *)
(* that is global, as is the memory of whether interrupts were enabled     *)
(* when the outermost guard was taken.                                     *)
(*                                                                         *)
(* One step here is one access to the interrupt flag or to a static.  Each *)
(* thread runs at the level "thread" or, from an interrupt to its iret, at *)
(* the level "irq"; both levels take guards.  Threads are switched with no *)
(* guard of the running level held: at the end of the timer handler, or in *)
(* thread context by block_task and yield_sched.                           *)
(*                                                                         *)
(* pc: "run"      outside lock() and drop()                                *)
(*     "cli"      lock(): IF read, about to disable interrupts             *)
(*     "inc"      lock(): about to increment IRQ_DISABLE_COUNTER           *)
(*     "save"     lock(): was the first, about to store WAS_IRQ_ENABLED    *)
(*     "restore"  drop(): was the last, about to load WAS_IRQ_ENABLED      *)
(***************************************************************************)
EXTENDS Naturals

CONSTANTS
  Thread,    \* threads that share the CPU
  Main,      \* MAIN_THREAD: boots with interrupts off
  MaxDepth   \* bound: how deep guards nest in one context

ASSUME IrqLockAssumption == Main \in Thread /\ MaxDepth \in Nat

VARIABLES
  IF_,       \* RFLAGS.IF of the CPU
  counter,   \* IRQ_DISABLE_COUNTER
  was_en,    \* WAS_IRQ_ENABLED
  cur,       \* the thread that has the CPU
  in_irq,    \* in_irq[t]: t is inside an interrupt handler
  pc,        \* pc[t][l], see above
  was,       \* was[t][l]: the local was_interrupt_enabled of lock()
  depth,     \* depth[t][l]: guards alive in that context
  flags,     \* flags[t]: RFLAGS.IF on the stack of a thread switched out
  entry      \* history: IF when the context called its outermost lock()

vars == <<IF_, counter, was_en, cur, in_irq, pc, was, depth, flags, entry>>

Level == {"thread", "irq"}
Lvl(t) == IF in_irq[t] THEN "irq" ELSE "thread"

Init ==
  /\ IF_ = FALSE /\ counter = 0 /\ was_en = FALSE /\ cur = Main
  /\ in_irq = [t \in Thread |-> FALSE]
  /\ pc = [t \in Thread |-> [l \in Level |-> "run"]]
  /\ was = [t \in Thread |-> [l \in Level |-> FALSE]]
  /\ depth = [t \in Thread |-> [l \in Level |-> 0]]
  /\ flags = [t \in Thread |-> TRUE]      \* rflags 0x202 on a new stack
  /\ entry = [t \in Thread |-> [l \in Level |-> FALSE]]

------------------------------------------------------------------------------
(* lock() and drop() in the running context <<t, l>>.                       *)

Running(t, l) == cur = t /\ l = Lvl(t)

LockReadFlags(t, l) ==
  /\ Running(t, l) /\ pc[t][l] = "run" /\ depth[t][l] < MaxDepth
  /\ was' = [was EXCEPT ![t][l] = IF_]
  /\ entry' = IF depth[t][l] = 0 THEN [entry EXCEPT ![t][l] = IF_] ELSE entry
  /\ pc' = [pc EXCEPT ![t][l] = "cli"]
  /\ UNCHANGED <<IF_, counter, was_en, cur, in_irq, depth, flags>>

\* Mutant: interrupts stay as they are.
LockDisable_no_cli(t, l) ==
  /\ Running(t, l) /\ pc[t][l] = "cli"
  /\ pc' = [pc EXCEPT ![t][l] = "inc"]
  /\ UNCHANGED <<IF_, counter, was_en, cur, in_irq, was, depth, flags, entry>>

LockDisable(t, l) ==
  /\ Running(t, l) /\ pc[t][l] = "cli"
  /\ IF_' = FALSE
  /\ pc' = [pc EXCEPT ![t][l] = "inc"]
  /\ UNCHANGED <<counter, was_en, cur, in_irq, was, depth, flags, entry>>

\* Mutant: a nested lock() overwrites WAS_IRQ_ENABLED too.
LockCount_always_save(t, l) ==
  /\ Running(t, l) /\ pc[t][l] = "inc"
  /\ counter' = counter + 1
  /\ depth' = [depth EXCEPT ![t][l] = @ + 1]
  /\ pc' = [pc EXCEPT ![t][l] = "save"]
  /\ UNCHANGED <<IF_, was_en, cur, in_irq, was, flags, entry>>

LockCount(t, l) ==
  /\ Running(t, l) /\ pc[t][l] = "inc"
  /\ counter' = counter + 1
  /\ depth' = [depth EXCEPT ![t][l] = @ + 1]
  /\ pc' = [pc EXCEPT ![t][l] = IF counter = 0 THEN "save" ELSE "run"]
  /\ UNCHANGED <<IF_, was_en, cur, in_irq, was, flags, entry>>

LockSave(t, l) ==
  /\ Running(t, l) /\ pc[t][l] = "save"
  /\ was_en' = was[t][l]
  /\ pc' = [pc EXCEPT ![t][l] = "run"]
  /\ UNCHANGED <<IF_, counter, cur, in_irq, was, depth, flags, entry>>

\* Mutant: the counter is not decremented by the last guard.
DropCount_keep_last(t, l) ==
  /\ Running(t, l) /\ pc[t][l] = "run" /\ depth[t][l] > 0
  /\ counter' = IF counter = 1 THEN 1 ELSE counter - 1
  /\ depth' = [depth EXCEPT ![t][l] = @ - 1]
  /\ pc' = [pc EXCEPT ![t][l] = IF counter = 1 THEN "restore" ELSE "run"]
  /\ UNCHANGED <<IF_, was_en, cur, in_irq, was, flags, entry>>

\* Mutant: a guard is dropped that was never taken.
DropCount_twice(t, l) ==
  /\ Running(t, l) /\ pc[t][l] = "run"
  /\ counter' = counter - 1
  /\ depth' = [depth EXCEPT ![t][l] = @ - 1]
  /\ pc' = [pc EXCEPT ![t][l] = IF counter = 1 THEN "restore" ELSE "run"]
  /\ UNCHANGED <<IF_, was_en, cur, in_irq, was, flags, entry>>

DropCount(t, l) ==
  /\ Running(t, l) /\ pc[t][l] = "run" /\ depth[t][l] > 0
  /\ counter' = counter - 1
  /\ depth' = [depth EXCEPT ![t][l] = @ - 1]
  /\ pc' = [pc EXCEPT ![t][l] = IF counter = 1 THEN "restore" ELSE "run"]
  /\ UNCHANGED <<IF_, was_en, cur, in_irq, was, flags, entry>>

DropRestore(t, l) ==
  /\ Running(t, l) /\ pc[t][l] = "restore"
  /\ IF_' = (IF_ \/ was_en)
  /\ pc' = [pc EXCEPT ![t][l] = "run"]
  /\ UNCHANGED <<counter, was_en, cur, in_irq, was, depth, flags, entry>>

------------------------------------------------------------------------------
(* The rest of the kernel, as far as it touches IF.                         *)

\* Outside guards, threads mask and unmask interrupts: the end of boot, the entry
\* of the system call gate and syscall_handler's enable, without_interrupts.
SetFlag(t, b) ==
  /\ Running(t, "thread") /\ pc[t]["thread"] = "run" /\ depth[t]["thread"] = 0
  /\ IF_' = b
  /\ UNCHANGED <<counter, was_en, cur, in_irq, pc, was, depth, flags, entry>>

\* The CPU takes an interrupt between any two instructions with IF set.
Interrupt ==
  /\ IF_ /\ ~in_irq[cur]
  /\ IF_' = FALSE
  /\ in_irq' = [in_irq EXCEPT ![cur] = TRUE]
  /\ UNCHANGED <<counter, was_en, cur, pc, was, depth, flags, entry>>

Iret ==
  /\ in_irq[cur] /\ pc[cur]["irq"] = "run" /\ depth[cur]["irq"] = 0
  /\ IF_' = TRUE
  /\ in_irq' = [in_irq EXCEPT ![cur] = FALSE]
  /\ UNCHANGED <<counter, was_en, cur, pc, was, depth, flags, entry>>

\* The running context calls switch_if_needed: it has dropped its own guards.
MaySchedule(t) == cur = t /\ pc[t][Lvl(t)] = "run" /\ depth[t][Lvl(t)] = 0

\* switch_to_task: pushfq on the old stack, popfq from the new one.  The panic of
\* switch_if_needed is the case counter # 0 (NotWhileAtomic).
SwitchToTask(t, u) ==
  /\ MaySchedule(t) /\ u # t /\ counter = 0
  /\ flags' = [flags EXCEPT ![t] = IF_]
  /\ IF_' = flags[u]
  /\ cur' = u
  /\ UNCHANGED <<counter, was_en, in_irq, pc, was, depth, entry>>

Next ==
  \/ \E t \in Thread, l \in Level :
       \/ LockReadFlags(t, l)
       \/ LockDisable(t, l)
       \/ LockCount(t, l)
       \/ LockSave(t, l)
       \/ DropCount(t, l)
       \/ DropRestore(t, l)
  \/ \E t \in Thread, b \in BOOLEAN : SetFlag(t, b)
  \/ \E t, u \in Thread : SwitchToTask(t, u)
  \/ Interrupt
  \/ Iret

Spec == Init /\ [][Next]_vars

------------------------------------------------------------------------------
(* Correctness.                                                             *)

TypeOK ==
  /\ IF_ \in BOOLEAN /\ counter \in Nat /\ was_en \in BOOLEAN /\ cur \in Thread
  /\ in_irq \in [Thread -> BOOLEAN] /\ flags \in [Thread -> BOOLEAN]
  /\ pc \in [Thread -> [Level -> {"run", "cli", "inc", "save", "restore"}]]
  /\ was \in [Thread -> [Level -> BOOLEAN]]
  /\ depth \in [Thread -> [Level -> 0..MaxDepth]]
  /\ entry \in [Thread -> [Level -> BOOLEAN]]

\* A region under SCHEDULER.lock() is atomic: while any context holds a guard, its
\* thread has the CPU, that context is the one running, and interrupts are off.
GuardedIsAtomic ==
  \A t \in Thread, l \in Level : depth[t][l] > 0 => Running(t, l) /\ ~IF_

\* The panic "BUG: scheduling while atomic!" is unreachable: whenever a context
\* without guards of its own reaches switch_if_needed, no context has any.
NotWhileAtomic == \A t \in Thread : MaySchedule(t) => counter = 0

\* Dropping the outermost guard puts the interrupt flag back to what it was when
\* that guard's lock() was called, whatever nested guards, interrupt handlers and
\* other threads stored in the shared WAS_IRQ_ENABLED in between.
FlagRestored ==
  [][\A t \in Thread, l \in Level : DropRestore(t, l) => IF_' = entry[t][l]]_vars
==============================================================================
