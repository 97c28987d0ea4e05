------------------------------- MODULE Process -------------------------------
(***************************************************************************)
(* Processes: fork, exec, wait_pid, exit, the boot-time spawn_proc and the *)
(* scans of the process table by the wakers of pipes and terminals and by  *)
(* the compositor (task/proc.rs, syscall.rs, fs/vfs/pipe.rs, tty.rs,       *)
(* main.rs), with the spin locks they take: PROC, the process table, one   *)
(* per process control block (PCB), and the mutexes of the Files, which    *)
(* read and write (fs/vfs/sys.rs) hold even asleep.                        *)
(*                                                                         *)
(* Threads.tla stands for the scheduler: a SCHEDULER region is one step,   *)
(* and any runnable thread may take the next step.  A thread that finds a  *)
(* spin lock taken has no step until it is free.  A process and its thread *)
(* have the same id.  A thread control block, once pushed, stays in        *)
(* Scheduler.threads (the cleaner never runs, see Scheduler.tla), so       *)
(* thread_for_proc(pid) finds a thread exactly when thr[pid] # "unborn".   *)
(***************************************************************************)
EXTENDS Threads, Naturals, Sequences, Functions

CONSTANTS
  Main,        \* the boot thread, which spawns the shell
  Executor,    \* async_executor_task: runs TTY::wakeup_readers
  Compositor,  \* compositor_task
  FirstPid, LastPid,  \* the pids that PID hands out; LastPid is a bound
  Files        \* the Files of the shell, which fork hands down to every process

Pids == FirstPid..LastPid
None == 0      \* no lock holder, no parent, no File

ASSUME ProcessAssumption ==
  /\ FirstPid \in Nat /\ LastPid \in Nat /\ 0 < FirstPid /\ FirstPid <= LastPid
  /\ ThreadId = {Main, Executor, Compositor} \cup Pids
  /\ {Main, Executor, Compositor} \cap Pids = {} /\ None \notin ThreadId
  /\ Main # Executor /\ Main # Compositor /\ Executor # Compositor
  /\ Reasons = {"WaitThread", "WaitPipe", "WaitStdin", "CompositorWait"}
  /\ None \notin Files

VARIABLES
  procs,      \* PROC: pids in the order of the Vec
  proc_lock,  \* who holds the lock of PROC
  pcb_lock,   \* pcb_lock[p]: who holds the lock of p's PCB
  pid_count,  \* PID: the next pid
  parent,     \* parent[p] of p's PCB
  children,   \* children[p] of p's PCB
  waits_for,  \* the pid of BlockReason::WaitThread(pid) while p is so blocked
  pc,         \* the next step of each thread; "user" when outside the kernel
  child,      \* fork and spawn_proc: the pid being created
  scan,       \* loops over PROC: the index reached
  to_wake,    \* wakers: threads found blocked; exit: the parent to notify
  file_lock,  \* file_lock[f]: who holds the mutex of the File f
  file        \* file[p]: the File that p's call is about

pvars == <<procs, proc_lock, pcb_lock, pid_count, parent, children, waits_for,
           pc, child, scan, to_wake, file_lock, file>>
files == <<file_lock, file>>
vars == <<thr, pvars>>

\* The kernel threads run, the boot thread is about to spawn the shell; the
\* compositor has painted the wallpaper and is about to block.
Init ==
  /\ thr = [t \in ThreadId |-> IF t \in Pids THEN "unborn" ELSE "runnable"]
  /\ procs = << >>
  /\ proc_lock = None
  /\ pcb_lock = [p \in Pids |-> None]
  /\ pid_count = FirstPid + 1
  /\ parent = [p \in Pids |-> None]
  /\ children = [p \in Pids |-> {}]
  /\ waits_for = [p \in Pids |-> None]
  /\ pc = [t \in ThreadId |-> IF t = Main THEN "spawn_proc"
                              ELSE IF t = Compositor THEN "block" ELSE "user"]
  /\ child = [t \in ThreadId |-> IF t = Main THEN FirstPid ELSE None]
  /\ scan = [t \in ThreadId |-> 0]
  /\ to_wake = [t \in ThreadId |-> {}]
  /\ file_lock = [f \in Files |-> None]
  /\ file = [p \in Pids |-> None]

At(t, l) == thr[t] = "runnable" /\ pc[t] = l
Goto(t, l) == pc' = [pc EXCEPT ![t] = l]

\* Vec::remove(index): the entries behind it move up.
Remove(v, index) ==
  [i \in 1..(Len(v) - 1) |-> IF i < index THEN v[i] ELSE v[i + 1]]

------------------------------------------------------------------------------
(* spawn_proc, called by the boot thread with the shell (pid FirstPid).     *)

\* Mutant: pushes the caller's id.
SpawnPushProc_caller ==
  /\ At(Main, "spawn_proc") /\ proc_lock = None
  /\ procs' = Append(procs, Main)
  /\ Goto(Main, "spawn_sched")
  /\ UNCHANGED <<thr, proc_lock, pcb_lock, pid_count, parent, children, waits_for,
                 child, scan, to_wake, files>>

SpawnPushProc ==
  /\ At(Main, "spawn_proc") /\ proc_lock = None
  /\ procs' = Append(procs, child[Main])
  /\ Goto(Main, "spawn_sched")
  /\ UNCHANGED <<thr, proc_lock, pcb_lock, pid_count, parent, children, waits_for,
                 child, scan, to_wake, files>>

SpawnPushThread ==
  /\ At(Main, "spawn_sched")
  /\ Spawn(child[Main])
  /\ Goto(Main, "hlt_loop")
  /\ UNCHANGED <<procs, proc_lock, pcb_lock, pid_count, parent, children, waits_for,
                 child, scan, to_wake, files>>

------------------------------------------------------------------------------
(* fork: the caller's PCB stays locked from ForkLock to the return.         *)

\* Mutant: locks the PCB already for the pid, and fork locks it again.
ForkPid_lock(p) ==
  /\ At(p, "user") /\ p \in Pids /\ pid_count \in Pids /\ pcb_lock[p] = None
  /\ child' = [child EXCEPT ![p] = pid_count]
  /\ pid_count' = pid_count + 1
  /\ pcb_lock' = [pcb_lock EXCEPT ![p] = p]
  /\ Goto(p, "fork_lock")
  /\ UNCHANGED <<thr, procs, proc_lock, parent, children, waits_for, scan, to_wake, files>>

ForkPid(p) ==
  /\ At(p, "user") /\ p \in Pids /\ pid_count \in Pids
  /\ child' = [child EXCEPT ![p] = pid_count]
  /\ pid_count' = pid_count + 1
  /\ Goto(p, "fork_lock")
  /\ UNCHANGED <<thr, procs, proc_lock, pcb_lock, parent, children, waits_for, scan, to_wake, files>>

ForkLock(p) ==
  /\ At(p, "fork_lock") /\ pcb_lock[p] = None
  /\ pcb_lock' = [pcb_lock EXCEPT ![p] = p]
  /\ parent' = [parent EXCEPT ![child[p]] = p]
  /\ children' = [children EXCEPT ![p] = @ \cup {child[p]}]
  /\ Goto(p, "fork_proc")
  /\ UNCHANGED <<thr, procs, proc_lock, pid_count, waits_for, child, scan, to_wake, files>>

\* Mutant: drops the PCB before the child's thread is pushed.
ForkPushProc_unlock(p) ==
  /\ At(p, "fork_proc") /\ proc_lock = None
  /\ procs' = Append(procs, child[p])
  /\ pcb_lock' = [pcb_lock EXCEPT ![p] = None]
  /\ Goto(p, "fork_sched")
  /\ UNCHANGED <<thr, proc_lock, pid_count, parent, children, waits_for,
                 child, scan, to_wake, files>>

ForkPushProc(p) ==
  /\ At(p, "fork_proc") /\ proc_lock = None
  /\ procs' = Append(procs, child[p])
  /\ Goto(p, "fork_sched")
  /\ UNCHANGED <<thr, proc_lock, pcb_lock, pid_count, parent, children, waits_for,
                 child, scan, to_wake, files>>

ForkPushThread(p) ==
  /\ At(p, "fork_sched")
  /\ Spawn(child[p])
  /\ Goto(p, "fork_unlock")
  /\ UNCHANGED <<procs, proc_lock, pcb_lock, pid_count, parent, children, waits_for,
                 child, scan, to_wake, files>>

ForkReturn(p) ==
  /\ At(p, "fork_unlock")
  /\ pcb_lock' = [pcb_lock EXCEPT ![p] = None]
  /\ child' = [child EXCEPT ![p] = None]
  /\ Goto(p, "user")
  /\ UNCHANGED <<thr, procs, proc_lock, pid_count, parent, children, waits_for, scan, to_wake, files>>

------------------------------------------------------------------------------
(* exec, and every other system call that takes the caller's PCB and then   *)
(* waits for nothing that a step below holds: open, close, dup, dup2, pipe, *)
(* getcwd, chdir, alloc_back_buffer.                                        *)

ExecLock(p) ==
  /\ At(p, "user") /\ p \in Pids /\ pcb_lock[p] = None
  /\ pcb_lock' = [pcb_lock EXCEPT ![p] = p]
  /\ Goto(p, "exec")
  /\ UNCHANGED <<thr, procs, proc_lock, pid_count, parent, children, waits_for,
                 child, scan, to_wake, files>>

ExecReturn(p) ==
  /\ At(p, "exec")
  /\ pcb_lock' = [pcb_lock EXCEPT ![p] = None]
  /\ Goto(p, "user")
  /\ UNCHANGED <<thr, procs, proc_lock, pid_count, parent, children, waits_for,
                 child, scan, to_wake, files>>

------------------------------------------------------------------------------
(* wait_pid(pid): look the child up under the PCB lock, then block.         *)

\* Mutant: the guard of the PCB is alive when the thread blocks.
WaitPid_keep_lock(p, pid) ==
  /\ At(p, "user") /\ p \in Pids /\ pid \in Pids /\ pcb_lock[p] = None
  /\ pid \in children[p]
  /\ pcb_lock' = [pcb_lock EXCEPT ![p] = p]
  /\ waits_for' = [waits_for EXCEPT ![p] = pid]
  /\ Goto(p, "wait_block")
  /\ UNCHANGED <<thr, procs, proc_lock, pid_count, parent, children, child, scan, to_wake, files>>

WaitPid(p, pid) ==
  /\ At(p, "user") /\ p \in Pids /\ pid \in Pids /\ pcb_lock[p] = None
  /\ pid \in children[p]            \* otherwise it returns at once
  /\ waits_for' = [waits_for EXCEPT ![p] = pid]
  /\ Goto(p, "wait_block")
  /\ UNCHANGED <<thr, procs, proc_lock, pcb_lock, pid_count, parent, children,
                 child, scan, to_wake, files>>

WaitBlock(p) ==
  /\ At(p, "wait_block")
  /\ Block(p, "WaitThread")
  /\ Goto(p, "wait_return")
  /\ UNCHANGED <<procs, proc_lock, pcb_lock, pid_count, parent, children, waits_for,
                 child, scan, to_wake, files>>

WaitReturn(p) ==
  /\ At(p, "wait_return")
  /\ waits_for' = [waits_for EXCEPT ![p] = None]
  /\ Goto(p, "user")
  /\ UNCHANGED <<thr, procs, proc_lock, pcb_lock, pid_count, parent, children,
                 child, scan, to_wake, files>>

------------------------------------------------------------------------------
(* Calls on a File.  fstat, lseek, getdents, ioctl and fcntl lock the PCB,  *)
(* and then the File with the PCB held.                                     *)

FileCall(p, f) ==
  /\ At(p, "user") /\ p \in Pids /\ pcb_lock[p] = None
  /\ pcb_lock' = [pcb_lock EXCEPT ![p] = p]
  /\ file' = [file EXCEPT ![p] = f]
  /\ Goto(p, "file_lock")
  /\ UNCHANGED <<thr, procs, proc_lock, pid_count, parent, children, waits_for,
                 child, scan, to_wake, file_lock>>

FileLock(p) ==
  /\ At(p, "file_lock") /\ file_lock[file[p]] = None
  /\ file_lock' = [file_lock EXCEPT ![file[p]] = p]
  /\ Goto(p, "file_call")
  /\ UNCHANGED <<thr, procs, proc_lock, pcb_lock, pid_count, parent, children, waits_for,
                 child, scan, to_wake, file>>

FileReturn(p) ==
  /\ At(p, "file_call")
  /\ file_lock' = [file_lock EXCEPT ![file[p]] = None]
  /\ pcb_lock' = [pcb_lock EXCEPT ![p] = None]
  /\ file' = [file EXCEPT ![p] = None]
  /\ Goto(p, "user")
  /\ UNCHANGED <<thr, procs, proc_lock, pid_count, parent, children, waits_for,
                 child, scan, to_wake>>

\* sys_read and sys_write look the File up under the PCB lock, drop that, and hold
\* the File to the end.
IoCall(p, f) ==
  /\ At(p, "user") /\ p \in Pids /\ pcb_lock[p] = None
  /\ file' = [file EXCEPT ![p] = f]
  /\ Goto(p, "io_lock")
  /\ UNCHANGED <<thr, procs, proc_lock, pcb_lock, pid_count, parent, children, waits_for,
                 child, scan, to_wake, file_lock>>

IoLock(p) ==
  /\ At(p, "io_lock") /\ file_lock[file[p]] = None
  /\ file_lock' = [file_lock EXCEPT ![file[p]] = p]
  /\ Goto(p, "io")
  /\ UNCHANGED <<thr, procs, proc_lock, pcb_lock, pid_count, parent, children, waits_for,
                 child, scan, to_wake, file>>

\* A pipe or terminal operation that has to wait; it looks again once it is woken.
IoBlock(p, why) ==
  /\ At(p, "io")
  /\ Block(p, why)
  /\ UNCHANGED pvars

IoReturn(p) ==
  /\ At(p, "io")
  /\ file_lock' = [file_lock EXCEPT ![file[p]] = None]
  /\ file' = [file EXCEPT ![p] = None]
  /\ Goto(p, "user")
  /\ UNCHANGED <<thr, procs, proc_lock, pcb_lock, pid_count, parent, children, waits_for,
                 child, scan, to_wake>>

------------------------------------------------------------------------------
(* sys_exit.                                                                *)

ExitLockProc(p) ==
  /\ At(p, "user") /\ p \in Pids /\ proc_lock = None
  /\ proc_lock' = p
  /\ scan' = [scan EXCEPT ![p] = 1]
  /\ Goto(p, "exit_find")
  /\ UNCHANGED <<thr, procs, pcb_lock, pid_count, parent, children, waits_for, child, to_wake, files>>

\* position(|q| q.lock().pid == p): each PCB is locked to read its pid.
ExitFindNext(p) ==
  /\ At(p, "exit_find") /\ scan[p] \in DOMAIN procs /\ procs[scan[p]] # p
  /\ pcb_lock[procs[scan[p]]] = None
  /\ scan' = [scan EXCEPT ![p] = @ + 1]
  /\ UNCHANGED <<thr, procs, proc_lock, pcb_lock, pid_count, parent, children,
                 waits_for, pc, child, to_wake, files>>

\* Mutant: removes the first entry instead of the one found.
ExitRemove_first(p) ==
  /\ At(p, "exit_find") /\ scan[p] \in DOMAIN procs /\ procs[scan[p]] = p
  /\ pcb_lock[p] = None
  /\ procs' = Remove(procs, 1)
  /\ proc_lock' = None
  /\ scan' = [scan EXCEPT ![p] = 0]
  /\ Goto(p, IF parent[p] = None THEN "exit_term" ELSE "exit_check")
  /\ UNCHANGED <<thr, pcb_lock, pid_count, parent, children, waits_for, child, to_wake, files>>

\* remove(index) and the end of the block that holds PROC.
ExitRemove(p) ==
  /\ At(p, "exit_find") /\ scan[p] \in DOMAIN procs /\ procs[scan[p]] = p
  /\ pcb_lock[p] = None
  /\ procs' = Remove(procs, scan[p])
  /\ proc_lock' = None
  /\ scan' = [scan EXCEPT ![p] = 0]
  /\ Goto(p, IF parent[p] = None THEN "exit_term" ELSE "exit_check")
  /\ UNCHANGED <<thr, pcb_lock, pid_count, parent, children, waits_for, child, to_wake, files>>

\* Mutant: wakes a parent that waits for any of its children.
ExitCheckParent_any(p) ==
  /\ At(p, "exit_check")
  /\ LET waiting == thr[parent[p]] = "WaitThread"
     IN  /\ to_wake' = [to_wake EXCEPT ![p] = IF waiting THEN {parent[p]} ELSE {}]
         /\ Goto(p, IF waiting THEN "exit_notify" ELSE "exit_term")
  /\ UNCHANGED <<thr, procs, proc_lock, pcb_lock, pid_count, parent, children,
                 waits_for, child, scan, files>>

\* Mutant: compares the awaited pid with the parent's own.
ExitCheckParent_wrong_id(p) ==
  /\ At(p, "exit_check")
  /\ LET waiting == thr[parent[p]] = "WaitThread" /\ waits_for[parent[p]] = parent[p]
     IN  /\ to_wake' = [to_wake EXCEPT ![p] = IF waiting THEN {parent[p]} ELSE {}]
         /\ Goto(p, IF waiting THEN "exit_notify" ELSE "exit_term")
  /\ UNCHANGED <<thr, procs, proc_lock, pcb_lock, pid_count, parent, children,
                 waits_for, child, scan, files>>

ExitCheckParent(p) ==
  /\ At(p, "exit_check")
  /\ LET waiting == thr[parent[p]] = "WaitThread" /\ waits_for[parent[p]] = p
     IN  /\ to_wake' = [to_wake EXCEPT ![p] = IF waiting THEN {parent[p]} ELSE {}]
         /\ Goto(p, IF waiting THEN "exit_notify" ELSE "exit_term")
  /\ UNCHANGED <<thr, procs, proc_lock, pcb_lock, pid_count, parent, children,
                 waits_for, child, scan, files>>

ExitNotify(p) ==
  /\ At(p, "exit_notify")
  /\ thr' = Unblocked(to_wake[p])
  /\ to_wake' = [to_wake EXCEPT ![p] = {}]
  /\ Goto(p, "exit_term")
  /\ UNCHANGED <<procs, proc_lock, pcb_lock, pid_count, parent, children, waits_for,
                 child, scan, files>>

ExitTerminate(p) ==
  /\ At(p, "exit_term")
  /\ Terminate(p)
  /\ Goto(p, "dead")
  /\ UNCHANGED <<procs, proc_lock, pcb_lock, pid_count, parent, children, waits_for,
                 child, scan, to_wake, files>>

------------------------------------------------------------------------------
(* Scans of PROC: wake_pipe_sleepers (a process, inside a pipe read or      *)
(* write), wakeup_readers (the executor) and the compositor's paint loop.   *)

Scanners == Pids \cup {Executor, Compositor}

\* Mutant: wakes threads whatever they are blocked for.
WakesReason_all(t) == Status

\* The BlockReason a scanner looks for; the compositor looks for none.
WakesReason(t) ==
  IF t \in Pids THEN {"WaitPipe"} ELSE IF t = Executor THEN {"WaitStdin"} ELSE {}

ScanLockProc(t) ==
  /\ At(t, IF t \in Pids THEN "io" ELSE "user") /\ t \in Scanners /\ proc_lock = None
  /\ proc_lock' = t
  /\ scan' = [scan EXCEPT ![t] = 1]
  /\ Goto(t, "scan")
  /\ UNCHANGED <<thr, procs, pcb_lock, pid_count, parent, children, waits_for, child, to_wake, files>>

\* One iteration: lock the PCB, find the thread and read its state (for the
\* compositor: paint the back buffer).  A thread blocked for another pipe, direction
\* or terminal is passed over.
ScanNext(t) ==
  /\ At(t, "scan") /\ scan[t] \in DOMAIN procs
  /\ LET p == procs[scan[t]]
     IN  /\ pcb_lock[p] = None
         /\ t = Compositor \/ thr[p] # "unborn"
         /\ \E found \in {{}} \cup (IF thr[p] \in WakesReason(t) THEN {{p}} ELSE {}) :
              to_wake' = [to_wake EXCEPT ![t] = @ \cup found]
  /\ scan' = [scan EXCEPT ![t] = @ + 1]
  /\ UNCHANGED <<thr, procs, proc_lock, pcb_lock, pid_count, parent, children,
                 waits_for, pc, child, files>>

\* thread_for_proc(..).unwrap() on None: the panic handler never returns, and
\* never drops PROC or the PCB whose pid was looked up.
ScanPanic(t) ==
  /\ At(t, "scan") /\ t # Compositor /\ scan[t] \in DOMAIN procs
  /\ pcb_lock[procs[scan[t]]] = None /\ thr[procs[scan[t]]] = "unborn"
  /\ pcb_lock' = [pcb_lock EXCEPT ![procs[scan[t]]] = t]
  /\ Goto(t, "panic")
  /\ UNCHANGED <<thr, procs, proc_lock, pid_count, parent, children,
                 waits_for, child, scan, to_wake, files>>

\* The loop is over.  wake_pipe_sleepers unblocks all it found in one region and
\* then drops PROC; wakeup_readers drops PROC and then unblocks one by one.
ScanEnd(t) ==
  /\ At(t, "scan") /\ scan[t] = Len(procs) + 1
  /\ scan' = [scan EXCEPT ![t] = 0]
  /\ \/ /\ t \in Pids
        /\ thr' = Unblocked(to_wake[t])
        /\ to_wake' = [to_wake EXCEPT ![t] = {}]
        /\ Goto(t, "scan_unlock") /\ UNCHANGED proc_lock
     \/ /\ t \notin Pids
        /\ proc_lock' = None
        /\ Goto(t, IF t = Compositor THEN "block" ELSE "wake")
        /\ UNCHANGED <<thr, to_wake>>
  /\ UNCHANGED <<procs, pcb_lock, pid_count, parent, children, waits_for, child, files>>

ScanUnlock(t) ==
  /\ At(t, "scan_unlock")
  /\ proc_lock' = None
  /\ Goto(t, "io")
  /\ UNCHANGED <<thr, procs, pcb_lock, pid_count, parent, children, waits_for,
                 child, scan, to_wake, files>>

WakeReader(id) ==
  /\ At(Executor, "wake") /\ id \in to_wake[Executor]
  /\ thr' = Unblocked({id})
  /\ to_wake' = [to_wake EXCEPT ![Executor] = @ \ {id}]
  /\ UNCHANGED <<procs, proc_lock, pcb_lock, pid_count, parent, children, waits_for,
                 pc, child, scan, files>>

WakeEnd ==
  /\ At(Executor, "wake") /\ to_wake[Executor] = {}
  /\ Goto(Executor, "user")
  /\ UNCHANGED <<thr, procs, proc_lock, pcb_lock, pid_count, parent, children,
                 waits_for, child, scan, to_wake, files>>

CompositorBlock ==
  /\ At(Compositor, "block")
  /\ Block(Compositor, "CompositorWait")
  /\ Goto(Compositor, "user")
  /\ UNCHANGED <<procs, proc_lock, pcb_lock, pid_count, parent, children, waits_for,
                 child, scan, to_wake, files>>

\* sys_frame_ready: "we notify compositor that we are ready for a paint".
FrameReady(p) ==
  /\ At(p, "user") /\ p \in Pids
  /\ thr' = Unblocked({Compositor})
  /\ UNCHANGED pvars

------------------------------------------------------------------------------
ExitStep(p) ==
  \/ ExitFindNext(p) \/ ExitRemove(p) \/ ExitCheckParent(p) \/ ExitNotify(p) \/ ExitTerminate(p)

\* What a thread inside the kernel does next.
KernelStep(t) ==
  \/ t = Main /\ (SpawnPushProc \/ SpawnPushThread)
  \/ ForkLock(t) \/ ForkPushProc(t) \/ ForkPushThread(t) \/ ForkReturn(t)
  \/ ExecReturn(t)
  \/ WaitBlock(t) \/ WaitReturn(t)
  \/ FileLock(t) \/ FileReturn(t) \/ IoLock(t)
  \/ ExitStep(t)
  \/ ScanNext(t) \/ ScanPanic(t) \/ ScanEnd(t) \/ ScanUnlock(t)
  \/ t = Executor /\ (WakeEnd \/ \E id \in Pids : WakeReader(id))
  \/ t = Compositor /\ CompositorBlock

\* What a process asks for, the course of its reads and writes, which depends on the
\* device, and the work of the two kernel threads.
Call(t) ==
  \/ ForkPid(t) \/ ExecLock(t) \/ ExitLockProc(t) \/ ScanLockProc(t) \/ FrameReady(t)
  \/ \E pid \in Pids : WaitPid(t, pid)
  \/ \E f \in Files : FileCall(t, f) \/ IoCall(t, f)
  \/ \E why \in {"WaitPipe", "WaitStdin"} : IoBlock(t, why)
  \/ IoReturn(t)

Next == \E t \in ThreadId : KernelStep(t) \/ Call(t)

Spec == Init /\ [][Next]_vars

\* Round robin: a runnable thread with a step to take in the kernel gets the CPU.
\* Strong fairness also rules out that a spinning thread finds its lock taken at
\* every attempt: a wait that never ends under FairSpec is not a matter of luck.
FairSpec == Spec /\ \A t \in ThreadId : SF_vars(KernelStep(t))

\* The part of it that the notification of a parent depends on.
ExitFairSpec == Spec /\ \A p \in Pids : WF_vars(ExitStep(p))

------------------------------------------------------------------------------
(* Correctness.                                                             *)

TypeOK ==
  /\ thr \in [ThreadId -> Status]
  /\ procs \in Seq(Pids) /\ proc_lock \in {None} \cup ThreadId
  /\ pcb_lock \in [Pids -> {None} \cup ThreadId]
  /\ pid_count \in FirstPid..(LastPid + 1)
  /\ parent \in [Pids -> {None} \cup Pids] /\ children \in [Pids -> SUBSET Pids]
  /\ waits_for \in [Pids -> {None} \cup Pids]
  /\ child \in [ThreadId -> {None} \cup Pids]
  /\ scan \in [ThreadId -> 0..(Len(procs) + 1)]
  /\ to_wake \in [ThreadId -> SUBSET Pids]
  /\ file_lock \in [Files -> {None} \cup Pids] /\ file \in [Pids -> {None} \cup Files]

\* The entry a scanner of PROC is about to look at.
Scanning(t, p) == At(t, "scan") /\ scan[t] \in DOMAIN procs /\ procs[scan[t]] = p

\* thread_for_proc(..).unwrap() in the wakers does not panic on a forked process:
\* fork publishes the child in PROC before its thread exists, but a scanner has to
\* pass the parent's PCB, which fork keeps locked until the thread is pushed.
ForkedHasThread ==
  \A t \in Scanners, p \in Pids :
    Scanning(t, p) /\ parent[p] # None /\ pcb_lock[p] = None => thr[p] # "unborn"

\* position(..).unwrap() in sys_exit does not panic: the scan for the exiting
\* process reaches its entry, and PROC never holds a pid twice or a dead process.
ExitFindsItself ==
  /\ IsInjective(procs)
  /\ \A p \in Pids :
       /\ At(p, "exit_find") => \E i \in scan[p]..Len(procs) : procs[i] = p
       /\ thr[p] = "dead" => p \notin Range(procs)

\* No thread gives up the CPU for good, by blocking or by terminating, while it
\* holds PROC or a PCB.  (Readers and writers sleep with their File locked.)
SleepersHoldNoLock ==
  \A t \in ThreadId : thr[t] # "runnable" =>
    proc_lock # t /\ \A p \in Pids : pcb_lock[p] # t

\* Nobody is woken by a stale observation: between the look at a thread's state and
\* the unblock_task that follows, in another SCHEDULER region, the thread stays
\* blocked for the reason it was found blocked for.  In particular unblock_task,
\* which accepts any Blocked(_), never meets Blocked(Terminated).
WokenStillBlocked ==
  \A t \in ThreadId, p \in Pids : p \in to_wake[t] =>
    IF pc[t] = "exit_notify" THEN thr[p] = "WaitThread" /\ waits_for[p] = t
                             ELSE thr[p] \in {"WaitPipe", "WaitStdin"}

\* wait_pid returns only after the child it waits for has left PROC: no waker and
\* no exit of another child ends the wait.
WaitEndsAfterExit ==
  [][\A p \in Pids : thr[p] = "WaitThread" /\ thr'[p] # "WaitThread" =>
       waits_for[p] \notin Range(procs) /\ thr[waits_for[p]] # "unborn"]_vars

\* A parent that is already blocked in wait_pid when its child has left PROC is
\* woken by the check and the unblock of sys_exit, two separate SCHEDULER regions.
BlockedParentWakes ==
  \A p, c \in Pids :
    (pc[c] = "exit_check" /\ parent[c] = p /\ thr[p] = "WaitThread" /\ waits_for[p] = c)
      ~> thr[p] = "runnable"

\* Whom t waits for, or None: the holder of the lock that t spins on (inside a read or
\* a write this may be PROC), and for a thread asleep in a read, a write or wait_pid
\* the holder of PROC, which whoever is to wake it has to lock.
Awaits(t) ==
  IF t \notin ThreadId THEN None
  ELSE IF thr[t] \in {"WaitPipe", "WaitStdin", "WaitThread"} THEN proc_lock
  ELSE IF pc[t] \in {"spawn_proc", "fork_proc", "io"} THEN proc_lock
  ELSE IF pc[t] = "fork_lock" THEN pcb_lock[t]
  ELSE IF pc[t] \in {"file_lock", "io_lock"} THEN file_lock[file[t]]
  ELSE IF pc[t] \in {"exit_find", "scan"} /\ scan[t] \in DOMAIN procs
       THEN pcb_lock[procs[scan[t]]]
  ELSE None

\* Two code paths spin on a second lock with the caller's PCB locked: fork on PROC,
\* and fstat, lseek, getdents, ioctl and fcntl on a File.
SpinsWithPcb(t) == t \in Pids /\ pc[t] \in {"fork_proc", "file_lock"}

\* Whom t waits for in any other place.
Follows(t) == IF SpinsWithPcb(t) THEN None ELSE Awaits(t)

\* Every circular wait goes through one of those two code paths.  The longest chain of
\* the others: a caller waits for a File whose holder sleeps, the sleeper for the
\* holder of PROC, that one, in its scan, for the holder of a PCB, who runs.
LockChainsEnd == \A t \in ThreadId : Follows(Follows(Follows(Follows(t)))) = None

------------------------------------------------------------------------------
(* What the code says of itself and does not do.                            *)

\* syscall.rs: fork is to "return pid of forked process".
ForkReturns == \A p \in Pids : pc[p] = "fork_lock" ~> pc[p] = "user"

\* syscall.rs: sys_exit is to "notify parent": a parent that waits for a child
\* that is gone does not wait forever.
ParentIsNotified ==
  \A p, c \in Pids :
    (thr[p] = "WaitThread" /\ waits_for[p] = c /\ thr[c] = "dead") ~> thr[p] = "runnable"
==============================================================================
