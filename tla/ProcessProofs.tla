---------------------------- MODULE ProcessProofs ----------------------------
(***************************************************************************)
(* What Process guarantees for any number of processes: every safety       *)
(* property of the module, from one inductive invariant.                   *)
(***************************************************************************)
EXTENDS Process, Integers, SequenceTheorems, TLAPS

\* Steps at which a thread holds its own PCB, at which it holds PROC, and at which a
\* process has left PROC.
HoldsPcb == {"fork_proc", "fork_sched", "fork_unlock", "exec", "file_lock", "file_call"}
HoldsProc == {"exit_find", "scan", "scan_unlock", "panic"}
Gone == {"exit_check", "exit_notify", "exit_term", "dead"}

MainLabels == {"spawn_proc", "spawn_sched", "hlt_loop"}
ExecutorLabels == {"user", "scan", "wake", "panic"}
CompositorLabels == {"user", "scan", "block"}
ProcLabels == HoldsPcb \cup HoldsProc \cup Gone
                \cup {"user", "fork_lock", "wait_block", "wait_return", "io_lock", "io"}
Labels == MainLabels \cup ExecutorLabels \cup CompositorLabels \cup ProcLabels

\* Thread t may be in state s at step l.
Fit(t, s, l) ==
  /\ t = Main => l \in MainLabels
  /\ t = Executor => l \in ExecutorLabels
  /\ t = Compositor => l \in CompositorLabels
  /\ t \in Pids => l \in ProcLabels
  /\ s = "unborn" => t \in Pids /\ l = "user"
  /\ s = "dead" <=> l = "dead"
  /\ s = "WaitThread" => t \in Pids /\ l = "wait_return"
  /\ s \in {"WaitPipe", "WaitStdin"} => t \in Pids /\ l = "io"
  /\ s = "CompositorWait" => t = Compositor /\ l = "user"

\* Where a thread may sleep.
Control ==
  /\ pc \in [ThreadId -> Labels] /\ thr \in [ThreadId -> Status]
  /\ \A t \in ThreadId : Fit(t, thr[t], pc[t])

\* Who holds the locks.
Locks ==
  /\ pcb_lock \in [Pids -> {None} \cup ThreadId] /\ proc_lock \in {None} \cup ThreadId
  /\ \A t \in ThreadId : pc[t] \in HoldsProc <=> proc_lock = t
  /\ \A p \in Pids :
       /\ pc[p] \in HoldsPcb => pcb_lock[p] = p
       /\ \A t \in ThreadId :
            pcb_lock[p] = t => (t = p /\ pc[p] \in HoldsPcb) \/ pc[t] = "panic"

\* Steps at which a process has a File, and at which it holds the mutex.
HoldsFile == {"file_call", "io", "scan", "scan_unlock", "panic"}
HasFile == HoldsFile \cup {"file_lock", "io_lock"}

\* Who holds the Files.
Shared ==
  /\ file_lock \in [Files -> {None} \cup Pids] /\ file \in [Pids -> {None} \cup Files]
  /\ \A p \in Pids : pc[p] \in HasFile => file[p] \in Files
  /\ \A f \in Files, p \in Pids : file_lock[f] = p => pc[p] \in HoldsFile /\ file[p] = f

\* Thread t has found p asleep for the reason that t is to end.
Finds(t, p) ==
  \/ t \in Pids /\ pc[t] \in {"scan", "panic"} /\ thr[p] = "WaitPipe"
  \/ t = Executor /\ pc[t] \in {"scan", "wake", "panic"} /\ thr[p] = "WaitStdin"
  \/ t \in Pids /\ pc[t] = "exit_notify" /\ thr[p] = "WaitThread" /\ waits_for[p] = t

\* Whom the wakers have found.
Wakers ==
  /\ to_wake \in [ThreadId -> SUBSET Pids]
  /\ parent \in [Pids -> {None} \cup Pids] /\ waits_for \in [Pids -> {None} \cup Pids]
  /\ \A t \in ThreadId : \A p \in to_wake[t] : Finds(t, p)
  /\ \A p \in Pids : pc[p] = "exit_check" => parent[p] \in Pids

\* p is in s; s has nothing twice; p is in front of q.
In(s, p) == \E i \in 1..Len(s) : s[i] = p
Inj(s) == \A i, j \in 1..Len(s) : s[i] = s[j] => i = j
Before(s, p, q) == \A i, j \in 1..Len(s) : s[i] = p /\ s[j] = q => i < j

\* A pid that is being made, before and after its PCB is in PROC.
Creating(t) == pc[t] \in {"spawn_proc", "spawn_sched", "fork_lock", "fork_proc", "fork_sched"}
Listed(t) == pc[t] \in {"spawn_sched", "fork_sched"}

\* Pids are new when they are handed out.
Fresh ==
  /\ pid_count \in FirstPid..(LastPid + 1) /\ child \in [ThreadId -> {None} \cup Pids]
  /\ children \in [Pids -> SUBSET Pids]
  /\ \A t \in ThreadId : Creating(t) =>
       /\ child[t] \in Pids /\ child[t] < pid_count /\ thr[child[t]] = "unborn"
       /\ In(procs, child[t]) <=> Listed(t)
       /\ \A u \in ThreadId : Creating(u) /\ child[u] = child[t] => u = t
  /\ \A p \in Pids : thr[p] # "unborn" \/ In(procs, p) => p < pid_count
  /\ Creating(Main) => parent[child[Main]] = None

\* PROC has the processes that live, and those whose thread is about to be pushed.
Table ==
  /\ procs \in Seq(Pids) /\ Inj(procs)
  /\ \A p \in Pids :
       /\ thr[p] # "unborn" => (In(procs, p) <=> pc[p] \notin Gone)
       /\ thr[p] = "unborn" /\ In(procs, p) => \E t \in ThreadId : Listed(t) /\ child[t] = p

\* How far the scans are.  A process is behind its parent in PROC, and nobody gets
\* past the parent while it pushes the thread.
Scans ==
  /\ scan \in [ThreadId -> 0..(Len(procs) + 1)]
  /\ \A t \in ThreadId : pc[t] \in {"exit_find", "scan", "panic"} <=> scan[t] # 0
  /\ \A p \in Pids :
       pc[p] = "exit_find" => \E i \in 1..Len(procs) : scan[p] <= i /\ procs[i] = p
  /\ \A q \in Pids : pc[q] = "fork_sched" =>
       /\ Before(procs, q, child[q])
       /\ \A t \in ThreadId, i \in 1..Len(procs) :
            pc[t] = "scan" /\ procs[i] = q => scan[t] <= i

IInv == Control /\ Locks /\ Shared /\ Wakers /\ Fresh /\ Table /\ Scans

\* Thread ids, and why threads sleep.
LEMMA IdFacts ==
  /\ None \notin ThreadId /\ Pids \subseteq ThreadId
  /\ {Main, Executor, Compositor} \subseteq ThreadId
  /\ Main \notin Pids /\ Executor \notin Pids /\ Compositor \notin Pids
  /\ Main # Executor /\ Main # Compositor /\ Executor # Compositor
  /\ \A t \in ThreadId : t \in Pids \/ t = Main \/ t = Executor \/ t = Compositor
  /\ Reasons = {"WaitThread", "WaitPipe", "WaitStdin", "CompositorWait"}
  /\ None \notin Pids /\ None \notin Files
BY ProcessAssumption

\* PROC as a sequence.
LEMMA ProcsFacts ==
  ASSUME IInv
  PROVE  /\ procs \in Seq(Pids) /\ Inj(procs) /\ Len(procs) \in Nat
         /\ DOMAIN procs = 1..Len(procs) /\ \A i \in 1..Len(procs) : procs[i] \in Pids
<1>1. procs \in Seq(Pids) /\ Inj(procs)
  BY Zenon DEF IInv, Table
<1>2. /\ Len(procs) \in Nat /\ DOMAIN procs = 1..Len(procs)
      /\ \A i \in 1..Len(procs) : procs[i] \in Pids
  BY <1>1
<1> QED BY <1>1, <1>2

\* A step of thread t; the others stay where they are, or somebody makes them runnable.
LEMMA ControlAt ==
  ASSUME Control, NEW t \in ThreadId, pc' = [pc EXCEPT ![t] = pc'[t]], pc'[t] \in Labels,
         thr' \in [ThreadId -> Status], Fit(t, thr'[t], pc'[t]),
         \A u \in ThreadId \ {t} :
           thr'[u] = thr[u] \/ (thr[u] # "dead" /\ thr'[u] = "runnable")
  PROVE  Control'
<1>1. pc' \in [ThreadId -> Labels]
  BY DEF Control
<1>2. \A u \in ThreadId \ {t} : pc'[u] = pc[u]
  BY DEF Control
<1>3. ASSUME NEW u \in ThreadId \ {t} PROVE Fit(u, thr'[u], pc'[u])
  <2>1. Fit(u, thr[u], pc[u]) /\ pc'[u] = pc[u]
    BY <1>2 DEF Control
  <2>2. CASE thr'[u] = thr[u]
    BY <2>1, <2>2
  <2>3. CASE thr[u] # "dead" /\ thr'[u] = "runnable"
    BY <2>1, <2>3 DEF Fit
  <2> QED BY <2>2, <2>3
<1> QED BY <1>1, <1>3 DEF Control

\* What unblock_task does to the others.
LEMMA UnblockedFacts ==
  ASSUME Control, NEW S, thr' = Unblocked(S)
  PROVE  /\ thr' \in [ThreadId -> Status]
         /\ \A u \in ThreadId : \/ thr'[u] = thr[u]
                                \/ u \in S /\ thr[u] \in Reasons /\ thr'[u] = "runnable"
BY DEF Unblocked, Control, Status

\* A step of thread t that wakes others.
LEMMA UnblockControl ==
  ASSUME Control, NEW t \in ThreadId, NEW S, thr' = Unblocked(S), thr[t] = "runnable",
         pc' = [pc EXCEPT ![t] = pc'[t]], pc'[t] \in Labels, Fit(t, "runnable", pc'[t])
  PROVE  Control'
<1>1. "dead" \notin Reasons /\ "runnable" \notin Reasons
  BY IdFacts
<1>2. thr'[t] = "runnable"
  BY UnblockedFacts
<1>3. \A u \in ThreadId \ {t} :
        thr'[u] = thr[u] \/ (thr[u] # "dead" /\ thr'[u] = "runnable")
  BY <1>1, UnblockedFacts
<1> QED BY <1>2, <1>3, UnblockedFacts, ControlAt

\* Where a step of thread t leads, when it leaves the state of every thread alone.
LEMMA QuietControl ==
  ASSUME Control, NEW t \in ThreadId, thr[t] = "runnable", UNCHANGED thr,
         pc' = [pc EXCEPT ![t] = pc'[t]],
         \/ t = Main /\ pc'[t] \in MainLabels
         \/ t = Executor /\ pc'[t] \in ExecutorLabels
         \/ t = Compositor /\ pc'[t] \in CompositorLabels
         \/ t \in Pids /\ pc'[t] \in ProcLabels \ {"dead"}
  PROVE  Control'
<1>1. pc'[t] \in Labels /\ Fit(t, thr'[t], pc'[t])
  BY IdFacts DEF Fit, Labels, MainLabels, ExecutorLabels, CompositorLabels
<1> QED BY <1>1, ControlAt DEF Control

\* Which threads make which steps.
LEMMA Actors ==
  ASSUME Control, NEW t \in ThreadId
  PROVE  /\ pc[t] \in MainLabels => t = Main
         /\ pc[t] \in {"block"} => t = Compositor
         /\ pc[t] \in {"wake"} => t = Executor
         /\ pc[t] \in {"fork_lock", "wait_block", "wait_return", "exit_find", "scan_unlock",
                        "io_lock", "io"} \cup HoldsPcb \cup Gone => t \in Pids
         /\ pc[t] \in {"user", "scan"} => t \in Scanners
BY IdFacts DEF Control, Fit, MainLabels, ExecutorLabels, CompositorLabels, ProcLabels, HoldsPcb,
   HoldsProc, Gone, Scanners

\* A step of a call on a File.
FileStep(t) ==
  \/ FileLock(t) \/ FileReturn(t) \/ IoLock(t) \/ IoReturn(t)
  \/ \E f \in Files : FileCall(t, f) \/ IoCall(t, f)
  \/ \E why \in {"WaitPipe", "WaitStdin"} : IoBlock(t, why)

InFile == {"user", "file_lock", "file_call", "io_lock", "io"}

\* What such a step leaves alone.
LEMMA FileStepFacts ==
  ASSUME Control, NEW t \in ThreadId, FileStep(t)
  PROVE  /\ t \in Pids /\ thr[t] = "runnable" /\ pc[t] \in InFile /\ pc'[t] \in InFile
         /\ UNCHANGED <<procs, proc_lock, pid_count, parent, children, waits_for, child, scan,
                        to_wake>>
         /\ pc' = [pc EXCEPT ![t] = pc'[t]]
         /\ \/ thr' = thr
            \/ /\ pc'[t] = "io"
               /\ \E why \in {"WaitPipe", "WaitStdin"} : thr' = [thr EXCEPT ![t] = why]
<1>1. CASE FileLock(t) \/ FileReturn(t) \/ IoLock(t) \/ IoReturn(t)
  <2>1. t \in Pids
    BY <1>1, Actors DEF FileLock, FileReturn, IoLock, IoReturn, At, HoldsPcb
  <2> QED BY <1>1, <2>1, Zenon DEF FileLock, FileReturn, IoLock, IoReturn, At, Goto, InFile, Control
<1>2. CASE \E f \in Files : FileCall(t, f) \/ IoCall(t, f)
  BY <1>2, Zenon DEF FileCall, IoCall, At, Goto, InFile, Control
<1>3. CASE \E why \in {"WaitPipe", "WaitStdin"} : IoBlock(t, why)
  <2>1. t \in Pids
    BY <1>3, Actors DEF IoBlock, At
  <2>2. PICK why \in {"WaitPipe", "WaitStdin"} : IoBlock(t, why)
    BY <1>3
  <2>3. /\ pc[t] = "io" /\ UNCHANGED pvars /\ thr[t] = "runnable" /\ thr' = [thr EXCEPT ![t] = why]
    BY <2>2, Zenon DEF IoBlock, At, Block
  <2>4. pc' = pc /\ pc' = [pc EXCEPT ![t] = pc'[t]]
    BY <2>3 DEF pvars, Control
  <2> QED BY <2>1, <2>3, <2>4, Zenon DEF pvars, InFile
<1> QED BY <1>1, <1>2, <1>3 DEF FileStep

\* Every step leaves each thread where it may be in its state.
LEMMA StepControl ==
  ASSUME Control, [Next]_vars PROVE Control'
<1>1. ASSUME NEW t \in ThreadId, KernelStep(t), ~FileStep(t) PROVE Control'
  <2>1. CASE t = Main /\ SpawnPushProc
    BY <2>1, QuietControl, Zenon DEF SpawnPushProc, At, Goto, Control, MainLabels
  <2>2. CASE t = Main /\ SpawnPushThread
    <3>1. /\ pc' = [pc EXCEPT ![t] = pc'[t]] /\ pc'[t] = "hlt_loop" /\ thr[t] = "runnable"
          /\ \A u \in ThreadId :
               thr'[u] = thr[u] \/ (thr[u] # "dead" /\ thr'[u] = "runnable")
          /\ thr' \in [ThreadId -> Status]
      BY <2>2, Zenon DEF SpawnPushThread, At, Goto, Spawn, Control, Status
    <3>2. Fit(t, thr'[t], pc'[t]) /\ pc'[t] \in Labels
      BY <2>2, <3>1, IdFacts DEF Fit, Labels, MainLabels
    <3> QED BY <3>1, <3>2, ControlAt
  <2>3. CASE ForkLock(t) \/ ForkPushProc(t) \/ ForkReturn(t) \/ ExecReturn(t) \/ WaitReturn(t)
    <3>1. t \in Pids
      BY <2>3, Actors DEF ForkLock, ForkPushProc, ForkReturn, ExecReturn, WaitReturn, At, HoldsPcb
    <3>2. thr[t] = "runnable" /\ UNCHANGED thr /\ pc' = [pc EXCEPT ![t] = pc'[t]]
          /\ pc'[t] \in ProcLabels \ {"dead"}
      BY <2>3 DEF ForkLock, ForkPushProc, ForkReturn, ExecReturn, WaitReturn, At, Goto, Control,
         ProcLabels, HoldsPcb
    <3> QED BY <3>1, <3>2, QuietControl
  <2>4. CASE ForkPushThread(t)
    <3>1. t \in Pids
      BY <2>4, Actors DEF ForkPushThread, At, HoldsPcb
    <3>2. /\ pc' = [pc EXCEPT ![t] = pc'[t]] /\ pc'[t] = "fork_unlock" /\ thr[t] = "runnable"
          /\ \A u \in ThreadId :
               thr'[u] = thr[u] \/ (thr[u] # "dead" /\ thr'[u] = "runnable")
          /\ thr' \in [ThreadId -> Status]
      BY <2>4, Zenon DEF ForkPushThread, At, Goto, Spawn, Control, Status
    <3>3. Fit(t, thr'[t], pc'[t]) /\ pc'[t] \in Labels
      BY <3>1, <3>2, IdFacts DEF Fit, Labels, ProcLabels, HoldsPcb
    <3> QED BY <3>2, <3>3, ControlAt
  <2>5. CASE WaitBlock(t)
    <3>1. t \in Pids
      BY <2>5, Actors DEF WaitBlock, At
    <3>2. /\ pc' = [pc EXCEPT ![t] = pc'[t]] /\ pc'[t] = "wait_return" /\ thr'[t] = "WaitThread"
          /\ thr' \in [ThreadId -> Status] /\ \A u \in ThreadId \ {t} : thr'[u] = thr[u]
      BY <2>5, IdFacts DEF WaitBlock, At, Goto, Block, Control, Status
    <3>3. Fit(t, thr'[t], pc'[t]) /\ pc'[t] \in Labels
      BY <3>1, <3>2, IdFacts DEF Fit, Labels, ProcLabels
    <3> QED BY <3>2, <3>3, ControlAt
  <2>6. CASE ExitFindNext(t) \/ ExitRemove(t) \/ ExitCheckParent(t)
    <3>1. t \in Pids
      BY <2>6, Actors DEF ExitFindNext, ExitRemove, ExitCheckParent, At, Gone
    <3>2. thr[t] = "runnable" /\ UNCHANGED thr /\ pc' = [pc EXCEPT ![t] = pc'[t]]
          /\ pc'[t] \in ProcLabels \ {"dead"}
      BY <2>6 DEF ExitFindNext, ExitRemove, ExitCheckParent, At, Goto, Control, ProcLabels,
         HoldsProc, Gone
    <3> QED BY <3>1, <3>2, QuietControl
  <2>7. CASE ExitNotify(t)
    <3>1. t \in Pids
      BY <2>7, Actors DEF ExitNotify, At, Gone
    <3>2. /\ pc' = [pc EXCEPT ![t] = pc'[t]] /\ pc'[t] = "exit_term" /\ thr[t] = "runnable"
      BY <2>7 DEF ExitNotify, At, Goto, Control
    <3>3. Fit(t, "runnable", pc'[t]) /\ pc'[t] \in Labels
      BY <3>1, <3>2, IdFacts DEF Fit, Labels, ProcLabels, Gone
    <3> QED BY <2>7, <3>2, <3>3, UnblockControl DEF ExitNotify
  <2>8. CASE ExitTerminate(t)
    <3>1. t \in Pids
      BY <2>8, Actors DEF ExitTerminate, At, Gone
    <3>2. /\ pc' = [pc EXCEPT ![t] = pc'[t]] /\ pc'[t] = "dead" /\ thr'[t] = "dead"
          /\ thr' \in [ThreadId -> Status] /\ \A u \in ThreadId \ {t} : thr'[u] = thr[u]
      BY <2>8 DEF ExitTerminate, At, Goto, Terminate, Control, Status
    <3>3. Fit(t, thr'[t], pc'[t]) /\ pc'[t] \in Labels
      BY <3>1, <3>2, IdFacts DEF Fit, Labels, ProcLabels, Gone
    <3> QED BY <3>2, <3>3, ControlAt
  <2>9. CASE ScanNext(t) \/ ScanPanic(t) \/ ScanUnlock(t)
    <3>1. /\ t \in Scanners /\ (pc[t] = "scan_unlock" => t \in Pids)
      BY <2>9, Actors DEF ScanNext, ScanPanic, ScanUnlock, At, Scanners
    <3>2. /\ thr[t] = "runnable" /\ UNCHANGED thr /\ pc' = [pc EXCEPT ![t] = pc'[t]]
          /\ \/ pc'[t] = "scan" \/ (pc'[t] = "panic" /\ t # Compositor)
             \/ pc'[t] = "io" /\ pc[t] = "scan_unlock"
      BY <2>9 DEF ScanNext, ScanPanic, ScanUnlock, At, Goto, Control
    <3> QED BY <3>1, <3>2, QuietControl, IdFacts
            DEF Scanners, ProcLabels, HoldsProc, ExecutorLabels, CompositorLabels
  <2>10. CASE ScanEnd(t)
    <3>1. t \in Scanners /\ thr[t] = "runnable"
      BY <2>10, Actors DEF ScanEnd, At
    <3>2. CASE t \in Pids
      <4>1. /\ pc' = [pc EXCEPT ![t] = pc'[t]] /\ pc'[t] = "scan_unlock"
            /\ thr' = Unblocked(to_wake[t])
        BY <2>10, <3>2 DEF ScanEnd, Goto, Control
      <4>2. Fit(t, "runnable", pc'[t]) /\ pc'[t] \in Labels
        BY <3>2, <4>1, IdFacts DEF Fit, Labels, ProcLabels, HoldsProc
      <4> QED BY <3>1, <4>1, <4>2, UnblockControl
    <3>3. CASE t \notin Pids
      <4>1. /\ UNCHANGED thr /\ pc' = [pc EXCEPT ![t] = pc'[t]]
            /\ pc'[t] = IF t = Compositor THEN "block" ELSE "wake"
        BY <2>10, <3>3 DEF ScanEnd, Goto, Control
      <4> QED BY <3>1, <3>3, <4>1, QuietControl, IdFacts
              DEF Scanners, ExecutorLabels, CompositorLabels
    <3> QED BY <3>2, <3>3
  <2>11. CASE t = Executor /\ WakeEnd
    BY <2>11, QuietControl, Zenon DEF WakeEnd, At, Goto, Control, ExecutorLabels
  <2>12. CASE t = Executor /\ \E id \in Pids : WakeReader(id)
    <3>1. PICK id \in Pids : WakeReader(id)
      BY <2>12
    <3>2. /\ pc' = [pc EXCEPT ![t] = pc'[t]] /\ pc'[t] = "wake" /\ thr[t] = "runnable"
          /\ thr' = Unblocked({id})
      BY <2>12, <3>1 DEF WakeReader, At, Control
    <3>3. Fit(t, "runnable", pc'[t]) /\ pc'[t] \in Labels
      BY <2>12, <3>2, IdFacts DEF Fit, Labels, ExecutorLabels
    <3> QED BY <3>2, <3>3, UnblockControl
  <2>13. CASE t = Compositor /\ CompositorBlock
    <3>1. /\ pc' = [pc EXCEPT ![t] = pc'[t]] /\ pc'[t] = "user" /\ thr'[t] = "CompositorWait"
          /\ thr' \in [ThreadId -> Status] /\ \A u \in ThreadId \ {t} : thr'[u] = thr[u]
      BY <2>13, IdFacts DEF CompositorBlock, At, Goto, Block, Control, Status
    <3>2. Fit(t, thr'[t], pc'[t]) /\ pc'[t] \in Labels
      BY <2>13, <3>1, IdFacts DEF Fit, Labels, CompositorLabels
    <3> QED BY <3>1, <3>2, ControlAt
  <2> QED BY <1>1, <2>1, <2>2, <2>3, <2>4, <2>5, <2>6, <2>7, <2>8, <2>9, <2>10, <2>11, <2>12,
             <2>13 DEF KernelStep, ExitStep, FileStep
<1>2. ASSUME NEW t \in ThreadId, Call(t), ~FileStep(t) PROVE Control'
  <2>1. CASE \/ ForkPid(t) \/ ExecLock(t) \/ ExitLockProc(t) \/ ScanLockProc(t)
             \/ \E pid \in Pids : WaitPid(t, pid)
    <3>1. /\ t \in Scanners /\ thr[t] = "runnable" /\ UNCHANGED thr
          /\ pc' = [pc EXCEPT ![t] = pc'[t]]
          /\ \/ t \in Pids /\ pc'[t] \in {"fork_lock", "exec", "exit_find", "wait_block"}
             \/ pc'[t] = "scan"
      BY <2>1 DEF ForkPid, ExecLock, ExitLockProc, ScanLockProc, WaitPid, At, Goto, Control,
         Scanners
    <3> QED BY <3>1, QuietControl, IdFacts
            DEF Scanners, ProcLabels, HoldsProc, HoldsPcb, ExecutorLabels, CompositorLabels
  <2>2. CASE FrameReady(t)
    <3>1. /\ pc' = [pc EXCEPT ![t] = pc'[t]] /\ pc'[t] = "user" /\ thr[t] = "runnable" /\ t \in Pids
          /\ thr' = Unblocked({Compositor})
      BY <2>2 DEF FrameReady, At, Control, pvars
    <3>2. Fit(t, "runnable", pc'[t]) /\ pc'[t] \in Labels
      BY <3>1, IdFacts DEF Fit, Labels, ProcLabels
    <3> QED BY <3>1, <3>2, UnblockControl
  <2> QED BY <1>2, <2>1, <2>2 DEF Call, FileStep
<1>3. CASE UNCHANGED vars
  BY <1>3 DEF vars, pvars, Control
<1>4. ASSUME NEW t \in ThreadId, FileStep(t) PROVE Control'
  <2>1. CASE thr' = thr
    BY <1>4, <2>1, FileStepFacts, QuietControl DEF InFile, ProcLabels, HoldsPcb
  <2>2. CASE thr' # thr
    <3>1. PICK why \in {"WaitPipe", "WaitStdin"} : thr' = [thr EXCEPT ![t] = why]
      BY <1>4, <2>2, FileStepFacts
    <3>2. /\ pc' = [pc EXCEPT ![t] = pc'[t]] /\ pc'[t] = "io" /\ thr'[t] = why /\ t \in Pids
          /\ thr' \in [ThreadId -> Status] /\ \A u \in ThreadId \ {t} : thr'[u] = thr[u]
      BY <1>4, <2>2, <3>1, FileStepFacts, IdFacts DEF Control, Status
    <3>3. Fit(t, thr'[t], pc'[t]) /\ pc'[t] \in Labels
      BY <3>2, IdFacts DEF Fit, Labels, ProcLabels
    <3> QED BY <3>2, <3>3, ControlAt
  <2> QED BY <2>1, <2>2
<1> QED BY <1>1, <1>2, <1>3, <1>4 DEF Next

------------------------------------------------------------------------------
(* The locks.                                                               *)

\* A step that neither takes nor drops one.
LEMMA LocksQuiet ==
  ASSUME Control, Locks, NEW t \in ThreadId, pc' = [pc EXCEPT ![t] = pc'[t]],
         UNCHANGED <<proc_lock, pcb_lock>>,
         pc[t] \in HoldsProc <=> pc'[t] \in HoldsProc,
         pc[t] \in HoldsPcb <=> pc'[t] \in HoldsPcb,
         pc[t] # "panic"
  PROVE  Locks'
<1>1. \A u \in ThreadId \ {t} : pc'[u] = pc[u]
  BY DEF Control
<1> QED BY <1>1, IdFacts DEF Locks

\* Every step takes and drops the locks that its labels stand for.
LEMMA StepLocks ==
  ASSUME Control, Locks, [Next]_vars PROVE Locks'
<1>1. ASSUME NEW t \in ThreadId, KernelStep(t), ~FileStep(t) PROVE Locks'
  <2>1. CASE \/ t = Main /\ (SpawnPushProc \/ SpawnPushThread)
             \/ ForkPushProc(t) \/ ForkPushThread(t) \/ WaitBlock(t) \/ WaitReturn(t)
             \/ ExitFindNext(t) \/ ExitCheckParent(t) \/ ExitNotify(t) \/ ExitTerminate(t)
             \/ ScanNext(t) \/ (ScanEnd(t) /\ t \in Pids)
             \/ t = Executor /\ (WakeEnd \/ \E id \in Pids : WakeReader(id))
             \/ t = Compositor /\ CompositorBlock
    <3>1. /\ UNCHANGED <<proc_lock, pcb_lock>> /\ pc' = [pc EXCEPT ![t] = pc'[t]]
          /\ pc[t] # "panic"
          /\ pc[t] \in HoldsProc <=> pc'[t] \in HoldsProc
          /\ pc[t] \in HoldsPcb <=> pc'[t] \in HoldsPcb
      BY <2>1, Zenon DEF SpawnPushProc, SpawnPushThread, ForkPushProc, ForkPushThread, WaitBlock,
         WaitReturn, ExitFindNext, ExitCheckParent, ExitNotify, ExitTerminate, ScanNext, ScanEnd,
         WakeEnd, WakeReader, CompositorBlock, At, Goto, Control, HoldsProc, HoldsPcb
    <3> QED BY <3>1, LocksQuiet
  <2>2. CASE ForkLock(t)
    BY <2>2, Actors, IdFacts DEF ForkLock, At, Goto, Control, Locks, HoldsProc, HoldsPcb
  <2>3. CASE ForkReturn(t) \/ ExecReturn(t)
    <3>1. /\ pc[t] \in HoldsPcb /\ pcb_lock' = [pcb_lock EXCEPT ![t] = None]
          /\ pc' = [pc EXCEPT ![t] = "user"] /\ UNCHANGED proc_lock
      BY <2>3 DEF ForkReturn, ExecReturn, At, Goto, HoldsPcb
    <3>2. t \in Pids /\ pc[t] \notin HoldsProc
      BY <3>1, Actors DEF HoldsPcb, HoldsProc
    <3>3. pc'[t] = "user" /\ \A u \in ThreadId \ {t} : pc'[u] = pc[u]
      BY <3>1 DEF Control
    <3> QED BY <3>1, <3>2, <3>3, IdFacts DEF Locks, HoldsProc, HoldsPcb
  <2>4. CASE ExitRemove(t) \/ (ScanEnd(t) /\ t \notin Pids) \/ ScanUnlock(t)
    <3>1. /\ pc[t] \in HoldsProc /\ pc[t] # "panic" /\ pc[t] \notin HoldsPcb
          /\ pc'[t] \notin HoldsProc /\ pc'[t] \notin HoldsPcb
          /\ proc_lock' = None /\ UNCHANGED pcb_lock
          /\ \A u \in ThreadId \ {t} : pc'[u] = pc[u]
      BY <2>4 DEF ExitRemove, ScanEnd, ScanUnlock, At, Goto, Control, HoldsProc, HoldsPcb
    <3> QED BY <3>1, IdFacts DEF Locks
  <2>5. CASE ScanPanic(t)
    <3> DEFINE q == procs[scan[t]]
    <3>1. /\ pc[t] = "scan" /\ pc'[t] = "panic" /\ UNCHANGED proc_lock
          /\ pcb_lock[q] = None /\ pcb_lock' = [pcb_lock EXCEPT ![q] = t]
          /\ \A u \in ThreadId \ {t} : pc'[u] = pc[u]
      BY <2>5 DEF ScanPanic, At, Goto, Control
    <3> HIDE DEF q
    <3>2. pcb_lock' \in [Pids -> {None} \cup ThreadId]
          /\ \A p \in Pids : pcb_lock'[p] = IF p = q THEN t ELSE pcb_lock[p]
      BY <3>1, Zenon DEF Locks
    <3>3. q \in Pids => pc[q] \notin HoldsPcb
      BY <3>1, IdFacts DEF Locks
    <3> QED BY <3>1, <3>2, <3>3, IdFacts DEF Locks, HoldsProc, HoldsPcb
  <2> QED BY <1>1, <2>1, <2>2, <2>3, <2>4, <2>5 DEF KernelStep, ExitStep, FileStep
<1>2. ASSUME NEW t \in ThreadId, Call(t), ~FileStep(t) PROVE Locks'
  <2>1. CASE \/ ForkPid(t) \/ FrameReady(t) \/ \E pid \in Pids : WaitPid(t, pid)
    <3>1. /\ UNCHANGED <<proc_lock, pcb_lock>> /\ pc' = [pc EXCEPT ![t] = pc'[t]]
          /\ pc[t] = "user" /\ pc'[t] \in {"user", "fork_lock", "wait_block"}
      BY <2>1 DEF ForkPid, FrameReady, WaitPid, At, Goto, Control, pvars
    <3> QED BY <3>1, LocksQuiet DEF HoldsProc, HoldsPcb
  <2>2. CASE ExecLock(t)
    BY <2>2, IdFacts DEF ExecLock, At, Goto, Control, Locks, HoldsProc, HoldsPcb
  <2>3. CASE ExitLockProc(t) \/ ScanLockProc(t)
    <3>1. /\ proc_lock = None /\ proc_lock' = t /\ UNCHANGED pcb_lock
          /\ pc[t] \in {"user", "io"} /\ pc'[t] \in {"exit_find", "scan"}
          /\ \A u \in ThreadId \ {t} : pc'[u] = pc[u]
      BY <2>3 DEF ExitLockProc, ScanLockProc, At, Goto, Control
    <3> QED BY <3>1, IdFacts DEF Locks, HoldsProc, HoldsPcb
  <2> QED BY <1>2, <2>1, <2>2, <2>3 DEF Call, FileStep
<1>3. CASE UNCHANGED vars
  BY <1>3 DEF vars, pvars, Locks
<1>4. ASSUME NEW t \in ThreadId, FileStep(t) PROVE Locks'
  <2>0. /\ t \in Pids /\ UNCHANGED proc_lock /\ pc' = [pc EXCEPT ![t] = pc'[t]]
        /\ pc[t] \in InFile /\ pc'[t] \in InFile
    BY <1>4, FileStepFacts
  <2>1. CASE UNCHANGED pcb_lock /\ (pc[t] \in HoldsPcb <=> pc'[t] \in HoldsPcb)
    BY <2>0, <2>1, LocksQuiet DEF InFile, HoldsProc
  <2>2. CASE \E f \in Files : FileCall(t, f)
    <3>1. /\ pcb_lock[t] = None /\ pcb_lock' = [pcb_lock EXCEPT ![t] = t]
          /\ pc[t] = "user" /\ pc' = [pc EXCEPT ![t] = "file_lock"]
      BY <2>2, Zenon DEF FileCall, At, Goto
    <3> QED BY <2>0, <3>1, IdFacts DEF Control, Locks, HoldsProc, HoldsPcb
  <2>3. CASE FileReturn(t)
    <3>1. /\ pc[t] = "file_call" /\ pcb_lock' = [pcb_lock EXCEPT ![t] = None]
          /\ pc' = [pc EXCEPT ![t] = "user"]
      BY <2>3, Zenon DEF FileReturn, At, Goto
    <3>2. pc'[t] = "user" /\ \A u \in ThreadId \ {t} : pc'[u] = pc[u]
      BY <3>1 DEF Control
    <3> QED BY <2>0, <3>1, <3>2, IdFacts DEF Locks, HoldsProc, HoldsPcb
  <2>4. CASE ~FileReturn(t) /\ ~\E f \in Files : FileCall(t, f)
    <3>1. UNCHANGED pcb_lock
      BY <1>4, <2>4, Zenon DEF FileStep, FileLock, IoLock, IoReturn, IoCall, IoBlock, pvars
    <3>2. pc[t] \in HoldsPcb <=> pc'[t] \in HoldsPcb
      BY <1>4, <2>4, Zenon DEF FileStep, FileLock, IoLock, IoReturn, IoCall, IoBlock, At, Goto, pvars,
         HoldsPcb, Control
    <3> QED BY <2>1, <3>1, <3>2
  <2> QED BY <2>2, <2>3, <2>4
<1> QED BY <1>1, <1>2, <1>3, <1>4 DEF Next

------------------------------------------------------------------------------
(* The Files.                                                               *)

\* Outside the calls on a File nobody gets, takes or drops one.
LEMMA SharedQuiet ==
  ASSUME Control, Shared, NEW t \in ThreadId, UNCHANGED files, pc' = [pc EXCEPT ![t] = pc'[t]],
         t \in Pids => (pc[t] \in HoldsFile <=> pc'[t] \in HoldsFile),
         t \in Pids => pc'[t] \notin {"file_lock", "io_lock"}
  PROVE  Shared'
<1>1. \A u \in ThreadId \ {t} : pc'[u] = pc[u]
  BY DEF Control
<1>2. \A p \in Pids : pc'[p] \in HasFile => pc[p] \in HasFile
  BY <1>1, IdFacts, Zenon DEF HasFile
<1>3. \A p \in Pids : pc[p] \in HoldsFile => pc'[p] \in HoldsFile
  BY <1>1, IdFacts, Zenon
<1>4. file_lock' = file_lock /\ file' = file
  BY DEF files
<1> QED BY <1>2, <1>3, <1>4, Zenon DEF Shared

\* Every step keeps it so.
LEMMA StepShared ==
  ASSUME Control, Shared, [Next]_vars PROVE Shared'
<1>1. ASSUME NEW t \in ThreadId, KernelStep(t), ~FileStep(t) PROVE Shared'
  <2>1. UNCHANGED files /\ pc' = [pc EXCEPT ![t] = pc'[t]]
    BY <1>1, Zenon DEF KernelStep, ExitStep, FileStep, SpawnPushProc, SpawnPushThread, ForkLock,
       ForkPushProc, ForkPushThread, ForkReturn, ExecReturn, WaitBlock, WaitReturn, ExitFindNext,
       ExitRemove, ExitCheckParent, ExitNotify, ExitTerminate, ScanNext, ScanPanic, ScanEnd,
       ScanUnlock, WakeEnd, WakeReader, CompositorBlock, Goto, Control
  <2>2. ASSUME t \in Pids
        PROVE  /\ pc[t] \in HoldsFile <=> pc'[t] \in HoldsFile
               /\ pc'[t] \notin {"file_lock", "io_lock"}
    BY <1>1, <2>2, IdFacts, Zenon DEF KernelStep, ExitStep, FileStep, ForkLock,
       ForkPushProc, ForkPushThread, ForkReturn, ExecReturn, WaitBlock, WaitReturn, ExitFindNext,
       ExitRemove, ExitCheckParent, ExitNotify, ExitTerminate, ScanNext, ScanPanic, ScanEnd,
       ScanUnlock, At, Goto, Control, HoldsFile
  <2> QED BY <2>1, <2>2, SharedQuiet, Zenon
<1>2. ASSUME NEW t \in ThreadId, Call(t), ~FileStep(t) PROVE Shared'
  <2>1. UNCHANGED files /\ pc' = [pc EXCEPT ![t] = pc'[t]]
    BY <1>2, Zenon DEF Call, FileStep, ForkPid, ExecLock, ExitLockProc, ScanLockProc, FrameReady,
       WaitPid, Goto, Control, pvars, files
  <2>2. ASSUME t \in Pids
        PROVE  /\ pc[t] \in HoldsFile <=> pc'[t] \in HoldsFile
               /\ pc'[t] \notin {"file_lock", "io_lock"}
    BY <1>2, <2>2, Zenon DEF Call, FileStep, ForkPid, ExecLock, ExitLockProc, ScanLockProc,
       FrameReady, WaitPid, At, Goto, Control, pvars, HoldsFile
  <2> QED BY <2>1, <2>2, SharedQuiet, Zenon
<1>3. CASE UNCHANGED vars
  BY <1>3, Zenon DEF vars, pvars, files, Shared
<1>4. ASSUME NEW t \in ThreadId, FileStep(t) PROVE Shared'
  <2>0. t \in Pids /\ \A u \in ThreadId \ {t} : pc'[u] = pc[u]
    BY <1>4, FileStepFacts DEF Control
  <2>1. CASE \E f \in Files : FileCall(t, f) \/ IoCall(t, f)
    <3>1. PICK f \in Files : FileCall(t, f) \/ IoCall(t, f)
      BY <2>1
    <3>2. /\ pc[t] = "user" /\ pc'[t] \in {"file_lock", "io_lock"}
          /\ file_lock' = file_lock /\ file' = [file EXCEPT ![t] = f]
      BY <3>1, Zenon DEF FileCall, IoCall, At, Goto, Control
    <3>3. /\ file' \in [Pids -> {None} \cup Files]
          /\ \A p \in Pids : file'[p] = IF p = t THEN f ELSE file[p]
      BY <2>0, <3>2, Zenon DEF Shared
    <3>4. \A g \in Files : file_lock[g] # t
      BY <2>0, <3>2, Zenon DEF Shared, HoldsFile
    <3>5. \A p \in Pids : p # t => pc'[p] = pc[p] /\ file'[p] = file[p]
      BY <2>0, <3>3, IdFacts, Zenon
    <3>6. file'[t] \in Files
      BY <2>0, <3>3, Zenon
    <3>7. \A p \in Pids : pc'[p] \in HasFile => file'[p] \in Files
      BY <3>5, <3>6, Zenon DEF Shared
    <3>8. \A g \in Files, p \in Pids : file_lock[g] = p => p # t /\ pc[p] \in HoldsFile /\ file[p] = g
      BY <3>4, Zenon DEF Shared
    <3>9. \A g \in Files, p \in Pids : file_lock'[g] = p => pc'[p] \in HoldsFile /\ file'[p] = g
      BY <3>2, <3>5, <3>8, Zenon
    <3>10. file_lock' \in [Files -> {None} \cup Pids]
      BY <3>2, Zenon DEF Shared
    <3> QED BY <3>3, <3>7, <3>9, <3>10, Zenon DEF Shared
  <2>2. CASE FileLock(t) \/ IoLock(t)
    <3>1. PICK f : f = file[t]
      OBVIOUS
    <3>2. /\ pc[t] \in {"file_lock", "io_lock"} /\ pc'[t] \in {"file_call", "io"}
          /\ file_lock' = [file_lock EXCEPT ![f] = t] /\ file' = file
      BY <2>2, <3>1, Zenon DEF FileLock, IoLock, At, Goto, Control
    <3>3. f \in Files /\ pc'[t] \in HoldsFile
      BY <2>0, <3>1, <3>2, Zenon DEF Shared, HasFile, HoldsFile
    <3>4. /\ file_lock' \in [Files -> {None} \cup Pids]
          /\ \A g \in Files : file_lock'[g] = IF g = f THEN t ELSE file_lock[g]
      BY <2>0, <3>2, <3>3, Zenon DEF Shared
    <3>5. \A p \in Pids : p # t => pc'[p] = pc[p]
      BY <2>0, IdFacts, Zenon
    <3>6. \A p \in Pids : pc'[p] \in HasFile => file'[p] \in Files
      BY <3>1, <3>2, <3>3, <3>5, Zenon DEF Shared
    <3>7. \A g \in Files, p \in Pids : file_lock'[g] = p => pc'[p] \in HoldsFile /\ file'[p] = g
      <4>1. \A g \in Files, p \in Pids : file_lock'[g] = p => (p = t /\ g = f) \/ file_lock[g] = p
        BY <3>4, Zenon
      <4>2. pc[t] \notin HoldsFile
        BY <3>2, Zenon DEF HoldsFile
      <4>3. \A g \in Files, p \in Pids : file_lock[g] = p => p # t /\ pc[p] \in HoldsFile /\ file[p] = g
        BY <4>2, Zenon DEF Shared
      <4>4. pc'[t] \in HoldsFile /\ file'[t] = f
        BY <3>1, <3>2, <3>3, Zenon
      <4>5. \A g \in Files, p \in Pids : file_lock[g] = p => pc'[p] \in HoldsFile /\ file'[p] = g
        BY <3>2, <3>5, <4>3, Zenon
      <4> QED BY <4>1, <4>4, <4>5, Zenon
    <3> QED BY <3>2, <3>4, <3>6, <3>7, Zenon DEF Shared
  <2>3. CASE FileReturn(t) \/ IoReturn(t)
    <3>1. PICK f : f = file[t]
      OBVIOUS
    <3>2. /\ pc[t] \in {"file_call", "io"} /\ pc'[t] = "user"
          /\ file_lock' = [file_lock EXCEPT ![f] = None] /\ file' = [file EXCEPT ![t] = None]
      BY <2>3, <3>1, Zenon DEF FileReturn, IoReturn, At, Goto, Control
    <3>3. /\ file_lock' \in [Files -> {None} \cup Pids]
          /\ \A g \in Files : file_lock'[g] = IF g = f THEN None ELSE file_lock[g]
      BY <3>2, Zenon DEF Shared
    <3>4. /\ file' \in [Pids -> {None} \cup Files]
          /\ \A p \in Pids : file'[p] = IF p = t THEN None ELSE file[p]
      BY <2>0, <3>2, Zenon DEF Shared
    <3>5. \A g \in Files : file_lock[g] = t => g = f
      BY <2>0, <3>1, Zenon DEF Shared
    <3>6. pc'[t] \notin HasFile
      BY <3>2, Zenon DEF HasFile, HoldsFile
    <3>7. \A g \in Files, p \in Pids : file_lock'[g] = p => p # t /\ file_lock[g] = p
      BY <3>3, <3>5, IdFacts, Zenon
    <3>8. \A p \in Pids : p # t => pc'[p] = pc[p] /\ file'[p] = file[p]
      BY <2>0, <3>4, IdFacts, Zenon
    <3>9. \A p \in Pids : pc'[p] \in HasFile => file'[p] \in Files
      BY <3>6, <3>8, Zenon DEF Shared
    <3>10. \A g \in Files, p \in Pids : file_lock'[g] = p => pc'[p] \in HoldsFile /\ file'[p] = g
      <4>1. \A g \in Files, p \in Pids : file_lock[g] = p => pc[p] \in HoldsFile /\ file[p] = g
        BY Zenon DEF Shared
      <4> QED BY <3>7, <3>8, <4>1, Zenon
    <3> QED BY <3>3, <3>4, <3>9, <3>10, Zenon DEF Shared
  <2>4. CASE \E why \in {"WaitPipe", "WaitStdin"} : IoBlock(t, why)
    BY <2>4, Zenon DEF IoBlock, pvars, files, Shared
  <2> QED BY <1>4, <2>1, <2>2, <2>3, <2>4, Zenon DEF FileStep
<1> QED BY <1>1, <1>2, <1>3, <1>4, Zenon DEF Next

------------------------------------------------------------------------------
(* The wakers.                                                              *)

Asleep == {"WaitPipe", "WaitStdin", "WaitThread"}

\* Who is not about to wake somebody has nobody to wake.
LEMMA NobodyFound ==
  ASSUME Wakers, NEW t \in ThreadId,
         pc[t] \notin {"scan", "panic", "wake", "exit_notify"} \/ t = Compositor
  PROVE  to_wake[t] = {}
BY IdFacts DEF Wakers, Finds

\* A step of thread a that wakes nobody who sleeps for a process or for a device.
LEMMA WakersQuiet ==
  ASSUME Control, Wakers, NEW a \in ThreadId, thr[a] = "runnable",
         pc' = [pc EXCEPT ![a] = pc'[a]], UNCHANGED to_wake,
         waits_for' \in [Pids -> {None} \cup Pids],
         \A u \in Pids : u # a => waits_for'[u] = waits_for[u],
         \A u \in ThreadId : thr[u] \in Asleep => thr'[u] = thr[u],
         \/ to_wake[a] = {} \/ pc'[a] = pc[a]
         \/ pc[a] = "scan" /\ pc'[a] = "panic"
         \/ a = Executor /\ pc'[a] = "wake",
         parent' \in [Pids -> {None} \cup Pids],
         \A p \in Pids : pc'[p] = "exit_check" => parent'[p] \in Pids
  PROVE  Wakers'
<1>1. \A u \in ThreadId \ {a} : pc'[u] = pc[u]
  BY DEF Control
<1>2. ASSUME NEW t \in ThreadId, NEW p \in to_wake[t] PROVE Finds(t, p)'
  <2>1. Finds(t, p) /\ p \in Pids /\ p \in ThreadId
    BY IdFacts DEF Wakers
  <2>2. thr[p] \in Asleep /\ p # a
    BY <2>1 DEF Finds, Asleep
  <2>3. thr'[p] = thr[p] /\ waits_for'[p] = waits_for[p]
    BY <2>1, <2>2
  <2>4. CASE t # a
    BY <1>1, <2>1, <2>3, <2>4 DEF Finds
  <2>5. CASE t = a
    BY <2>1, <2>3, <2>5, IdFacts DEF Finds
  <2> QED BY <2>4, <2>5
<1> QED BY <1>2 DEF Wakers

\* A step of thread a that wakes those it has found.
LEMMA WakersWake ==
  ASSUME Control, Wakers, NEW a \in ThreadId, thr[a] = "runnable",
         pc' = [pc EXCEPT ![a] = pc'[a]], pc'[a] # "exit_check", UNCHANGED <<parent, waits_for>>,
         NEW S \in SUBSET to_wake[a], thr' = Unblocked(S),
         to_wake' = [to_wake EXCEPT ![a] = @ \ S],
         S = to_wake[a] \/ pc'[a] = pc[a],
         \A t \in ThreadId \ {a} : to_wake[t] \cap to_wake[a] = {}
  PROVE  Wakers'
<1>1. \A u \in ThreadId \ {a} : pc'[u] = pc[u] /\ to_wake'[u] = to_wake[u]
  BY DEF Control, Wakers
<1>2. to_wake'[a] = to_wake[a] \ S /\ to_wake' \in [ThreadId -> SUBSET Pids]
  BY DEF Wakers
<1>3. ASSUME NEW t \in ThreadId, NEW p \in to_wake'[t] PROVE Finds(t, p)'
  <2>1. Finds(t, p) /\ p \in ThreadId /\ p \notin S
    BY <1>1, <1>2, IdFacts DEF Wakers
  <2>2. thr'[p] = thr[p]
    BY <2>1, UnblockedFacts
  <2>3. pc'[t] = pc[t]
    BY <1>1, <1>2
  <2> QED BY <2>1, <2>2, <2>3 DEF Finds
<1>4. \A p \in Pids : pc'[p] = "exit_check" => parent'[p] \in Pids
  BY <1>1, IdFacts DEF Wakers
<1> QED BY <1>2, <1>3, <1>4 DEF Wakers

\* Every step leaves the threads that were found as they were found, or wakes them.
LEMMA StepWakers ==
  ASSUME IInv, [Next]_vars PROVE Wakers'
<1> USE DEF IInv
<1>0. /\ parent \in [Pids -> {None} \cup Pids] /\ waits_for \in [Pids -> {None} \cup Pids]
      /\ \A p \in Pids : pc[p] = "exit_check" => parent[p] \in Pids
      /\ pc \in [ThreadId -> Labels]
  BY DEF Wakers, Control
<1>1. ASSUME NEW t \in ThreadId, KernelStep(t), ~FileStep(t) PROVE Wakers'
  <2>1. CASE \/ t = Main /\ (SpawnPushProc \/ SpawnPushThread)
             \/ ForkLock(t) \/ ForkPushProc(t) \/ ForkPushThread(t) \/ ForkReturn(t)
             \/ ExecReturn(t) \/ WaitBlock(t) \/ WaitReturn(t)
             \/ ExitFindNext(t) \/ ExitRemove(t) \/ ExitTerminate(t) \/ ScanUnlock(t)
             \/ t = Executor /\ WakeEnd
             \/ t = Compositor /\ CompositorBlock
    <3>1. /\ thr[t] = "runnable" /\ UNCHANGED to_wake /\ pc' = [pc EXCEPT ![t] = pc'[t]]
          /\ pc[t] \notin {"scan", "panic", "wake", "exit_notify"} \/ to_wake[t] = {}
      BY <1>0, <2>1, Zenon DEF SpawnPushProc, SpawnPushThread, ForkLock, ForkPushProc,
         ForkPushThread,
         ForkReturn, ExecReturn, WaitBlock, WaitReturn, ExitFindNext, ExitRemove, ExitTerminate,
         ScanUnlock, WakeEnd, CompositorBlock, At, Goto
    <3>2. /\ waits_for' \in [Pids -> {None} \cup Pids]
          /\ \A u \in Pids : u # t => waits_for'[u] = waits_for[u]
      BY <1>0, <2>1, Zenon DEF SpawnPushProc, SpawnPushThread, ForkLock, ForkPushProc,
         ForkPushThread,
         ForkReturn, ExecReturn, WaitBlock, WaitReturn, ExitFindNext, ExitRemove, ExitTerminate,
         ScanUnlock, WakeEnd, CompositorBlock
    <3>3. \A u \in ThreadId : thr[u] \in Asleep => thr'[u] = thr[u]
      BY <2>1, Zenon DEF SpawnPushProc, SpawnPushThread, ForkLock, ForkPushProc, ForkPushThread,
         ForkReturn, ExecReturn, WaitBlock, WaitReturn, ExitFindNext, ExitRemove, ExitTerminate,
         ScanUnlock, WakeEnd, CompositorBlock, At, Spawn, Block, Terminate, Control, Asleep
    <3>4. /\ parent' \in [Pids -> {None} \cup Pids]
          /\ \A p \in Pids : pc'[p] = "exit_check" => parent'[p] \in Pids
      <4>1. CASE ForkLock(t)
        <5>1. t \in Pids /\ parent' = [parent EXCEPT ![child[t]] = t]
              /\ pc' = [pc EXCEPT ![t] = "fork_proc"]
          BY <4>1, Actors DEF ForkLock, At, Goto
        <5>2. \A p \in Pids : pc'[p] = "exit_check" => pc[p] = "exit_check"
          BY <1>0, <5>1, IdFacts
        <5>3. /\ parent' \in [Pids -> {None} \cup Pids]
              /\ \A p \in Pids : parent'[p] = parent[p] \/ parent'[p] = t
          BY <1>0, <5>1, Zenon
        <5> QED BY <1>0, <5>1, <5>2, <5>3
      <4>2. CASE ~ForkLock(t)
        <5>1. UNCHANGED parent
          BY <2>1, <4>2, Zenon DEF SpawnPushProc, SpawnPushThread, ForkPushProc, ForkPushThread,
             ForkReturn, ExecReturn, WaitBlock, WaitReturn, ExitFindNext, ExitRemove,
             ExitTerminate, ScanUnlock, WakeEnd, CompositorBlock
        <5>2. pc'[t] = "exit_check" => pc[t] = "exit_check" \/ (t \in Pids /\ parent[t] # None)
          BY <1>0, <2>1, <4>2, Actors, Zenon DEF SpawnPushProc, SpawnPushThread, ForkPushProc,
             ForkPushThread, ForkReturn, ExecReturn, WaitBlock, WaitReturn, ExitFindNext,
             ExitRemove, ExitTerminate, ScanUnlock, WakeEnd, CompositorBlock, At, Goto
        <5> QED BY <1>0, <3>1, <5>1, <5>2, IdFacts
      <4> QED BY <4>1, <4>2
    <3>5. to_wake[t] = {}
      BY <3>1, NobodyFound
    <3> QED BY <3>1, <3>2, <3>3, <3>4, <3>5, WakersQuiet
  <2>2. CASE ExitCheckParent(t)
    <3> DEFINE waiting == thr[parent[t]] = "WaitThread" /\ waits_for[parent[t]] = t
    <3>1. /\ pc[t] = "exit_check" /\ t \in Pids /\ UNCHANGED <<thr, parent, waits_for>>
          /\ pc' = [pc EXCEPT ![t] = IF waiting THEN "exit_notify" ELSE "exit_term"]
          /\ to_wake' = [to_wake EXCEPT ![t] = IF waiting THEN {parent[t]} ELSE {}]
      BY <2>2, Actors DEF ExitCheckParent, At, Goto, Gone
    <3>2. parent[t] \in Pids
      BY <1>0, <3>1
    <3>3. /\ to_wake' \in [ThreadId -> SUBSET Pids]
          /\ \A u \in ThreadId \ {t} : to_wake'[u] = to_wake[u] /\ pc'[u] = pc[u]
          /\ to_wake'[t] = IF waiting THEN {parent[t]} ELSE {}
          /\ pc'[t] = IF waiting THEN "exit_notify" ELSE "exit_term"
      BY <1>0, <3>1, <3>2 DEF Wakers
    <3>4. ASSUME NEW u \in ThreadId, NEW p \in to_wake'[u] PROVE Finds(u, p)'
      <4>1. CASE u = t
        BY <3>1, <3>3, <3>4, <4>1 DEF Finds
      <4>2. CASE u # t
        BY <3>1, <3>3, <3>4, <4>2 DEF Wakers, Finds
      <4> QED BY <4>1, <4>2
    <3>5. \A p \in Pids : pc'[p] = "exit_check" => parent'[p] \in Pids
      BY <1>0, <3>1, <3>3, IdFacts
    <3> QED BY <1>0, <3>1, <3>3, <3>4, <3>5 DEF Wakers
  <2>3. CASE ExitNotify(t)
    <3>1. /\ thr[t] = "runnable" /\ pc' = [pc EXCEPT ![t] = pc'[t]] /\ pc'[t] # "exit_check"
          /\ UNCHANGED <<parent, waits_for>> /\ thr' = Unblocked(to_wake[t])
          /\ to_wake' = [to_wake EXCEPT ![t] = {}] /\ pc[t] = "exit_notify"
      BY <1>0, <2>3 DEF ExitNotify, At, Goto
    <3>2. \A u \in ThreadId \ {t} : to_wake[u] \cap to_wake[t] = {}
      BY <3>1 DEF Wakers, Finds
    <3>3. to_wake' = [to_wake EXCEPT ![t] = @ \ to_wake[t]]
      BY <3>1, Zenon
    <3> QED BY <3>1, <3>2, <3>3, WakersWake, Zenon
  <2>4. CASE ScanNext(t)
    <3> DEFINE p == procs[scan[t]]
    <3>1. p \in Pids /\ p \in ThreadId
      BY <2>4, ProcsFacts, IdFacts DEF ScanNext
    <3>2. /\ UNCHANGED <<thr, parent, waits_for, pc>> /\ pc[t] = "scan"
          /\ \E found \in {{}} \cup (IF thr[p] \in WakesReason(t) THEN {{p}} ELSE {}) :
               to_wake' = [to_wake EXCEPT ![t] = @ \cup found]
      BY <2>4, Zenon DEF ScanNext, At
    <3> HIDE DEF p
    <3>3. PICK found : /\ found = {} \/ (found = {p} /\ thr[p] \in WakesReason(t))
                       /\ to_wake' = [to_wake EXCEPT ![t] = @ \cup found]
      BY <3>2, Zenon
    <3>4. /\ to_wake' \in [ThreadId -> SUBSET Pids] /\ to_wake'[t] = to_wake[t] \cup found
          /\ \A u \in ThreadId \ {t} : to_wake'[u] = to_wake[u]
      BY <3>1, <3>3 DEF Wakers
    <3>5. thr[p] \in WakesReason(t) => Finds(t, p)
      BY <3>2, IdFacts DEF WakesReason, Finds
    <3>6. \A u \in ThreadId : \A q \in to_wake'[u] : Finds(u, q)
      BY <3>3, <3>4, <3>5 DEF Wakers
    <3>7. \A u \in ThreadId : \A q \in to_wake'[u] : Finds(u, q)'
      BY <3>2, <3>6 DEF Finds
    <3> QED BY <1>0, <3>2, <3>4, <3>7 DEF Wakers
  <2>5. CASE ScanPanic(t) \/ (ScanEnd(t) /\ t \notin Pids)
    <3>1. /\ thr[t] = "runnable" /\ UNCHANGED <<thr, to_wake, parent, waits_for>>
          /\ pc' = [pc EXCEPT ![t] = pc'[t]] /\ pc[t] = "scan"
          /\ pc'[t] = "panic" \/ (pc'[t] = "wake" /\ t \notin Pids) \/ t = Compositor
          /\ pc'[t] # "exit_check"
      BY <1>0, <2>5, Zenon DEF ScanPanic, ScanEnd, At, Goto
    <3>2. to_wake[t] = {} \/ pc'[t] = "panic" \/ (t = Executor /\ pc'[t] = "wake")
      BY <3>1, NobodyFound, Actors DEF Scanners
    <3>3. \A p \in Pids : pc'[p] = "exit_check" => parent'[p] \in Pids
      BY <1>0, <3>1, IdFacts
    <3> QED BY <1>0, <3>1, <3>2, <3>3, WakersQuiet
  <2>6. CASE ScanEnd(t) /\ t \in Pids
    <3>1. /\ thr[t] = "runnable" /\ pc' = [pc EXCEPT ![t] = pc'[t]] /\ pc'[t] # "exit_check"
          /\ UNCHANGED <<parent, waits_for>> /\ thr' = Unblocked(to_wake[t])
          /\ to_wake' = [to_wake EXCEPT ![t] = {}] /\ pc[t] = "scan"
      BY <1>0, <2>6 DEF ScanEnd, At, Goto
    <3>2. \A u \in ThreadId : pc[u] \in {"scan", "panic"} => u = t
      BY <3>1 DEF Locks, HoldsProc
    <3>3. \A u \in ThreadId \ {t} : to_wake[u] \cap to_wake[t] = {}
      BY <2>6, <3>1, <3>2, IdFacts DEF Wakers, Finds
    <3>4. to_wake' = [to_wake EXCEPT ![t] = @ \ to_wake[t]]
      BY <3>1, Zenon
    <3> QED BY <3>1, <3>3, <3>4, WakersWake, Zenon
  <2>7. CASE t = Executor /\ \E id \in Pids : WakeReader(id)
    <3>1. PICK id \in Pids : WakeReader(id)
      BY <2>7
    <3>2. /\ thr[t] = "runnable" /\ pc' = [pc EXCEPT ![t] = pc'[t]] /\ pc'[t] = pc[t]
          /\ UNCHANGED <<parent, waits_for>> /\ thr' = Unblocked({id}) /\ {id} \in SUBSET to_wake[t]
          /\ to_wake' = [to_wake EXCEPT ![t] = @ \ {id}] /\ pc[t] = "wake"
      BY <1>0, <2>7, <3>1, Zenon DEF WakeReader, At
    <3>3. \A u \in ThreadId \ {t} : to_wake[u] \cap to_wake[t] = {}
      BY <2>7, <3>2, IdFacts DEF Wakers, Finds
    <3> QED BY <3>2, <3>3, WakersWake, Zenon
  <2> QED BY <1>1, <2>1, <2>2, <2>3, <2>4, <2>5, <2>6, <2>7 DEF KernelStep, ExitStep, FileStep
<1>2. ASSUME NEW t \in ThreadId, Call(t), ~FileStep(t) PROVE Wakers'
  <2>1. /\ thr[t] = "runnable" /\ pc[t] \in {"user", "io"} /\ UNCHANGED <<to_wake, parent>>
        /\ pc' = [pc EXCEPT ![t] = pc'[t]] /\ pc'[t] # "exit_check"
        /\ waits_for' \in [Pids -> {None} \cup Pids]
        /\ \A u \in Pids : u # t => waits_for'[u] = waits_for[u]
    <3>1. /\ thr[t] = "runnable" /\ pc[t] \in {"user", "io"} /\ UNCHANGED <<to_wake, parent>>
          /\ \E l \in {"user", "fork_lock", "exec", "exit_find", "scan", "wait_block"} :
               pc' = [pc EXCEPT ![t] = l]
      <4>1. CASE ForkPid(t) \/ ExecLock(t) \/ ExitLockProc(t) \/ ScanLockProc(t)
                  \/ \E pid \in Pids : WaitPid(t, pid)
        BY <1>0, <4>1 DEF ForkPid, ExecLock, ExitLockProc, ScanLockProc, WaitPid, At, Goto
      <4>2. CASE FrameReady(t)
        BY <1>0, <4>2, Zenon DEF FrameReady, At, pvars
      <4> QED BY <1>2, <4>1, <4>2 DEF Call, FileStep
    <3>2. waits_for' = waits_for \/ \E pid \in Pids : waits_for' = [waits_for EXCEPT ![t] = pid]
      BY <1>2 DEF Call, FileStep, ForkPid, ExecLock, ExitLockProc, ScanLockProc, FrameReady, WaitPid,
         pvars
    <3>3. /\ waits_for' \in [Pids -> {None} \cup Pids]
          /\ \A u \in Pids : u # t => waits_for'[u] = waits_for[u]
      BY <1>0, <3>2
    <3> QED BY <1>0, <3>1, <3>3
  <2>2. \A u \in ThreadId : thr[u] \in Asleep => thr'[u] = thr[u]
    <3>1. CASE FrameReady(t)
      <4>1. thr' = Unblocked({Compositor}) /\ thr[Compositor] \notin Asleep
        BY <3>1, IdFacts DEF FrameReady, Control, Fit, Asleep
      <4> QED BY <4>1, UnblockedFacts
    <3>2. CASE ~FrameReady(t)
      BY <1>2, <3>2, Zenon DEF Call, FileStep, ForkPid, ExecLock, ExitLockProc, ScanLockProc, WaitPid
    <3> QED BY <3>1, <3>2
  <2>3. to_wake[t] = {}
    BY <2>1, NobodyFound
  <2>4. \A p \in Pids : pc'[p] = "exit_check" => parent'[p] \in Pids
    BY <1>0, <2>1, IdFacts
  <2> QED BY <1>0, <2>1, <2>2, <2>3, <2>4, WakersQuiet
<1>3. CASE UNCHANGED vars
  <2>1. UNCHANGED <<thr, to_wake, parent, waits_for, pc>>
    BY <1>3 DEF vars, pvars
  <2>2. \A t, p : Finds(t, p)' <=> Finds(t, p)
    BY <2>1 DEF Finds
  <2> QED BY <2>1, <2>2 DEF Wakers
<1>4. ASSUME NEW t \in ThreadId, FileStep(t) PROVE Wakers'
  <2>1. /\ t \in Pids /\ thr[t] = "runnable" /\ pc[t] \in InFile /\ pc'[t] \in InFile
        /\ UNCHANGED <<to_wake, parent, waits_for>> /\ pc' = [pc EXCEPT ![t] = pc'[t]]
        /\ thr' = thr \/ \E why \in {"WaitPipe", "WaitStdin"} : thr' = [thr EXCEPT ![t] = why]
    BY <1>4, FileStepFacts, Zenon
  <2>2. \A u \in ThreadId : thr[u] \in Asleep => thr'[u] = thr[u]
    BY <2>1 DEF Control, Asleep
  <2>3. to_wake[t] = {}
    BY <2>1, NobodyFound DEF InFile
  <2>4. \A p \in Pids : pc'[p] = "exit_check" => parent'[p] \in Pids
    BY <1>0, <2>1, IdFacts DEF InFile
  <2> QED BY <1>0, <2>1, <2>2, <2>3, <2>4, WakersQuiet
<1> QED BY <1>1, <1>2, <1>3, <1>4 DEF Next

------------------------------------------------------------------------------
(* PROC and the pids.                                                       *)

\* What Append does, read through a name of its result.
LEMMA AppendShape ==
  ASSUME NEW S, NEW s \in Seq(S), NEW c \in S, NEW v, v = Append(s, c)
  PROVE  /\ v \in Seq(S) /\ Len(v) \in Nat /\ Len(s) \in Nat /\ Len(v) = Len(s) + 1
         /\ v[Len(s) + 1] = c /\ \A i \in 1..Len(s) : v[i] = s[i]
<1>1. v \in Seq(S)
  OBVIOUS
<1>2. Len(v) = Len(s) + 1
  OBVIOUS
<1>3. v[Len(s) + 1] = c
  OBVIOUS
<1>4. \A i \in 1..Len(s) : v[i] = s[i]
  OBVIOUS
<1>5. Len(s) \in Nat /\ Len(v) \in Nat
  BY <1>1, LenProperties, Zenon
<1> QED BY <1>1, <1>2, <1>3, <1>4, <1>5, Zenon

\* push.
LEMMA AppendFacts ==
  ASSUME NEW S, NEW s \in Seq(S), NEW c \in S, NEW v, v = Append(s, c), Inj(s), ~In(s, c)
  PROVE  v \in Seq(S) /\ Inj(v) /\ \A p : In(v, p) <=> In(s, p) \/ p = c
<1> DEFINE n == Len(s)
<1>1. n \in Nat /\ v \in Seq(S) /\ Len(v) = n + 1 /\ v[n + 1] = c /\ \A i \in 1..n : v[i] = s[i]
  BY AppendShape
<1> HIDE DEF n
<1>2. \A i \in 1..(n + 1) : i \in 1..n \/ i = n + 1
  BY <1>1
<1>3. n + 1 \in 1..(n + 1) /\ \A i \in 1..n : i \in 1..(n + 1) /\ i < n + 1
  BY <1>1
<1>4. \A p : In(v, p) <=> In(s, p) \/ p = c
  BY <1>1, <1>2, <1>3 DEF In, n
<1>5. Inj(v)
  BY <1>1, <1>2 DEF Inj, In, n
<1> QED BY <1>1, <1>4, <1>5 DEF n

\* remove.
LEMMA RemoveFacts ==
  ASSUME NEW S, NEW s \in Seq(S), NEW k \in 1..Len(s), NEW v, v = Remove(s, k), Inj(s)
  PROVE  /\ v \in Seq(S) /\ Len(s) \in Nat /\ Len(v) = Len(s) - 1
         /\ \A p : In(v, p) <=> In(s, p) /\ p # s[k]
         /\ Inj(v)
         /\ \A p, q : Before(s, p, q) => Before(v, p, q)
<1> DEFINE n == Len(s)
           from(i) == IF i < k THEN i ELSE i + 1
<1>1. n \in Nat /\ k \in 1..n /\ n - 1 \in Nat
  BY LenProperties
<1>2. \A i \in 1..(n - 1) : from(i) \in 1..n /\ from(i) # k
  BY <1>1
<1>3. \A i, j \in 1..(n - 1) : i < j <=> from(i) < from(j)
  BY <1>1
<1>4. \A i \in 1..n : i # k => \E j \in 1..(n - 1) : from(j) = i
  <2> SUFFICES ASSUME NEW i \in 1..n, i # k PROVE \E j \in 1..(n - 1) : from(j) = i
    OBVIOUS
  <2>1. CASE i < k
    <3>1. i \in 1..(n - 1) /\ from(i) = i
      BY <1>1, <2>1
    <3> QED BY <3>1
  <2>2. CASE ~(i < k)
    <3>1. i - 1 \in 1..(n - 1) /\ from(i - 1) = i
      BY <1>1, <2>2
    <3> QED BY <3>1
  <2> QED BY <2>1, <2>2
<1>5. \A i \in 1..n : s[i] \in S
  OBVIOUS
<1>6. v = [i \in 1..(n - 1) |-> s[from(i)]]
  BY DEF Remove
<1>7. v \in Seq(S) /\ Len(v) = n - 1 /\ \A i \in 1..(n - 1) : v[i] = s[from(i)]
  BY <1>1, <1>2, <1>5, <1>6, IsASeq
<1>8. \A i, j \in 1..(n - 1) : from(i) = from(j) => i = j
  BY <1>1
<1>9. \A i, j \in 1..n : s[i] = s[j] => i = j
  BY DEF Inj
<1> HIDE DEF n, from
<1>10. \A p : In(v, p) <=> In(s, p) /\ p # s[k]
  <2> TAKE p
  <2>1. ASSUME In(v, p) PROVE In(s, p) /\ p # s[k]
    BY <1>1, <1>2, <1>7, <1>9, <2>1 DEF In, n
  <2>2. ASSUME In(s, p), p # s[k] PROVE In(v, p)
    BY <1>1, <1>4, <1>7, <2>2, Zenon DEF In, n
  <2> QED BY <2>1, <2>2
<1>11. Inj(v)
  BY <1>2, <1>7, <1>8, <1>9 DEF Inj
<1>12. ASSUME NEW p, NEW q, Before(s, p, q) PROVE Before(v, p, q)
  <2> SUFFICES ASSUME NEW i \in 1..(n - 1), NEW j \in 1..(n - 1), v[i] = p, v[j] = q PROVE i < j
    BY <1>7 DEF Before
  <2>1. from(i) \in 1..n /\ from(j) \in 1..n /\ s[from(i)] = p /\ s[from(j)] = q
    BY <1>2, <1>7
  <2>2. from(i) < from(j)
    BY <1>12, <2>1 DEF Before, n
  <2> QED BY <1>3, <2>2
<1> QED BY <1>1, <1>7, <1>10, <1>11, <1>12 DEF n

\* A step of thread t that makes no process and removes none.
LEMMA TableQuiet ==
  ASSUME IInv, NEW t \in ThreadId, pc' = [pc EXCEPT ![t] = pc'[t]],
         UNCHANGED <<procs, pid_count, parent, children>>,
         child' \in [ThreadId -> {None} \cup Pids],
         \A u \in ThreadId \ {t} : child'[u] = child[u],
         \A u \in ThreadId : thr'[u] = "unborn" <=> thr[u] = "unborn",
         ~Creating(t), ~Creating(t)', pc[t] \in Gone <=> pc'[t] \in Gone
  PROVE  Fresh' /\ Table'
<1>1. \A u \in ThreadId \ {t} : pc'[u] = pc[u]
  BY DEF IInv, Control
<1>2. \A u \in ThreadId : Creating(u)' <=> Creating(u)
  BY <1>1 DEF Creating
<1>3. \A u \in ThreadId : Listed(u)' <=> Listed(u)
  BY <1>1 DEF Listed, Creating
<1>4. \A u \in ThreadId : Creating(u) => child'[u] = child[u]
  BY <1>1
<1>5. \A u \in ThreadId : Listed(u) => Creating(u)
  BY DEF Creating, Listed
<1>6. \A u \in ThreadId : pc'[u] \in Gone <=> pc[u] \in Gone
  BY <1>1
<1>7. Fresh'
  <2>1. ASSUME NEW u \in ThreadId, Creating(u)
        PROVE  /\ child'[u] \in Pids /\ child'[u] < pid_count' /\ thr'[child'[u]] = "unborn"
               /\ In(procs', child'[u]) <=> Listed(u)
               /\ \A w \in ThreadId : Creating(w) /\ child'[w] = child'[u] => w = u
    BY <1>4, <2>1, IdFacts DEF IInv, Fresh
  <2>2. \A p \in Pids : thr'[p] # "unborn" \/ In(procs', p) => p < pid_count'
    BY IdFacts DEF IInv, Fresh
  <2>3. Creating(Main) => parent'[child'[Main]] = None
    BY <1>4, IdFacts DEF IInv, Fresh
  <2>4. /\ pid_count' \in FirstPid..(LastPid + 1) /\ children' \in [Pids -> SUBSET Pids]
    BY DEF IInv, Fresh
  <2>5. Main \in ThreadId
    BY IdFacts
  <2> QED BY <1>2, <1>3, <2>1, <2>2, <2>3, <2>4, <2>5 DEF Fresh
<1>8. Table'
  <2>1. procs' \in Seq(Pids) /\ Inj(procs')
    BY Zenon DEF IInv, Table
  <2>2. ASSUME NEW p \in Pids
        PROVE  /\ thr'[p] # "unborn" => (In(procs', p) <=> pc'[p] \notin Gone)
               /\ thr'[p] = "unborn" /\ In(procs', p)
                    => \E u \in ThreadId : Listed(u) /\ child'[u] = p
    <3>1. /\ thr[p] # "unborn" => (In(procs, p) <=> pc[p] \notin Gone)
          /\ thr[p] = "unborn" /\ In(procs, p) => \E u \in ThreadId : Listed(u) /\ child[u] = p
      BY Zenon DEF IInv, Table
    <3> QED BY <1>4, <1>5, <1>6, <3>1, IdFacts, Zenon
  <2> QED BY <1>3, <2>1, <2>2, Zenon DEF Table
<1> QED BY <1>7, <1>8

\* The child of t is pushed on PROC.
LEMMA TablePushProc ==
  ASSUME IInv, NEW t \in ThreadId, pc' = [pc EXCEPT ![t] = pc'[t]],
         Creating(t), ~Listed(t), Listed(t)', procs' = Append(procs, child[t]),
         UNCHANGED <<thr, child, pid_count, parent, children>>
  PROVE  Fresh' /\ Table' /\ child[t] \in Pids /\ ~In(procs, child[t])
<1> DEFINE c == child[t]
<1>1. /\ c \in Pids /\ c < pid_count /\ thr[c] = "unborn" /\ ~In(procs, c)
      /\ \A u \in ThreadId : Creating(u) /\ child[u] = c => u = t
  BY DEF IInv, Fresh
<1>2. /\ pc[t] \notin Gone /\ pc'[t] \notin Gone /\ Creating(t)'
      /\ \A u \in ThreadId : Listed(u) => Creating(u)
  BY DEF Creating, Listed, Gone
<1>3. \A u \in ThreadId \ {t} : pc'[u] = pc[u]
  BY DEF IInv, Control
<1>4. /\ \A u \in ThreadId : Creating(u)' <=> Creating(u)
      /\ \A u \in ThreadId \ {t} : Listed(u)' <=> Listed(u)
      /\ \A u \in ThreadId : pc'[u] \in Gone <=> pc[u] \in Gone
  BY <1>2, <1>3 DEF Creating, Listed
<1>5. /\ procs' \in Seq(Pids) /\ Inj(procs') /\ \A p : In(procs', p) <=> In(procs, p) \/ p = c
  <2>1. procs \in Seq(Pids) /\ Inj(procs) /\ procs' = Append(procs, c)
    BY ProcsFacts
  <2> HIDE DEF c
  <2> QED BY <1>1, <2>1, AppendFacts, Zenon
<1> HIDE DEF c
<1>6. Fresh'
  <2>1. ASSUME NEW u \in ThreadId, Creating(u)
        PROVE  /\ child[u] \in Pids /\ child[u] < pid_count /\ thr[child[u]] = "unborn"
               /\ In(procs', child[u]) <=> Listed(u)'
               /\ \A w \in ThreadId : Creating(w) /\ child[w] = child[u] => w = u
    BY <1>1, <1>4, <1>5, <2>1 DEF IInv, Fresh, c
  <2>2. \A p \in Pids : thr[p] # "unborn" \/ In(procs', p) => p < pid_count
    BY <1>1, <1>5 DEF IInv, Fresh
  <2> QED BY <1>4, <2>1, <2>2, IdFacts, Zenon DEF IInv, Fresh
<1>7. Table'
  <2>1. ASSUME NEW p \in Pids
        PROVE  /\ thr[p] # "unborn" => (In(procs', p) <=> pc'[p] \notin Gone)
               /\ thr[p] = "unborn" /\ In(procs', p)
                    => \E u \in ThreadId : Listed(u)' /\ child[u] = p
    BY <1>1, <1>4, <1>5, IdFacts, Zenon DEF IInv, Table, c
  <2> QED BY <1>5, <2>1, Zenon DEF Table
<1> QED BY <1>1, <1>6, <1>7, Zenon DEF c

\* The thread of the child of t is pushed.
LEMMA TableSpawn ==
  ASSUME IInv, NEW t \in ThreadId, pc' = [pc EXCEPT ![t] = pc'[t]], thr[t] = "runnable",
         Listed(t), ~Creating(t)', pc'[t] \notin Gone, thr' = [thr EXCEPT ![child[t]] = "runnable"],
         UNCHANGED <<procs, child, pid_count, parent, children>>
  PROVE  Fresh' /\ Table'
<1> DEFINE c == child[t]
<1>1. Creating(t) /\ pc[t] \notin Gone /\ \A u \in ThreadId : Listed(u) => Creating(u)
  BY DEF Creating, Listed, Gone
<1>2. /\ c \in Pids /\ c \in ThreadId /\ c < pid_count /\ thr[c] = "unborn" /\ In(procs, c)
      /\ \A u \in ThreadId : Creating(u) /\ child[u] = c => u = t
  BY <1>1, IdFacts DEF IInv, Fresh
<1>3. /\ c # t /\ pc[c] = "user"
      /\ thr'[c] = "runnable" /\ \A u \in ThreadId \ {c} : thr'[u] = thr[u]
  BY <1>2 DEF IInv, Control, Fit
<1>4. \A u \in ThreadId \ {t} : pc'[u] = pc[u]
  BY Zenon DEF IInv, Control
<1>5. /\ \A u \in ThreadId : Creating(u)' <=> Creating(u) /\ u # t
      /\ \A u \in ThreadId : Listed(u)' <=> Listed(u) /\ u # t
      /\ \A u \in ThreadId : pc'[u] \in Gone <=> pc[u] \in Gone
  BY <1>1, <1>4 DEF Creating, Listed
<1>6. pc[c] \notin Gone
  BY <1>3 DEF Gone
<1> HIDE DEF c
<1>7. Fresh'
  <2>1. ASSUME NEW u \in ThreadId, Creating(u), u # t
        PROVE  /\ child[u] \in Pids /\ child[u] < pid_count /\ thr'[child[u]] = "unborn"
               /\ In(procs, child[u]) <=> Listed(u)'
               /\ \A w \in ThreadId : Creating(w) /\ child[w] = child[u] => w = u
    BY <1>2, <1>3, <1>5, <2>1, IdFacts, Zenon DEF IInv, Fresh
  <2>2. \A p \in Pids : thr'[p] # "unborn" \/ In(procs, p) => p < pid_count
    BY <1>2, <1>3, IdFacts DEF IInv, Fresh
  <2> QED BY <1>5, <2>1, <2>2, IdFacts, Zenon DEF IInv, Fresh
<1>8. Table'
  <2>1. ASSUME NEW p \in Pids
        PROVE  /\ thr'[p] # "unborn" => (In(procs, p) <=> pc'[p] \notin Gone)
               /\ thr'[p] = "unborn" /\ In(procs, p)
                    => \E u \in ThreadId : Listed(u)' /\ child[u] = p
    <3>1. CASE p = c
      BY <1>2, <1>3, <1>5, <1>6, <3>1
    <3>2. CASE p # c
      <4>1. /\ thr[p] # "unborn" => (In(procs, p) <=> pc[p] \notin Gone)
            /\ thr[p] = "unborn" /\ In(procs, p) => \E u \in ThreadId : Listed(u) /\ child[u] = p
        BY Zenon DEF IInv, Table
      <4> QED BY <1>2, <1>3, <1>5, <3>2, <4>1, IdFacts, Zenon DEF c
    <3> QED BY <3>1, <3>2
  <2> QED BY <2>1, Zenon DEF IInv, Table
<1> QED BY <1>7, <1>8

\* Process t leaves PROC.
LEMMA TableRemove ==
  ASSUME IInv, NEW t \in Pids, ExitRemove(t)
  PROVE  Fresh' /\ Table'
<1> DEFINE k == scan[t]
<1>1. /\ thr[t] = "runnable" /\ pc[t] = "exit_find" /\ k \in DOMAIN procs /\ procs[k] = t
      /\ procs' = Remove(procs, k) /\ t \in ThreadId
      /\ UNCHANGED <<thr, child, pid_count, parent, children>>
      /\ pc'[t] \in Gone /\ \A u \in ThreadId \ {t} : pc'[u] = pc[u]
  BY IdFacts, Zenon DEF ExitRemove, At, Goto, IInv, Control, Gone
<1>2. procs \in Seq(Pids) /\ Inj(procs) /\ k \in 1..Len(procs)
  BY <1>1, ProcsFacts, Zenon
<1> HIDE DEF k
<1>3. /\ procs' \in Seq(Pids) /\ Inj(procs') /\ \A p : In(procs', p) <=> In(procs, p) /\ p # t
  <2>1. /\ procs' \in Seq(Pids) /\ Inj(procs')
        /\ \A p : In(procs', p) <=> In(procs, p) /\ p # procs[k]
    <3>1. PICK s : s = procs
      OBVIOUS
    <3>2. PICK v : v = procs'
      OBVIOUS
    <3>3. s \in Seq(Pids) /\ Inj(s) /\ k \in 1..Len(s) /\ v = Remove(s, k)
      BY <1>1, <1>2, <3>1, <3>2, Zenon
    <3>4. v \in Seq(Pids) /\ Inj(v) /\ \A p : In(v, p) <=> In(s, p) /\ p # s[k]
      BY <3>3, RemoveFacts
    <3> QED BY <3>1, <3>2, <3>4, Zenon
  <2> QED BY <1>1, <2>1, Zenon
<1>4. /\ \A u \in ThreadId : Creating(u)' <=> Creating(u)
      /\ \A u \in ThreadId : Listed(u)' <=> Listed(u)
      /\ \A u \in ThreadId \ {t} : pc'[u] \in Gone <=> pc[u] \in Gone
  BY <1>1 DEF Creating, Listed, Gone
<1>5. Fresh'
  <2>1. ASSUME NEW u \in ThreadId, Creating(u)
        PROVE  /\ child[u] \in Pids /\ child[u] < pid_count /\ thr[child[u]] = "unborn"
               /\ In(procs', child[u]) <=> Listed(u)
               /\ \A w \in ThreadId : Creating(w) /\ child[w] = child[u] => w = u
    BY <1>1, <1>3, <2>1 DEF IInv, Fresh
  <2>2. \A p \in Pids : thr[p] # "unborn" \/ In(procs', p) => p < pid_count
    BY <1>3 DEF IInv, Fresh
  <2> QED BY <1>1, <1>4, <2>1, <2>2, IdFacts, Zenon DEF IInv, Fresh
<1>6. Table'
  <2>1. ASSUME NEW p \in Pids
        PROVE  /\ thr[p] # "unborn" => (In(procs', p) <=> pc'[p] \notin Gone)
               /\ thr[p] = "unborn" /\ In(procs', p)
                    => \E u \in ThreadId : Listed(u) /\ child[u] = p
    BY <1>1, <1>3, <1>4, IdFacts, Zenon DEF IInv, Table
  <2> QED BY <1>1, <1>3, <1>4, <2>1, Zenon DEF Table
<1> QED BY <1>5, <1>6

\* Unblocking makes nobody who is not born runnable.
LEMMA UnblockedUnborn ==
  ASSUME Control, NEW S, thr' = Unblocked(S)
  PROVE  \A u \in ThreadId : thr'[u] = "unborn" <=> thr[u] = "unborn"
<1>1. "unborn" \notin Reasons
  BY IdFacts
<1> QED BY <1>1, UnblockedFacts

\* Every step hands out new pids and keeps PROC the set of live processes.
LEMMA StepTable ==
  ASSUME IInv, [Next]_vars PROVE Fresh' /\ Table'
<1>0. /\ pc \in [ThreadId -> Labels] /\ child \in [ThreadId -> {None} \cup Pids] /\ Control
      /\ thr \in [ThreadId -> Status]
  BY Zenon DEF IInv, Control, Fresh
<1>1. ASSUME NEW t \in ThreadId, KernelStep(t), ~FileStep(t) PROVE Fresh' /\ Table'
  <2>1. CASE \/ ExecReturn(t) \/ ForkReturn(t) \/ WaitBlock(t) \/ WaitReturn(t)
             \/ ExitFindNext(t) \/ ExitCheckParent(t) \/ ExitTerminate(t) \/ ScanNext(t)
             \/ ScanPanic(t) \/ ScanUnlock(t) \/ (ScanEnd(t) /\ t \notin Pids)
             \/ t = Executor /\ WakeEnd
             \/ t = Compositor /\ CompositorBlock
    <3>1. /\ UNCHANGED <<procs, pid_count, parent, children>> /\ pc' = [pc EXCEPT ![t] = pc'[t]]
          /\ ~Creating(t) /\ ~Creating(t)' /\ (pc[t] \in Gone <=> pc'[t] \in Gone)
      BY <1>0, <2>1, Zenon DEF ExecReturn, ForkReturn, WaitBlock, WaitReturn, ExitFindNext,
         ExitCheckParent, ExitTerminate, ScanNext, ScanPanic, ScanUnlock, ScanEnd, WakeEnd,
         CompositorBlock, At, Goto, Creating, Gone
    <3>2. /\ child' \in [ThreadId -> {None} \cup Pids]
          /\ \A u \in ThreadId \ {t} : child'[u] = child[u]
      BY <1>0, <2>1, Zenon DEF ExecReturn, ForkReturn, WaitBlock, WaitReturn, ExitFindNext,
         ExitCheckParent, ExitTerminate, ScanNext, ScanPanic, ScanUnlock, ScanEnd, WakeEnd,
         CompositorBlock
    <3>3. \A u \in ThreadId : thr'[u] = "unborn" <=> thr[u] = "unborn"
      BY <1>0, <2>1, Zenon DEF ExecReturn, ForkReturn, WaitBlock, WaitReturn, ExitFindNext,
         ExitCheckParent, ExitTerminate, ScanNext, ScanPanic, ScanUnlock, ScanEnd, WakeEnd,
         CompositorBlock, At, Block, Terminate
    <3> QED BY <3>1, <3>2, <3>3, TableQuiet, Zenon
  <2>2. CASE \/ ExitNotify(t) \/ (ScanEnd(t) /\ t \in Pids)
             \/ t = Executor /\ \E id \in Pids : WakeReader(id)
    <3>1. /\ UNCHANGED <<procs, pid_count, parent, children, child>>
          /\ pc' = [pc EXCEPT ![t] = pc'[t]]
          /\ ~Creating(t) /\ ~Creating(t)' /\ (pc[t] \in Gone <=> pc'[t] \in Gone)
          /\ \E S : thr' = Unblocked(S)
      BY <1>0, <2>2, Zenon DEF ExitNotify, ScanEnd, WakeReader, At, Goto, Creating, Gone
    <3>2. \A u \in ThreadId : thr'[u] = "unborn" <=> thr[u] = "unborn"
      BY <1>0, <3>1, UnblockedUnborn, Zenon
    <3> QED BY <1>0, <3>1, <3>2, TableQuiet, Zenon
  <2>3. CASE (t = Main /\ SpawnPushProc) \/ ForkPushProc(t)
    <3>1. /\ UNCHANGED <<thr, child, pid_count, parent, children>>
          /\ pc' = [pc EXCEPT ![t] = pc'[t]]
          /\ Creating(t) /\ ~Listed(t) /\ Listed(t)' /\ procs' = Append(procs, child[t])
      BY <1>0, <2>3 DEF SpawnPushProc, ForkPushProc, At, Goto, Creating, Listed
    <3> QED BY <3>1, TablePushProc
  <2>4. CASE (t = Main /\ SpawnPushThread) \/ ForkPushThread(t)
    <3>1. /\ UNCHANGED <<procs, child, pid_count, parent, children>>
          /\ pc' = [pc EXCEPT ![t] = pc'[t]] /\ thr[t] = "runnable"
          /\ Listed(t) /\ ~Creating(t)' /\ pc'[t] \notin Gone
          /\ thr' = [thr EXCEPT ![child[t]] = "runnable"]
      BY <1>0, <2>4 DEF SpawnPushThread, ForkPushThread, Spawn, At, Goto, Creating, Listed, Gone
    <3> QED BY <3>1, TableSpawn, Zenon
  <2>5. CASE ForkLock(t)
    <3>1. /\ UNCHANGED <<thr, procs, child, pid_count>> /\ t \in Pids /\ Creating(t)
          /\ pc[t] = "fork_lock" /\ pc'[t] = "fork_proc"
          /\ \A u \in ThreadId \ {t} : pc'[u] = pc[u]
          /\ parent' = [parent EXCEPT ![child[t]] = t]
          /\ children' = [children EXCEPT ![t] = @ \cup {child[t]}]
      BY <1>0, <2>5, Actors DEF ForkLock, At, Goto, Creating
    <3>2. /\ \A u \in ThreadId : Creating(u)' <=> Creating(u)
          /\ \A u \in ThreadId : Listed(u)' <=> Listed(u)
          /\ \A u \in ThreadId : pc'[u] \in Gone <=> pc[u] \in Gone
      BY <3>1 DEF Creating, Listed, Gone
    <3>3. child[t] \in Pids /\ children' \in [Pids -> SUBSET Pids]
      BY <3>1 DEF IInv, Fresh
    <3>4. Creating(Main) => parent'[child[Main]] = None
      <4> SUFFICES ASSUME Creating(Main) PROVE parent'[child[Main]] = None
        OBVIOUS
      <4>1. child[Main] # child[t] /\ child[Main] \in Pids /\ parent[child[Main]] = None
        BY <3>1, IdFacts DEF IInv, Fresh
      <4> QED BY <3>1, <4>1 DEF IInv, Wakers
    <3>5. Fresh'
      BY <3>1, <3>2, <3>3, <3>4, IdFacts, Zenon DEF IInv, Fresh
    <3>6. Table'
      BY <3>1, <3>2, IdFacts, Zenon DEF IInv, Table
    <3> QED BY <3>5, <3>6
  <2>6. CASE ExitRemove(t)
    BY <2>6, <1>0, Actors, TableRemove, Zenon DEF ExitRemove, At
  <2> QED BY <1>1, <2>1, <2>2, <2>3, <2>4, <2>5, <2>6 DEF KernelStep, ExitStep, FileStep
<1>2. ASSUME NEW t \in ThreadId, Call(t), ~FileStep(t) PROVE Fresh' /\ Table'
  <2>1. CASE \/ ExecLock(t) \/ ExitLockProc(t) \/ ScanLockProc(t)
             \/ \E pid \in Pids : WaitPid(t, pid)
    <3>1. /\ UNCHANGED <<procs, pid_count, parent, children, child>>
          /\ pc' = [pc EXCEPT ![t] = pc'[t]]
          /\ ~Creating(t) /\ ~Creating(t)' /\ (pc[t] \in Gone <=> pc'[t] \in Gone)
      BY <1>0, <2>1, Zenon DEF ExecLock, ExitLockProc, ScanLockProc, WaitPid, At, Goto, Creating, Gone
    <3>2. \A u \in ThreadId : thr'[u] = "unborn" <=> thr[u] = "unborn"
      BY <2>1, Zenon DEF ExecLock, ExitLockProc, ScanLockProc, WaitPid
    <3> QED BY <1>0, <3>1, <3>2, TableQuiet, Zenon
  <2>2. CASE FrameReady(t)
    <3>1. /\ UNCHANGED <<procs, pid_count, parent, children, child>>
          /\ pc' = [pc EXCEPT ![t] = pc'[t]] /\ thr' = Unblocked({Compositor})
          /\ ~Creating(t) /\ ~Creating(t)' /\ (pc[t] \in Gone <=> pc'[t] \in Gone)
      BY <1>0, <2>2 DEF FrameReady, At, Creating, Gone, pvars
    <3> QED BY <1>0, <3>1, UnblockedUnborn, TableQuiet, Zenon
  <2>3. CASE ForkPid(t)
    <3> DEFINE c == pid_count
    <3>1. /\ UNCHANGED <<thr, procs, parent, children>> /\ t \in Pids /\ c \in Pids
          /\ pc[t] = "user" /\ pc'[t] = "fork_lock"
          /\ \A u \in ThreadId \ {t} : pc'[u] = pc[u] /\ child'[u] = child[u]
          /\ child' \in [ThreadId -> {None} \cup Pids] /\ child'[t] = c /\ pid_count' = c + 1
      BY <1>0, <2>3, Zenon DEF ForkPid, At, Goto
    <3>2. /\ \A u \in ThreadId : Creating(u)' <=> Creating(u) \/ u = t
          /\ ~Creating(t) /\ ~Listed(t)
          /\ \A u \in ThreadId : Listed(u)' <=> Listed(u)
          /\ \A u \in ThreadId : Listed(u) => Creating(u)
          /\ \A u \in ThreadId : pc'[u] \in Gone <=> pc[u] \in Gone
      BY <3>1 DEF Creating, Listed, Gone
    <3>3. c \in Int /\ \A p \in Pids : p \in Int /\ (p < c => p < c + 1 /\ p # c)
      BY <3>1, ProcessAssumption DEF Pids
    <3>4. c < c + 1 /\ c + 1 \in FirstPid..(LastPid + 1)
      BY <3>1, <3>3, ProcessAssumption DEF Pids
    <3>5. ~(c < c)
      BY <3>3
    <3>6. thr[c] = "unborn" /\ ~In(procs, c)
      BY <3>1, <3>5 DEF IInv, Fresh
    <3>7. \A u \in ThreadId : Creating(u) =>
            /\ u # t /\ child[u] \in Pids /\ child[u] < c + 1 /\ child[u] # c
            /\ thr[child[u]] = "unborn" /\ (In(procs, child[u]) <=> Listed(u))
      BY <3>2, <3>3, Zenon DEF IInv, Fresh
    <3> HIDE DEF c
    <3>8. Fresh'
      <4>1. ASSUME NEW u \in ThreadId, Creating(u)'
            PROVE  /\ child'[u] \in Pids /\ child'[u] < pid_count' /\ thr'[child'[u]] = "unborn"
                   /\ In(procs', child'[u]) <=> Listed(u)'
                   /\ \A w \in ThreadId : Creating(w)' /\ child'[w] = child'[u] => w = u
        <5>1. CASE u = t
          BY <3>1, <3>2, <3>4, <3>6, <3>7, <5>1
        <5>2. CASE u # t
          <6>1. Creating(u) /\ child'[u] = child[u]
            BY <3>1, <3>2, <4>1, <5>2
          <6>2. \A w \in ThreadId : Creating(w) /\ child[w] = child[u] => w = u
            BY <6>1 DEF IInv, Fresh
          <6>3. child[u] # child'[t]
            BY <3>1, <3>7, <6>1
          <6> QED BY <3>1, <3>2, <3>7, <6>1, <6>2, <6>3, Zenon
        <5> QED BY <5>1, <5>2
      <4>2. \A p \in Pids : thr'[p] # "unborn" \/ In(procs', p) => p < pid_count'
        BY <3>1, <3>3, Zenon DEF IInv, Fresh, c
      <4>3. Creating(Main)' => parent'[child'[Main]] = None
        BY <3>1, <3>2, IdFacts DEF IInv, Fresh
      <4>4. pid_count' \in FirstPid..(LastPid + 1) /\ children' \in [Pids -> SUBSET Pids]
        BY <3>1, <3>4 DEF IInv, Fresh
      <4> QED BY <3>1, <4>1, <4>2, <4>3, <4>4, Zenon DEF Fresh
    <3>9. Table'
      <4>1. ASSUME NEW p \in Pids, thr[p] = "unborn", In(procs, p)
            PROVE  \E u \in ThreadId : Listed(u)' /\ child'[u] = p
        BY <3>1, <3>2, <4>1 DEF IInv, Table
      <4> QED BY <3>1, <3>2, <4>1, IdFacts, Zenon DEF IInv, Table
    <3> QED BY <3>8, <3>9
  <2> QED BY <1>2, <2>1, <2>2, <2>3 DEF Call, FileStep
<1>3. CASE UNCHANGED vars
  <2>1. UNCHANGED <<thr, procs, pid_count, parent, children, child, pc>>
    BY <1>3 DEF vars, pvars
  <2>2. \A t : (Creating(t)' <=> Creating(t)) /\ (Listed(t)' <=> Listed(t))
    BY <2>1 DEF Creating, Listed
  <2>3. Fresh'
    BY <2>1, <2>2 DEF IInv, Fresh
  <2>4. Table'
    BY <2>1, <2>2, Zenon DEF IInv, Table
  <2> QED BY <2>3, <2>4
<1>4. ASSUME NEW t \in ThreadId, FileStep(t) PROVE Fresh' /\ Table'
  <2>1. /\ thr[t] = "runnable" /\ pc[t] \in InFile /\ pc'[t] \in InFile
        /\ UNCHANGED <<procs, pid_count, parent, children, child>>
        /\ pc' = [pc EXCEPT ![t] = pc'[t]]
        /\ thr' = thr \/ \E why \in {"WaitPipe", "WaitStdin"} : thr' = [thr EXCEPT ![t] = why]
    BY <1>0, <1>4, FileStepFacts, Zenon
  <2>2. \A u \in ThreadId : thr'[u] = "unborn" <=> thr[u] = "unborn"
    BY <1>0, <2>1
  <2>3. ~Creating(t) /\ ~Creating(t)' /\ (pc[t] \in Gone <=> pc'[t] \in Gone)
    BY <2>1 DEF InFile, Creating, Gone
  <2> QED BY <1>0, <2>1, <2>2, <2>3, TableQuiet, Zenon
<1> QED BY <1>1, <1>2, <1>3, <1>4 DEF Next

\* Thread t moves on or stays, over a PROC that stays as it is.
ScanMove(t) ==
  /\ procs' = procs
  /\ scan' = [scan EXCEPT ![t] = scan'[t]]
  /\ \A u \in ThreadId \ {t} : pc'[u] = pc[u] /\ child'[u] = child[u]
  /\ scan'[t] \in 0..(Len(procs) + 1) /\ pc'[t] # "fork_sched"
  /\ pc'[t] \in {"exit_find", "scan", "panic"} <=> scan'[t] # 0
  /\ pc'[t] = "exit_find" => \E i \in 1..Len(procs) : scan'[t] <= i /\ procs[i] = t
  /\ pc'[t] = "scan" =>
       \A q \in Pids, i \in 1..Len(procs) :
         pc[q] = "fork_sched" /\ procs[i] = q => scan'[t] <= i

\* A move over a PROC that stays keeps the scans in order.
LEMMA ScansMove ==
  ASSUME IInv, NEW t \in ThreadId, ScanMove(t)
  PROVE  Scans'
<1>1. /\ scan' \in [ThreadId -> 0..(Len(procs') + 1)]
      /\ \A u \in ThreadId \ {t} : scan'[u] = scan[u]
  BY Zenon DEF IInv, Scans, ScanMove
<1>2. \A u \in ThreadId : pc'[u] \in {"exit_find", "scan", "panic"} <=> scan'[u] # 0
  BY <1>1, Zenon DEF IInv, Scans, ScanMove
<1>3. \A p \in Pids :
        pc'[p] = "exit_find" => \E i \in 1..Len(procs') : scan'[p] <= i /\ procs'[i] = p
  BY <1>1, IdFacts, Zenon DEF IInv, Scans, ScanMove
<1>4. ASSUME NEW q \in Pids, pc'[q] = "fork_sched"
      PROVE  /\ Before(procs', q, child'[q])
             /\ \A u \in ThreadId, i \in 1..Len(procs') :
                  pc'[u] = "scan" /\ procs'[i] = q => scan'[u] <= i
  <2>1. q # t /\ pc[q] = "fork_sched" /\ child'[q] = child[q] /\ procs' = procs
    BY <1>4, IdFacts, Zenon DEF ScanMove
  <2>2. Before(procs', q, child'[q])
    BY <2>1 DEF IInv, Scans
  <2>3. ASSUME NEW u \in ThreadId, NEW i \in 1..Len(procs'), pc'[u] = "scan", procs'[i] = q
        PROVE  scan'[u] <= i
    BY <1>1, <2>1, <2>3, Zenon DEF IInv, Scans, ScanMove
  <2> QED BY <2>2, <2>3, Zenon
<1> QED BY <1>1, <1>2, <1>3, <1>4, Zenon DEF Scans

\* Nobody scans a PROC that nobody holds.
LEMMA NobodyScans ==
  ASSUME IInv, proc_lock = None
  PROVE  \A u \in ThreadId : scan[u] = 0 /\ pc[u] \notin HoldsProc
BY IdFacts, Zenon DEF IInv, Locks, Scans, HoldsProc

\* A process that is pushed is behind its parent.
LEMMA ScansPush ==
  ASSUME IInv, NEW t \in ThreadId, proc_lock = None, Creating(t), ~Listed(t), Listed(t)',
         thr[t] = "runnable", UNCHANGED <<child, scan>>, procs' = Append(procs, child[t]),
         pc' = [pc EXCEPT ![t] = pc'[t]]
  PROVE  Scans'
<1> DEFINE c == child[t]
<1>1. /\ c \in Pids /\ ~In(procs, c) /\ thr[c] = "unborn" /\ c # t
      /\ \A u \in ThreadId : Creating(u) /\ child[u] = c => u = t
  BY DEF IInv, Fresh
<1>2. /\ \A u \in ThreadId \ {t} : pc'[u] = pc[u]
      /\ pc'[t] \in {"spawn_sched", "fork_sched"}
      /\ pc[t] \notin Gone
  BY DEF IInv, Control, Creating, Listed, Gone
<1>3. procs \in Seq(Pids) /\ procs' = Append(procs, c)
  BY Zenon DEF IInv, Table
<1>4. /\ procs' \in Seq(Pids) /\ Len(procs') \in Nat /\ Len(procs) \in Nat
      /\ Len(procs') = Len(procs) + 1
      /\ procs'[Len(procs) + 1] = c /\ \A i \in 1..Len(procs) : procs'[i] = procs[i]
  <2>1. c \in Pids
    BY <1>1
  <2> HIDE DEF c
  <2>2. PICK s : s = procs
    OBVIOUS
  <2>3. PICK v : v = procs'
    OBVIOUS
  <2>4. s \in Seq(Pids) /\ v = Append(s, c)
    BY <1>3, <2>2, <2>3, Zenon
  <2>5. /\ v \in Seq(Pids) /\ Len(v) \in Nat /\ Len(s) \in Nat
        /\ Len(v) = Len(s) + 1
        /\ v[Len(s) + 1] = c /\ \A i \in 1..Len(s) : v[i] = s[i]
    BY <2>1, <2>4, AppendShape
  <2> QED BY <2>2, <2>3, <2>5, Zenon
<1>5. \A u \in ThreadId : scan'[u] = 0 /\ pc'[u] \notin HoldsProc
  BY <1>2, NobodyScans DEF HoldsProc
<1>6. scan' \in [ThreadId -> 0..(Len(procs') + 1)]
  <2>1. 0 \in 0..(Len(procs') + 1)
    <3>1. Len(procs') \in Nat
      BY <1>4, Zenon
    <3> QED BY <3>1
  <2> QED BY <1>5, <2>1, Zenon DEF IInv, Scans
<1>7. ASSUME NEW q \in Pids, pc'[q] = "fork_sched"
      PROVE  Before(procs', q, child'[q])
  <2>1. q # c
    BY <1>1, <1>2, <1>7, IdFacts, Zenon DEF IInv, Control, Fit
  <2>2. CASE q = t
    <3> HIDE DEF c
    <3>1. /\ Len(procs) \in Nat /\ Len(procs') = Len(procs) + 1 /\ procs'[Len(procs) + 1] = c
          /\ \A i \in 1..Len(procs) : procs'[i] = procs[i] /\ procs[i] # c
      BY <1>1, <1>4, Zenon DEF In
    <3>2. ASSUME NEW i \in 1..Len(procs'), NEW j \in 1..Len(procs'), procs'[i] = t, procs'[j] = c
          PROVE  i < j
      <4>1. j = Len(procs) + 1
        BY <3>1, <3>2
      <4>2. i # Len(procs) + 1
        BY <1>1, <3>1, <3>2, Zenon
      <4>3. Len(procs) \in Nat /\ i \in 1..(Len(procs) + 1)
        BY <3>1, Zenon
      <4> QED BY <4>1, <4>2, <4>3
    <3>3. child'[q] = c
      BY <2>2 DEF c
    <3> QED BY <2>2, <3>2, <3>3, Zenon DEF Before
  <2>3. CASE q # t
    <3>1. /\ pc[q] = "fork_sched" /\ child'[q] = child[q] /\ child[q] # c
          /\ Before(procs, q, child[q])
      BY <1>1, <1>2, <1>7, <2>3, IdFacts, Zenon DEF IInv, Scans, Creating
    <3> DEFINE d == child[q]
    <3> HIDE DEF c, d
    <3>2. /\ Len(procs) \in Nat /\ Len(procs') = Len(procs) + 1 /\ procs'[Len(procs) + 1] = c
          /\ \A i \in 1..Len(procs) : procs'[i] = procs[i]
      BY <1>4, Zenon
    <3>3. Before(procs, q, d) /\ d # c /\ child'[q] = d
      BY <3>1, Zenon DEF d
    <3>4. ASSUME NEW i \in 1..Len(procs'), NEW j \in 1..Len(procs'), procs'[i] = q, procs'[j] = d
          PROVE  i < j
      <4>1. i \in 1..Len(procs) /\ j \in 1..Len(procs)
        <5>1. i # Len(procs) + 1 /\ j # Len(procs) + 1
          BY <2>1, <3>2, <3>3, <3>4, Zenon
        <5>2. Len(procs) \in Nat /\ i \in 1..(Len(procs) + 1) /\ j \in 1..(Len(procs) + 1)
          BY <3>2, Zenon
        <5> QED BY <5>1, <5>2
      <4> QED BY <3>2, <3>3, <3>4, <4>1 DEF Before
    <3> QED BY <3>3, <3>4 DEF Before
  <2> QED BY <2>2, <2>3, Zenon
<1> QED BY <1>5, <1>6, <1>7, IdFacts, Zenon DEF Scans, HoldsProc

\* Removing a process leaves the order of the others.
LEMMA ScansRemove ==
  ASSUME IInv, NEW t \in Pids, ExitRemove(t)
  PROVE  Scans'
<1> DEFINE k == scan[t]
<1>0. /\ pc[t] = "exit_find" /\ t \in ThreadId /\ child' = child
      /\ pc'[t] \in {"exit_term", "exit_check"}
      /\ \A u \in ThreadId \ {t} : pc'[u] = pc[u]
      /\ scan' = [scan EXCEPT ![t] = 0]
  BY IdFacts, Zenon DEF ExitRemove, At, Goto, IInv, Control
<1>1. k \in 1..Len(procs) /\ procs \in Seq(Pids) /\ procs' = Remove(procs, k)
  BY ProcsFacts, Zenon DEF ExitRemove
<1>2. \A u \in ThreadId \ {t} : pc[u] \notin HoldsProc /\ scan[u] = 0
  BY <1>0, Zenon DEF IInv, Locks, Scans, HoldsProc
<1>3. \A u \in ThreadId : scan'[u] = 0 /\ pc'[u] \notin HoldsProc
  BY <1>0, <1>2, Zenon DEF IInv, Scans, HoldsProc
<1>4. /\ Len(procs) \in Nat /\ Len(procs') = Len(procs) - 1
      /\ \A i \in 1..Len(procs') : procs'[i] = IF i < k THEN procs[i] ELSE procs[i + 1]
  <2> HIDE DEF k
  <2> QED BY <1>1 DEF Remove
<1>5. scan' \in [ThreadId -> 0..(Len(procs') + 1)]
  <2>1. 0 \in 0..(Len(procs') + 1)
    BY <1>1, <1>4
  <2> QED BY <1>0, <1>3, <2>1, Zenon DEF IInv, Scans
<1>6. ASSUME NEW q \in Pids, pc'[q] = "fork_sched"
      PROVE  Before(procs', q, child'[q])
  <2>1. Before(procs, q, child[q])
    BY <1>0, <1>6, IdFacts, Zenon DEF IInv, Scans
  <2> DEFINE d == child[q]
  <2>2. Before(procs, q, d) /\ child'[q] = d
    BY <1>0, <2>1, Zenon
  <2> HIDE DEF d, k
  <2>3. ASSUME NEW i \in 1..Len(procs'), NEW j \in 1..Len(procs'), procs'[i] = q, procs'[j] = d
        PROVE  i < j
    <3> DEFINE a == IF i < k THEN i ELSE i + 1
               b == IF j < k THEN j ELSE j + 1
    <3>1. a \in 1..Len(procs) /\ b \in 1..Len(procs)
      BY <1>1, <1>4
    <3>2. procs[a] = q /\ procs[b] = d
      BY <1>4, <2>3
    <3>3. a < b
      <4> HIDE DEF a, b
      <4> QED BY <2>2, <3>1, <3>2 DEF Before
    <3> QED BY <1>1, <1>4, <3>3
  <2> QED BY <2>2, <2>3, Zenon DEF Before
<1> QED BY <1>3, <1>5, <1>6, IdFacts, Zenon DEF Scans, HoldsProc

\* Every step keeps the scans in order.
LEMMA StepScans ==
  ASSUME IInv, [Next]_vars PROVE Scans'
<1>0. /\ pc \in [ThreadId -> Labels] /\ child \in [ThreadId -> {None} \cup Pids]
      /\ scan \in [ThreadId -> 0..(Len(procs) + 1)]
      /\ \A u \in ThreadId : pc[u] \in {"exit_find", "scan", "panic"} <=> scan[u] # 0
  BY Zenon DEF IInv, Control, Fresh, Scans
<1>a. Len(procs) \in Nat /\ DOMAIN procs = 1..Len(procs)
  BY ProcsFacts
<1>b. Control
  BY DEF IInv
<1>1. ASSUME NEW t \in ThreadId, KernelStep(t), ~FileStep(t) PROVE Scans'
  <2>1. CASE \/ ExecReturn(t) \/ ForkReturn(t) \/ WaitBlock(t) \/ WaitReturn(t) \/ ForkLock(t)
             \/ (t = Main /\ SpawnPushThread) \/ ForkPushThread(t)
             \/ ExitCheckParent(t) \/ ExitNotify(t) \/ ExitTerminate(t) \/ ScanUnlock(t)
             \/ t = Executor /\ (WakeEnd \/ \E id \in Pids : WakeReader(id))
             \/ t = Compositor /\ CompositorBlock
    <3>1. /\ procs' = procs /\ scan' = scan
          /\ pc[t] \notin {"exit_find", "scan", "panic"}
          /\ pc'[t] \notin {"exit_find", "scan", "panic", "fork_sched"}
          /\ \A u \in ThreadId \ {t} : pc'[u] = pc[u] /\ child'[u] = child[u]
      BY <1>0, <2>1, Zenon DEF ExecReturn, ForkReturn, WaitBlock, WaitReturn, ForkLock,
         SpawnPushThread,
         ForkPushThread, ExitCheckParent, ExitNotify, ExitTerminate, ScanUnlock, WakeEnd,
         WakeReader, CompositorBlock, At, Goto
    <3> QED BY <1>0, <3>1, ScansMove, Zenon DEF ScanMove
  <2>2. CASE (t = Main /\ SpawnPushProc) \/ ForkPushProc(t)
    <3>1. /\ UNCHANGED <<child, scan>> /\ proc_lock = None /\ thr[t] = "runnable"
          /\ pc' = [pc EXCEPT ![t] = pc'[t]]
          /\ Creating(t) /\ ~Listed(t) /\ Listed(t)' /\ procs' = Append(procs, child[t])
      BY <1>0, <2>2 DEF SpawnPushProc, ForkPushProc, At, Goto, Creating, Listed
    <3> QED BY <3>1, ScansPush
  <2>3. CASE ExitFindNext(t)
    <3>1. /\ UNCHANGED <<procs, child, pc>> /\ pc[t] = "exit_find" /\ t \in Pids
      BY <1>b, <2>3, Actors DEF ExitFindNext, At
    <3>a. /\ scan[t] \in 1..Len(procs) /\ procs[scan[t]] # t
          /\ scan' = [scan EXCEPT ![t] = scan[t] + 1] /\ scan'[t] = scan[t] + 1
      BY <1>0, <1>a, <2>3, Zenon DEF ExitFindNext
    <3>2. PICK i \in 1..Len(procs) : scan[t] <= i /\ procs[i] = t
      BY <3>1, Zenon DEF IInv, Scans
    <3>3. scan[t] + 1 <= i /\ scan[t] + 1 \in 0..(Len(procs) + 1) /\ scan[t] + 1 # 0
      <4>1. PICK n, k : n = Len(procs) /\ k = scan[t]
        OBVIOUS
      <4>2. n \in Nat /\ k \in 1..n /\ i \in 1..n /\ k <= i /\ k # i
        BY <1>a, <3>a, <3>2, <4>1, Zenon
      <4>3. k + 1 <= i /\ k + 1 \in 0..(n + 1) /\ k + 1 # 0
        BY <4>2
      <4> QED BY <4>1, <4>3
    <3>4. scan' = [scan EXCEPT ![t] = scan'[t]]
      BY <3>a, Zenon
    <3> QED BY <3>1, <3>a, <3>2, <3>3, <3>4, ScansMove, Zenon DEF ScanMove
  <2>4. CASE ExitRemove(t)
    BY <1>0, <1>b, <2>4, Actors, ScansRemove, Zenon DEF ExitRemove, At
  <2>5. CASE ScanNext(t)
    <3>1. /\ UNCHANGED <<procs, child, pc, pcb_lock>> /\ pc[t] = "scan"
          /\ pcb_lock[procs[scan[t]]] = None
      BY <2>5, Zenon DEF ScanNext, At
    <3>a. /\ scan[t] \in 1..Len(procs)
          /\ scan' = [scan EXCEPT ![t] = scan[t] + 1] /\ scan'[t] = scan[t] + 1
      BY <1>0, <1>a, <2>5, Zenon DEF ScanNext
    <3>2. scan[t] + 1 \in 0..(Len(procs) + 1) /\ scan[t] + 1 # 0
      BY <1>a, <3>a
    <3>3. ASSUME NEW q \in Pids, NEW i \in 1..Len(procs), pc[q] = "fork_sched", procs[i] = q
          PROVE  scan[t] + 1 <= i
      <4>1. scan[t] <= i
        BY <3>1, <3>3, Zenon DEF IInv, Scans
      <4>2. scan[t] # i
        BY <3>1, <3>3, IdFacts, Zenon DEF IInv, Locks, HoldsPcb
      <4> QED BY <1>a, <3>a, <4>1, <4>2
    <3>4. scan' = [scan EXCEPT ![t] = scan'[t]]
      BY <3>a, Zenon
    <3> QED BY <3>1, <3>a, <3>2, <3>3, <3>4, ScansMove, Zenon DEF ScanMove
  <2>6. CASE ScanPanic(t)
    <3>1. /\ UNCHANGED <<procs, child, scan>> /\ pc[t] = "scan" /\ pc'[t] = "panic"
          /\ \A u \in ThreadId \ {t} : pc'[u] = pc[u]
      BY <1>0, <2>6, Zenon DEF ScanPanic, At, Goto
    <3> QED BY <1>0, <3>1, ScansMove, Zenon DEF ScanMove
  <2>7. CASE ScanEnd(t)
    <3>1. /\ UNCHANGED <<procs, child>> /\ pc'[t] \in {"scan_unlock", "block", "wake"}
          /\ \A u \in ThreadId \ {t} : pc'[u] = pc[u]
          /\ scan' = [scan EXCEPT ![t] = 0] /\ scan'[t] = 0
      BY <1>0, <2>7 DEF ScanEnd, At, Goto
    <3>2. 0 \in 0..(Len(procs) + 1)
      BY <1>a
    <3> QED BY <3>1, <3>2, ScansMove, Zenon DEF ScanMove
  <2> QED BY <1>1, <2>1, <2>2, <2>3, <2>4, <2>5, <2>6, <2>7 DEF KernelStep, ExitStep, FileStep
<1>2. ASSUME NEW t \in ThreadId, Call(t), ~FileStep(t) PROVE Scans'
  <2>1. CASE \/ ExecLock(t) \/ ForkPid(t) \/ FrameReady(t)
             \/ \E pid \in Pids : WaitPid(t, pid)
    <3>1. /\ procs' = procs /\ scan' = scan
          /\ pc[t] \notin {"exit_find", "scan", "panic"}
          /\ pc'[t] \notin {"exit_find", "scan", "panic", "fork_sched"}
          /\ \A u \in ThreadId \ {t} : pc'[u] = pc[u] /\ child'[u] = child[u]
      BY <1>0, <2>1, Zenon DEF ExecLock, ForkPid, FrameReady, WaitPid, At, Goto, pvars
    <3> QED BY <1>0, <3>1, ScansMove, Zenon DEF ScanMove
  <2>2. CASE ExitLockProc(t) \/ ScanLockProc(t)
    <3>1. /\ UNCHANGED <<procs, child>> /\ pc[t] \in {"user", "io"} /\ thr[t] = "runnable"
          /\ pc'[t] = "scan" \/ (t \in Pids /\ pc'[t] = "exit_find")
          /\ \A u \in ThreadId \ {t} : pc'[u] = pc[u]
      BY <1>0, <2>2 DEF ExitLockProc, ScanLockProc, At, Goto
    <3>a. scan' = [scan EXCEPT ![t] = 1] /\ scan'[t] = 1
      BY <1>0, <2>2 DEF ExitLockProc, ScanLockProc
    <3>2. 1 \in 0..(Len(procs) + 1) /\ \A i \in 1..Len(procs) : 1 <= i
      BY <1>a
    <3>3. t \in Pids => \E i \in 1..Len(procs) : 1 <= i /\ procs[i] = t
      BY <3>1, <3>2, Zenon DEF IInv, Table, In, Gone
    <3>4. ScanMove(t)
      <4>1. procs' = procs /\ \A u \in ThreadId \ {t} : pc'[u] = pc[u] /\ child'[u] = child[u]
        BY <3>1
      <4>a. scan' = [scan EXCEPT ![t] = scan'[t]]
        BY <3>a, Zenon
      <4>b. scan'[t] \in 0..(Len(procs) + 1) /\ scan'[t] # 0
        BY <3>2, <3>a
      <4>2. /\ pc'[t] # "fork_sched" /\ pc'[t] \in {"exit_find", "scan", "panic"}
            /\ pc'[t] = "exit_find" => t \in Pids
        BY <3>1
      <4>3. pc'[t] = "exit_find" => \E i \in 1..Len(procs) : scan'[t] <= i /\ procs[i] = t
        BY <3>3, <3>a, <4>2
      <4>4. \A q \in Pids, i \in 1..Len(procs) : scan'[t] <= i
        BY <3>2, <3>a
      <4> QED BY <4>1, <4>a, <4>b, <4>2, <4>3, <4>4 DEF ScanMove
    <3> QED BY <3>4, ScansMove
  <2> QED BY <1>2, <2>1, <2>2 DEF Call, FileStep
<1>3. CASE UNCHANGED vars
  BY <1>3, Zenon DEF vars, pvars, IInv, Scans
<1>4. ASSUME NEW t \in ThreadId, FileStep(t) PROVE Scans'
  <2>1. /\ procs' = procs /\ scan' = scan /\ child' = child
        /\ pc[t] \in InFile /\ pc'[t] \in InFile /\ pc' = [pc EXCEPT ![t] = pc'[t]]
    BY <1>4, <1>b, FileStepFacts
  <2>2. /\ pc[t] \notin {"exit_find", "scan", "panic"}
        /\ pc'[t] \notin {"exit_find", "scan", "panic", "fork_sched"}
        /\ \A u \in ThreadId \ {t} : pc'[u] = pc[u] /\ child'[u] = child[u]
    BY <1>0, <2>1, Zenon DEF InFile
  <2> QED BY <1>0, <2>1, <2>2, ScansMove, Zenon DEF ScanMove
<1> QED BY <1>1, <1>2, <1>3, <1>4 DEF Next

\* The boot state.
LEMMA InitIInv ==
  ASSUME Init PROVE IInv
<1>1. Control
  BY IdFacts, Zenon DEF Init, Control, Fit, Status, Labels, MainLabels, ExecutorLabels,
     CompositorLabels,
     ProcLabels, HoldsPcb, HoldsProc, Gone
<1>2. Locks
  BY IdFacts, Zenon DEF Init, Locks, HoldsPcb, HoldsProc
<1>3. Wakers
  BY IdFacts, Zenon DEF Init, Wakers
<1>4. FirstPid \in Pids /\ FirstPid < FirstPid + 1 /\ FirstPid + 1 \in FirstPid..(LastPid + 1)
  BY ProcessAssumption DEF Pids
<1>5. procs = << >> /\ Len(procs) = 0 /\ \A p : ~In(procs, p)
  BY DEF Init, In
<1>6. Fresh
  BY <1>4, <1>5, IdFacts, Zenon DEF Init, Fresh, Creating, Listed
<1>7. Table
  <2>1. procs \in Seq(Pids) /\ Inj(procs)
    BY <1>5 DEF Inj
  <2> QED BY <1>5, <2>1, IdFacts, Zenon DEF Init, Table, Gone
<1>8. Scans
  <2>1. 0 \in 0..(Len(procs) + 1)
    BY <1>5
  <2>2. \A t \in ThreadId : pc[t] \in {"spawn_proc", "block", "user"} /\ scan[t] = 0
    BY Zenon DEF Init
  <2> QED BY <2>1, <2>2, IdFacts, Zenon DEF Init, Scans
<1>9. Shared
  BY IdFacts, Zenon DEF Init, Shared, HasFile, HoldsFile
<1> QED BY <1>1, <1>2, <1>3, <1>6, <1>7, <1>8, <1>9 DEF IInv

\* The invariant is inductive.
LEMMA StepIInv ==
  ASSUME IInv, [Next]_vars PROVE IInv'
BY StepControl, StepLocks, StepShared, StepWakers, StepTable, StepScans DEF IInv

\* The invariant holds always.
LEMMA Invariance == Spec => []IInv
BY InitIInv, StepIInv, PTL DEF Spec

------------------------------------------------------------------------------
\* The variables of Process stay in their types: a scan index is never past the end
\* of PROC by more than one.
THEOREM TypeTheorem == Spec => []TypeOK
<1>1. IInv => TypeOK
  BY Zenon DEF IInv, Control, Locks, Shared, Wakers, Fresh, Table, Scans, TypeOK
<1> QED BY <1>1, Invariance, PTL

\* A thread that blocks or terminates (wait_pid, a pipe or terminal wait, sys_exit,
\* the compositor) holds neither PROC nor a PCB.
THEOREM LockTheorem == Spec => []SleepersHoldNoLock
<1>1. ASSUME IInv PROVE SleepersHoldNoLock
  <2>1. SUFFICES ASSUME NEW t \in ThreadId, thr[t] # "runnable"
                 PROVE  proc_lock # t /\ \A p \in Pids : pcb_lock[p] # t
    BY DEF SleepersHoldNoLock
  <2>2. pc[t] \notin HoldsProc /\ pc[t] \notin HoldsPcb /\ pc[t] # "panic"
    BY <1>1, <2>1, IdFacts DEF IInv, Control, Fit, Status, HoldsProc, HoldsPcb
  <2> QED BY <1>1, <2>2 DEF IInv, Locks
<1> QED BY <1>1, Invariance, PTL

\* Whoever wake_pipe_sleepers, wakeup_readers or sys_exit has found blocked stays
\* blocked for the same reason until it is unblocked.
THEOREM WakeTheorem == Spec => []WokenStillBlocked
<1>1. IInv => WokenStillBlocked
  BY DEF IInv, Wakers, Finds, WokenStillBlocked
<1> QED BY <1>1, Invariance, PTL

\* position(..).unwrap() in sys_exit finds the process; PROC holds no pid twice and
\* no dead process.
THEOREM ExitTheorem == Spec => []ExitFindsItself
<1>1. ASSUME IInv PROVE ExitFindsItself
  <2>1. procs \in Seq(Pids) /\ DOMAIN procs = 1..Len(procs) /\ Len(procs) \in Nat
    BY <1>1, ProcsFacts
  <2>2. IsInjective(procs)
    BY <1>1, <2>1, ProcsFacts DEF Inj, IsInjective
  <2>3. ASSUME NEW p \in Pids, At(p, "exit_find")
        PROVE  \E i \in scan[p]..Len(procs) : procs[i] = p
    <3>1. PICK i \in 1..Len(procs) : scan[p] <= i /\ procs[i] = p
      BY <1>1, <2>3, Zenon DEF IInv, Scans, At
    <3>2. scan[p] \in 0..(Len(procs) + 1)
      BY <1>1, IdFacts, Zenon DEF IInv, Scans
    <3>3. \A n \in Nat, k, j \in Int : k <= j /\ j <= n => j \in k..n
      OBVIOUS
    <3>4. i \in scan[p]..Len(procs)
      <4>1. scan[p] \in Int /\ i \in Int /\ i <= Len(procs)
        BY <2>1, <3>2
      <4> QED BY <2>1, <3>1, <3>3, <4>1, Zenon
    <3> QED BY <3>1, <3>4
  <2>4. ASSUME NEW p \in Pids, thr[p] = "dead" PROVE p \notin Range(procs)
    <3>1. ~In(procs, p)
      BY <1>1, <2>4, IdFacts, Zenon DEF IInv, Control, Fit, Table, Gone
    <3> QED BY <2>1, <3>1 DEF In, Range
  <2> QED BY <2>2, <2>3, <2>4 DEF ExitFindsItself
<1> QED BY <1>1, Invariance, PTL

\* A scanner that reaches a forked process finds its thread: the parent's PCB, which
\* fork holds until the thread is pushed, is in front of the child in PROC.
THEOREM ForkTheorem == Spec => []ForkedHasThread
<1>1. ASSUME IInv PROVE ForkedHasThread
  <2>1. SUFFICES ASSUME NEW t \in Scanners, NEW p \in Pids, Scanning(t, p), parent[p] # None,
                        thr[p] = "unborn"
                 PROVE  FALSE
    BY DEF ForkedHasThread
  <2>2. /\ t \in ThreadId /\ pc[t] = "scan" /\ Len(procs) \in Nat
        /\ scan[t] \in 1..Len(procs) /\ procs[scan[t]] = p
    BY <1>1, <2>1, IdFacts, ProcsFacts, Zenon DEF Scanning, At, Scanners
  <2>3. PICK q \in ThreadId : Listed(q) /\ child[q] = p
    BY <1>1, <2>1, <2>2, Zenon DEF IInv, Table, In
  <2>4. q # Main
    BY <1>1, <2>1, <2>3 DEF IInv, Fresh, Listed, Creating
  <2>5. q \in Pids /\ pc[q] = "fork_sched"
    BY <1>1, <2>3, <2>4, IdFacts, Zenon DEF IInv, Control, Fit, Listed, ExecutorLabels,
       CompositorLabels,
       MainLabels, ProcLabels, HoldsPcb, HoldsProc, Gone
  <2>6. thr[q] # "unborn" /\ pc[q] \notin Gone
    BY <1>1, <2>5, IdFacts DEF IInv, Control, Fit, Gone
  <2>7. PICK i \in 1..Len(procs) : procs[i] = q
    <3>1. In(procs, q)
      BY <1>1, <2>5, <2>6, Zenon DEF IInv, Table
    <3> QED BY <3>1, Zenon DEF In
  <2>8. i < scan[t]
    <3>1. Before(procs, q, child[q])
      BY <1>1, <2>5, Zenon DEF IInv, Scans
    <3> QED BY <2>2, <2>3, <2>7, <3>1, Zenon DEF Before
  <2>9. scan[t] <= i
    BY <1>1, <2>2, <2>5, <2>7, Zenon DEF IInv, Scans
  <2> QED BY <2>2, <2>7, <2>8, <2>9
<1> QED BY <1>1, Invariance, PTL

\* Every circular wait for PROC, a PCB or a File goes through a fork that spins on PROC,
\* or an fstat, lseek, getdents, ioctl or fcntl that spins on a File, with its own PCB
\* locked: whoever waits anywhere else waits, four steps on, for somebody who does not.
THEOREM ChainTheorem == Spec => []LockChainsEnd
<1>1. ASSUME IInv, NEW t \in ThreadId PROVE Follows(Follows(Follows(Follows(t)))) = None
  <2>0. Follows(None) = None
    BY IdFacts, Zenon DEF Follows, SpinsWithPcb, Awaits
  <2>1. \A u \in ThreadId : pc[u] \in {"fork_lock", "io_lock", "io"} \cup HoldsPcb => u \in Pids
    BY <1>1, Actors, Zenon DEF IInv
  <2>2. \A u \in ThreadId : thr[u] \in Asleep => pc[u] \in {"wait_return", "io"}
    BY <1>1, Zenon DEF IInv, Control, Fit, Asleep
  <2>3. \A u \in ThreadId : scan[u] \in DOMAIN procs => procs[scan[u]] \in Pids
    BY <1>1, ProcsFacts
  <2>4. /\ proc_lock \in {None} \cup ThreadId
        /\ \A p \in Pids : pcb_lock[p] \in {None} \cup ThreadId
        /\ \A f \in Files : file_lock[f] \in {None} \cup Pids
    BY <1>1, Zenon DEF IInv, Locks, Shared
  <2>5. ASSUME NEW u \in ThreadId, pc[u] \in HoldsPcb \cup {"panic", "scan_unlock"}
        PROVE  Follows(u) = None
    <3>1. thr[u] \notin Asleep
      BY <2>2, <2>5, Zenon DEF HoldsPcb
    <3>2. CASE pc[u] \in {"fork_proc", "file_lock"}
      BY <2>1, <3>2, Zenon DEF Follows, SpinsWithPcb, HoldsPcb
    <3>3. CASE pc[u] \notin {"fork_proc", "file_lock"}
      <4>1. pc[u] \notin {"spawn_proc", "fork_lock", "io_lock", "io", "exit_find", "scan"}
        BY <2>5, Zenon DEF HoldsPcb
      <4>2. Awaits(u) = None
        BY <3>1, <3>3, <4>1, Zenon DEF Awaits, Asleep
      <4> QED BY <4>2, Zenon DEF Follows
    <3> QED BY <3>2, <3>3
  \* Who holds a PCB.
  <2>6. \A p \in Pids : Follows(pcb_lock[p]) = None
    BY <1>1, <2>0, <2>4, <2>5, Zenon DEF IInv, Locks
  <2>7. ASSUME NEW u \in ThreadId, pc[u] \in {"exit_find", "scan"}
        PROVE  Follows(u) = None \/ \E p \in Pids : Follows(u) = pcb_lock[p]
    <3>1. thr[u] \notin Asleep
      BY <2>2, <2>7, Zenon
    <3>2. ~SpinsWithPcb(u)
      BY <2>7, Zenon DEF SpinsWithPcb
    <3>3. pc[u] \notin {"spawn_proc", "fork_proc", "fork_lock", "file_lock", "io_lock", "io"}
      BY <2>7, Zenon
    <3> QED BY <2>3, <3>1, <3>2, <3>3, Zenon DEF Follows, Awaits, Asleep
  \* Who holds PROC.
  <2>8. Follows(Follows(proc_lock)) = None
    <3>1. CASE proc_lock = None
      BY <2>0, <3>1, Zenon
    <3>2. CASE proc_lock \in ThreadId
      <4>1. pc[proc_lock] \in HoldsProc
        BY <1>1, <3>2, Zenon DEF IInv, Locks
      <4>2. pc[proc_lock] \in {"exit_find", "scan", "scan_unlock", "panic"}
        BY <4>1, Zenon DEF HoldsProc
      <4>3. CASE pc[proc_lock] \in {"exit_find", "scan"}
        BY <2>0, <2>6, <2>7, <3>2, <4>3, Zenon
      <4>4. CASE pc[proc_lock] \in {"scan_unlock", "panic"}
        BY <2>0, <2>5, <3>2, <4>4, Zenon
      <4> QED BY <4>2, <4>3, <4>4, Zenon
    <3> QED BY <2>4, <3>1, <3>2, Zenon
  \* Who holds a File.
  <2>9. ASSUME NEW f \in Files PROVE Follows(Follows(Follows(file_lock[f]))) = None
    <3>1. CASE file_lock[f] = None
      BY <2>0, <3>1, Zenon
    <3>2. CASE file_lock[f] \in Pids
      <4>1. PICK u \in ThreadId : u = file_lock[f]
        BY <3>2, IdFacts, Zenon
      <4>2. pc[u] \in {"file_call", "io", "scan", "scan_unlock", "panic"}
        BY <1>1, <3>2, <4>1, Zenon DEF IInv, Shared, HoldsFile
      <4>3. CASE pc[u] \in {"file_call", "scan_unlock", "panic"}
        BY <2>0, <2>5, <4>1, <4>3, Zenon DEF HoldsPcb
      <4>4. CASE pc[u] = "scan"
        BY <2>0, <2>6, <2>7, <4>1, <4>4, Zenon
      <4>5. CASE pc[u] = "io"
        <5>1. Follows(u) = None \/ Follows(u) = proc_lock
          BY <4>5, Zenon DEF Follows, Awaits
        <5> QED BY <2>0, <2>8, <4>1, <5>1, Zenon
      <4> QED BY <4>2, <4>3, <4>4, <4>5, Zenon
    <3> QED BY <2>4, <3>1, <3>2, Zenon
  \* Who waits.
  <2>10. \/ Follows(t) = None \/ Follows(t) = proc_lock
         \/ \E p \in Pids : Follows(t) = pcb_lock[p]
         \/ \E f \in Files : Follows(t) = file_lock[f]
    <3>1. pc[t] \in {"file_lock", "io_lock"} => t \in Pids /\ file[t] \in Files
      BY <1>1, <2>1, Zenon DEF HoldsPcb, HasFile, IInv, Shared
    <3>2. pc[t] = "fork_lock" => t \in Pids
      BY <2>1, Zenon
    <3> QED BY <2>3, <3>1, <3>2, Zenon DEF Follows, Awaits
  <2> QED BY <2>0, <2>6, <2>8, <2>9, <2>10, Zenon
<1>2. IInv => LockChainsEnd
  BY <1>1, Zenon DEF LockChainsEnd
<1> QED BY <1>2, Invariance, PTL

\* The wait of wait_pid ends only by the exit of the child waited for, which has left
\* PROC by then.
THEOREM WaitTheorem == Spec => WaitEndsAfterExit
<1>1. ASSUME IInv, [Next]_vars, NEW p \in Pids, thr[p] = "WaitThread", thr'[p] # "WaitThread"
      PROVE  waits_for[p] \notin Range(procs) /\ thr[waits_for[p]] # "unborn"
  <2>1. PICK t \in ThreadId : p \in to_wake[t] /\ pc[t] \in {"exit_notify", "scan", "wake"}
    <3>1. PICK t \in ThreadId : KernelStep(t) \/ Call(t)
      BY <1>1 DEF Next, vars
    <3>2. p \in ThreadId /\ p # Compositor
      BY IdFacts
    <3>0. CASE FileStep(t)
      BY <1>1, <3>0, <3>2, FileStepFacts, Zenon DEF IInv, Control
    <3>3. CASE KernelStep(t) /\ ~FileStep(t)
      BY <1>1, <3>2, <3>3, Zenon DEF KernelStep, ExitStep, FileStep, SpawnPushProc, SpawnPushThread,
         ForkLock, ForkPushProc, ForkPushThread, ForkReturn, ExecReturn, WaitBlock, WaitReturn,
         ExitFindNext, ExitRemove, ExitCheckParent, ExitNotify, ExitTerminate, ScanNext, ScanPanic, ScanEnd,
         ScanUnlock, WakeEnd, WakeReader, CompositorBlock, At, Block, Spawn, Terminate, Unblocked,
         IInv, Control
    <3>4. CASE Call(t) /\ ~FileStep(t)
      BY <1>1, <3>2, <3>4, Zenon DEF Call, FileStep, ForkPid, ExecLock, ExitLockProc, ScanLockProc,
         FrameReady, WaitPid, Unblocked, IInv, Control
    <3> QED BY <3>0, <3>1, <3>3, <3>4
  <2>2. t \in Pids /\ pc[t] = "exit_notify" /\ waits_for[p] = t
    BY <1>1, <2>1, Zenon DEF IInv, Wakers, Finds
  <2>3. thr[t] # "unborn" /\ ~In(procs, t)
    BY <1>1, <2>2, IdFacts, Zenon DEF IInv, Control, Fit, Table, Gone
  <2>4. DOMAIN procs = 1..Len(procs)
    BY <1>1, ProcsFacts
  <2> QED BY <2>2, <2>3, <2>4 DEF In, Range
<1>2. IInv /\ [Next]_vars =>
        [\A p \in Pids : thr[p] = "WaitThread" /\ thr'[p] # "WaitThread" =>
           waits_for[p] \notin Range(procs) /\ thr[waits_for[p]] # "unborn"]_vars
  BY <1>1, Zenon
<1> QED BY <1>2, Invariance, PTL DEF Spec, WaitEndsAfterExit

------------------------------------------------------------------------------
(* The scheduler's interface.                                               *)

\* Whomever unblock_task is called for, it is a step of Threads.tla or does nothing.
LEMMA UnblockIsStep ==
  ASSUME thr = [t \in ThreadId |-> thr[t]], NEW S, thr' = Unblocked(S)
  PROVE  ThrNext \/ thr' = thr
<1> DEFINE W == {t \in ThreadId : t \in S /\ thr[t] \in Reasons}
<1>1. Unblocked(S) = Unblocked(W) /\ W \in SUBSET ThreadId
  BY DEF Unblocked
<1>2. CASE W = {}
  <2>1. \A t \in ThreadId : ~(t \in S /\ thr[t] \in Reasons)
    BY <1>2
  <2> QED BY <2>1, Zenon DEF Unblocked
<1>3. CASE W # {}
  <2>1. Unblock(W)
    BY <1>1, <1>3 DEF Unblock
  <2> QED BY <1>1, <2>1, Zenon DEF ThrNext
<1> QED BY <1>2, <1>3

\* Process asks of the scheduler only what Threads.tla, and so the scheduler, provides:
\* a pid is given to one thread, and only a runnable thread blocks or ends.
THEOREM ThreadsTheorem == Spec => ThrSpec
<1>1. Init => ThrInit
  BY DEF Init, ThrInit
<1>2. ASSUME IInv, [Next]_vars PROVE [ThrNext]_thr
  <2>1. thr = [t \in ThreadId |-> thr[t]]
    <3>1. thr \in [ThreadId -> Status]
      BY <1>2 DEF IInv, Control
    <3> QED BY <3>1
  <2>2. ASSUME NEW t \in ThreadId, KernelStep(t) \/ Call(t)
        PROVE  \/ thr' = thr
               \/ \E S : thr' = Unblocked(S)
               \/ \E u \in ThreadId : Spawn(u)
               \/ \E u \in ThreadId : Terminate(u)
               \/ \E u \in ThreadId, why \in Reasons : Block(u, why)
    <3>1. CASE (t = Main /\ SpawnPushThread) \/ ForkPushThread(t)
      <4>1. Creating(t) /\ Spawn(child[t])
        BY <3>1 DEF SpawnPushThread, ForkPushThread, Creating, At
      <4>2. child[t] \in ThreadId
        BY <1>2, <4>1, IdFacts DEF IInv, Fresh
      <4> QED BY <4>1, <4>2, Zenon
    <3>2. CASE WaitBlock(t) \/ (t = Compositor /\ CompositorBlock)
               \/ (\E why \in {"WaitPipe", "WaitStdin"} : IoBlock(t, why))
      BY <3>2, IdFacts DEF WaitBlock, CompositorBlock, IoBlock
    <3>3. CASE ExitNotify(t) \/ ExitTerminate(t)
      BY <3>3, Zenon DEF ExitNotify, ExitTerminate
    <3>4. CASE ScanEnd(t) \/ FrameReady(t) \/ (t = Executor /\ \E id \in Pids : WakeReader(id))
      BY <3>4, Zenon DEF ScanEnd, FrameReady, WakeReader
    <3>5. CASE \/ t = Main /\ SpawnPushProc
               \/ ForkLock(t) \/ ForkPushProc(t) \/ ForkReturn(t) \/ ExecReturn(t) \/ WaitReturn(t)
               \/ ExitFindNext(t) \/ ExitRemove(t) \/ ExitCheckParent(t)
               \/ ScanNext(t) \/ ScanPanic(t) \/ ScanUnlock(t) \/ (t = Executor /\ WakeEnd)
               \/ ForkPid(t) \/ ExecLock(t) \/ ExitLockProc(t) \/ ScanLockProc(t)
               \/ \E pid \in Pids : WaitPid(t, pid)
               \/ FileLock(t) \/ FileReturn(t) \/ IoLock(t) \/ IoReturn(t)
               \/ \E f \in Files : FileCall(t, f) \/ IoCall(t, f)
      BY <3>5, Zenon DEF SpawnPushProc, ForkLock, ForkPushProc, ForkReturn, ExecReturn, WaitReturn,
         ExitFindNext, ExitRemove, ExitCheckParent, ScanNext, ScanPanic, ScanUnlock, WakeEnd,
         ForkPid,
         ExecLock, ExitLockProc, ScanLockProc, WaitPid, FileLock, FileReturn, IoLock, IoReturn,
         FileCall, IoCall
    <3> QED BY <2>2, <3>1, <3>2, <3>3, <3>4, <3>5, Zenon DEF KernelStep, ExitStep, Call
  <2>3. CASE UNCHANGED vars
    BY <2>3, Zenon DEF vars
  <2> QED BY <1>2, <2>1, <2>2, <2>3, UnblockIsStep, Zenon DEF ThrNext, Next
<1> QED BY <1>1, <1>2, InitIInv, StepIInv, PTL DEF Spec, ThrSpec
==============================================================================
