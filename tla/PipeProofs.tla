------------------------------ MODULE PipeProofs ------------------------------
(***************************************************************************)
(* What Pipe guarantees for any number of processes, every capacity and    *)
(* every length of reads and writes.                                       *)
(***************************************************************************)
EXTENDS Pipe, Integers, SequenceTheorems, TLAPS

Labels == {"user", "read_lock", "read_test", "write_lock", "write_test", "wake_proc",
           "wake_scan", "return"}

Byte == Nat \X Nat

\* Who holds the Files, and where those who sleep are.
Control ==
  /\ pc \in [ThreadId -> Labels]
  /\ \A p \in ThreadId :
       /\ pc[p] \in {"read_lock", "read_test"} => read_file = p
       /\ pc[p] \in {"write_lock", "write_test"} => write_file = p
       /\ pc[p] \in {"wake_proc", "wake_scan"} => read_file = p \/ write_file = p
       /\ read_file = p => write_file # p /\ pc[p] \notin {"user", "write_lock", "write_test"}
       /\ write_file = p => pc[p] # "user"
       /\ thr[p] = "WaitPipeRead" => pc[p] = "read_lock"
       /\ thr[p] = "WaitPipeWrite" => pc[p] = "write_lock"
       /\ thr[p] \in {"runnable"} \cup Reasons

\* A scan of PROC starts from nothing.
Scans ==
  \A p \in ThreadId :
    /\ pc[p] # "wake_scan" => index[p] = 0 /\ to_wake[p] = {}
    /\ pc[p] = "wake_scan" => index[p] # 0

Data ==
  /\ buffer \in Seq(Byte)
  /\ todo \in [ThreadId -> Seq(Byte)]

IInv == TypeOK /\ Control /\ Scans /\ Data

\* Processes, and why they sleep.
LEMMA ProcFacts ==
  /\ Procs \in Seq(ThreadId) /\ Len(Procs) \in Nat /\ None \notin ThreadId
  /\ \A q \in ThreadId : \E i \in 1..Len(Procs) : Procs[i] = q
  /\ Reasons = {"WaitPipeRead", "WaitPipeWrite"}
<1>1. Procs \in Seq(Nat \ {None}) /\ ThreadId = Range(Procs)
  BY PipeAssumption
<1>2. Procs \in Seq(ThreadId)
  BY <1>1 DEF Range
<1>3. None \notin ThreadId
  BY <1>1 DEF Range
<1> QED BY <1>1, <1>2, <1>3, PipeAssumption DEF Range

\* What ReadPop leaves in the ring, and what WritePush takes from the buffer.
LEMMA SubSeqFacts ==
  ASSUME NEW S, NEW q \in Seq(S), NEW n \in 0..Len(q)
  PROVE  /\ SubSeq(q, n + 1, Len(q)) \in Seq(S) /\ Len(SubSeq(q, n + 1, Len(q))) = Len(q) - n
         /\ \A i \in 1..(Len(q) - n) : SubSeq(q, n + 1, Len(q))[i] = q[n + i]
         /\ SubSeq(q, 1, n) \in Seq(S) /\ Len(SubSeq(q, 1, n)) = n
         /\ \A i \in 1..n : SubSeq(q, 1, n)[i] = q[i]
<1>1. Len(q) \in Nat
  BY LenProperties
<1>2. \A i \in 1..Len(q) : q[i] \in S
  OBVIOUS
<1>3. /\ SubSeq(q, n + 1, Len(q)) \in Seq(S)
      /\ Len(SubSeq(q, n + 1, Len(q))) = IF n + 1 <= Len(q) THEN Len(q) - (n + 1) + 1 ELSE 0
      /\ \A i \in 1..(Len(q) - (n + 1) + 1) : SubSeq(q, n + 1, Len(q))[i] = q[(n + 1) + i - 1]
  <2>1. n + 1 \in Int /\ Len(q) \in Int /\ \A i \in (n + 1)..Len(q) : q[i] \in S
    BY <1>1, <1>2
  <2> QED BY <2>1, SubSeqProperties
<1>4. /\ SubSeq(q, 1, n) \in Seq(S)
      /\ Len(SubSeq(q, 1, n)) = IF 1 <= n THEN n - 1 + 1 ELSE 0
      /\ \A i \in 1..(n - 1 + 1) : SubSeq(q, 1, n)[i] = q[1 + i - 1]
  <2>1. 1 \in Int /\ n \in Int /\ \A i \in 1..n : q[i] \in S
    BY <1>1, <1>2
  <2> QED BY <2>1, SubSeqProperties
<1>5. /\ Len(SubSeq(q, n + 1, Len(q))) = Len(q) - n
      /\ \A i \in 1..(Len(q) - n) : SubSeq(q, n + 1, Len(q))[i] = q[n + i]
  BY <1>1, <1>3
<1>6. /\ Len(SubSeq(q, 1, n)) = n
      /\ \A i \in 1..n : SubSeq(q, 1, n)[i] = q[i]
  BY <1>1, <1>4
<1> QED BY <1>3, <1>4, <1>5, <1>6

\* Thread ids, and why threads sleep on a pipe.
LEMMA IdFacts ==
  /\ None \notin ThreadId /\ Reasons = {"WaitPipeRead", "WaitPipeWrite"}
  /\ Len(Procs) \in Nat
BY ProcFacts

\* The sizes of the pipe and of the calls.
LEMMA SizeFacts ==
  /\ PIPE_BUF \in Nat \ {0} /\ Capacity \in Nat /\ PIPE_BUF <= Capacity
  /\ ReadLens \subseteq Nat /\ WriteLens \subseteq Nat /\ MaxWrites \in Nat
BY PipeAssumption

\* The new pipe is empty and nobody holds a lock.
LEMMA InitIInv == Init => IInv
<1> SUFFICES ASSUME Init PROVE IInv
  OBVIOUS
<1>1. TypeOK
  <2>1. Len(buffer) = 0 /\ 0 \in 0..(Len(Procs) + 1)
    BY ProcFacts DEF Init
  <2>2. /\ thr \in [ThreadId -> Status]
        /\ {buffer_lock, read_file, write_file, proc_lock} \subseteq {None} \cup ThreadId
        /\ len \in [ThreadId -> {0} \cup ReadLens]
        /\ to_wake \in [ThreadId -> SUBSET ThreadId]
        /\ fds \in [ThreadId -> SUBSET {"read", "write"}]
    BY PipeAssumption DEF Init, Status
  <2>3. /\ index \in [ThreadId -> 0..(Len(Procs) + 1)]
        /\ calls = 0 /\ full = 0 /\ silent = FALSE
    BY <2>1 DEF Init
  <2>4. Len(buffer) <= Capacity /\ calls \in 0..MaxWrites
    BY <2>1, <2>3, SizeFacts
  <2> QED BY <2>2, <2>3, <2>4, Zenon DEF TypeOK
<1>2. Control /\ Scans
  BY ProcFacts DEF Init, Control, Scans, Labels
<1>3. Data
  BY DEF Init, Data
<1> QED BY <1>1, <1>2, <1>3 DEF IInv

\* Every step keeps types, control and locks.
LEMMA StepIInv == IInv /\ [Next]_vars => IInv'
<1> SUFFICES ASSUME IInv, [Next]_vars PROVE IInv'
  OBVIOUS
<1>1. ASSUME NEW p \in ThreadId, NEW n \in ReadLens, ReadCall(p, n) PROVE IInv'
  <2>t. TypeOK'
    BY <1>1, IdFacts DEF ReadCall, At, Block, Unblocked, IInv, TypeOK, Status, Scans
  <2>c. Control'
    BY <1>1, IdFacts DEF ReadCall, At, Goto, Block, Unblocked, Reading, IInv, TypeOK, Control,
       Labels
  <2>s. Scans'
    BY <1>1, IdFacts DEF ReadCall, At, Goto, IInv, TypeOK, Control, Scans
  <2>d. Data'
    BY <1>1 DEF ReadCall, IInv, Data
  <2> QED BY <2>t, <2>c, <2>s, <2>d DEF IInv
<1>2. ASSUME NEW p \in ThreadId, ReadLock(p) PROVE IInv'
  <2>t. TypeOK'
    BY <1>2, IdFacts DEF ReadLock, At, Block, Unblocked, IInv, TypeOK, Status, Scans
  <2>c. Control'
    BY <1>2, IdFacts DEF ReadLock, At, Goto, Block, Unblocked, Reading, IInv, TypeOK, Control,
       Labels
  <2>s. Scans'
    BY <1>2, IdFacts DEF ReadLock, At, Goto, IInv, TypeOK, Control, Scans
  <2>d. Data'
    BY <1>2 DEF ReadLock, IInv, Data
  <2> QED BY <2>t, <2>c, <2>s, <2>d DEF IInv
<1>3. ASSUME NEW p \in ThreadId, ReadPop(p) PROVE IInv'
  <2>1. Popped(len[p]) \in 0..Len(buffer) /\ Len(buffer) \in Nat
    <3>1. len[p] \in Nat /\ Len(buffer) \in Nat
      <4>1. len[p] \in {0} \cup ReadLens /\ buffer \in Seq(Byte)
        BY DEF IInv, TypeOK, Data
      <4>2. Len(buffer) \in Nat
        BY <4>1, LenProperties
      <4>3. \A n \in {0} \cup ReadLens : n \in Nat
        BY SizeFacts
      <4> QED BY <4>1, <4>2, <4>3, Zenon
    <3> QED BY <3>1 DEF Popped, Lesser
  <2>2. buffer' \in Seq(Byte) /\ Len(buffer') <= Len(buffer) /\ Len(buffer') \in Nat
    BY <1>3, <2>1, SubSeqFacts, SMTT(30) DEF ReadPop, IInv, Data
  <2>t. TypeOK'
    BY <1>3, <2>1, <2>2, SizeFacts, IdFacts, SMTT(30) DEF ReadPop, At, Block, Unblocked, IInv,
       TypeOK, Status, Scans
  <2>c. Control'
    BY <1>3, <2>1, <2>2, SizeFacts, IdFacts DEF ReadPop, At, Goto, Block, Unblocked, Reading,
       IInv, TypeOK, Control, Labels
  <2>s. Scans'
    BY <1>3, <2>1, <2>2, SizeFacts, IdFacts DEF ReadPop, At, Goto, IInv, TypeOK, Control, Scans
  <2>d. Data'
    BY <1>3, <2>1, <2>2 DEF ReadPop, IInv, Data
  <2> QED BY <2>t, <2>c, <2>s, <2>d DEF IInv
<1>4. ASSUME NEW p \in ThreadId, ReadBlock(p) PROVE IInv'
  <2>t. TypeOK'
    BY <1>4, IdFacts DEF ReadBlock, At, Block, Unblocked, IInv, TypeOK, Status, Scans
  <2>c. Control'
    BY <1>4, IdFacts DEF ReadBlock, At, Goto, Block, Unblocked, Reading, IInv, TypeOK, Control,
       Labels
  <2>s. Scans'
    BY <1>4, IdFacts DEF ReadBlock, At, Goto, IInv, TypeOK, Control, Scans
  <2>d. Data'
    BY <1>4 DEF ReadBlock, IInv, Data
  <2> QED BY <2>t, <2>c, <2>s, <2>d DEF IInv
<1>5. ASSUME NEW p \in ThreadId, NEW n \in WriteLens, WriteCall(p, n) PROVE IInv'
  <2>1. [i \in 1..n |-> <<calls + 1, i>>] \in Seq(Byte) /\ calls + 1 \in 0..MaxWrites
    BY <1>5, SizeFacts DEF WriteCall, IInv, TypeOK, Byte
  <2>t. TypeOK'
    BY <1>5, <2>1, IdFacts DEF WriteCall, At, Block, Unblocked, IInv, TypeOK, Status, Scans
  <2>c. Control'
    BY <1>5, <2>1, IdFacts DEF WriteCall, At, Goto, Block, Unblocked, Reading, IInv, TypeOK,
       Control, Labels
  <2>s. Scans'
    BY <1>5, <2>1, IdFacts DEF WriteCall, At, Goto, IInv, TypeOK, Control, Scans
  <2>d. Data'
    BY <1>5, <2>1 DEF WriteCall, IInv, Data
  <2> QED BY <2>t, <2>c, <2>s, <2>d DEF IInv
<1>6. ASSUME NEW p \in ThreadId, WriteLock(p) PROVE IInv'
  <2>t. TypeOK'
    BY <1>6, IdFacts DEF WriteLock, At, Block, Unblocked, IInv, TypeOK, Status, Scans
  <2>c. Control'
    BY <1>6, IdFacts DEF WriteLock, At, Goto, Block, Unblocked, Reading, IInv, TypeOK, Control,
       Labels
  <2>s. Scans'
    BY <1>6, IdFacts DEF WriteLock, At, Goto, IInv, TypeOK, Control, Scans
  <2>d. Data'
    BY <1>6 DEF WriteLock, IInv, Data
  <2> QED BY <2>t, <2>c, <2>s, <2>d DEF IInv
<1>7. ASSUME NEW p \in ThreadId, WritePush(p) PROVE IInv'
  <2>1. ChunkLen(p) \in 0..Len(todo[p]) /\ Len(buffer) \in Nat /\ todo[p] \in Seq(Byte)
    BY SizeFacts DEF ChunkLen, Lesser, IInv, Data
  <2> DEFINE chunk == SubSeq(todo[p], 1, ChunkLen(p))
  <2>2. /\ chunk \in Seq(Byte) /\ Len(chunk) = ChunkLen(p)
        /\ SubSeq(todo[p], ChunkLen(p) + 1, Len(todo[p])) \in Seq(Byte)
    BY <2>1, SubSeqFacts
  <2>3. /\ buffer' = buffer \o chunk
        /\ todo' = [todo EXCEPT ![p] = SubSeq(todo[p], ChunkLen(p) + 1, Len(todo[p]))]
        /\ ChunkLen(p) + Len(buffer) <= Capacity
    BY <1>7 DEF WritePush, Fits
  <2> HIDE DEF chunk
  <2>4. Data'
    BY <2>2, <2>3, ConcatProperties DEF IInv, Data
  <2>5. Len(buffer') <= Capacity
    <3>1. Len(buffer') = Len(buffer) + Len(chunk)
      BY <2>2, <2>3, ConcatProperties, Zenon DEF IInv, Data
    <3> QED BY <3>1, <2>1, <2>2, <2>3
  <2>t. TypeOK'
    BY <1>7, <2>4, <2>5, IdFacts, Zenon DEF WritePush, At, Block, Unblocked, IInv, TypeOK, Status,
       Scans
  <2>c. Control'
    BY <1>7, <2>4, <2>5, IdFacts DEF WritePush, At, Goto, Block, Unblocked, Reading, IInv, TypeOK,
       Control, Labels
  <2>s. Scans'
    BY <1>7, <2>4, <2>5, IdFacts DEF WritePush, At, Goto, IInv, TypeOK, Control, Scans
  <2>d. Data'
    BY <1>7, <2>4, <2>5 DEF WritePush, IInv, Data
  <2> QED BY <2>t, <2>c, <2>s, <2>d DEF IInv
<1>8. ASSUME NEW p \in ThreadId, WriteBlock(p) PROVE IInv'
  <2>t. TypeOK'
    BY <1>8, IdFacts DEF WriteBlock, At, Block, Unblocked, IInv, TypeOK, Status, Scans
  <2>c. Control'
    BY <1>8, IdFacts DEF WriteBlock, At, Goto, Block, Unblocked, Reading, IInv, TypeOK, Control,
       Labels
  <2>s. Scans'
    BY <1>8, IdFacts DEF WriteBlock, At, Goto, IInv, TypeOK, Control, Scans
  <2>d. Data'
    BY <1>8 DEF WriteBlock, IInv, Data
  <2> QED BY <2>t, <2>c, <2>s, <2>d DEF IInv
<1>9. ASSUME NEW p \in ThreadId, WakeLockProc(p) PROVE IInv'
  <2>t. TypeOK'
    BY <1>9, IdFacts DEF WakeLockProc, At, Block, Unblocked, IInv, TypeOK, Status, Scans
  <2>c. Control'
    BY <1>9, IdFacts DEF WakeLockProc, At, Goto, Block, Unblocked, Reading, IInv, TypeOK, Control,
       Labels
  <2>s. Scans'
    BY <1>9, IdFacts DEF WakeLockProc, At, Goto, IInv, TypeOK, Control, Scans
  <2>d. Data'
    BY <1>9 DEF WakeLockProc, IInv, Data
  <2> QED BY <2>t, <2>c, <2>s, <2>d DEF IInv
<1>10. ASSUME NEW p \in ThreadId, WakeScan(p) PROVE IInv'
  <2>1. index[p] \in 1..Len(Procs) /\ Procs[index[p]] \in ThreadId
    <3>1. index[p] \in 0..(Len(Procs) + 1) /\ index[p] # 0 /\ index[p] <= Len(Procs)
      BY <1>10 DEF WakeScan, At, IInv, TypeOK, Scans
    <3>2. index[p] \in 1..Len(Procs)
      BY <3>1, IdFacts
    <3> QED BY <3>2, ProcFacts
  <2>t. TypeOK'
    BY <1>10, <2>1, IdFacts DEF WakeScan, At, Block, Unblocked, IInv, TypeOK, Status, Scans
  <2>c. Control'
    BY <1>10, <2>1, IdFacts DEF WakeScan, At, Goto, Block, Unblocked, Reading, IInv, TypeOK,
       Control, Labels
  <2>s. Scans'
    BY <1>10, <2>1, IdFacts DEF WakeScan, At, Goto, IInv, TypeOK, Control, Scans
  <2>d. Data'
    BY <1>10, <2>1 DEF WakeScan, IInv, Data
  <2> QED BY <2>t, <2>c, <2>s, <2>d DEF IInv
<1>11. ASSUME NEW p \in ThreadId, WakeAll(p) PROVE IInv'
  <2>t. TypeOK'
    BY <1>11, IdFacts DEF WakeAll, At, Block, Unblocked, IInv, TypeOK, Status, Scans
  <2>c. Control'
    BY <1>11, IdFacts DEF WakeAll, At, Goto, Block, Unblocked, Reading, IInv, TypeOK, Control,
       Labels
  <2>s. Scans'
    BY <1>11, IdFacts DEF WakeAll, At, Goto, IInv, TypeOK, Control, Scans
  <2>d. Data'
    BY <1>11 DEF WakeAll, IInv, Data
  <2> QED BY <2>t, <2>c, <2>s, <2>d DEF IInv
<1>12. ASSUME NEW p \in ThreadId, Return(p) PROVE IInv'
  <2>t. TypeOK'
    BY <1>12, IdFacts DEF Return, At, Block, Unblocked, IInv, TypeOK, Status, Scans
  <2>c. Control'
    BY <1>12, IdFacts DEF Return, At, Goto, Block, Unblocked, Reading, IInv, TypeOK, Control, Labels
  <2>s. Scans'
    BY <1>12, IdFacts DEF Return, At, Goto, IInv, TypeOK, Control, Scans
  <2>d. Data'
    BY <1>12 DEF Return, IInv, Data
  <2> QED BY <2>t, <2>c, <2>s, <2>d DEF IInv
<1>13. ASSUME NEW p \in ThreadId, NEW end \in {"read", "write"}, Close(p, end) PROVE IInv'
  <2>t. TypeOK'
    BY <1>13, IdFacts DEF Close, At, Block, Unblocked, IInv, TypeOK, Status, Scans
  <2>c. Control'
    BY <1>13, IdFacts DEF Close, At, Goto, Block, Unblocked, Reading, IInv, TypeOK, Control, Labels
  <2>s. Scans'
    BY <1>13, IdFacts DEF Close, At, Goto, IInv, TypeOK, Control, Scans
  <2>d. Data'
    BY <1>13 DEF Close, IInv, Data
  <2> QED BY <2>t, <2>c, <2>s, <2>d DEF IInv
<1>14. CASE UNCHANGED vars
  BY <1>14 DEF vars, pvars, IInv, TypeOK, Control, Scans, Data
<1> QED BY <1>1, <1>2, <1>3, <1>4, <1>5, <1>6, <1>7, <1>8, <1>9, <1>10, <1>11, <1>12, <1>13, <1>14
        DEF Next, KernelStep

\* Every variable of the pipe keeps its type; in particular the ring never holds more
\* than its capacity, whatever is written.
THEOREM TypeTheorem == Spec => []TypeOK
<1>1. IInv => TypeOK
  BY DEF IInv
<1> QED BY <1>1, InitIInv, StepIInv, PTL DEF Spec

------------------------------------------------------------------------------
(* No wake-up is lost.                                                      *)

\* A step that leaves the ring, the scans and the sleepers alone, by a process that
\* is not about to wake anybody.
LEMMA QuietStep ==
  ASSUME IInv, NoLostWakeup, NEW p \in ThreadId, pc[p] \notin {"wake_proc", "wake_scan"},
         UNCHANGED <<buffer, index, to_wake, silent>>,
         pc' = [pc EXCEPT ![p] = pc'[p]],
         \A q \in ThreadId \ {p} : read_file' = q <=> read_file = q,
         \A q \in ThreadId \ {p} : todo'[q] = todo[q] /\ thr'[q] = thr[q],
         thr'[p] = "WaitPipeRead" => buffer = << >>,
         thr'[p] = "WaitPipeWrite" => ~Fits(p)'
  PROVE  NoLostWakeup'
<1>1. ASSUME NEW w \in ThreadId, NEW why, WillWake(w, why)
      PROVE  WillWake(w, why)' /\ \A q : Missed(w, q)' = Missed(w, q)
  BY <1>1 DEF WillWake, Sleepers, Reading, Missed, IInv, Control
<1>2. \A q \in ThreadId \ {p} : Fits(q)' = Fits(q)
  BY DEF Fits, ChunkLen
<1> QED BY <1>1, <1>2, Zenon DEF NoLostWakeup

\* Every step keeps a waker on its way to whoever sleeps without reason.
LEMMA StepWakeup == IInv /\ NoLostWakeup /\ [Next]_vars => NoLostWakeup'
<1> SUFFICES ASSUME IInv, NoLostWakeup, [Next]_vars PROVE NoLostWakeup'
  OBVIOUS
<1>1. ASSUME NEW p \in ThreadId,
             \/ \E n \in ReadLens : ReadCall(p, n)
             \/ \E n \in WriteLens : WriteCall(p, n)
             \/ ReadLock(p) \/ WriteLock(p)
      PROVE  NoLostWakeup'
  <2>1. /\ pc[p] \notin {"wake_proc", "wake_scan"} /\ UNCHANGED <<buffer, index, to_wake, silent, thr>>
        /\ pc' = [pc EXCEPT ![p] = pc'[p]]
        /\ \A q \in ThreadId \ {p} : read_file' = q <=> read_file = q
        /\ \A q \in ThreadId \ {p} : todo'[q] = todo[q]
        /\ thr[p] = "runnable"
    BY <1>1, IdFacts, Zenon DEF ReadCall, WriteCall, ReadLock, WriteLock, At, Goto, IInv, Control,
       Data
  <2> QED BY <2>1, QuietStep
<1>2. ASSUME NEW p \in ThreadId, ReadBlock(p) \/ WriteBlock(p) PROVE NoLostWakeup'
  <2>1. /\ pc[p] \notin {"wake_proc", "wake_scan"}
        /\ UNCHANGED <<buffer, index, to_wake, silent, read_file, todo>>
        /\ pc' = [pc EXCEPT ![p] = pc'[p]]
        /\ \A q \in ThreadId \ {p} : thr'[q] = thr[q]
        /\ thr'[p] = "WaitPipeRead" => buffer = << >>
        /\ thr'[p] = "WaitPipeWrite" => ~Fits(p)
    BY <1>2 DEF ReadBlock, WriteBlock, Block, At, Goto, IInv, Control, TypeOK
  <2>2. Fits(p)' = Fits(p)
    BY <2>1 DEF Fits, ChunkLen
  <2> QED BY <2>1, <2>2, QuietStep, Zenon
<1>3. ASSUME NEW p \in ThreadId, ReadPop(p) PROVE NoLostWakeup'
  <2>1. /\ read_file = p /\ UNCHANGED <<thr, read_file, todo, index, to_wake>>
        /\ pc' = [pc EXCEPT ![p] = IF len[p] > 0 THEN "wake_proc" ELSE "return"]
        /\ silent' = (silent \/ len[p] = 0) /\ thr[p] = "runnable" /\ pc[p] = "read_test"
    BY <1>3 DEF ReadPop, At, Goto, IInv, Control
  <2>2. \A q \in ThreadId : thr[q] # "WaitPipeRead"
    BY <2>1 DEF IInv, Control
  <2>3. ASSUME ~silent' PROVE \A q \in ThreadId : WillWake(p, "WaitPipeWrite")' /\ ~Missed(p, q)'
    <3>1. len[p] \in Nat /\ len[p] # 0
      BY <2>1, <2>3, SizeFacts, Zenon DEF IInv, TypeOK
    <3>2. pc'[p] = "wake_proc"
      BY <3>1, <2>1 DEF IInv, Control
    <3>3. index'[p] = 0
      BY <2>1 DEF IInv, Scans
    <3> QED BY <3>2, <3>3, <2>1 DEF WillWake, Sleepers, Reading, Missed
  <2> QED BY <2>1, <2>2, <2>3 DEF NoLostWakeup
<1>4. ASSUME NEW p \in ThreadId, WritePush(p) PROVE NoLostWakeup'
  <2>1. /\ write_file = p /\ read_file # p /\ UNCHANGED <<thr, read_file, index, to_wake>>
        /\ pc' = [pc EXCEPT ![p] = "wake_proc"] /\ thr[p] = "runnable" /\ pc[p] = "write_test"
    BY <1>4 DEF WritePush, At, Goto, IInv, Control
  <2>2. \A q \in ThreadId : thr[q] # "WaitPipeWrite"
    BY <2>1 DEF IInv, Control
  <2>3. \A q \in ThreadId : WillWake(p, "WaitPipeRead")' /\ ~Missed(p, q)'
    <3>1. pc'[p] = "wake_proc" /\ index'[p] = 0
      BY <2>1 DEF IInv, Control, Scans
    <3> QED BY <3>1, <2>1 DEF WillWake, Sleepers, Reading, Missed
  <2> QED BY <2>1, <2>2, <2>3 DEF NoLostWakeup
<1>5. ASSUME NEW p \in ThreadId, WakeLockProc(p) PROVE NoLostWakeup'
  <2>1. /\ UNCHANGED <<thr, read_file, buffer, todo, to_wake, silent>> /\ index' = [index EXCEPT ![p] = 1]
        /\ pc' = [pc EXCEPT ![p] = "wake_scan"] /\ pc[p] = "wake_proc"
    BY <1>5 DEF WakeLockProc, At, Goto
  <2>2. \A w \in ThreadId, why \in Reasons : WillWake(w, why) => WillWake(w, why)'
    BY <2>1 DEF WillWake, Sleepers, Reading, IInv, Control
  <2>3. \A w, q \in ThreadId : Missed(w, q)' => Missed(w, q)
    BY <2>1 DEF Missed, IInv, TypeOK
  <2>4. \A q \in ThreadId : Fits(q)' = Fits(q)
    BY <2>1 DEF Fits, ChunkLen
  <2> QED BY <2>1, <2>2, <2>3, <2>4, IdFacts DEF NoLostWakeup
<1>6. ASSUME NEW p \in ThreadId, WakeScan(p) PROVE NoLostWakeup'
  <2>1. /\ UNCHANGED <<thr, read_file, buffer, todo, silent, pc>> /\ index' = [index EXCEPT ![p] = @ + 1]
        /\ to_wake' = [to_wake EXCEPT ![p] = IF thr[Procs[index[p]]] = Sleepers(p)
                                            THEN to_wake[p] \cup {Procs[index[p]]} ELSE to_wake[p]]
    BY <1>6 DEF WakeScan
  <2>2. \A w \in ThreadId, why \in Reasons : WillWake(w, why)' = WillWake(w, why)
    BY <2>1 DEF WillWake, Sleepers, Reading
  <2>3. ASSUME NEW w \in ThreadId, NEW q \in ThreadId, thr[q] = Sleepers(w), Missed(w, q)'
        PROVE  Missed(w, q)
    <3>1. PICK i \in 1..(index'[w] - 1) : Procs[i] = q /\ q \notin to_wake'[w]
      BY <2>3 DEF Missed
    <3>2. index[w] \in Nat /\ q \notin to_wake[w]
      BY <2>1, <3>1 DEF IInv, TypeOK
    <3>3. i \in 1..(index[w] - 1)
      <4>1. CASE w # p
        BY <4>1, <2>1, <3>1 DEF IInv, TypeOK
      <4>2. CASE w = p
        <5>1. index'[w] = index[w] + 1
          BY <4>2, <2>1 DEF IInv, TypeOK
        <5>2. i # index[w]
          BY <4>2, <2>1, <2>3, <3>1 DEF IInv, TypeOK
        <5> QED BY <5>1, <5>2, <3>2
      <4> QED BY <4>1, <4>2
    <3> QED BY <3>1, <3>2, <3>3 DEF Missed
  <2>4. \A q \in ThreadId : Fits(q)' = Fits(q)
    BY <2>1 DEF Fits, ChunkLen
  <2>5. \A w \in ThreadId, why \in Reasons : WillWake(w, why) => Sleepers(w) = why
    BY DEF WillWake
  <2> QED BY <2>1, <2>2, <2>3, <2>4, <2>5, IdFacts DEF NoLostWakeup
<1>7. ASSUME NEW p \in ThreadId, WakeAll(p) PROVE NoLostWakeup'
  <2>1. /\ UNCHANGED <<read_file, buffer, todo, silent>> /\ thr' = Unblocked(to_wake[p])
        /\ index' = [index EXCEPT ![p] = 0] /\ to_wake' = [to_wake EXCEPT ![p] = {}]
        /\ pc' = [pc EXCEPT ![p] = pc'[p]] /\ index[p] > Len(Procs)
    BY <1>7, Zenon DEF WakeAll, Goto, IInv, Control
  <2>2. ASSUME NEW q \in ThreadId, thr'[q] \in Reasons
        PROVE  thr[q] = thr'[q] /\ Missed(p, q)
    <3>1. thr[q] = thr'[q] /\ q \notin to_wake[p]
      BY <2>1, <2>2, IdFacts DEF Unblocked
    <3>2. PICK i \in 1..Len(Procs) : Procs[i] = q
      BY ProcFacts
    <3>3. i \in 1..(index[p] - 1)
      BY <2>1, <3>2, IdFacts DEF IInv, TypeOK
    <3> QED BY <3>1, <3>2, <3>3 DEF Missed
  <2>3. \A w \in ThreadId \ {p}, why \in Reasons : WillWake(w, why)' = WillWake(w, why)
    BY <2>1 DEF WillWake, Sleepers, Reading, IInv, Control
  <2>4. \A w \in ThreadId \ {p}, q \in ThreadId : Missed(w, q)' = Missed(w, q)
    BY <2>1 DEF Missed, IInv, TypeOK
  <2>5. \A q \in ThreadId : Fits(q)' = Fits(q)
    BY <2>1 DEF Fits, ChunkLen
  <2>6. ASSUME NEW q \in ThreadId, NEW why \in Reasons, thr'[q] = why,
               \E w \in ThreadId : WillWake(w, why) /\ ~Missed(w, q)
        PROVE  \E w \in ThreadId : WillWake(w, why)' /\ ~Missed(w, q)'
    <3>1. PICK w \in ThreadId : WillWake(w, why) /\ ~Missed(w, q)
      BY <2>6, Zenon
    <3>2. w # p
      BY <2>2, <2>6, <3>1, Zenon
    <3>3. WillWake(w, why)' /\ ~Missed(w, q)'
      BY <2>3, <2>4, <3>1, <3>2
    <3> QED BY <3>3
  <2>7. "WaitPipeRead" \in Reasons /\ "WaitPipeWrite" \in Reasons
    BY ProcFacts
  <2>8. ASSUME NEW q \in ThreadId, thr'[q] = "WaitPipeRead", buffer' # << >>
        PROVE  \E w \in ThreadId : WillWake(w, "WaitPipeRead")' /\ ~Missed(w, q)'
    <3>1. thr[q] = "WaitPipeRead" /\ buffer # << >>
      BY <2>1, <2>2, <2>7, <2>8, Zenon
    <3> QED BY <2>6, <2>7, <2>8, <3>1, Zenon DEF NoLostWakeup
  <2>9. ASSUME NEW q \in ThreadId, thr'[q] = "WaitPipeWrite", Fits(q)', ~silent'
        PROVE  \E w \in ThreadId : WillWake(w, "WaitPipeWrite")' /\ ~Missed(w, q)'
    <3>1. thr[q] = "WaitPipeWrite" /\ Fits(q) /\ ~silent
      BY <2>1, <2>2, <2>5, <2>7, <2>9, Zenon
    <3> QED BY <2>6, <2>7, <2>9, <3>1, Zenon DEF NoLostWakeup
  <2> QED BY <2>8, <2>9 DEF NoLostWakeup
<1>8. ASSUME NEW p \in ThreadId, Return(p) PROVE NoLostWakeup'
  <2>1. /\ pc[p] = "return" /\ UNCHANGED <<buffer, index, to_wake, silent, todo, thr>>
        /\ pc' = [pc EXCEPT ![p] = pc'[p]] /\ thr[p] = "runnable"
        /\ \A q \in ThreadId \ {p} : read_file' = q <=> read_file = q
    BY <1>8, IdFacts DEF Return, At, Goto, IInv, Control
  <2> QED BY <2>1, QuietStep
<1>9. ASSUME NEW p \in ThreadId, NEW end \in {"read", "write"}, Close(p, end) PROVE NoLostWakeup'
  <2>1. /\ UNCHANGED <<buffer, index, to_wake, silent, todo, thr, pc, read_file>>
        /\ pc[p] = "user" /\ thr[p] = "runnable"
    BY <1>9, Zenon DEF Close, At
  <2> QED BY <2>1, QuietStep DEF IInv, Control
<1>10. CASE UNCHANGED vars
  <2>1. UNCHANGED <<thr, pc, read_file, buffer, todo, silent, index, to_wake>>
    BY <1>10, Zenon DEF vars, pvars
  <2>2. \A w \in ThreadId, why \in Reasons : WillWake(w, why)' = WillWake(w, why)
    BY <2>1 DEF WillWake, Sleepers, Reading
  <2>3. \A w, q \in ThreadId : Missed(w, q)' = Missed(w, q)
    BY <2>1 DEF Missed
  <2>4. \A q \in ThreadId : Fits(q)' = Fits(q)
    BY <2>1 DEF Fits, ChunkLen
  <2>5. "WaitPipeRead" \in Reasons /\ "WaitPipeWrite" \in Reasons
    BY ProcFacts
  <2> QED BY <2>1, <2>2, <2>3, <2>4, <2>5 DEF NoLostWakeup
<1> QED BY <1>1, <1>2, <1>3, <1>4, <1>5, <1>6, <1>7, <1>8, <1>9, <1>10 DEF Next, KernelStep

\* No reader sleeps over bytes and no writer over room without a process on its way to
\* wake it, for any number of readers and writers and any lengths, reads of length 0
\* aside: block_task_drop_lock closes the window between the test and the sleep.
THEOREM WakeupTheorem == Spec => []NoLostWakeup
<1>1. Init => NoLostWakeup
  BY DEF Init, NoLostWakeup
<1> QED BY <1>1, InitIInv, StepIInv, StepWakeup, PTL DEF Spec

------------------------------------------------------------------------------
(* The bytes of a write stay together.                                      *)

Successor(b) == <<b[1], b[2] + 1>>

\* The bytes t that write call c has left go on where the stream s ends.
Continues(t, s, c) ==
  /\ \A i \in 1..Len(t) : t[i][1] = c
  /\ \A i \in 1..(Len(t) - 1) : t[i + 1] = Successor(t[i])
  /\ \/ t[1][2] = 1 /\ (s # << >> => s[Len(s)][1] # c)
     \/ s # << >> /\ t[1] = Successor(s[Len(s)])

\* A byte is followed by the next of its write, or by the first of another.
Together(s) ==
  \A i \in 1..(Len(s) - 1) :
    \/ s[i + 1] = Successor(s[i])
    \/ s[i + 1][2] = 1 /\ s[i + 1][1] # s[i][1]

\* Only who holds the File of the write end has bytes left, those of the last call.
Writing ==
  /\ pushed \in Seq(Byte)
  /\ \A i \in 1..Len(pushed) : pushed[i][1] <= calls
  /\ \A p \in ThreadId :
       /\ pc[p] \in {"write_lock", "write_test"} => todo[p] # << >>
       /\ todo[p] # << >> => write_file = p /\ pc[p] # "return" /\ Continues(todo[p], pushed, calls)

WInv == IInv /\ Writing /\ WritesNotInterleaved

\* A step that neither starts nor continues a write.
LEMMA WritingQuiet ==
  ASSUME WInv, UNCHANGED <<pushed, calls, todo>>, NEW p \in ThreadId,
         pc' = [pc EXCEPT ![p] = pc'[p]],
         pc'[p] \in {"write_lock", "write_test"} => todo[p] # << >>,
         pc'[p] = "return" => todo[p] = << >>,
         \A q \in ThreadId : write_file = q => write_file' = q \/ todo[q] = << >>
  PROVE  Writing' /\ WritesNotInterleaved'
<1>1. \A q \in ThreadId \ {p} : pc'[q] = pc[q]
  BY DEF WInv, IInv, Control
<1> QED BY <1>1 DEF WInv, Writing, WritesNotInterleaved

\* The first k elements of t, appended to s.
LEMMA AppendFacts ==
  ASSUME NEW S, NEW s \in Seq(S), NEW t \in Seq(S), NEW k \in 0..Len(t)
  PROVE  /\ s \o SubSeq(t, 1, k) \in Seq(S) /\ Len(s \o SubSeq(t, 1, k)) = Len(s) + k
         /\ \A i \in 1..Len(s) : (s \o SubSeq(t, 1, k))[i] = s[i]
         /\ \A i \in 1..k : (s \o SubSeq(t, 1, k))[Len(s) + i] = t[i]
<1> DEFINE h == SubSeq(t, 1, k)
<1>1. Len(s) \in Nat /\ k \in Nat
  BY LenProperties
<1>2. h \in Seq(S) /\ Len(h) = k /\ \A i \in 1..k : h[i] = t[i]
  BY SubSeqFacts
<1> HIDE DEF h
<1>3. /\ s \o h \in Seq(S) /\ Len(s \o h) = Len(s) + Len(h)
      /\ \A i \in 1..(Len(s) + Len(h)) :
           (s \o h)[i] = IF i <= Len(s) THEN s[i] ELSE h[i - Len(s)]
  BY <1>2, ConcatProperties, Zenon
<1>4. \A i \in 1..Len(s) : (s \o h)[i] = s[i]
  BY <1>1, <1>2, <1>3
<1>5. \A i \in 1..k : (s \o h)[Len(s) + i] = t[i]
  <2> TAKE i \in 1..k
  <2>1. /\ Len(s) + i \in 1..(Len(s) + Len(h)) /\ ~(Len(s) + i <= Len(s))
        /\ (Len(s) + i) - Len(s) = i
    BY <1>1, <1>2
  <2> QED BY <2>1, <1>2, <1>3
<1> QED BY <1>2, <1>3, <1>4, <1>5 DEF h

\* A chunk of k bytes goes from the buffer t to the stream s: u is left, v is made.
Moved(s, t, u, v, k) ==
  /\ Len(s) \in Nat /\ Len(t) \in Nat /\ k \in 1..Len(t)
  /\ Len(v) = Len(s) + k /\ Len(u) = Len(t) - k
  /\ \A i \in 1..Len(s) : v[i] = s[i]
  /\ \A i \in 1..k : v[Len(s) + i] = t[i]
  /\ \A i \in 1..(Len(t) - k) : u[i] = t[k + i]
  /\ (Len(s) # 0 => s # << >>) /\ (u # << >> => Len(t) - k # 0) /\ v # << >>

\* The chunk goes on where the stream ends, and the rest goes on where it ends then.
LEMMA PushChunk ==
  ASSUME NEW s, NEW t, NEW u, NEW v, NEW k, Moved(s, t, u, v, k), NEW c \in Nat,
         \A i \in 1..Len(s) : s[i][1] <= c, Together(s), Continues(t, s, c)
  PROVE  /\ Together(v) /\ \A i \in 1..Len(v) : v[i][1] <= c
         /\ u # << >> => Continues(u, v, c)
<1> DEFINE n == Len(s)
           m == Len(t)
<1>0. /\ n \in Nat /\ m \in Nat /\ k \in 1..m /\ Len(v) = n + k /\ Len(u) = m - k
      /\ \A i \in 1..n : v[i] = s[i]
      /\ \A i \in 1..k : v[n + i] = t[i]
      /\ \A i \in 1..(m - k) : u[i] = t[k + i]
      /\ (n # 0 => s # << >>) /\ (u # << >> => m - k # 0) /\ v # << >>
      /\ \A i \in 1..n : s[i][1] <= c
  BY DEF Moved
<1>00. \A i \in 1..m : t[i][1] = c
  BY DEF Continues
<1>01. \A i \in 1..(m - 1) : t[i + 1] = Successor(t[i])
  BY DEF Continues
<1>02. \A i \in 1..(n - 1) : \/ s[i + 1] = Successor(s[i])
                             \/ s[i + 1][2] = 1 /\ s[i + 1][1] # s[i][1]
  BY DEF Together
<1>03. n # 0 => \/ t[1][2] = 1 /\ s[n][1] # c
                \/ t[1] = Successor(s[n])
  BY <1>0 DEF Continues
<1> HIDE DEF n, m
<1>1. \A i \in 1..(n + k) : v[i][1] <= c
  <2> TAKE i \in 1..(n + k)
  <2>1. CASE i <= n
    <3>1. i \in 1..n
      BY <2>1, <1>0
    <3> QED BY <3>1, <1>0, Zenon
  <2>2. CASE ~(i <= n)
    <3>1. i - n \in 1..k /\ i - n \in 1..m /\ n + (i - n) = i
      BY <2>2, <1>0
    <3>2. v[i] = t[i - n] /\ t[i - n][1] = c /\ c <= c
      BY <3>1, <1>0, <1>00
    <3> QED BY <3>2
  <2> QED BY <2>1, <2>2
<1>2. Together(v)
  <2>0. Len(v) - 1 = n + k - 1
    BY <1>0
  <2> SUFFICES ASSUME NEW i \in 1..(n + k - 1)
               PROVE  \/ v[i + 1] = Successor(v[i])
                      \/ v[i + 1][2] = 1 /\ v[i + 1][1] # v[i][1]
    BY <2>0, Zenon DEF Together
  <2>1. CASE i < n
    <3>1. i \in 1..n /\ i + 1 \in 1..n /\ i \in 1..(n - 1)
      BY <2>1, <1>0
    <3> QED BY <3>1, <1>0, <1>02, Zenon
  <2>2. CASE i = n
    <3>1. n \in 1..n /\ 1 \in 1..k /\ 1 \in 1..m /\ n # 0
      BY <2>2, <1>0
    <3>2. v[i] = s[n] /\ v[i + 1] = t[1] /\ t[1][1] = c
      BY <2>2, <3>1, <1>0, <1>00
    <3> QED BY <3>1, <3>2, <1>03
  <2>3. CASE i > n
    <3>1. i - n \in 1..k /\ (i - n) + 1 \in 1..k /\ i - n \in 1..(m - 1)
          /\ n + (i - n) = i /\ n + ((i - n) + 1) = i + 1
      BY <2>3, <1>0
    <3>2. v[i] = t[i - n] /\ v[i + 1] = t[(i - n) + 1]
      BY <3>1, <1>0
    <3> QED BY <3>1, <3>2, <1>01
  <2>4. i < n \/ i = n \/ i > n
    BY <1>0
  <2> QED BY <2>1, <2>2, <2>3, <2>4, Zenon
<1>3. ASSUME u # << >> PROVE Continues(u, v, c)
  <2>1. m - k >= 1
    BY <1>3, <1>0
  <2>2. \A i \in 1..(m - k) : u[i][1] = c
    <3> TAKE i \in 1..(m - k)
    <3>1. k + i \in 1..m
      BY <1>0
    <3> QED BY <3>1, <1>0, <1>00, Zenon
  <2>3. \A i \in 1..(m - k - 1) : u[i + 1] = Successor(u[i])
    <3> TAKE i \in 1..(m - k - 1)
    <3>1. /\ k + i \in 1..(m - 1) /\ k + (i + 1) = (k + i) + 1
          /\ i \in 1..(m - k) /\ i + 1 \in 1..(m - k)
      BY <1>0
    <3>2. u[i] = t[k + i] /\ u[i + 1] = t[(k + i) + 1]
      BY <3>1, <1>0
    <3> QED BY <3>1, <3>2, <1>01
  <2>4. u[1] = Successor(v[Len(v)])
    <3>1. k \in 1..k /\ k \in 1..(m - 1) /\ 1 \in 1..(m - k)
      BY <2>1, <1>0
    <3>2. v[n + k] = t[k]
      BY <3>1, <1>0
    <3>3. u[1] = t[k + 1]
      BY <3>1, <1>0
    <3>4. t[k + 1] = Successor(t[k])
      BY <3>1, <1>01
    <3> QED BY <3>2, <3>3, <3>4, <1>0
  <2> QED BY <2>2, <2>3, <2>4, <1>0 DEF Continues
<1> QED BY <1>0, <1>1, <1>2, <1>3

\* The property, stated of the bytes pushed so far.
LEMMA TogetherIsWhole == WritesNotInterleaved <=> Together(pushed)
BY DEF WritesNotInterleaved, Together, Successor

\* Every step keeps the bytes of a write together.
LEMMA StepWriting == WInv /\ [Next]_vars => Writing' /\ WritesNotInterleaved'
<1> SUFFICES ASSUME WInv, [Next]_vars PROVE Writing' /\ WritesNotInterleaved'
  OBVIOUS
<1> DEFINE Goal == Writing' /\ WritesNotInterleaved'
<1>1. ASSUME NEW p \in ThreadId,
             \/ \E n \in ReadLens : ReadCall(p, n)
             \/ ReadLock(p) \/ ReadPop(p) \/ ReadBlock(p)
             \/ WriteLock(p) \/ WriteBlock(p) \/ WakeLockProc(p) \/ WakeScan(p)
             \/ \E end \in {"read", "write"} : Close(p, end)
      PROVE  Goal
  <2>1. /\ UNCHANGED <<pushed, calls, todo, write_file>> /\ pc' = [pc EXCEPT ![p] = pc'[p]]
        /\ pc'[p] \in {"write_lock", "write_test"} => pc[p] \in {"write_lock", "write_test"}
        /\ pc'[p] = "return" => read_file = p
    BY <1>1, Zenon DEF ReadCall, ReadLock, ReadPop, ReadBlock, WriteLock, WriteBlock, WakeLockProc,
       WakeScan, Close, At, Goto, WInv, IInv, Control
  <2>2. read_file = p => todo[p] = << >>
    BY DEF WInv, IInv, Control, Writing
  <2> QED BY <2>1, <2>2, WritingQuiet, Zenon DEF WInv, Writing
<1>2. ASSUME NEW p \in ThreadId, NEW n \in WriteLens, WriteCall(p, n) PROVE Goal
  <2> DEFINE t == [i \in 1..n |-> <<calls + 1, i>>]
  <2>1. /\ write_file = None /\ write_file' = p /\ calls' = calls + 1 /\ UNCHANGED pushed
        /\ todo' = [todo EXCEPT ![p] = t] /\ n \in Nat /\ calls \in Nat
        /\ pc' = [pc EXCEPT ![p] = IF n > 0 THEN "write_lock" ELSE "return"]
    BY <1>2, SizeFacts DEF WriteCall, Goto, WInv, IInv, TypeOK
  <2>2. \A q \in ThreadId : todo[q] = << >> /\ pc[q] \notin {"write_lock", "write_test"}
    BY <2>1, IdFacts, Zenon DEF WInv, Writing
  <2>3. pushed \in Seq(Byte) /\ Len(pushed) \in Nat /\ \A i \in 1..Len(pushed) : pushed[i] \in Byte
    BY LenProperties DEF WInv, Writing
  <2>4. \A i \in 1..Len(pushed) : pushed[i][1] <= calls' /\ pushed[i][1] # calls'
    <3> TAKE i \in 1..Len(pushed)
    <3>1. pushed[i][1] \in Nat /\ pushed[i][1] <= calls
      BY <2>3 DEF Byte, WInv, Writing
    <3> QED BY <3>1, <2>1
  <2>5. t \in Seq(Byte) /\ Len(t) = n /\ \A i \in 1..n : t[i] = <<calls + 1, i>>
    BY <2>1, IsASeq DEF Byte
  <2> HIDE DEF t
  <2>6. n > 0 => Continues(t, pushed', calls') /\ t # << >>
    <3> SUFFICES ASSUME n > 0 PROVE Continues(t, pushed', calls') /\ t # << >>
      OBVIOUS
    <3>1. \A i \in 1..Len(t) : t[i][1] = calls'
      BY <2>1, <2>5
    <3>2. \A i \in 1..(Len(t) - 1) : t[i + 1] = Successor(t[i])
      BY <2>1, <2>5 DEF Successor
    <3>3. t[1][2] = 1 /\ t # << >>
      BY <2>1, <2>5, EmptySeq
    <3>4. pushed # << >> => pushed[Len(pushed)][1] # calls'
      BY <2>3, <2>4, EmptySeq
    <3> QED BY <3>1, <3>2, <3>3, <3>4, <2>1, Zenon DEF Continues, Successor
  <2>7. n = 0 => t = << >>
    BY <2>5, EmptySeq
  <2>8. \A q \in ThreadId \ {p} : todo'[q] = todo[q] /\ pc'[q] = pc[q]
    BY <2>1 DEF WInv, IInv, Control, Data
  <2>9. todo'[p] = t /\ pc'[p] = IF n > 0 THEN "write_lock" ELSE "return"
    BY <2>1 DEF WInv, IInv, Control, Data
  <2>10. \A q \in ThreadId :
           /\ pc'[q] \in {"write_lock", "write_test"} => todo'[q] # << >>
           /\ todo'[q] # << >> => write_file' = q /\ pc'[q] # "return" /\ Continues(todo'[q], pushed', calls')
    BY <2>1, <2>2, <2>6, <2>7, <2>8, <2>9
  <2> QED BY <2>1, <2>3, <2>4, <2>10, Zenon DEF WInv, Writing, WritesNotInterleaved
<1>3. ASSUME NEW p \in ThreadId, WritePush(p) PROVE Goal
  <2> DEFINE t == todo[p]
             k == ChunkLen(p)
  <2>1. /\ t \in Seq(Byte) /\ t # << >> /\ Continues(t, pushed, calls) /\ write_file = p
    BY <1>3, Zenon DEF WritePush, At, WInv, IInv, Data, Writing
  <2>2. k \in 1..Len(t) /\ calls \in Nat
    <3>1. Len(t) \in Nat /\ Len(t) # 0
      BY <2>1, EmptySeq, LenProperties
    <3> QED BY <3>1, SizeFacts DEF ChunkLen, Lesser, WInv, IInv, TypeOK
  <2>3. /\ pushed' = pushed \o SubSeq(t, 1, k) /\ UNCHANGED <<calls, write_file>>
        /\ todo' = [todo EXCEPT ![p] = SubSeq(t, k + 1, Len(t))]
        /\ pc' = [pc EXCEPT ![p] = "wake_proc"]
    BY <1>3 DEF WritePush, Goto
  <2> HIDE DEF t, k
  <2>0. /\ pushed \in Seq(Byte) /\ Together(pushed)
        /\ \A i \in 1..Len(pushed) : pushed[i][1] <= calls
    BY TogetherIsWhole DEF WInv, Writing
  <2> DEFINE u == SubSeq(t, k + 1, Len(t))
  <2>a. /\ pushed' \in Seq(Byte) /\ Len(pushed') = Len(pushed) + k
        /\ \A i \in 1..Len(pushed) : pushed'[i] = pushed[i]
        /\ \A i \in 1..k : pushed'[Len(pushed) + i] = t[i]
    BY <2>0, <2>1, <2>2, <2>3, AppendFacts
  <2>b. u \in Seq(Byte) /\ Len(u) = Len(t) - k /\ \A i \in 1..(Len(t) - k) : u[i] = t[k + i]
    BY <2>1, <2>2, SubSeqFacts
  <2> HIDE DEF u
  <2>c. /\ Len(pushed) \in Nat /\ Len(t) \in Nat /\ Len(pushed') # 0
        /\ Len(pushed) # 0 => pushed # << >>
        /\ u # << >> => Len(t) - k # 0
        /\ pushed' # << >>
    <3>1. Len(pushed) \in Nat /\ Len(t) \in Nat
      BY <2>0, <2>1, LenProperties
    <3>2. Len(pushed') # 0
      BY <2>2, <2>a, <3>1
    <3> QED BY <2>0, <2>a, <2>b, <3>1, <3>2, EmptySeq
  <2>d. Moved(pushed, t, u, pushed', k)
    BY <2>2, <2>a, <2>b, <2>c DEF Moved
  <2>4. /\ Together(pushed')
        /\ \A i \in 1..Len(pushed') : pushed'[i][1] <= calls
        /\ u # << >> => Continues(u, pushed', calls)
    BY <2>0, <2>1, <2>2, <2>d, PushChunk, Zenon
  <2>5. \A q \in ThreadId \ {p} :
          todo'[q] = << >> /\ pc'[q] \notin {"write_lock", "write_test"}
    BY <2>1, <2>3 DEF WInv, IInv, Control, Data, Writing
  <2>6. todo'[p] = u /\ pc'[p] = "wake_proc"
    BY <2>3, Zenon DEF WInv, IInv, Control, Data, u
  <2>7. \A q \in ThreadId :
          /\ pc'[q] \in {"write_lock", "write_test"} => todo'[q] # << >>
          /\ todo'[q] # << >> => write_file' = q /\ pc'[q] # "return" /\ Continues(todo'[q], pushed', calls')
    BY <2>1, <2>3, <2>4, <2>5, <2>6, Zenon
  <2>8. WritesNotInterleaved'
    BY <2>4, Zenon DEF WritesNotInterleaved, Together, Successor
  <2> QED BY <2>3, <2>4, <2>a, <2>7, <2>8 DEF Writing
<1>4. ASSUME NEW p \in ThreadId, WakeAll(p) PROVE Goal
  <2>1. /\ UNCHANGED <<pushed, calls, todo, write_file>>
        /\ pc' = [pc EXCEPT ![p] = IF ~Reading(p) /\ todo[p] # << >> THEN "write_lock" ELSE "return"]
    BY <1>4 DEF WakeAll, Goto
  <2>2. Reading(p) => todo[p] = << >>
    BY Zenon DEF Reading, WInv, IInv, Control, Writing
  <2>3. /\ pc' = [pc EXCEPT ![p] = pc'[p]] /\ pc'[p] # "write_test"
        /\ pc'[p] = "write_lock" => todo[p] # << >>
        /\ pc'[p] = "return" => todo[p] = << >>
    BY <2>1, <2>2 DEF WInv, IInv, Control
  <2> QED BY <2>1, <2>3, WritingQuiet, Zenon
<1>5. ASSUME NEW p \in ThreadId, Return(p) PROVE Goal
  <2>1. /\ UNCHANGED <<pushed, calls, todo>> /\ pc' = [pc EXCEPT ![p] = pc'[p]] /\ pc'[p] = "user"
        /\ write_file' = IF write_file = p THEN None ELSE write_file
        /\ pc[p] = "return"
    BY <1>5 DEF Return, At, Goto, WInv, IInv, Control
  <2>2. todo[p] = << >>
    BY <2>1 DEF WInv, Writing
  <2> QED BY <2>1, <2>2, WritingQuiet
<1>6. CASE UNCHANGED vars
  BY <1>6, Zenon DEF vars, pvars, WInv, Writing, Continues, WritesNotInterleaved
<1> QED BY <1>1, <1>2, <1>3, <1>4, <1>5, <1>6 DEF Next, KernelStep

\* The bytes of every write, of any length and with any number of writers, are
\* consecutive in the stream: sys_write keeps the mutex of the File from the first
\* chunk to the last.
THEOREM InterleavingTheorem == Spec => []WritesNotInterleaved
<1>1. Init => WInv
  <2> SUFFICES ASSUME Init PROVE WInv
    OBVIOUS
  <2>1. pushed = << >> /\ \A p \in ThreadId : todo[p] = << >> /\ pc[p] = "user"
    BY DEF Init
  <2> QED BY <2>1, InitIInv DEF WInv, Writing, WritesNotInterleaved
<1>2. WInv /\ [Next]_vars => WInv'
  BY StepIInv, StepWriting DEF WInv
<1>3. WInv => WritesNotInterleaved
  BY DEF WInv
<1> QED BY <1>1, <1>2, <1>3, PTL DEF Spec

------------------------------------------------------------------------------
(* The bytes arrive in the order of the writes.                             *)

\* The bytes b in the ring are the last of the stream s.
Suffix(b, s) ==
  /\ Len(b) \in Nat /\ Len(s) \in Nat /\ Len(b) <= Len(s)
  /\ \A i \in 1..Len(b) : b[i] = s[(Len(s) - Len(b)) + i]

\* The bytes d delivered are, in their order, among the first n of the stream s.
Ordered(d, s, n) ==
  /\ Len(d) \in Nat
  /\ \A i \in 1..Len(d) : \E k \in 1..n : d[i] = s[k]
  /\ \A i, j \in 1..Len(d) : i < j => \E k, l \in 1..n : k < l /\ d[i] = s[k] /\ d[j] = s[l]

Stream ==
  /\ delivered \in Seq(Byte)
  /\ Suffix(buffer, pushed)
  /\ Ordered(delivered, pushed, Len(pushed) - Len(buffer))
  /\ Len(pushed) <= Len(delivered) + Len(buffer) + full

SInv == WInv /\ Stream

\* b1 is b with the first k elements of t appended, or without its first k elements.
Appended(b, t, k, b1) ==
  /\ Len(b1) = Len(b) + k
  /\ \A i \in 1..Len(b) : b1[i] = b[i]
  /\ \A i \in 1..k : b1[Len(b) + i] = t[i]

Dropped(b, k, b1) ==
  /\ Len(b1) = Len(b) - k
  /\ \A i \in 1..(Len(b) - k) : b1[i] = b[k + i]

\* More of the same stream.
LEMMA OrderedMore ==
  ASSUME NEW d, NEW s, NEW s1, NEW n, NEW m, Ordered(d, s, n),
         \A k \in 1..n : k \in 1..m /\ s1[k] = s[k]
  PROVE  Ordered(d, s1, m)
<1>1. \A i \in 1..Len(d) : \E k \in 1..m : d[i] = s1[k]
  <2> TAKE i \in 1..Len(d)
  <2>1. PICK k \in 1..n : d[i] = s[k]
    BY DEF Ordered
  <2> QED BY <2>1, Zenon
<1>2. ASSUME NEW i \in 1..Len(d), NEW j \in 1..Len(d), i < j
      PROVE  \E k, l \in 1..m : k < l /\ d[i] = s1[k] /\ d[j] = s1[l]
  <2>1. PICK k \in 1..n, l \in 1..n : k < l /\ d[i] = s[k] /\ d[j] = s[l]
    BY <1>2, Zenon DEF Ordered
  <2> QED BY <2>1, Zenon
<1> QED BY <1>1, <1>2, Zenon DEF Ordered

\* A chunk of t is appended to the ring and to the stream.
LEMMA PushStream ==
  ASSUME NEW b, NEW s, NEW b1, NEW s1, NEW t, NEW d, NEW k \in Nat,
         Suffix(b, s), Ordered(d, s, Len(s) - Len(b)),
         Appended(b, t, k, b1), Appended(s, t, k, s1)
  PROVE  Suffix(b1, s1) /\ Ordered(d, s1, Len(s1) - Len(b1))
<1> DEFINE x == Len(b)
           y == Len(s)
           n == y - x
<1>1. x \in Nat /\ y \in Nat /\ x <= y /\ Len(b1) = x + k /\ Len(s1) = y + k
  BY DEF Suffix, Appended
<1>2. /\ \A i \in 1..x : b[i] = s[n + i] /\ b1[i] = b[i]
      /\ \A i \in 1..k : b1[x + i] = t[i] /\ s1[y + i] = t[i]
      /\ \A i \in 1..y : s1[i] = s[i]
  BY DEF Suffix, Appended
<1>3. Ordered(d, s, n)
  OBVIOUS
<1> HIDE DEF x, y
<1>4. n \in Nat /\ n <= y /\ (y + k) - (x + k) = n /\ x + k \in Nat /\ y + k \in Nat /\ x + k <= y + k
  BY <1>1
<1>5. \A i \in 1..(x + k) : b1[i] = s1[n + i]
  <2> TAKE i \in 1..(x + k)
  <2>1. CASE i <= x
    <3>1. i \in 1..x /\ n + i \in 1..y
      BY <1>1, <2>1
    <3> QED BY <1>2, <3>1, Zenon
  <2>2. CASE ~(i <= x)
    <3>1. i - x \in 1..k /\ x + (i - x) = i /\ y + (i - x) = n + i
      BY <1>1, <2>2
    <3>2. b1[x + (i - x)] = t[i - x] /\ s1[y + (i - x)] = t[i - x]
      BY <1>2, <3>1, Zenon
    <3> QED BY <3>1, <3>2
  <2> QED BY <2>1, <2>2
<1>6. \A i \in 1..n : i \in 1..n /\ s1[i] = s[i]
  <2>1. \A i \in 1..n : i \in 1..y
    BY <1>1, <1>4
  <2> QED BY <1>2, <2>1, Zenon
<1> HIDE DEF n
<1>7. Ordered(d, s1, n)
  BY <1>3, <1>6, OrderedMore
<1>8. Suffix(b1, s1)
  BY <1>1, <1>4, <1>5, Zenon DEF Suffix
<1> QED BY <1>1, <1>4, <1>7, <1>8

\* A read takes `pop' bytes out of the ring and delivers the first `kept' of them.
LEMMA PopStream ==
  ASSUME NEW b, NEW s, NEW d, NEW b1, NEW d1, NEW kept \in Nat, NEW pop \in Nat,
         kept <= pop, pop <= Len(b),
         Suffix(b, s), Ordered(d, s, Len(s) - Len(b)),
         Dropped(b, pop, b1), Appended(d, b, kept, d1)
  PROVE  Suffix(b1, s) /\ Ordered(d1, s, Len(s) - Len(b1))
<1> DEFINE x == Len(b)
           y == Len(s)
           z == Len(d)
           n == y - x
           m == n + pop
<1>1. /\ x \in Nat /\ y \in Nat /\ z \in Nat /\ x <= y /\ pop <= x
      /\ Len(b1) = x - pop /\ Len(d1) = z + kept
  BY DEF Suffix, Ordered, Dropped, Appended
<1>2. /\ \A i \in 1..x : b[i] = s[n + i]
      /\ \A i \in 1..(x - pop) : b1[i] = b[pop + i]
      /\ \A i \in 1..z : d1[i] = d[i]
      /\ \A i \in 1..kept : d1[z + i] = b[i]
  BY DEF Suffix, Dropped, Appended
<1>3. /\ \A i \in 1..z : \E k \in 1..n : d[i] = s[k]
      /\ \A i, j \in 1..z : i < j => \E k, l \in 1..n : k < l /\ d[i] = s[k] /\ d[j] = s[l]
  BY Zenon DEF Ordered
<1> HIDE DEF x, y, z
<1>4. /\ n \in Nat /\ m \in Nat /\ n <= m /\ y - (x - pop) = m
      /\ x - pop \in Nat /\ x - pop <= y /\ z + kept \in Nat
  BY <1>1
<1>5. \A i \in 1..(x - pop) : pop + i \in 1..x /\ n + (pop + i) = m + i
  BY <1>1
<1>6. \A i \in 1..kept : i \in 1..x /\ n + i \in 1..m
  BY <1>1, <1>4
<1> HIDE DEF n, m
<1>7. \A i \in 1..(x - pop) : b1[i] = s[m + i]
  BY <1>2, <1>5, Zenon
<1>8. \A i \in 1..kept : d1[z + i] = s[n + i]
  BY <1>2, <1>6, Zenon
<1>9. \A i \in 1..(z + kept) :
        \/ i \in 1..z /\ d1[i] = d[i]
        \/ i > z /\ n + (i - z) \in 1..m /\ d1[i] = s[n + (i - z)]
  <2> TAKE i \in 1..(z + kept)
  <2>1. CASE i <= z
    <3>1. i \in 1..z
      BY <1>1, <2>1
    <3> QED BY <1>2, <3>1, Zenon
  <2>2. CASE ~(i <= z)
    <3>1. i - z \in 1..kept /\ z + (i - z) = i /\ i > z
      BY <1>1, <2>2
    <3>2. d1[z + (i - z)] = s[n + (i - z)] /\ n + (i - z) \in 1..m
      BY <1>6, <1>8, <3>1, Zenon
    <3> QED BY <3>1, <3>2, Zenon
  <2> QED BY <2>1, <2>2, Zenon
<1>10. \A k \in 1..n : k \in 1..m
  BY <1>4
<1>11. \A i \in 1..(z + kept) : \E k \in 1..m : d1[i] = s[k]
  <2> TAKE i \in 1..(z + kept)
  <2>1. CASE i \in 1..z /\ d1[i] = d[i]
    <3>1. PICK k \in 1..n : d[i] = s[k]
      BY <1>3, <2>1, Zenon
    <3> QED BY <1>10, <2>1, <3>1, Zenon
  <2>2. CASE n + (i - z) \in 1..m /\ d1[i] = s[n + (i - z)]
    BY <2>2, Zenon
  <2> QED BY <1>9, <2>1, <2>2, Zenon
<1>12. ASSUME NEW i \in 1..(z + kept), NEW j \in 1..(z + kept), i < j
       PROVE  \E k, l \in 1..m : k < l /\ d1[i] = s[k] /\ d1[j] = s[l]
  <2>1. CASE j \in 1..z /\ d1[j] = d[j]
    <3>1. i \in 1..z
      BY <1>1, <1>12, <2>1, SMTT(30)
    <3>2. PICK k \in 1..n, l \in 1..n : k < l /\ d[i] = s[k] /\ d[j] = s[l]
      BY <1>3, <1>12, <2>1, <3>1, Zenon
    <3>3. d1[i] = d[i]
      BY <1>2, <3>1, Zenon
    <3> QED BY <1>10, <2>1, <3>2, <3>3, Zenon
  <2>2. CASE j > z /\ n + (j - z) \in 1..m /\ d1[j] = s[n + (j - z)]
    <3>1. CASE i \in 1..z /\ d1[i] = d[i]
      <4>1. PICK k \in 1..n : d[i] = s[k]
        BY <1>3, <3>1, Zenon
      <4>2. k \in 1..m /\ k < n + (j - z)
        <5>1. n < n + (j - z)
          <6>1. z \in Nat /\ n \in Nat
            BY <1>1, <1>4, Zenon
          <6>2. j \in Int /\ j > z
            BY <1>4, <2>2
          <6> QED BY <6>1, <6>2
        <5>2. k \in Nat /\ k <= n /\ n + (j - z) \in Int
          BY <1>1, <1>4
        <5> QED BY <1>4, <1>10, <5>1, <5>2
      <4> QED BY <2>2, <3>1, <4>1, <4>2, Zenon
    <3>2. CASE i > z /\ n + (i - z) \in 1..m /\ d1[i] = s[n + (i - z)]
      <4>1. n + (i - z) < n + (j - z)
        BY <1>1, <1>4, <1>12
      <4> QED BY <2>2, <3>2, <4>1, Zenon
    <3> QED BY <1>9, <3>1, <3>2, Zenon
  <2> QED BY <1>9, <2>1, <2>2, Zenon
<1>13. Ordered(d1, s, m)
  <2> DEFINE r == Len(d1)
  <2>1. r = z + kept /\ r \in Nat
    BY <1>1, <1>4
  <2> HIDE DEF r
  <2>2. \A i \in 1..r : \E k \in 1..m : d1[i] = s[k]
    BY <1>11, <2>1, Zenon
  <2>3. \A i, j \in 1..r : i < j => \E k, l \in 1..m : k < l /\ d1[i] = s[k] /\ d1[j] = s[l]
    BY <1>12, <2>1, Zenon
  <2> QED BY <2>1, <2>2, <2>3, Zenon DEF Ordered, r
<1>14. Len(s) - Len(b1) = m /\ Len(b1) \in Nat /\ Len(s) \in Nat /\ Len(b1) <= Len(s)
  <2>1. Len(s) = y
    BY DEF y
  <2> QED BY <1>1, <1>4, <2>1
<1>15. Suffix(b1, s)
  <2>1. \A i \in 1..Len(b1) : b1[i] = s[m + i]
    BY <1>1, <1>7, Zenon
  <2> QED BY <1>14, <2>1, Zenon DEF Suffix
<1> QED BY <1>13, <1>14, <1>15

\* Stream is what StreamInOrder says, and more.
LEMMA StreamIsInOrder == SInv => StreamInOrder
<1> SUFFICES ASSUME SInv PROVE StreamInOrder
  OBVIOUS
<1> DEFINE y == Len(pushed)
           n == y - Len(buffer)
<1>1. /\ pushed \in Seq(Byte) /\ buffer \in Seq(Byte) /\ y \in Nat /\ Len(buffer) \in Nat /\ n \in 0..y
      /\ \A i \in 1..Len(buffer) : buffer[i] = pushed[n + i]
      /\ Ordered(delivered, pushed, n) /\ y <= Len(delivered) + Len(buffer) + full
  BY DEF SInv, WInv, Writing, IInv, Data, Stream, Suffix
<1>2. /\ SubSeq(pushed, n + 1, y) \in Seq(Byte) /\ Len(SubSeq(pushed, n + 1, y)) = y - n
      /\ \A i \in 1..(y - n) : SubSeq(pushed, n + 1, y)[i] = pushed[n + i]
  BY <1>1, SubSeqFacts
<1>3. y - n = Len(buffer)
  BY <1>1
<1>4. buffer = SubSeq(pushed, n + 1, y)
  BY <1>1, <1>2, <1>3, SeqEqual
<1>5. \A k \in 1..n : k \in 1..y
  BY <1>1
<1> HIDE DEF n
<1>6. \A i, j \in 1..Len(delivered) : i < j =>
        \E k, l \in 1..y : k < l /\ delivered[i] = pushed[k] /\ delivered[j] = pushed[l]
  BY <1>1, <1>5 DEF Ordered
<1> QED BY <1>1, <1>4, <1>6, Zenon DEF StreamInOrder, n

\* Every step keeps what was read a subsequence of what was pushed.
LEMMA StepStream == SInv /\ [Next]_vars => Stream'
<1> SUFFICES ASSUME SInv, [Next]_vars PROVE Stream'
  OBVIOUS
<1>0. /\ buffer \in Seq(Byte) /\ pushed \in Seq(Byte) /\ delivered \in Seq(Byte)
      /\ Len(buffer) \in Nat /\ Len(pushed) \in Nat /\ Len(delivered) \in Nat /\ full \in Nat
  BY LenProperties, Zenon DEF SInv, WInv, IInv, Data, Writing, Stream, TypeOK
<1>1. CASE UNCHANGED <<buffer, pushed, delivered, full>>
  BY <1>1 DEF SInv, Stream
<1>2. ASSUME NEW p \in ThreadId, WritePush(p) PROVE Stream'
  <2> DEFINE t == todo[p]
             k == ChunkLen(p)
             h == SubSeq(t, 1, k)
  <2>1. t \in Seq(Byte) /\ Len(t) \in Nat
    BY LenProperties DEF SInv, WInv, IInv, Data
  <2>2. k \in 0..Len(t) /\ k \in Nat
    BY <2>1, SizeFacts DEF ChunkLen, Lesser
  <2>3. buffer' = buffer \o h /\ pushed' = pushed \o h /\ UNCHANGED <<delivered, full>>
    BY <1>2 DEF WritePush
  <2> HIDE DEF t, k
  <2>4. Appended(buffer, t, k, buffer')
    BY <1>0, <2>1, <2>2, <2>3, AppendFacts DEF Appended
  <2>5. Appended(pushed, t, k, pushed')
    BY <1>0, <2>1, <2>2, <2>3, AppendFacts DEF Appended
  <2>6. Suffix(buffer, pushed) /\ Ordered(delivered, pushed, Len(pushed) - Len(buffer))
    BY DEF SInv, Stream
  <2>7. Suffix(buffer', pushed') /\ Ordered(delivered, pushed', Len(pushed') - Len(buffer'))
    BY <2>2, <2>4, <2>5, <2>6, PushStream
  <2>8. Len(pushed') <= Len(delivered) + Len(buffer') + full
    <3>1. Len(pushed') = Len(pushed) + k /\ Len(buffer') = Len(buffer) + k
      BY <2>4, <2>5 DEF Appended
    <3>2. Len(pushed) <= Len(delivered) + Len(buffer) + full
      BY DEF SInv, Stream
    <3> QED BY <1>0, <2>2, <3>1, <3>2
  <2> QED BY <1>0, <2>3, <2>7, <2>8, Zenon DEF Stream
<1>3. ASSUME NEW p \in ThreadId, ReadPop(p) PROVE Stream'
  <2> DEFINE kept == Kept(len[p])
             pop == Popped(len[p])
  <2>1. len[p] \in Nat
    <3>1. \A n \in {0} \cup ReadLens : n \in Nat
      BY SizeFacts
    <3> QED BY <3>1, Zenon DEF SInv, WInv, IInv, TypeOK
  <2>2. /\ kept \in Nat /\ pop \in Nat /\ kept <= pop /\ pop <= Len(buffer) /\ pop <= kept + 1
        /\ pop = kept + 1 => kept = len[p]
    BY <1>0, <2>1 DEF Kept, Popped, Lesser
  <2>3. /\ delivered' = delivered \o SubSeq(buffer, 1, kept)
        /\ buffer' = SubSeq(buffer, pop + 1, Len(buffer))
        /\ full' = IF kept = len[p] THEN full + 1 ELSE full
        /\ pushed' = pushed
    BY <1>3 DEF ReadPop
  <2> HIDE DEF kept, pop
  <2>4. kept \in 0..Len(buffer) /\ pop \in 0..Len(buffer)
    BY <1>0, <2>2
  <2>5. delivered' \in Seq(Byte) /\ Appended(delivered, buffer, kept, delivered')
    BY <1>0, <2>3, <2>4, AppendFacts DEF Appended
  <2>6. Dropped(buffer, pop, buffer')
    BY <1>0, <2>3, <2>4, SubSeqFacts DEF Dropped
  <2>7. Suffix(buffer, pushed) /\ Ordered(delivered, pushed, Len(pushed) - Len(buffer))
    BY DEF SInv, Stream
  <2>8. Suffix(buffer', pushed) /\ Ordered(delivered', pushed, Len(pushed) - Len(buffer'))
    BY <2>2, <2>5, <2>6, <2>7, PopStream
  <2>9. Len(pushed) <= Len(delivered') + Len(buffer') + full'
    <3>1. Len(pushed) <= Len(delivered) + Len(buffer) + full
      BY DEF SInv, Stream
    <3>2. pop <= kept + (full' - full) /\ full' \in Nat
      BY <1>0, <2>2, <2>3
    <3>3. Len(delivered') = Len(delivered) + kept /\ Len(buffer') = Len(buffer) - pop
      BY <2>5, <2>6, Zenon DEF Appended, Dropped
    <3>4. Len(delivered) + Len(buffer) + full <= (Len(delivered) + kept) + (Len(buffer) - pop) + full'
      <4>1. \A D, B, F, G, e, o \in Int : o <= e + (G - F) => D + B + F <= (D + e) + (B - o) + G
        OBVIOUS
      <4>2. /\ Len(delivered) \in Int /\ Len(buffer) \in Int /\ full \in Int /\ full' \in Int
            /\ kept \in Int /\ pop \in Int
        BY <1>0, <2>2, <3>2
      <4> QED BY <3>2, <4>1, <4>2, Zenon
    <3>5. Len(pushed) <= (Len(delivered) + kept) + (Len(buffer) - pop) + full'
      BY <1>0, <2>2, <3>1, <3>2, <3>4
    <3> QED BY <3>3, <3>5
  <2> QED BY <2>3, <2>5, <2>8, <2>9, Zenon DEF Stream
<1>4. \/ UNCHANGED <<buffer, pushed, delivered, full>>
      \/ \E p \in ThreadId : WritePush(p) \/ ReadPop(p)
  <2>1. ASSUME NEW p \in ThreadId, \/ ReadLock(p) \/ ReadBlock(p) \/ WriteLock(p) \/ WriteBlock(p)
                                   \/ WakeLockProc(p) \/ WakeScan(p) \/ WakeAll(p) \/ Return(p)
                                   \/ \E n \in ReadLens : ReadCall(p, n)
                                   \/ \E n \in WriteLens : WriteCall(p, n)
                                   \/ \E end \in {"read", "write"} : Close(p, end)
        PROVE  UNCHANGED <<buffer, pushed, delivered, full>>
    BY <2>1, ZenonT(30) DEF ReadCall, ReadLock, ReadBlock, WriteCall, WriteLock, WriteBlock,
       WakeLockProc, WakeScan, WakeAll, Return, Close
  <2>2. CASE UNCHANGED vars
    BY <2>2, Zenon DEF vars, pvars
  <2> QED BY <2>1, <2>2, ZenonT(30) DEF Next, KernelStep
<1> QED BY <1>1, <1>2, <1>3, <1>4

\* Readers get the bytes in the order of the writes, and lose at most one for each
\* read that filled its buffer, whatever the capacity, the lengths and the number of
\* readers.
THEOREM StreamTheorem == Spec => []StreamInOrder
<1>1. Init => SInv
  <2> SUFFICES ASSUME Init PROVE SInv
    OBVIOUS
  <2>1. /\ pushed = << >> /\ delivered = << >> /\ buffer = << >> /\ full = 0
        /\ \A p \in ThreadId : todo[p] = << >> /\ pc[p] = "user"
    BY DEF Init
  <2>2. WInv
    BY <2>1, InitIInv DEF WInv, Writing, WritesNotInterleaved
  <2>3. Stream
    BY <2>1 DEF Stream, Suffix, Ordered
  <2> QED BY <2>2, <2>3 DEF SInv
<1>2. SInv /\ [Next]_vars => SInv'
  BY StepIInv, StepWriting, StepStream DEF SInv, WInv
<1>3. SInv => StreamInOrder
  BY StreamIsInOrder
<1> QED BY <1>1, <1>2, <1>3, PTL DEF Spec

------------------------------------------------------------------------------
(* The scheduler's interface.                                               *)

\* Whomever unblock_task is called for, it is a step of Threads.tla or does nothing.
LEMMA UnblockIsStep ==
  ASSUME thr = [t \in ThreadId |-> thr[t]], NEW S, thr' = Unblocked(S)
  PROVE  ThrNext \/ thr' = thr
<1> DEFINE W == {t \in ThreadId : t \in S /\ thr[t] \in Reasons}
<1>1. Unblocked(S) = Unblocked(W) /\ W \in SUBSET ThreadId
  BY DEF Unblocked
<1>2. CASE W = {}
  <2>1. \A t \in ThreadId : ~(t \in S /\ thr[t] \in Reasons)
    BY <1>2
  <2> QED BY <2>1, Zenon DEF Unblocked
<1>3. CASE W # {}
  <2>1. Unblock(W)
    BY <1>1, <1>3 DEF Unblock
  <2> QED BY <1>1, <2>1, Zenon DEF ThrNext
<1> QED BY <1>2, <1>3

\* Pipe asks of the scheduler only what Threads.tla, and so the scheduler, provides.
THEOREM ThreadsTheorem == Spec => ThrSpec
<1>1. Init => ThrInit
  BY Zenon DEF Init, ThrInit
<1>2. ASSUME IInv, [Next]_vars PROVE [ThrNext]_thr
  <2>1. thr = [t \in ThreadId |-> thr[t]]
    <3>1. thr \in [ThreadId -> Status]
      BY <1>2 DEF IInv, TypeOK
    <3> QED BY <3>1
  <2>2. ASSUME NEW p \in ThreadId, ReadBlock(p) \/ WriteBlock(p)
        PROVE  \E why \in Reasons : Block(p, why)
    BY <2>2, PipeAssumption DEF ReadBlock, WriteBlock
  <2>3. ASSUME NEW p \in ThreadId, WakeAll(p)
        PROVE  thr' = Unblocked(to_wake[p])
    BY <2>3, Zenon DEF WakeAll
  <2>4. ASSUME NEW p \in ThreadId, \/ ReadLock(p) \/ ReadPop(p) \/ WriteLock(p) \/ WritePush(p)
                                   \/ WakeLockProc(p) \/ WakeScan(p) \/ Return(p)
                                   \/ \E n \in ReadLens : ReadCall(p, n)
                                   \/ \E n \in WriteLens : WriteCall(p, n)
                                   \/ \E end \in {"read", "write"} : Close(p, end)
        PROVE  thr' = thr
    BY <2>4, Zenon DEF ReadLock, ReadPop, WriteLock, WritePush, WakeLockProc, WakeScan, Return,
       ReadCall,
       WriteCall, Close
  <2>5. CASE UNCHANGED vars
    BY <2>5, Zenon DEF vars
  <2>6. ASSUME NEW p \in ThreadId, KernelStep(p) \/ (\E n \in ReadLens : ReadCall(p, n))
                 \/ (\E n \in WriteLens : WriteCall(p, n)) \/ (\E end \in {"read",
                 "write"} : Close(p, end))
        PROVE  ThrNext \/ thr' = thr
    BY <2>1, <2>2, <2>3, <2>4, <2>6, UnblockIsStep, Zenon DEF ThrNext, KernelStep
  <2> QED BY <1>2, <2>5, <2>6, Zenon DEF Next
<1> QED BY <1>1, <1>2, InitIInv, StepIInv, PTL DEF Spec, ThrSpec
==============================================================================
