--------------------------------- MODULE Pipe ---------------------------------
(***************************************************************************)
(* One pipe (fs/vfs/pipe.rs) used by several processes through sys_read    *)
(* and sys_write (fs/vfs/sys.rs).  The pipe system call makes one File per *)
(* end; fork and dup share it, so all readers contend for the mutex of one *)
(* File and all writers for the mutex of the other, and a process keeps    *)
(* that mutex while it is blocked.  Threads.tla stands for the scheduler;  *)
(* a thread that finds a spin lock taken has no step until it is free.     *)
(*                                                                         *)
(* A byte is <<call, i>>: the i-th byte of the call-th write.  Lengths,    *)
(* PIPE_BUF and the capacity of the ring keep their relations, not their   *)
(* values (1024 and 4096).                                                 *)
(***************************************************************************)
EXTENDS Threads, Naturals, Sequences, Functions

CONSTANTS
  Procs,      \* the pids of PROC, in the order of the Vec
  Ends,       \* the ends that each process inherits
  PIPE_BUF,   \* a write is split into chunks of this length
  Capacity,   \* the capacity of the ArrayQueue
  ReadLens,   \* lengths of the buffers passed to read
  WriteLens,  \* lengths of the buffers passed to write
  MaxWrites   \* bound: write calls in a behaviour

None == 0

ASSUME PipeAssumption ==
  /\ Procs \in Seq(Nat \ {None}) /\ ThreadId = Range(Procs)
  /\ Reasons = {"WaitPipeRead", "WaitPipeWrite"}
  /\ Ends \in [ThreadId -> SUBSET {"read", "write"}]
  /\ PIPE_BUF \in Nat \ {0} /\ Capacity \in Nat /\ PIPE_BUF <= Capacity
  /\ ReadLens \subseteq Nat /\ WriteLens \subseteq Nat /\ MaxWrites \in Nat

VARIABLES
  buffer,       \* the bytes in the ring
  buffer_lock,  \* who holds the mutex around the ring
  read_file,    \* who holds the mutex of the File of the read end
  write_file,   \* ... of the write end
  proc_lock,    \* who holds PROC
  fds,          \* fds[p]: the ends that p has open
  pc,           \* the next step of each process
  len,          \* len[p]: the length of p's read buffer
  todo,         \* todo[p]: the bytes p's write call still has to push
  index,        \* index[p]: how far p's scan of PROC has come
  to_wake,      \* to_wake[p]: the sleepers p's scan has found
  calls,        \* the number of write calls so far
  pushed,       \* history: the bytes pushed, in order
  delivered,    \* history: the bytes stored in read buffers, in order
  full,         \* history: the number of reads that filled their buffer
  silent        \* history: a read of length 0 has popped a byte and woken nobody

pvars == <<buffer, buffer_lock, read_file, write_file, proc_lock, fds, pc, len, todo,
           index, to_wake, calls, pushed, delivered, full, silent>>
vars == <<thr, pvars>>

\* The pipe has been made and the descriptors passed on by fork.
Init ==
  /\ thr = [p \in ThreadId |-> "runnable"]
  /\ buffer = << >> /\ pushed = << >> /\ delivered = << >> /\ full = 0 /\ silent = FALSE /\ calls = 0
  /\ buffer_lock = None /\ read_file = None /\ write_file = None /\ proc_lock = None
  /\ fds = Ends
  /\ pc = [p \in ThreadId |-> "user"]
  /\ len = [p \in ThreadId |-> 0]
  /\ todo = [p \in ThreadId |-> << >>]
  /\ index = [p \in ThreadId |-> 0]
  /\ to_wake = [p \in ThreadId |-> {}]

At(p, l) == thr[p] = "runnable" /\ pc[p] = l
Goto(p, l) == pc' = [pc EXCEPT ![p] = l]
Lesser(a, b) == IF a < b THEN a ELSE b

------------------------------------------------------------------------------
(* read                                                                     *)

\* sys_read looks the descriptor up and takes the mutex of the File.
ReadCall(p, n) ==
  /\ At(p, "user") /\ "read" \in fds[p] /\ read_file = None
  /\ read_file' = p
  /\ len' = [len EXCEPT ![p] = n]
  /\ Goto(p, "read_lock")
  /\ UNCHANGED <<thr, buffer, buffer_lock, write_file, proc_lock, fds, todo, index,
                 to_wake, calls, pushed, delivered, full, silent>>

ReadLock(p) ==
  /\ At(p, "read_lock") /\ buffer_lock = None
  /\ buffer_lock' = p
  /\ Goto(p, "read_test")
  /\ UNCHANGED <<thr, buffer, read_file, write_file, proc_lock, fds, len, todo, index,
                 to_wake, calls, pushed, delivered, full, silent>>

\* while let Some(byte) = guard.pop(): the byte popped once the buffer is full is
\* not stored anywhere.
Kept(n) == Lesser(n, Len(buffer))
\* Mutant: one pop too many.
Popped_two(n) == Lesser(n + 2, Len(buffer))

Popped(n) == Lesser(n + 1, Len(buffer))

ReadPop(p) ==
  /\ At(p, "read_test") /\ buffer # << >>
  /\ delivered' = delivered \o SubSeq(buffer, 1, Kept(len[p]))
  /\ buffer' = SubSeq(buffer, Popped(len[p]) + 1, Len(buffer))
  /\ full' = IF Kept(len[p]) = len[p] THEN full + 1 ELSE full
  /\ silent' = (silent \/ len[p] = 0)
  /\ buffer_lock' = None
  /\ Goto(p, IF len[p] > 0 THEN "wake_proc" ELSE "return")
  /\ UNCHANGED <<thr, read_file, write_file, proc_lock, fds, len, todo, index, to_wake,
                 calls, pushed>>

\* Mutant: drops the mutex of the ring first and blocks in a second step.
ReadBlock_late(p) ==
  /\ \/ /\ At(p, "read_test") /\ buffer = << >>
        /\ buffer_lock' = None
        /\ Goto(p, "read_sleep")
        /\ UNCHANGED thr
     \/ /\ At(p, "read_sleep")
        /\ Block(p, "WaitPipeRead")
        /\ Goto(p, "read_lock")
        /\ UNCHANGED buffer_lock
  /\ UNCHANGED <<buffer, read_file, write_file, proc_lock, fds, len, todo, index, to_wake,
                 calls, pushed, delivered, full, silent>>

\* block_task_drop_lock: block and drop the mutex in one SCHEDULER region.  The
\* test writers == 0 before it never succeeds: nothing changes writers.
ReadBlock(p) ==
  /\ At(p, "read_test") /\ buffer = << >>
  /\ Block(p, "WaitPipeRead")
  /\ buffer_lock' = None
  /\ Goto(p, "read_lock")
  /\ UNCHANGED <<buffer, read_file, write_file, proc_lock, fds, len, todo, index, to_wake,
                 calls, pushed, delivered, full, silent>>

------------------------------------------------------------------------------
(* write                                                                    *)

\* Mutant: does not hold the mutex of the File during the write.
WriteCall_shared(p, n) ==
  /\ At(p, "user") /\ "write" \in fds[p] /\ calls < MaxWrites
  /\ calls' = calls + 1
  /\ todo' = [todo EXCEPT ![p] = [i \in 1..n |-> <<calls + 1, i>>]]
  /\ Goto(p, IF n > 0 THEN "write_lock" ELSE "return")
  /\ UNCHANGED <<thr, buffer, buffer_lock, read_file, write_file, proc_lock, fds, len, index,
                 to_wake, pushed, delivered, full, silent>>

WriteCall(p, n) ==
  /\ At(p, "user") /\ "write" \in fds[p] /\ write_file = None /\ calls < MaxWrites
  /\ write_file' = p
  /\ calls' = calls + 1
  /\ todo' = [todo EXCEPT ![p] = [i \in 1..n |-> <<calls + 1, i>>]]
  /\ Goto(p, IF n > 0 THEN "write_lock" ELSE "return")
  /\ UNCHANGED <<thr, buffer, buffer_lock, read_file, proc_lock, fds, len, index, to_wake,
                 pushed, delivered, full, silent>>

WriteLock(p) ==
  /\ At(p, "write_lock") /\ buffer_lock = None
  /\ buffer_lock' = p
  /\ Goto(p, "write_test")
  /\ UNCHANGED <<thr, buffer, read_file, write_file, proc_lock, fds, len, todo, index,
                 to_wake, calls, pushed, delivered, full, silent>>

ChunkLen(p) == Lesser(PIPE_BUF, Len(todo[p]))
\* Mutant: off by one at the capacity.
Fits_one_more(p) == ChunkLen(p) + Len(buffer) <= Capacity + 1

Fits(p) == ChunkLen(p) + Len(buffer) <= Capacity

WritePush(p) ==
  /\ At(p, "write_test") /\ Fits(p)
  /\ LET chunk == SubSeq(todo[p], 1, ChunkLen(p))
     IN  /\ buffer' = buffer \o chunk
         /\ pushed' = pushed \o chunk
  /\ todo' = [todo EXCEPT ![p] = SubSeq(@, ChunkLen(p) + 1, Len(@))]
  /\ buffer_lock' = None
  /\ Goto(p, "wake_proc")
  /\ UNCHANGED <<thr, read_file, write_file, proc_lock, fds, len, index, to_wake, calls,
                 delivered, full, silent>>

WriteBlock(p) ==
  /\ At(p, "write_test") /\ ~Fits(p)
  /\ Block(p, "WaitPipeWrite")
  /\ buffer_lock' = None
  /\ Goto(p, "write_lock")
  /\ UNCHANGED <<buffer, read_file, write_file, proc_lock, fds, len, todo, index, to_wake,
                 calls, pushed, delivered, full, silent>>

------------------------------------------------------------------------------
(* wake_pipe_sleepers, at the end of a read and after each chunk of a write  *)

Reading(p) == read_file = p
Sleepers(p) == IF Reading(p) THEN "WaitPipeWrite" ELSE "WaitPipeRead"

WakeLockProc(p) ==
  /\ At(p, "wake_proc") /\ proc_lock = None
  /\ proc_lock' = p
  /\ index' = [index EXCEPT ![p] = 1]
  /\ Goto(p, "wake_scan")
  /\ UNCHANGED <<thr, buffer, buffer_lock, read_file, write_file, fds, len, todo, to_wake,
                 calls, pushed, delivered, full, silent>>

WakeScan(p) ==
  /\ At(p, "wake_scan") /\ index[p] <= Len(Procs)
  /\ to_wake' = [to_wake EXCEPT ![p] =
                   IF thr[Procs[index[p]]] = Sleepers(p) THEN @ \cup {Procs[index[p]]} ELSE @]
  /\ index' = [index EXCEPT ![p] = @ + 1]
  /\ UNCHANGED <<thr, buffer, buffer_lock, read_file, write_file, proc_lock, fds, pc, len,
                 todo, calls, pushed, delivered, full, silent>>

\* One SCHEDULER region for all of them, with PROC held; then the next chunk.
WakeAll(p) ==
  /\ At(p, "wake_scan") /\ index[p] > Len(Procs)
  /\ thr' = Unblocked(to_wake[p])
  /\ to_wake' = [to_wake EXCEPT ![p] = {}]
  /\ index' = [index EXCEPT ![p] = 0]
  /\ proc_lock' = None
  /\ Goto(p, IF ~Reading(p) /\ todo[p] # << >> THEN "write_lock" ELSE "return")
  /\ UNCHANGED <<buffer, buffer_lock, read_file, write_file, fds, len, todo, calls, pushed,
                 delivered, full, silent>>

\* sys_read and sys_write drop the mutex of the File.
Return(p) ==
  /\ At(p, "return")
  /\ read_file' = IF read_file = p THEN None ELSE read_file
  /\ write_file' = IF write_file = p THEN None ELSE write_file
  /\ len' = [len EXCEPT ![p] = 0]
  /\ Goto(p, "user")
  /\ UNCHANGED <<thr, buffer, buffer_lock, proc_lock, fds, todo, index, to_wake, calls,
                 pushed, delivered, full, silent>>

\* sys_close: the descriptor goes, the pipe is not told.
Close(p, end) ==
  /\ At(p, "user") /\ end \in fds[p]
  /\ fds' = [fds EXCEPT ![p] = @ \ {end}]
  /\ UNCHANGED <<thr, buffer, buffer_lock, read_file, write_file, proc_lock, pc, len, todo,
                 index, to_wake, calls, pushed, delivered, full, silent>>

------------------------------------------------------------------------------
\* What a process inside read or write does next.
KernelStep(p) ==
  \/ ReadLock(p) \/ ReadPop(p) \/ ReadBlock(p)
  \/ WriteLock(p) \/ WritePush(p) \/ WriteBlock(p)
  \/ WakeLockProc(p) \/ WakeScan(p) \/ WakeAll(p) \/ Return(p)

Next ==
  \E p \in ThreadId :
    \/ KernelStep(p)
    \/ \E n \in ReadLens : ReadCall(p, n)
    \/ \E n \in WriteLens : WriteCall(p, n)
    \/ \E end \in {"read", "write"} : Close(p, end)

Spec == Init /\ [][Next]_vars

\* Round robin, and a spinning thread does not find its lock taken at every attempt.
FairSpec == Spec /\ \A p \in ThreadId : SF_vars(KernelStep(p))

------------------------------------------------------------------------------
(* Correctness.                                                             *)

TypeOK ==
  /\ thr \in [ThreadId -> Status]
  /\ Len(buffer) <= Capacity
  /\ {buffer_lock, read_file, write_file, proc_lock} \subseteq {None} \cup ThreadId
  /\ fds \in [ThreadId -> SUBSET {"read", "write"}]
  /\ len \in [ThreadId -> {0} \cup ReadLens]
  /\ index \in [ThreadId -> 0..(Len(Procs) + 1)]
  /\ to_wake \in [ThreadId -> SUBSET ThreadId]
  /\ calls \in 0..MaxWrites /\ full \in Nat /\ silent \in BOOLEAN

\* A process that is going to wake those who wait for `why'.
WillWake(p, why) == pc[p] \in {"wake_proc", "wake_scan"} /\ Sleepers(p) = why

\* The scan of PROC by p has passed q without taking it along.
Missed(p, q) ==
  \E i \in 1..(index[p] - 1) : Procs[i] = q /\ q \notin to_wake[p]

\* No wake-up is lost.  A reader asleep while the ring has bytes, or a writer asleep
\* while its chunk fits, will be woken by a process that has already popped or
\* pushed and has not passed it in its scan: the test of the ring and going to
\* sleep are one step for everybody else, because block_task_drop_lock drops the
\* mutex of the ring inside the scheduler's critical section.  The exception is a
\* read of length 0, which pops a byte and returns without waking a writer.
NoLostWakeup ==
  \A q \in ThreadId :
    /\ thr[q] = "WaitPipeRead" /\ buffer # << >> =>
         \E p \in ThreadId : WillWake(p, "WaitPipeRead") /\ ~Missed(p, q)
    /\ thr[q] = "WaitPipeWrite" /\ Fits(q) /\ ~silent =>
         \E p \in ThreadId : WillWake(p, "WaitPipeWrite") /\ ~Missed(p, q)

\* The bytes of one write call follow one another without a gap, for writes of any
\* length: the File mutex keeps a second writer out between two chunks and while
\* the first one sleeps.
WritesNotInterleaved ==
  \A i \in 1..(Len(pushed) - 1) :
    \/ pushed[i + 1] = <<pushed[i][1], pushed[i][2] + 1>>
    \/ pushed[i + 1][2] = 1 /\ pushed[i + 1][1] # pushed[i][1]

\* Readers get the bytes in the order of the writes and none twice; the bytes of
\* the stream that are neither delivered nor in the ring are at most one for each
\* read that filled its buffer.
StreamInOrder ==
  /\ \A i, j \in 1..Len(delivered) : i < j =>
       \E k, l \in 1..Len(pushed) :
         k < l /\ delivered[i] = pushed[k] /\ delivered[j] = pushed[l]
  /\ Len(pushed) <= Len(delivered) + Len(buffer) + full
  /\ buffer = SubSeq(pushed, Len(pushed) - Len(buffer) + 1, Len(pushed))

------------------------------------------------------------------------------
(* What the code says of itself and does not do.                            *)

\* pipe.rs: "eof if all write ends closed": a read of an empty pipe that nobody
\* can write to any more returns.
EofWhenWritersGone ==
  \A p \in ThreadId :
    (thr[p] = "WaitPipeRead" /\ \A q \in ThreadId : "write" \notin fds[q]) ~> pc[p] = "user"
==============================================================================
