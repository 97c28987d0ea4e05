------------------------------- MODULE Console -------------------------------
(***************************************************************************)
(* The console: from the keyboard interrupt through the async executor and *)
(* the line discipline to the processes that read the terminal, and from   *)
(* the processes and println! to the screen.  Four kinds of threads take   *)
(* part: the executor (thread 4), which polls the keyboard task and the    *)
(* console task, the renderer (thread 5), the compositor (thread 3), which *)
(* paints the windows of processes over the same screen, and the           *)
(* processes, which share the Files of standard input and output because   *)
(* they were forked from the shell.  Threads.tla stands for the scheduler. *)
(*                                                                         *)
(* An interrupt handler is one step: it runs with interrupts off.  A       *)
(* thread makes one step per access to a queue, a waker, the terminal or   *)
(* the scheduler.  The locks CONS, line_buf and terminal are never held    *)
(* over two such steps, and PROC is in Process.tla.  The executor's third  *)
(* task, which sets up the sound card, is left out.                        *)
(*                                                                         *)
(* A key is known by its number; what it types is typed[key].              *)
(***************************************************************************)
EXTENDS Threads, Terminal, Sequences, Functions

CONSTANTS
  Procs,          \* the pids of PROC, in the order of the Vec
  ScancodeCap,    \* capacity of SCANCODE_QUEUE
  ConsoleCap,     \* capacity of CONSOLE_CHAR_QUEUE
  InputCap,       \* capacity of completed_input_queue
  Keys,           \* what can be typed: characters, "nl", "bs", "eof", "ctrl_c", "raw"
  Uses,           \* Uses[p]: the calls that p makes, "read", "write" and "frame"
  ReadLens,       \* lengths of the buffers passed to read
  Strings,        \* what processes write
  Warning,        \* the warning of a full SCANCODE_QUEUE
  Loads           \* bound: what a behaviour begins with, and what may happen in it: records of
                  \* screen (the terminal that the messages of the boot leave, painted),
                  \* message (what is left of them in CONSOLE_CHAR_QUEUE), keys (the keys
                  \* that are pressed), writes and frames (the number of such calls)

Compositor == 3
Executor == 4
Renderer == 5
None == 0

ASSUME ConsoleAssumption ==
  /\ Procs \in Seq(Nat \ {None, Compositor, Executor, Renderer}) /\ Procs # << >>
  /\ ThreadId = {Compositor, Executor, Renderer} \cup Range(Procs)
  /\ Reasons = {"CompositorWait", "AsyncExecutorWait", "TtyRenderWait", "WaitStdin"}
  /\ InputCap \in Nat \ {0}
  /\ Char \cap {"eof", "ctrl_c", "raw"} = {}
  /\ Uses \in [Range(Procs) -> SUBSET {"read", "write", "frame"}]
  /\ \A l \in Loads : /\ l.screen \in VirtualTerminal /\ Painted(l.screen) = l.screen
                      /\ l.keys \in Seq(Keys)

VARIABLES
  load,        \* one of the loads
  scancodes,   \* SCANCODE_QUEUE
  chars,       \* CONSOLE_CHAR_QUEUE
  waker,       \* waker[s]: the task that the AtomicWaker of stream s holds
  tasks,       \* the executor's task_queue
  pc,          \* the next step of each thread
  task,        \* the task that the executor is polling
  key,         \* the scancode that the keyboard task is handling
  wrote,       \* wrote_bytes of handle_key
  out,         \* out[t]: the bytes that t still has to write to the terminal
  line_buf, completed_input_queue, is_eof, \* the TTY
  todo,        \* the bytes that commit_line still has to push
  index,       \* how far wakeup_readers has come in PROC
  readers_to_wake,
  file,        \* file[f]: who holds the mutex of the File f
  len,         \* len[p]: places left in p's read buffer
  terminal,    \* the VirtualTerminal
  lfb,         \* the frame buffer
  typed,       \* history: the keys pressed
  writes,      \* history: the number of write calls
  frames,      \* history: the number of frame_ready calls
  missed,      \* history: the sleepers that had work when they blocked
  handled,     \* history: the keys that handle_key has seen
  erased,      \* history: the keys that a backspace took back
  delivered,   \* history: the keys stored in read buffers, in order
  lost,        \* history: the keys overwritten in the queue or popped for a full buffer
  behind       \* history: the rows that a scroll left behind (Terminal!LeftBehind), or a
               \* window hides

streams == <<scancodes, chars, waker, tasks>>
exec == <<task, key, wrote, todo, index, readers_to_wake>>
tty == <<line_buf, completed_input_queue, is_eof>>
calls == <<file, len, writes, frames>>
screen == <<terminal, lfb, behind>>
line == <<handled, erased>>
hist == <<load, typed, line, delivered, lost>>
vars == <<thr, missed, pc, out, streams, exec, tty, calls, screen, hist>>

\* Both tasks are spawned and the shell and its children run.
Init ==
  /\ load \in Loads
  /\ thr = [t \in ThreadId |-> "runnable"] /\ missed = {}
  /\ pc = [t \in ThreadId |-> CASE t = Executor -> "pop"
                                [] t \in {Renderer, Compositor} -> "sleep"
                                [] OTHER -> "user"]
  /\ out = [t \in ThreadId |-> << >>]
  /\ scancodes = << >> /\ chars = load.message
  /\ waker = [s \in {"keyboard", "console"} |-> "none"]
  /\ tasks = <<"keyboard", "console">>
  /\ task = "none" /\ key = None /\ wrote = FALSE
  /\ todo = << >> /\ index = 0 /\ readers_to_wake = << >>
  /\ line_buf = << >> /\ completed_input_queue = << >> /\ is_eof = FALSE
  /\ file = [f \in {"stdin", "stdout"} |-> None]
  /\ len = [p \in Range(Procs) |-> 0] /\ writes = 0 /\ frames = 0
  /\ terminal = load.screen
  /\ lfb = paint(terminal, [r \in Lines |-> [c \in Places |->
             IF r \in Rows /\ c \in Cols THEN Glyph(terminal.buffer[r][c]) ELSE " "]])
  /\ behind = {}
  /\ typed = << >> /\ handled = {} /\ erased = {} /\ delivered = << >> /\ lost = {}

At(t, l) == thr[t] = "runnable" /\ pc[t] = l
Goto(t, l) == pc' = [pc EXCEPT ![t] = l]

\* ArrayQueue::force_push: a full queue loses its oldest element.
ForcePush(q, e, cap) == IF Len(q) >= cap THEN Append(Tail(q), e) ELSE Append(q, e)

\* unblock_task(t)
Wake(t) ==
  /\ thr' = Unblocked({t})
  /\ missed' = missed \ {t}

\* block_task; it is recorded whether there was work at that moment.
Sleep(t, why, work) ==
  /\ Block(t, why)
  /\ missed' = IF work THEN missed \cup {t} ELSE missed

------------------------------------------------------------------------------
(* The streams: AtomicWaker and TaskWaker.                                  *)

\* AtomicWaker::wake on stream s: takes the waker; that of a task queues the task
\* and unblocks the executor, the one of now_or_never does nothing.
WakeStream(s) ==
  /\ waker' = [waker EXCEPT ![s] = "none"]
  /\ IF waker[s] = s
     THEN tasks' = Append(tasks, s) /\ Wake(Executor)
     ELSE UNCHANGED <<tasks, thr, missed>>

\* The console's queue after force_push of each byte of the warning of a full
\* SCANCODE_QUEUE: the last ConsoleCap bytes are left.
Warned ==
  LET q == chars \o Warning
  IN  SubSeq(q, IF Len(q) > ConsoleCap THEN Len(q) - ConsoleCap + 1 ELSE 1, Len(q))

\* The keyboard interrupt: handle_ps2_byte and add_scancode.
KeyboardInterrupt(k) ==
  /\ Len(typed) < Len(load.keys) /\ k = load.keys[Len(typed) + 1]
  /\ typed' = Append(typed, k)
  /\ \/ /\ Len(scancodes) < ScancodeCap
        /\ scancodes' = Append(scancodes, Len(typed'))
        /\ WakeStream("keyboard")
        /\ UNCHANGED chars
     \/ /\ Len(scancodes) >= ScancodeCap
        /\ chars' = Warned
        /\ WakeStream("console")
        /\ UNCHANGED scancodes
  /\ UNCHANGED <<pc, out, exec, tty, calls, screen, load, line, delivered, lost>>

------------------------------------------------------------------------------
(* The executor.                                                            *)

\* run_ready_tasks takes the next id and polls its task.
RunReadyTask ==
  /\ At(Executor, "pop") /\ tasks # << >>
  /\ task' = Head(tasks)
  /\ tasks' = Tail(tasks)
  /\ Goto(Executor, "next")
  /\ UNCHANGED <<thr, missed, out, scancodes, chars, waker, key, wrote, todo, index,
                 readers_to_wake, tty, calls, screen, hist>>

\* run_ready_tasks finds the queue empty; so does sleep_if_idle, which blocks in a
\* second step.  (A task that is queued between their two looks is just taken.)
SleepIfIdle ==
  /\ At(Executor, "pop") /\ tasks = << >>
  /\ Goto(Executor, "block")
  /\ UNCHANGED <<thr, missed, out, streams, exec, tty, calls, screen, hist>>

ExecutorBlock ==
  /\ At(Executor, "block")
  /\ Sleep(Executor, "AsyncExecutorWait", tasks # << >>)
  /\ Goto(Executor, "pop")
  /\ UNCHANGED <<out, streams, exec, tty, calls, screen, hist>>

Queue(s) == IF s = "keyboard" THEN scancodes ELSE chars

\* An element of the stream of the task being polled: handle_keyboard decodes a
\* scancode, listen_console_buffer writes a character to the terminal.
Item ==
  /\ Queue(task) # << >>
  /\ IF task = "keyboard"
     THEN /\ scancodes' = Tail(scancodes) /\ key' = Head(scancodes)
          /\ Goto(Executor, "key")
          /\ UNCHANGED <<chars, out>>
     ELSE /\ chars' = Tail(chars) /\ out' = [out EXCEPT ![Executor] = <<Head(chars)>>]
          /\ Goto(Executor, "emit")
          /\ UNCHANGED <<scancodes, key>>

\* poll_next, first attempt; with "flush" it is now_or_never that polls.
PollNext(l, none) ==
  /\ At(Executor, l)
  /\ \/ Item
     \/ Queue(task) = << >> /\ Goto(Executor, none) /\ UNCHANGED <<scancodes, chars, key, out>>
  /\ UNCHANGED <<thr, missed, waker, tasks, task, wrote, todo, index, readers_to_wake, tty,
                 calls, screen, hist>>

\* WAKER.register
Register(l, w, again) ==
  /\ At(Executor, l)
  /\ waker' = [waker EXCEPT ![task] = w]
  /\ Goto(Executor, again)
  /\ UNCHANGED <<thr, missed, out, scancodes, chars, tasks, exec, tty, calls, screen, hist>>

\* Mutant: the stream is not looked at again once the waker is registered.
PollAgain_once(l, none) ==
  /\ At(Executor, l)
  /\ Goto(Executor, none)
  /\ task' = IF none = "pop" THEN "none" ELSE task
  /\ UNCHANGED <<thr, missed, out, streams, key, wrote, todo, index, readers_to_wake, tty,
                 calls, screen, hist>>

\* poll_next, second attempt; if that fails too, the task is Pending.
PollAgain(l, none) ==
  /\ At(Executor, l)
  /\ \/ /\ Item
        /\ waker' = [waker EXCEPT ![task] = "none"]
        /\ UNCHANGED task
     \/ /\ Queue(task) = << >>
        /\ Goto(Executor, none)
        /\ task' = IF none = "pop" THEN "none" ELSE task
        /\ UNCHANGED <<scancodes, chars, key, out, waker>>
  /\ UNCHANGED <<thr, missed, tasks, wrote, todo, index, readers_to_wake, tty, calls, screen, hist>>

Poll ==
  \/ PollNext("next", "register")
  \/ Register("register", task, "again")
  \/ PollAgain("again", "pop")
  \/ PollNext("flush", "flush_register")
  \/ Register("flush_register", "noop", "flush_again")
  \/ PollAgain("flush_again", "render")

------------------------------------------------------------------------------
(* The line discipline: TTY::handle_key, called by the keyboard task.       *)

\* What is written to the terminal, and what follows.
Echo(bytes, l) ==
  /\ out' = [out EXCEPT ![Executor] = bytes]
  /\ wrote' = (bytes # << >>)
  /\ Goto(Executor, IF bytes = << >> THEN l ELSE "emit")

KeyCharacter ==
  /\ typed[key] \in Char
  /\ line_buf' = Append(line_buf, key)
  /\ Echo(<<typed[key]>>, "next")
  /\ UNCHANGED <<is_eof, todo>>

\* Mutant: the character is erased on the screen only.
KeyBackspace_keep ==
  /\ typed[key] = "bs"
  /\ IF line_buf = << >> THEN Echo(<< >>, "next") ELSE Echo(<<"bs", " ", "bs">>, "next")
  /\ UNCHANGED <<line_buf, is_eof, todo>>

KeyBackspace ==
  /\ typed[key] = "bs"
  /\ \/ /\ line_buf # << >>
        /\ line_buf' = SubSeq(line_buf, 1, Len(line_buf) - 1)
        /\ Echo(<<"bs", " ", "bs">>, "next")
     \/ line_buf = << >> /\ Echo(<< >>, "next") /\ UNCHANGED line_buf
  /\ UNCHANGED <<is_eof, todo>>

KeyEnter ==
  /\ typed[key] = "nl"
  /\ line_buf' = Append(line_buf, key)
  /\ Echo(<<"nl">>, "next")
  /\ todo' = line_buf'
  /\ UNCHANGED is_eof

KeyInterrupt ==
  /\ typed[key] = "ctrl_c"
  /\ Echo(<<"^", "C">>, "next")
  /\ UNCHANGED <<line_buf, is_eof, todo>>

\* Ctrl-D on an empty line sets the flag; on any other it commits the line.
KeyEof ==
  /\ typed[key] = "eof"
  /\ \/ line_buf = << >> /\ is_eof' = TRUE /\ Echo(<< >>, "next") /\ UNCHANGED todo
     \/ line_buf # << >> /\ todo' = line_buf /\ Echo(<< >>, "push") /\ UNCHANGED is_eof
  /\ UNCHANGED line_buf

\* A release, or a key without a character.
KeyRaw ==
  /\ typed[key] = "raw"
  /\ Echo(<< >>, "next")
  /\ UNCHANGED <<line_buf, is_eof, todo>>

\* The keys handled that are text, those that have been committed, and those that have
\* neither been committed nor erased: what line_buf should hold.
Text == {k \in handled : typed[k] \in Char \cup {"nl"}}
Committed == Range(delivered) \cup Range(completed_input_queue) \cup lost
Unfinished == Text \ (erased \cup Committed)

\* The greatest element, if there is one.
Latest(S) == {k \in S : \A j \in S : j <= k}

\* A backspace is meant to erase the latest character of the unfinished line.
HandleKey ==
  /\ At(Executor, "key")
  /\ KeyCharacter \/ KeyBackspace \/ KeyEnter \/ KeyInterrupt \/ KeyEof \/ KeyRaw
  /\ handled' = handled \cup {key}
  /\ erased' = IF typed[key] = "bs" THEN erased \cup Latest(Unfinished) ELSE erased
  /\ UNCHANGED <<thr, missed, streams, task, key, index, readers_to_wake,
                 completed_input_queue, calls, screen, load, typed, delivered, lost>>

\* commit_line pushes the bytes one by one, clears line_buf and wakes the readers.
CommitLine ==
  /\ At(Executor, "push")
  /\ \/ /\ todo # << >>
        /\ completed_input_queue' = ForcePush(completed_input_queue, Head(todo), InputCap)
        /\ lost' = IF Len(completed_input_queue) >= InputCap
                   THEN lost \cup {Head(completed_input_queue)} ELSE lost
        /\ todo' = Tail(todo)
        /\ UNCHANGED <<line_buf, index, pc>>
     \/ /\ todo = << >>
        /\ line_buf' = << >>
        /\ index' = 1
        /\ Goto(Executor, "scan")
        /\ UNCHANGED <<todo, completed_input_queue, lost>>
  /\ UNCHANGED <<thr, missed, out, streams, task, key, wrote, readers_to_wake, is_eof, calls,
                 screen, load, typed, line, delivered>>

\* wakeup_readers: the threads found blocked for input ...
WakeupScan ==
  /\ At(Executor, "scan")
  /\ readers_to_wake' = IF thr[Procs[index]] = "WaitStdin"
                        THEN Append(readers_to_wake, Procs[index]) ELSE readers_to_wake
  /\ index' = index + 1
  /\ Goto(Executor, IF index < Len(Procs) THEN "scan" ELSE "wake")
  /\ UNCHANGED <<thr, missed, out, streams, task, key, wrote, todo, tty, calls, screen, hist>>

\* Mutant: the readers found are not woken.
WakeupReader_none ==
  /\ At(Executor, "wake")
  /\ readers_to_wake' = << >>
  /\ index' = 0
  /\ Goto(Executor, IF wrote THEN "render" ELSE "next")
  /\ UNCHANGED <<thr, missed, out, streams, task, key, wrote, todo, tty, calls, screen, hist>>

\* ... are unblocked one by one.
WakeupReader ==
  /\ At(Executor, "wake")
  /\ \/ /\ readers_to_wake # << >>
        /\ Wake(Head(readers_to_wake))
        /\ readers_to_wake' = Tail(readers_to_wake)
        /\ UNCHANGED <<index, pc>>
     \/ /\ readers_to_wake = << >>
        /\ index' = 0
        /\ Goto(Executor, IF wrote THEN "render" ELSE "next")
        /\ UNCHANGED <<thr, missed, readers_to_wake>>
  /\ UNCHANGED <<out, streams, task, key, wrote, todo, tty, calls, screen, hist>>

------------------------------------------------------------------------------
(* Output.                                                                  *)

\* Where a thread goes when its bytes are written.
AfterOutput(t) ==
  CASE t # Executor -> "render"
    [] t = Executor /\ task = "console" -> "flush"
    [] t = Executor /\ task = "keyboard" -> IF todo # << >> THEN "push" ELSE "render"

\* TTY::output_byte; TTY::write takes the lock of the terminal for each byte.
OutputByte(t) ==
  /\ At(t, "emit")
  /\ terminal' = write_byte(terminal, Head(out[t]))
  /\ behind' = LeftBehind(terminal, behind, Head(out[t]))
  /\ out' = [out EXCEPT ![t] = Tail(@)]
  /\ Goto(t, IF Len(out[t]) > 1 THEN "emit" ELSE AfterOutput(t))
  /\ UNCHANGED <<thr, missed, streams, exec, tty, calls, lfb, hist>>

\* wake_tty_renderer
WakeTtyRenderer(t) ==
  /\ At(t, "render")
  /\ Wake(Renderer)
  /\ Goto(t, IF t = Executor THEN "next" ELSE "return")
  /\ UNCHANGED <<out, streams, exec, tty, calls, screen, hist>>

RendererBlock ==
  /\ At(Renderer, "sleep")
  /\ Sleep(Renderer, "TtyRenderWait", terminal.dirty_row # {})
  /\ Goto(Renderer, "paint")
  /\ UNCHANGED <<out, streams, exec, tty, calls, screen, hist>>

\* Console::paint holds the locks of the terminal and of the screen throughout.
RendererPaint ==
  /\ At(Renderer, "paint")
  /\ lfb' = paint(terminal, lfb)
  /\ terminal' = Painted(terminal)
  /\ behind' = behind \ terminal.dirty_row
  /\ Goto(Renderer, "sleep")
  /\ UNCHANGED <<thr, missed, out, streams, exec, tty, calls, hist>>

\* compositor_task.  It copies the back buffer of every process that has one over the
\* whole screen; several such copies are one step here, the last one stays.
CompositorBlock ==
  /\ At(Compositor, "sleep")
  /\ Block(Compositor, "CompositorWait")
  /\ Goto(Compositor, "paint")
  /\ UNCHANGED <<missed, out, streams, exec, tty, calls, screen, hist>>

CompositorPaint ==
  /\ At(Compositor, "paint")
  /\ lfb' = [r \in Lines |-> [c \in Places |-> "window"]]
  /\ behind' = Rows
  /\ Goto(Compositor, "sleep")
  /\ UNCHANGED <<thr, missed, out, streams, exec, tty, calls, terminal, hist>>

\* sys_frame_ready, by a process that has a back buffer.
FrameReady(p) ==
  /\ At(p, "user") /\ "frame" \in Uses[p]
  /\ frames < load.frames /\ frames' = frames + 1
  /\ Wake(Compositor)
  /\ UNCHANGED <<pc, out, streams, exec, tty, file, len, writes, screen, hist>>

------------------------------------------------------------------------------
(* System calls on the terminal.                                            *)

\* sys_write takes the mutex of the File and keeps it until the end.
WriteCall(p, s) ==
  /\ At(p, "user") /\ "write" \in Uses[p] /\ file["stdout"] = None
  /\ writes < load.writes /\ writes' = writes + 1
  /\ file' = [file EXCEPT !["stdout"] = p]
  /\ out' = [out EXCEPT ![p] = s]
  /\ Goto(p, IF s = << >> THEN "render" ELSE "emit")
  /\ UNCHANGED <<thr, missed, streams, exec, tty, len, frames, screen, hist>>

ReadCall(p, n) ==
  /\ At(p, "user") /\ "read" \in Uses[p] /\ file["stdin"] = None
  /\ file' = [file EXCEPT !["stdin"] = p]
  /\ len' = [len EXCEPT ![p] = n]
  /\ Goto(p, "test")
  /\ UNCHANGED <<thr, missed, out, streams, exec, tty, writes, frames, screen, hist>>

\* Is there input?
ReadTest(p) ==
  /\ At(p, "test")
  /\ Goto(p, IF completed_input_queue # << >> THEN "take" ELSE "test_eof")
  /\ UNCHANGED <<thr, missed, out, streams, exec, tty, calls, screen, hist>>

\* Has is_eof been set?
ReadTestEof(p) ==
  /\ At(p, "test_eof")
  /\ Goto(p, IF is_eof THEN "clear_eof" ELSE "read_block")
  /\ UNCHANGED <<thr, missed, out, streams, exec, tty, calls, screen, hist>>

ReadClearEof(p) ==
  /\ At(p, "clear_eof")
  /\ is_eof' = FALSE
  /\ Goto(p, "return")
  /\ UNCHANGED <<thr, missed, out, streams, exec, line_buf, completed_input_queue, calls,
                 screen, hist>>

ReadBlock(p) ==
  /\ At(p, "read_block")
  /\ Sleep(p, "WaitStdin", completed_input_queue # << >>)
  /\ Goto(p, "test")
  /\ UNCHANGED <<out, streams, exec, tty, calls, screen, hist>>

\* The byte popped once the buffer is full is dropped.
ReadPop(p) ==
  /\ At(p, "take")
  /\ \/ /\ completed_input_queue = << >>
        /\ Goto(p, "return")
        /\ UNCHANGED <<completed_input_queue, len, delivered, lost>>
     \/ /\ completed_input_queue # << >>
        /\ completed_input_queue' = Tail(completed_input_queue)
        /\ IF len[p] = 0
           THEN /\ lost' = lost \cup {Head(completed_input_queue)}
                /\ Goto(p, "return")
                /\ UNCHANGED <<len, delivered>>
           ELSE /\ delivered' = Append(delivered, Head(completed_input_queue))
                /\ len' = [len EXCEPT ![p] = @ - 1]
                /\ UNCHANGED <<lost, pc>>
  /\ UNCHANGED <<thr, missed, out, streams, exec, line_buf, is_eof, file, writes, frames,
                 screen, load, typed, line>>

Return(p) ==
  /\ At(p, "return")
  /\ file' = [f \in DOMAIN file |-> IF file[f] = p THEN None ELSE file[f]]
  /\ len' = [len EXCEPT ![p] = 0]
  /\ Goto(p, "user")
  /\ UNCHANGED <<thr, missed, out, streams, exec, tty, writes, frames, screen, hist>>

------------------------------------------------------------------------------
Next ==
  \/ \E k \in Keys : KeyboardInterrupt(k)
  \/ RunReadyTask \/ SleepIfIdle \/ ExecutorBlock \/ Poll
  \/ HandleKey \/ CommitLine \/ WakeupScan \/ WakeupReader
  \/ \E t \in ThreadId : OutputByte(t) \/ WakeTtyRenderer(t)
  \/ RendererBlock \/ RendererPaint \/ CompositorBlock \/ CompositorPaint
  \/ \E p \in Range(Procs) :
       \/ \E s \in Strings : WriteCall(p, s)
       \/ \E n \in ReadLens : ReadCall(p, n)
       \/ ReadTest(p) \/ ReadTestEof(p) \/ ReadClearEof(p) \/ ReadBlock(p) \/ ReadPop(p)
       \/ Return(p) \/ FrameReady(p)

Spec == Init /\ [][Next]_vars

------------------------------------------------------------------------------
(* Correctness.                                                             *)

\* Input never waits for nothing.  While a stream has elements its task is queued or
\* being polled, whatever the moment at which the interrupt fell into poll_next:
\* between the two attempts, or between the now_or_never of the console task, which
\* leaves a waker that wakes nobody, and its next poll.  And the executor sleeps on a
\* queued task only if the task was queued between the test of sleep_if_idle and
\* block_task; the next wake-up ends that sleep.
QueuedIsPolled ==
  /\ \A s \in {"keyboard", "console"} : Queue(s) # << >> => task = s \/ s \in Range(tasks)
  /\ thr[Executor] = "AsyncExecutorWait" /\ tasks # << >> => Executor \in missed

\* The executor is going to wake the reader p.
WillWakeReader(p) ==
  \/ pc[Executor] = "push"
  \/ pc[Executor] = "scan" /\ p \in {Procs[i] : i \in index..Len(Procs)}
  \/ p \in Range(readers_to_wake)

\* Thread t has written to the terminal, or is going to, and wakes the renderer after
\* that.
WillWakeRenderer(t) ==
  \/ pc[t] \in {"emit", "render"}
  \/ t = Executor /\ pc[t] \in {"flush", "flush_register", "flush_again"}
  \/ t = Executor /\ pc[t] \in {"push", "scan", "wake"} /\ wrote

\* No committed line and no output is forgotten: a process asleep in read while there
\* is input, or the renderer asleep while rows are dirty, is about to be woken, or
\* went to sleep with the input or the rows already there, in the step between the
\* test (or the painting) and block_task.
SleepersAreWoken ==
  /\ \A p \in Range(Procs) \ missed :
       thr[p] = "WaitStdin" /\ completed_input_queue # << >> => WillWakeReader(p)
  /\ Renderer \notin missed /\ thr[Renderer] = "TtyRenderWait" /\ terminal.dirty_row # {} =>
       \E t \in ThreadId : WillWakeRenderer(t)

\* A line is being committed.
Committing == todo # << >> \/ pc[Executor] = "push"

\* The line discipline loses, repeats and invents nothing.  Readers get keys in the
\* order typed, each once, and none that was overwritten in a full queue or popped for
\* a full buffer.  Every character and newline that was handled is in a read buffer, in
\* the queue, lost in one of those two ways, still in line_buf, or was erased by a
\* backspace, and an erased one is nowhere else.  And no newline stays in line_buf.
ReadersGetLines ==
  /\ LET seen == delivered \o completed_input_queue
     IN  \A i, j \in 1..Len(seen) : i < j => seen[i] < seen[j]
  /\ lost \cap (Range(delivered) \cup Range(completed_input_queue)) = {}
  /\ Range(line_buf) \cup Committed = Text \ erased
  /\ \A k \in Range(line_buf) : typed[k] = "nl" => Committing

\* The marks of VirtualTerminal are enough: whatever is written and whenever the
\* renderer runs, a row that is not marked dirty is right on the screen, but for the
\* rows that a scroll left behind (LeftBehind) and the rows that a window hides; these
\* are right again once something marks them and they are painted.
ScreenShowsTerminal ==
  \A r \in Rows \ (terminal.dirty_row \cup behind) : RowIsRight(terminal, lfb, r)
==============================================================================
