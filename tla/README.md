# Verification of qi-os

TLA+ models of qi-os, a single-CPU preemptive x86_64 kernel in Rust with a
xiangqi game: the scheduler and its lock, processes, pipes, the physical frame
allocators, the console from keyboard to screen, the FAT32 file system, and the
game from mouse to board. TLC checks small instances; TLAPS proves the safety
properties, those of the file system aside, for every value of the constants.
Paths below are relative to the repository root (`src/` in `PROJECT.json`).

## Inventory

| part | source | what it does | here |
|---|---|---|---|
| scheduler | `kernel/src/task/thread.rs`, `switch.s` | round robin over a ready queue; block, sleep, yield, terminate; context switch | `Scheduler`, `Threads` |
| timer interrupt | `kernel/src/interrupts.rs` | 1 ms tick: wakes sleepers, ends slices, switches | `Scheduler` |
| scheduler lock | `kernel/src/task/lock.rs` | masks interrupts, nests by a global counter | `IrqLock` |
| processes | `kernel/src/task/proc.rs`, `syscall.rs` | fork, exec, waitpid, exit over `PROC` and one mutex per PCB | `Process` |
| pipes | `kernel/src/fs/vfs/pipe.rs`, `sys.rs` | bounded ring, sleeping readers and writers | `Pipe` |
| frame allocators | `bootloader/src/memory.rs`, `kernel/src/mem/memory.rs` | boot loader, then bump allocator | `FrameAlloc` |
| executor, keyboard | `kernel/src/task/` | async tasks fed by interrupt handlers through queues and wakers | `Console` |
| terminal, tty renderer | `kernel/src/tty.rs`, `console.rs` | line discipline, readers, text screen | `Console`, `Terminal` |
| VFS, FAT32 | `kernel/src/fs/` | dentry cache, descriptors, cluster chains, directories | `Vfs`, `Fat` |
| mouse, xiangqi program | `kernel/src/task/mouse.rs`, `userland/src/bin/xiangqi.rs` | packets, clicks, drawing | `XiangqiGame` |
| xiangqi engine | `userland/games/` | moves, check, mate, FEN | `Xiangqi` |
| compositor | `kernel/src/main.rs` | paints windows on request | its scan in `Process`, its effect on the screen in `Console` |
| disk and sound drivers, pixels, boot assembly, ELF and page tables, heap, ram disk, random numbers, other user programs | | port I/O, processor tables, external crates, clients of the system calls | not modelled |

Interaction: interrupts preempt threads wherever interrupts are on. Every part
blocks and wakes threads through the scheduler, whose state is only touched
under its lock. Processes, pipes, the terminal and the compositor share the
process table `PROC` and the PCB mutexes, which are spin locks taken with
interrupts on. Forked processes share their open `File`s, whose mutexes are spin
locks too and are held by sleeping readers.

## Modules

`Threads` is the abstract scheduler: a thread is unborn, runnable, blocked for a
reason or dead. `Scheduler` implements it (`ImplementsThreads`). `Process`,
`Pipe`, `Console` and `XiangqiGame` extend it, and each is proved to change
thread states only by steps of `Threads` (the four `ThreadsTheorem`s), so that
what they ask of the scheduler is what the scheduler provides. `IrqLock`
justifies that a region under `SCHEDULER.lock()` is one step.

* **Scheduler.** `threads`, `ready_queue`, `state`, `slice`, `curr`, `needs` are
  the fields and statics of the code; `left` counts a sleep down instead of
  comparing `ELAPSED` with an expiry; `pc` and `next` are the place and the local
  of `switch_if_needed`. `BlockTask`, `NanoSleep`, `TerminateTask` and
  `BlockTerminated`, `YieldSched`, `SpawnProc`, `UnblockTask` are the locked
  regions; `SwitchLoad`, `SwitchClear`, `SwitchPick`, `SwitchToTask` are the four
  steps of `switch_if_needed`, and an interrupt may fall before each;
  `TimerTick` is the whole handler with the switch at its end. The reasons that
  end by `unblock_task` are one, `"Wait"`.
* **IrqLock.** One step per access to the interrupt flag or a static, for the
  thread and the interrupt level of each thread.
* **Process.** One step per lock acquisition or scheduler region. A short lock
  of a PCB with nothing else acquired under it is one step, taken when the lock
  is free; fork and exec keep theirs over several. `FileCall`, `FileLock`,
  `FileReturn` are fstat, lseek, getdents, ioctl and fcntl, which lock the `File`
  with the PCB locked; `IoCall` .. `IoReturn` are read and write, which drop the
  PCB and keep the `File`, also asleep (`IoBlock`). Wakers of pipes (inside a read
  or write), the terminal's `wakeup_readers` and the compositor are the scanners
  of `PROC`.
* **Pipe.** The three mutexes of a pipe (ring, read `File`, write `File`) and
  `PROC`. A byte is named by its write call and place. Descriptors are used for
  their own direction only; the code does not check this. `pushed`,
  `delivered`, `full`, `silent` are history.
* **FrameAlloc.** Addresses are numbers, frames `PAGE` long; one step per boot
  allocation and per turn of the loop of `next_frame`. `given`, `boot_count`,
  `out_of_memory` are history.
* **Terminal** (operators). `VirtualTerminal` with its dirty rows, and what
  painting and scrolling do to the frame buffer, which is a grid of cells.
* **Console.** `KeyboardInterrupt` is one step. The executor makes one per
  access to a queue or a waker: `RunReadyTask`, `SleepIfIdle`, `ExecutorBlock`;
  `PollNext`, `Register`, `PollAgain` for either stream; one action per kind of
  key (`KeyCharacter` .. `KeyRaw`); `CommitLine`, `WakeupScan`, `WakeupReader`.
  `OutputByte` and `WakeTtyRenderer` belong to whoever writes; `RendererBlock`
  and `RendererPaint` to the renderer; `CompositorBlock` and `CompositorPaint`,
  which covers the screen with a window, to the compositor; `WriteCall`,
  `ReadCall`, `ReadTest`, `ReadTestEof`, `ReadClearEof`, `ReadBlock`, `ReadPop`,
  `Return`, `FrameReady` to processes. A key is known by its number. `missed`
  records who blocked with work already there; `handled`, `erased`, `delivered`
  and `lost` what became of each key; `behind` the rows that a scroll has left
  behind or a window hides. `load` is constant: which keys, writes and frames a
  behaviour may have.
* **Fat.** A disk is the FAT and the clusters; a unit of a cluster stands for 32
  bytes. Every change is a read and a later write of one sector (`ReadSector`,
  `WriteSector`), and another process or a power cut may come in between.
  `AllocCluster`, `WriteBuffer`, `ReadCluster`, `Unlink`, `FreeCluster`,
  `CreateDir`, `CreateFile`, `Mv` and their parts are the driver's operations.
  Simplified: a cluster is one sector, so that of `write_cluster` only the case of
  a single sector arises; no write is empty (one would still move the position by
  one); and a panic stops every process, where in the code the panicking thread
  stops, with its locks held, and others go on until they meet one of them.
* **Vfs.** Path lookup through the dentry cache (`FindCached`, `Lookup`,
  `Insert`), the mutexes of nodes and files, one action per system call, and
  `PowerCut`, which is also how the kernel comes back after a panic. A lookup below
  something that is not a directory of the root finds nothing; the code would read
  the data of a file as directory entries.
* **Xiangqi** (operators). Positions, `get_canidates`, `is_legal_move`, check,
  mate, stalemate, `play_move`, `from_str`.
* **XiangqiGame.** `MouseInterrupt`, `ReadPop`, `ReadBlock`, and the main loop by
  what a batch leads to: `NoClick`, `ClickOutside`, `Select`, `Play`. `owed`
  counts presses not yet answered; `sent` is the button in the last packet queued.
  The rules of the game, written from the rules
  and not from the code, are `Rule`.

An operator `X_suffix` before `X`, marked "Mutant", is `X` with a plausible
mistake; no specification uses it.

## Runs

| run | states | shows |
|---|---|---|
| `scheduler` | 110,583 | exact ready queue, only Running threads execute, no overtaking, no starvation, `Threads` implemented |
| `irqlock` | 52,476 | guarded regions atomic, flag restored, never scheduling while atomic |
| `process` | 89,446 | no panic of a forked process's lookup or of exit's, neither `PROC` nor a PCB held asleep, circular waits only through two named code paths, no stale wakeup, waits end after the exit |
| `pipe` | 791,896 | no lost wakeup, writes contiguous, stream in order with at most one byte lost per filled read |
| `framealloc` | 76,518 | kernel frames free, none twice, none left but the last of a region, the loop ends |
| `console` | 2,116,442 | streams with elements are polled, sleepers with work are woken or blocked in a named window, every key of a line delivered in order, queued, lost in a named way or erased, clean rows right on the screen unless left behind or hidden |
| `vfs` | 213,325 | chains whole and disjoint, no lost clusters when quiet, reads atomic, only the owner of a node changes its file |
| `xiangqi` | 133,728 | Generals safe, engine follows the rules, window shows the game, one click per press, the button known once the queue is empty |

Four runs end in a violation, each of something the source says:

* `scheduler_switch_window`: `switch.s:11` expects callers of `switch_to_task`
  to disable interrupts; `switch_if_needed` calls it with them on, and a tick
  there parks a thread that has picked its successor. The successor is Running
  and off the queue until the parked thread is dispatched again.
* `process_fork`: fork, with its PCB locked, waits for `PROC`; a scan, with
  `PROC` locked, waits for that PCB. Neither goes on, even under strong fairness.
* `process_wait`: a child that exits before the parent has blocked in `wait_pid`
  notifies nobody, and the parent blocks for ever.
* `pipe_eof`: `pipe.rs:84` promises end of file when all write ends are closed;
  `writers` is never decremented and `sys_close` wakes nobody.

**What the properties leave room for.** Some hold only up to behaviour of the
code that the models name:

* Console: `sleep_if_idle`, `read` and the renderer test and then block in two
  steps, so work that arrives in between is slept over until the next wake-up
  (`missed`). A scroll moves rows and not their dirty marks, and two scrolls
  before a paint scroll the screen once: the rows concerned are wrong until they
  are marked and painted again. `LeftBehind` says which these are, and
  `ScreenShowsTerminal` that there are no others, but for the rows under a window.
  A full input queue drops its oldest key, and a read that fills its buffer pops
  one key more (`lost`). The end-of-file key sets a flag and wakes no reader.
* Process: two code paths can be part of a circular wait (`SpinsWithPcb`): fork,
  and a call such as fstat on a `File` that another process holds asleep in a read,
  while whoever is to end that read scans `PROC` and waits for the caller's PCB.
  `LockChainsEnd` says that there is no third.
* Vfs: the driver takes no lock on the FAT or on a directory. The variable
  `broken` names the ways in which it loses data (see the head of `Fat`); the run
  explores a behaviour up to the first of them (`CONSTRAINT Sound`), so its
  claims are about everything else. `NoLostClusters` is about behaviours without a
  power cut; after one, clusters that belong to nothing are expected.
* Engine: an Elephant may go further than two squares, and the squares tested for
  its eye lie on its file, not on the diagonal; a General never steps back,
  because from the square behind it sees itself and takes that for the enemy's
  General. Both are left out of
  `FollowsRules`. That Generals must not face is tested only when a General moves, the
  test `test_mate` (`testpositions.rs:30`) expects a result the code does not
  give, and stalemate counts as a loss. A click on an empty square that the
  piece cannot reach ends the program in a panic (`xiangqi.rs:323`).
* Mouse: of a batch of packets only the last button state counts, and presses
  from before `/dev/mouse` was opened are answered. `ClicksArePresses` says no
  click is invented, not that none is lost. A packet that arrives between the
  last `pop` of a read and its `block_task` is slept over until the next one.

**Bounds.** Scheduler: one kernel thread, two processes, the idle thread and the
cleaner; slices and sleeps of up to two ticks, so that a slice ends, a sleep
spans a slice and queues of three arise. IrqLock: three threads, guards two deep
per level. Process: three pids (parent, two children, or a grandchild), the
executor, the compositor and the boot thread, and one `File` that all share. Pipe: chunk 2, ring 3, reads of 0,
1, 2, writes of 0, 1 and 3 (more than a chunk), two writes, three processes, one
with both ends. FrameAlloc: frames of 4, every map of up to three regions from a
set with unaligned starts and lengths below, at and above frame sizes. Console:
the shell, which reads, and a child, which writes and has a window; a screen of 3
by 2, queues of 1, 2 and 1 so that each overflows, and seven loads (`Loads`), each
interleaved in every way: a key typed, erased, typed again and committed, a line on
a screen that scrolls, a line against a write, ends of input on an empty line and
after a key, a backspace on an empty line with an interrupt and a raw key, and two
writes against a window. Vfs: two processes that have inherited two `File`s on one
file, so that they meet at the mutex of its node and not only at that of a `File`;
that file of two clusters, an empty file, a free slot and a directory on eight
clusters, two calls, transfers of one unit and of three full clusters (`Lens`), so
that the next write starts one unit past a cluster's end, one power cut. Xiangqi: the program's own
position and two of the engine's tests, two moves, queue and batches of two, two
presses owed; the tests of `testpositions.rs`, `test_mate` aside, and the rules
in three more positions are assumptions that TLC evaluates. `MaxSleep`,
`MaxDepth`, `LastPid`, `MaxWrites`, `Loads`, `MaxCalls`, `MaxPowerCuts`,
`MaxMoves` and `MaxOwed` are bounds of the models. The code has none of them.

**Real time.** `WindowFitsSlice`: the few instructions of `switch_if_needed` do
not outlast a slice of 100 ticks, which every blocking call refills first.

**Fairness.** The timer keeps ticking and a thread inside `switch_if_needed`
keeps executing (`scheduler`). `process` assumes only that an exiting process
goes on. The two `Process` violations and `pipe_eof` are found under strong
fairness of every thread's kernel steps, more than round robin gives spin
locks, so they are not starvation. In `framealloc` the loop keeps running.
`ReadyGetsCpu` is stated for executions that meet the contract of
`switch_to_task`; others are the subject of `scheduler_switch_window`.

`CHECK_DEADLOCK FALSE` is set where the system may stop: all processes gone or
asleep (`Process`, which also has the deadlock of fork, `Pipe`, and `Console`
and `Vfs` when the bounded events are used up), or a panic in the boot loader
(`FrameAlloc`).

## Proofs

Every invariant and action property of the passing runs is a theorem, those of
`vfs` aside. The assumptions are the named `ASSUME`s of the modules, which TLC
evaluates in the runs.

* `SchedulerProofs`: `TypeCorrect`, `ReadyQueueSound`, `BlockedStaysOff`,
  `RoundRobin`, `SchedulerImplementsThreads`, with lemmas on sequences without
  repetition. The queue discipline is not inductive alone: the invariant adds
  that `threads` holds each spawned thread once, that the thread with the CPU is
  Running unless it is inside `switch_if_needed` and that the flag is set if it is
  about to load it, and that a thread picked but not switched to is Running, has
  not the CPU and was picked by one thread only. Assumed: ids of queued threads
  are above 2, slices are longer than one tick.
* `IrqLockProofs`: `IrqLockTypeCorrect`, `GuardAtomic`, `NeverWhileAtomic`,
  `DropRestoresFlag`. The invariant ties the global counter to the depths of the
  running context, says every other context is outside lock and drop or has not
  masked interrupts yet, and that the saved flag is the outermost entry flag.
* `FrameAllocProofs`: `FrameAllocTypeCorrect`, `KernelGetsFreeFrames`,
  `NoFrameTwice`, `AllFramesHandedOut`, for every sorted disjoint map. The
  invariant bounds the frames given by the next address (`Below`). For
  completeness it adds that every usable frame the allocator in charge has
  passed, by address or by region, has been given (`Exhaustive`).
* `ProcessProofs`: all safety properties of `Process` from one invariant, for any
  number of pids. It says at which steps a thread may sleep (`Control`), which
  steps hold which lock (`Locks`), that whoever a waker has found is still asleep
  for that reason (`Wakers`), that a pid in the making is new and belongs to one
  maker (`Fresh`), that `PROC` holds exactly the living and those about to get
  their thread (`Table`), and how far scans are (`Scans`): a child is behind its
  parent in `PROC`, and no scan passes a parent that is pushing its child's thread,
  which is why `thread_for_proc(..).unwrap()` does not panic. `Shared` says who
  holds a `File` at which step. `LockChainsEnd` follows: the holder of a PCB, other
  than in the two paths, waits for nobody, the holder of `PROC` at most for the
  holder of a PCB, the holder of a `File` at most for the holder of `PROC`.
* `PipeProofs`: `TypeOK` and `NoLostWakeup` rest on who holds the two `File`s at
  which step and where the sleepers are. `WritesNotInterleaved` adds that only
  the holder of the write end has bytes left and that they continue the stream
  where it ends (`Writing`). `StreamInOrder` adds that the ring is the end of the
  stream and that what was delivered lies, in order, in front of it (`Stream`).
  For all lengths, capacities at least `PIPE_BUF`, and numbers of processes.
* `ConsoleProofs`: `QueuedIsPolled` from `PollInv`, the protocol of the two
  `AtomicWaker`s: a stream whose task is neither queued nor polled is empty and
  its waker wakes that task. `SleepersAreWoken` adds for readers where the scan
  is, for the renderer that echo reaches its wake-up only with `wrote_bytes` set.
  `ReadersGetLines` uses that the key numbers are cut into consecutive stages:
  read buffers, queue, pending line, key in hand, scancodes (`LineInv`), and that
  the last key of `line_buf` is the latest unfinished one, which is the one a
  backspace erases. `ScreenShowsTerminal` uses that a scroll marks the last rows,
  and that `behind` moves along with a scroll. For every screen
  of at least two rows and one column, all queue capacities, all processes.
* `XiangqiEngineProofs`: `RulesFollowed`, for every well-formed position with one
  General a side in its palace (`Playable`): piece by piece, `is_legal_move` is
  the rule, and `get_canidates` misses nothing. A lemma per piece, and lemmas on
  counting the pieces between two squares.
* `XiangqiProofs`: `MovesFollowRules` and `GeneralsSafe` from the invariant that
  the position stays well formed and playable: a General is captured only by
  ending the program. `ClicksArePresses` from a ledger: along the button states
  from the last one handled through the queue to the present one, the presses
  owed cover every rising edge the program can still see. `ButtonIsKnown` because
  the last packet of the pipeline, in the queue, in the batch or handled, has the
  button that was sent last (`Reported`). `ScreenMatchesGame` from where the
  program is. Assumed: the start position
  is readable and playable, queue and batches are not empty.

Only model-checked, and why:

* `ReadyGetsCpu`, `BlockedParentWakes`, `NextFrameReturns`, and the three temporal
  violations: liveness, which the prover does not do.
* `ChainsIntact`, `NoLostClusters`, `ReadsAreAtomic`, `OnlyOwnerChanges`: a
  cluster chain is a recursive definition over the disk, and its facts need
  induction over data, which the prover does not do either.
* That `test_mate`'s siblings pass: finite evaluation, done by TLC.

## Not modelled

Register contents and stacks in a context switch; address spaces and ELF loading;
chdir and getcwd, which use a field of one PCB under its lock; what fstat, getdents,
ioctl and fcntl return or set (the locks they take are in `Process`);
whether a file system call ends; the disk's command protocol (a command is one
step of `Fat`, which needs that two threads never send commands at once, and
`ata.rs` takes no lock for that); the sound card and its task; pixels, and what is in a window;
the heap, an external crate whose lock interrupt handlers may also take; the ram
disk, read only; user programs other than xiangqi, whose calls the models leave
open.
