------------------------------ MODULE FrameAlloc ------------------------------
(***************************************************************************)
(* Physical frames, from the boot loader's BootInfoFrameAllocator          *)
(* (bootloader/src/memory.rs) to the kernel's BumpAllocator                *)
(* (kernel/src/mem/memory.rs).  The boot loader allocates the page tables  *)
(* and the kernel stack, then passes the address of its next free frame to *)
(* the kernel, which never gives a frame back.  ALLOC is a mutex, so calls *)
(* of next_frame do not overlap; each turn of its loop is one step here.   *)
(***************************************************************************)
EXTENDS Naturals, Sequences, FiniteSets

CONSTANTS
  PAGE,         \* the size of a frame, 4096
  LowMemory,    \* LOWER_MEMORY_END_PAGE: the boot loader's start_frame_addr
  MemoryMaps,   \* the memory maps to consider
  UsedRanges    \* the ranges of frames that the kernel image occupies

Region == [start : Nat, len : Nat \ {0}, usable : BOOLEAN]
EndAddr(r) == r.start + r.len - 1     \* MemoryMapEntry::end_addr, inclusive

\* The map is sorted by base address (main.rs of the boot loader) and its regions
\* are disjoint, as the firmware reports them.
IsMemoryMap(m) ==
  /\ m \in Seq(Region)
  /\ \A i, j \in 1..Len(m) : i < j => EndAddr(m[i]) < m[j].start

ASSUME FrameAllocAssumption ==
  /\ PAGE \in Nat \ {0} /\ LowMemory \in Nat
  /\ \A m \in MemoryMaps : IsMemoryMap(m)
  /\ \A u \in UsedRanges :
       /\ u.first \in Nat /\ u.last \in Nat /\ u.first <= u.last
       /\ u.first % PAGE = 0 /\ u.last % PAGE = 0

VARIABLES
  memory_map,            \* sequence of regions
  used_frame_range,      \* [first, last]: start addresses of frames, inclusive
  phase,                 \* "boot", "kernel", "next_frame" or "panic"
  boot_next,             \* boot loader: the addresses below this one are consumed
  current_region_index,  \* BumpAllocator, from 1
  next_phys_addr,        \* BumpAllocator
  given,                 \* history: the start addresses of the frames handed out
  boot_count,            \* history: how many of them the boot loader took
  out_of_memory          \* history: next_frame has returned None

mapvars == <<memory_map, used_frame_range>>
vars == <<memory_map, used_frame_range, phase, boot_next, current_region_index,
          next_phys_addr, given, boot_count, out_of_memory>>

Init ==
  /\ memory_map \in MemoryMaps /\ used_frame_range \in UsedRanges
  /\ phase = "boot" /\ boot_next = 0
  /\ current_region_index = 1 /\ next_phys_addr = 0
  /\ given = << >> /\ boot_count = 0 /\ out_of_memory = FALSE

\* PhysFrame::containing_address
Frame(a) == a - (a % PAGE)

------------------------------------------------------------------------------
(* The boot loader.                                                         *)

\* usable_frames: the addresses start, start + PAGE, .. below end_addr of every
\* usable region that are not below LowMemory and not in a frame of the kernel.
\* They come in increasing order, so nth(next) is the least that is not consumed.
IsUsableAddr(a) ==
  /\ \E i \in 1..Len(memory_map) :
       /\ memory_map[i].usable
       /\ memory_map[i].start <= a /\ a < EndAddr(memory_map[i])
       /\ (a - memory_map[i].start) % PAGE = 0
  /\ a >= LowMemory
  /\ Frame(a) > used_frame_range.last \/ Frame(a) < used_frame_range.first

IsNthUsable(a) ==
  /\ IsUsableAddr(a) /\ boot_next <= a
  /\ \A b \in boot_next..a : IsUsableAddr(b) => b = a

\* One past the last address of the map.
MapEnd == IF memory_map = << >> THEN 0 ELSE EndAddr(memory_map[Len(memory_map)]) + 1

BootAllocate ==
  /\ phase = "boot"
  /\ \E a \in 0..MapEnd :
       /\ IsNthUsable(a)
       /\ given' = Append(given, Frame(a))
       /\ boot_next' = a + 1
  /\ boot_count' = boot_count + 1
  /\ UNCHANGED <<mapvars, phase, current_region_index, next_phys_addr, out_of_memory>>

\* expect(..) on None, in allocate_frame's callers and in next_free_phys_addr.
BootPanic ==
  /\ phase = "boot" /\ \A a \in 0..MapEnd : ~IsNthUsable(a)
  /\ phase' = "panic"
  /\ UNCHANGED <<mapvars, boot_next, current_region_index, next_phys_addr, given,
                 boot_count, out_of_memory>>

\* free_memory_start_phys: next_free_phys_addr(), and BumpAllocator::starts_at.
HandOver ==
  /\ phase = "boot"
  /\ \E a \in 0..MapEnd : IsNthUsable(a) /\ next_phys_addr' = Frame(a)
  /\ phase' = "kernel" /\ current_region_index' = 1
  /\ UNCHANGED <<mapvars, boot_next, given, boot_count, out_of_memory>>

------------------------------------------------------------------------------
(* BumpAllocator::next_frame.                                               *)

Allocate ==
  /\ phase = "kernel"
  /\ phase' = "next_frame"
  /\ UNCHANGED <<mapvars, boot_next, current_region_index, next_phys_addr, given,
                 boot_count, out_of_memory>>

\* Mutant: moves on past the last region as well.
NoRegionLeft_advance ==
  /\ phase = "next_frame" /\ current_region_index > Len(memory_map)
  /\ phase' = "kernel" /\ out_of_memory' = TRUE
  /\ current_region_index' = current_region_index + 1
  /\ UNCHANGED <<mapvars, boot_next, next_phys_addr, given, boot_count>>

NoRegionLeft ==
  /\ phase = "next_frame" /\ current_region_index > Len(memory_map)
  /\ phase' = "kernel" /\ out_of_memory' = TRUE
  /\ UNCHANGED <<mapvars, boot_next, current_region_index, next_phys_addr, given, boot_count>>

InRegion == phase = "next_frame" /\ current_region_index <= Len(memory_map)
CurrRegion == memory_map[current_region_index]

\* Every turn of the loop first raises next_phys_addr to the start of the region.
Raised == IF CurrRegion.start > next_phys_addr THEN CurrRegion.start ELSE next_phys_addr

\* Mutant: the end of the range taken as exclusive.
InUsed_exclusive(a) == used_frame_range.first <= a /\ a < used_frame_range.last

InUsed(a) == used_frame_range.first <= a /\ a < used_frame_range.last + PAGE
TooShort(a) == EndAddr(CurrRegion) < a + PAGE

\* Mutant: continues with the same region.
SkipUnusable_same ==
  /\ InRegion /\ ~CurrRegion.usable
  /\ next_phys_addr' = Raised
  /\ UNCHANGED <<mapvars, phase, boot_next, current_region_index, given, boot_count,
                 out_of_memory>>

SkipUnusable ==
  /\ InRegion /\ ~CurrRegion.usable
  /\ next_phys_addr' = Raised
  /\ current_region_index' = current_region_index + 1
  /\ UNCHANGED <<mapvars, phase, boot_next, given, boot_count, out_of_memory>>

\* Mutant: gives up the rest of the region.
SkipUsed_region ==
  /\ InRegion /\ CurrRegion.usable /\ InUsed(Raised)
  /\ next_phys_addr' = used_frame_range.last + PAGE
  /\ current_region_index' = current_region_index + 1
  /\ UNCHANGED <<mapvars, phase, boot_next, given, boot_count, out_of_memory>>

SkipUsed ==
  /\ InRegion /\ CurrRegion.usable /\ InUsed(Raised)
  /\ next_phys_addr' = used_frame_range.last + PAGE
  /\ UNCHANGED <<mapvars, phase, boot_next, current_region_index, given, boot_count,
                 out_of_memory>>

\* The two range checks of the loop have the same condition.
SkipShort ==
  /\ InRegion /\ CurrRegion.usable /\ ~InUsed(Raised) /\ TooShort(Raised)
  /\ next_phys_addr' = Raised
  /\ current_region_index' = current_region_index + 1
  /\ UNCHANGED <<mapvars, phase, boot_next, given, boot_count, out_of_memory>>

AlignUp ==
  /\ InRegion /\ CurrRegion.usable /\ ~InUsed(Raised) /\ ~TooShort(Raised)
  /\ Raised % PAGE # 0
  /\ next_phys_addr' = Raised + (PAGE - (Raised % PAGE))
  /\ UNCHANGED <<mapvars, phase, boot_next, current_region_index, given, boot_count,
                 out_of_memory>>

\* Mutant: does not advance past the frame.
TakeFrame_stay ==
  /\ InRegion /\ CurrRegion.usable /\ ~InUsed(Raised) /\ ~TooShort(Raised)
  /\ Raised % PAGE = 0
  /\ given' = Append(given, Frame(Raised))
  /\ next_phys_addr' = Raised
  /\ phase' = "kernel"
  /\ UNCHANGED <<mapvars, boot_next, current_region_index, boot_count, out_of_memory>>

TakeFrame ==
  /\ InRegion /\ CurrRegion.usable /\ ~InUsed(Raised) /\ ~TooShort(Raised)
  /\ Raised % PAGE = 0
  /\ given' = Append(given, Frame(Raised))
  /\ next_phys_addr' = Raised + PAGE
  /\ phase' = "kernel"
  /\ UNCHANGED <<mapvars, boot_next, current_region_index, boot_count, out_of_memory>>

------------------------------------------------------------------------------
LoopStep ==
  NoRegionLeft \/ SkipUnusable \/ SkipUsed \/ SkipShort \/ AlignUp \/ TakeFrame

Next == BootAllocate \/ BootPanic \/ HandOver \/ Allocate \/ LoopStep

Spec == Init /\ [][Next]_vars
FairSpec == Spec /\ WF_vars(LoopStep)

------------------------------------------------------------------------------
(* Correctness.                                                             *)

TypeOK ==
  /\ IsMemoryMap(memory_map) /\ used_frame_range \in UsedRanges
  /\ phase \in {"boot", "kernel", "next_frame", "panic"}
  /\ boot_next \in Nat /\ next_phys_addr \in Nat
  /\ current_region_index \in 1..(Len(memory_map) + 1)
  /\ given \in Seq(Nat) /\ boot_count \in 0..Len(given)
  /\ out_of_memory \in BOOLEAN

\* A whole frame of usable memory that the kernel image does not touch.
FreeFrame(f) ==
  /\ f % PAGE = 0
  /\ \E i \in 1..Len(memory_map) :
       /\ memory_map[i].usable
       /\ memory_map[i].start <= f /\ f + PAGE <= memory_map[i].start + memory_map[i].len
  /\ f + PAGE <= used_frame_range.first \/ f >= used_frame_range.last + PAGE

\* Every frame that next_frame returns lies, whole, in usable memory outside the
\* kernel image, whatever the alignment of the regions of the memory map.
KernelFramesFree ==
  \A i \in (boot_count + 1)..Len(given) : FreeFrame(given[i])

\* Usable regions begin at frame boundaries.
AlignedMap ==
  \A i \in 1..Len(memory_map) : memory_map[i].usable => memory_map[i].start % PAGE = 0

\* Frames come out in increasing order, so none is handed out twice, not even one
\* by the boot loader (a page table, the kernel stack) and again by the kernel.
\* Between the kernel's own calls this needs no assumption on the map; the boot
\* loader rounds addresses down and needs regions that begin at frame boundaries.
HandedOutOnce ==
  \A i, j \in 1..Len(given) :
    i < j /\ (AlignedMap \/ boot_count < i) => given[i] < given[j]

\* When next_frame returns None, every free frame above LowMemory has been handed
\* out, by the boot loader or the kernel, but for one in each region: the frame that
\* ends exactly at the end of a region is never used, because end_addr is inclusive
\* and is compared as if it were not.
NothingLeft ==
  out_of_memory /\ AlignedMap =>
    \A f \in LowMemory..MapEnd :
      FreeFrame(f) /\ (\A i \in 1..Len(memory_map) :
                         f + PAGE # memory_map[i].start + memory_map[i].len)
        => \E i \in 1..Len(given) : given[i] = f

\* The loop of next_frame ends: it never `continue's without getting further.
NextFrameReturns == phase = "next_frame" ~> phase = "kernel"
==============================================================================
