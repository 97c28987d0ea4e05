--------------------------- MODULE FrameAllocProofs ---------------------------
(***************************************************************************)
(* What FrameAlloc guarantees for every page size, every sorted memory map *)
(* and every position of the kernel image.                                 *)
(***************************************************************************)
EXTENDS FrameAlloc, Integers, TLAPS

(* Arithmetic of multiples of the page size.                                *)

\* Quotient and remainder.
LEMMA DivMod ==
  ASSUME NEW p \in Nat \ {0}, NEW a \in Nat
  PROVE  /\ a \div p \in Nat /\ a % p \in 0..(p - 1)
         /\ a = (p * (a \div p)) + (a % p)
OBVIOUS

\* A multiple has remainder 0.
LEMMA MultipleMod ==
  ASSUME NEW p \in Nat \ {0}, NEW k \in Nat
  PROVE  (p * k) % p = 0
<1> DEFINE a == p * k
           q == a \div p
           r == a % p
<1>1. a \in Nat
  OBVIOUS
<1>2. q \in Nat /\ r \in 0..(p - 1) /\ a = p * q + r
  BY <1>1, DivMod, Zenon
<1> HIDE DEF q, r
<1>3. p * (k - q) = r
  BY <1>2
<1>4. CASE k - q >= 1
  <2>1. p * (k - q) >= p
    BY <1>4, <1>2
  <2> QED BY <2>1, <1>2, <1>3
<1>5. CASE q - k >= 1
  <2>1. p * (q - k) >= p
    BY <1>5, <1>2
  <2> QED BY <2>1, <1>2, <1>3
<1>6. CASE k = q
  BY <1>6, <1>2, <1>3
<1>7. r = 0
  BY <1>4, <1>5, <1>6, <1>2
<1> QED BY <1>7 DEF r

\* Multiples are closed under addition.
LEMMA SumOfMultiples ==
  ASSUME NEW p \in Nat \ {0}, NEW a \in Nat, NEW b \in Nat, a % p = 0, b % p = 0
  PROVE  (a + b) % p = 0
<1> DEFINE i == a \div p
           j == b \div p
<1>1. i \in Nat /\ j \in Nat /\ a = p * i /\ b = p * j
  BY DivMod
<1> HIDE DEF i, j
<1>2. a + b = p * (i + j)
  BY <1>1
<1> QED BY <1>1, <1>2, MultipleMod

\* Two multiples are at least a page apart.
LEMMA MultiplesApart ==
  ASSUME NEW p \in Nat \ {0}, NEW a \in Nat, NEW b \in Nat, a % p = 0, b % p = 0, a < b
  PROVE  a + p <= b
<1> DEFINE i == a \div p
           j == b \div p
<1>1. i \in Nat /\ j \in Nat /\ a = p * i /\ b = p * j
  BY DivMod
<1> HIDE DEF i, j
<1>2. p * (j - i) > 0
  BY <1>1
<1>3. j - i >= 1
  <2>1. CASE j - i <= 0
    <3>1. p * (j - i) <= 0
      BY <2>1, <1>1
    <3> QED BY <3>1, <1>2, <1>1
  <2> QED BY <2>1, <1>1
<1>4. p * (j - i) >= p
  BY <1>3, <1>1
<1> QED BY <1>1, <1>4

------------------------------------------------------------------------------
(* The inductive invariant.                                                 *)

Booting == phase \in {"boot", "panic"}

\* Where the next frame can be: the boot loader's position, then the kernel's.
Position == IF Booting THEN boot_next ELSE next_phys_addr

\* All frames so far lie below the position of the allocator in charge.
Below ==
  /\ Booting => boot_count = Len(given)
  /\ \A i \in 1..Len(given) : AlignedMap \/ boot_count < i => given[i] < Position

IInv == TypeOK /\ Below /\ HandedOutOnce /\ KernelFramesFree

\* The fields of a region of the memory map.
LEMMA RegionType ==
  ASSUME TypeOK, NEW i \in 1..Len(memory_map)
  PROVE  /\ memory_map[i].start \in Nat /\ memory_map[i].len \in Nat \ {0}
         /\ memory_map[i].usable \in BOOLEAN
<1>1. memory_map \in Seq(Region)
  BY DEF TypeOK, IsMemoryMap
<1>2. memory_map[i] \in Region
  BY <1>1
<1> QED BY <1>2 DEF Region

\* A frame that lies at or beyond the position of the allocator can be added.
LEMMA AddFrame ==
  ASSUME TypeOK, Below, HandedOutOnce, NEW f \in Nat, NEW n \in Nat,
         given' = Append(given, f), UNCHANGED mapvars,
         boot_count' \in {boot_count, boot_count + 1}, boot_count' <= Len(given) + 1,
         Position' = n, f < n, Position <= n,
         AlignedMap \/ boot_count' < Len(given) + 1 => Position <= f
  PROVE  /\ HandedOutOnce'
         /\ \A i \in 1..Len(given') : AlignedMap' \/ boot_count' < i => given'[i] < n
<1>1. /\ given \in Seq(Nat) /\ boot_count \in Nat /\ Len(given) \in Nat
      /\ Len(given') = Len(given) + 1 /\ given' \in Seq(Nat)
      /\ given'[Len(given) + 1] = f
      /\ \A i \in 1..Len(given) : given'[i] = given[i] /\ given[i] \in Nat
  BY DEF TypeOK
<1>2. AlignedMap' = AlignedMap
  BY DEF AlignedMap, mapvars
<1>3. Position \in Nat
  BY DEF TypeOK, Position
<1>4. ASSUME NEW i \in 1..Len(given), AlignedMap \/ boot_count' < i
      PROVE  given[i] < Position
  BY <1>1, <1>4 DEF Below
<1>5. \A i \in 1..Len(given') : AlignedMap' \/ boot_count' < i => given'[i] < n
  BY <1>1, <1>2, <1>3, <1>4
<1>6. HandedOutOnce'
  <2> SUFFICES ASSUME NEW i \in 1..Len(given'), NEW j \in 1..Len(given'), i < j,
                      AlignedMap \/ boot_count' < i
               PROVE  given'[i] < given'[j]
    BY <1>2 DEF HandedOutOnce
  <2>1. i \in 1..Len(given)
    BY <1>1
  <2>2. CASE j = Len(given) + 1
    BY <2>1, <2>2, <1>1, <1>3, <1>4
  <2>3. CASE j \in 1..Len(given)
    <3>1. AlignedMap \/ boot_count < i
      BY <1>1, <2>1
    <3> QED BY <2>1, <2>3, <3>1, <1>1 DEF HandedOutOnce
  <2>4. j \in Int /\ 1 <= j /\ j <= Len(given) + 1 /\ Len(given) \in Nat
    BY <1>1
  <2>5. j = Len(given) + 1 \/ j \in 1..Len(given)
    BY <2>4
  <2> QED BY <2>2, <2>3, <2>5
<1> QED BY <1>5, <1>6

\* The allocator moves on without handing out a frame.
LEMMA MoveOn ==
  ASSUME IInv, UNCHANGED <<mapvars, given, boot_count>>, TypeOK',
         Position <= Position', Booting' => Booting
  PROVE  IInv'
<1>1. AlignedMap' = AlignedMap
  BY DEF AlignedMap, mapvars
<1>2. HandedOutOnce'
  BY <1>1 DEF IInv, HandedOutOnce
<1>3. KernelFramesFree'
  BY DEF IInv, KernelFramesFree, FreeFrame, mapvars
<1>4. Position \in Nat /\ Position' \in Nat /\ \A i \in 1..Len(given) : given[i] \in Nat
  BY DEF IInv, TypeOK, Position
<1>5. Below'
  BY <1>1, <1>4 DEF IInv, Below
<1> QED BY <1>2, <1>3, <1>5 DEF IInv

\* Rounding down does nothing to a usable address of an aligned map.
LEMMA UsableAligned ==
  ASSUME TypeOK, NEW a \in Nat, IsUsableAddr(a)
  PROVE  /\ Frame(a) \in Nat /\ Frame(a) <= a
         /\ AlignedMap => Frame(a) = a
<1>1. PAGE \in Nat \ {0}
  BY FrameAllocAssumption
<1>2. a % PAGE \in 0..(PAGE - 1) /\ a = (PAGE * (a \div PAGE)) + (a % PAGE) /\ a \div PAGE \in Nat
  BY <1>1, DivMod, Zenon
<1>3. PAGE * (a \div PAGE) \in Nat
  BY <1>1, <1>2
<1>4. Frame(a) = PAGE * (a \div PAGE)
  BY <1>1, <1>2, <1>3 DEF Frame
<1>5. ASSUME AlignedMap PROVE a % PAGE = 0
  <2>1. PICK i \in 1..Len(memory_map) :
          /\ memory_map[i].usable /\ memory_map[i].start <= a
          /\ (a - memory_map[i].start) % PAGE = 0
    BY DEF IsUsableAddr
  <2>2. memory_map[i].start \in Nat
    BY RegionType
  <2>3. memory_map[i].start % PAGE = 0
    BY <1>5, <2>1 DEF AlignedMap
  <2> DEFINE s == memory_map[i].start
             d == a - s
  <2>4. d \in Nat /\ d % PAGE = 0 /\ s \in Nat /\ s % PAGE = 0 /\ a = d + s
    BY <2>1, <2>2, <2>3
  <2> HIDE DEF s, d
  <2> QED BY <2>4, <1>1, SumOfMultiples, Zenon
<1> QED BY <1>2, <1>3, <1>4, <1>5, <1>1 DEF Frame

------------------------------------------------------------------------------
(* Every step keeps the invariant.                                          *)

\* The invariant holds when the boot loader starts.
LEMMA InitIInv == Init => IInv
<1> SUFFICES ASSUME Init PROVE IInv
  OBVIOUS
<1>1. given = << >> /\ Len(given) = 0 /\ boot_count = 0
  BY DEF Init
<1>2. IsMemoryMap(memory_map)
  BY FrameAllocAssumption DEF Init
<1>3. Len(memory_map) \in Nat
  BY <1>2 DEF IsMemoryMap
<1>4. TypeOK
  <2>1. out_of_memory \in BOOLEAN
    BY Zenon DEF Init
  <2>2. given \in Seq(Nat) /\ boot_count \in 0..Len(given)
    BY <1>1
  <2>3. current_region_index \in 1..(Len(memory_map) + 1)
    BY <1>3 DEF Init
  <2> QED BY <1>2, <2>1, <2>2, <2>3 DEF Init, TypeOK
<1>5. Below /\ HandedOutOnce /\ KernelFramesFree
  BY <1>1 DEF Below, HandedOutOnce, KernelFramesFree
<1> QED BY <1>4, <1>5 DEF IInv

\* An allocation of the boot loader keeps the invariant.
LEMMA BootAllocateStep == IInv /\ BootAllocate => IInv'
<1> SUFFICES ASSUME IInv, BootAllocate PROVE IInv'
  OBVIOUS
<1> USE DEF IInv
<1>1. PICK a \in 0..MapEnd : /\ IsNthUsable(a) /\ given' = Append(given, Frame(a))
                             /\ boot_next' = a + 1
  BY DEF BootAllocate
<1>2. a \in Nat /\ IsUsableAddr(a) /\ boot_next <= a
  BY <1>1 DEF IsNthUsable, MapEnd
<1>3. Frame(a) \in Nat /\ Frame(a) <= a /\ (AlignedMap => Frame(a) = a)
  BY <1>2, UsableAligned
<1>4. boot_count = Len(given) /\ boot_count' = boot_count + 1 /\ boot_next \in Nat
      /\ Len(given) \in Nat /\ UNCHANGED mapvars
  BY DEF BootAllocate, Below, Booting, TypeOK
<1>5. Position = boot_next /\ Position' = a + 1 /\ Booting'
  BY <1>1 DEF BootAllocate, Position, Booting
<1>6. given' \in Seq(Nat) /\ Len(given') = Len(given) + 1
  BY <1>1, <1>3 DEF TypeOK
<1>7. /\ HandedOutOnce'
      /\ \A i \in 1..Len(given') : AlignedMap' \/ boot_count' < i => given'[i] < a + 1
  <2>1. a + 1 \in Nat /\ Frame(a) < a + 1 /\ Position <= a + 1 /\ boot_count' <= Len(given) + 1
        /\ boot_count' \in {boot_count, boot_count + 1}
    BY <1>2, <1>3, <1>4, <1>5
  <2>2. AlignedMap \/ boot_count' < Len(given) + 1 => Position <= Frame(a)
    BY <1>2, <1>3, <1>4, <1>5
  <2> QED BY <2>1, <2>2, <1>1, <1>3, <1>4, <1>5, AddFrame
<1>8. TypeOK'
  BY <1>1, <1>2, <1>4, <1>6 DEF BootAllocate, TypeOK, mapvars
<1>9. Below'
  BY <1>4, <1>5, <1>6, <1>7 DEF Below
<1>10. KernelFramesFree'
  BY <1>4, <1>6 DEF KernelFramesFree
<1> QED BY <1>7, <1>8, <1>9, <1>10

\* Passing the next free address to the kernel keeps the invariant.
LEMMA HandOverStep == IInv /\ HandOver => IInv'
<1> SUFFICES ASSUME IInv, HandOver PROVE IInv'
  OBVIOUS
<1>1. PICK a \in 0..MapEnd : IsNthUsable(a) /\ next_phys_addr' = Frame(a)
  BY DEF HandOver
<1>2. a \in Nat /\ IsUsableAddr(a) /\ boot_next <= a /\ boot_next \in Nat
  BY <1>1 DEF IsNthUsable, MapEnd, IInv, TypeOK
<1>3. Frame(a) \in Nat /\ Frame(a) <= a /\ (AlignedMap => Frame(a) = a)
  BY <1>2, UsableAligned DEF IInv
<1>4. Position = boot_next /\ Position' = Frame(a) /\ Booting /\ ~Booting'
  BY <1>1 DEF HandOver, Position, Booting
<1>5. UNCHANGED <<mapvars, given, boot_count>>
  BY DEF HandOver
<1>6. TypeOK'
  <2>1. Len(memory_map) \in Nat
    BY DEF IInv, TypeOK, IsMemoryMap
  <2> QED BY <2>1, <1>1, <1>3 DEF HandOver, IInv, TypeOK, mapvars
<1>7. AlignedMap' = AlignedMap
  BY <1>5 DEF AlignedMap, mapvars
<1>8. HandedOutOnce' /\ KernelFramesFree'
  BY <1>5, <1>7 DEF IInv, HandedOutOnce, KernelFramesFree, FreeFrame, mapvars
<1>9. Below'
  <2>1. boot_count = Len(given) /\ \A i \in 1..Len(given) : given[i] \in Nat
    BY <1>4 DEF IInv, Below, TypeOK
  <2> SUFFICES ASSUME NEW i \in 1..Len(given), AlignedMap \/ boot_count < i
               PROVE  given[i] < Frame(a)
    BY <1>4, <1>5, <1>7 DEF Below
  <2>2. AlignedMap
    BY <2>1
  <2>3. given[i] < boot_next
    BY <2>2, <1>4 DEF IInv, Below
  <2> QED BY <2>1, <2>2, <2>3, <1>2, <1>3
<1> QED BY <1>6, <1>8, <1>9 DEF IInv

\* Facts about the region that the loop of next_frame is in.
LEMMA InRegionFacts ==
  ASSUME TypeOK, InRegion
  PROVE  /\ Len(memory_map) \in Nat /\ current_region_index \in 1..Len(memory_map)
         /\ CurrRegion.start \in Nat /\ CurrRegion.len \in Nat \ {0}
         /\ Raised \in Nat /\ next_phys_addr \in Nat /\ next_phys_addr <= Raised
         /\ CurrRegion.start <= Raised
         /\ PAGE \in Nat \ {0}
         /\ used_frame_range.first \in Nat /\ used_frame_range.last \in Nat
         /\ used_frame_range.first <= used_frame_range.last
         /\ used_frame_range.first % PAGE = 0 /\ used_frame_range.last % PAGE = 0
<1>1. Len(memory_map) \in Nat
  BY DEF TypeOK, IsMemoryMap
<1>2. current_region_index \in 1..Len(memory_map)
  BY <1>1 DEF TypeOK, InRegion
<1>3. CurrRegion.start \in Nat /\ CurrRegion.len \in Nat \ {0}
  BY <1>2, RegionType DEF CurrRegion
<1>4. next_phys_addr \in Nat /\ used_frame_range \in UsedRanges
  BY DEF TypeOK
<1>5. Raised \in Nat /\ next_phys_addr <= Raised /\ CurrRegion.start <= Raised
  BY <1>3, <1>4 DEF Raised
<1> QED BY <1>1, <1>2, <1>3, <1>4, <1>5, FrameAllocAssumption

\* The turns of the loop that end in `continue'.
LEMMA SkipStep ==
  ASSUME IInv, SkipUnusable \/ SkipUsed \/ SkipShort \/ AlignUp
  PROVE  IInv'
<1>1. TypeOK /\ InRegion
  BY DEF IInv, SkipUnusable, SkipUsed, SkipShort, AlignUp
<1>2. /\ Len(memory_map) \in Nat /\ current_region_index \in 1..Len(memory_map)
      /\ Raised \in Nat /\ next_phys_addr \in Nat /\ next_phys_addr <= Raised
      /\ PAGE \in Nat \ {0} /\ used_frame_range.last \in Nat
  BY <1>1, InRegionFacts
<1>3. Raised % PAGE \in 0..(PAGE - 1)
  BY <1>2, DivMod, Zenon
<1>4. next_phys_addr' \in Nat /\ Raised <= next_phys_addr'
  <2>1. CASE SkipUnusable
    BY <2>1, <1>2 DEF SkipUnusable
  <2>2. CASE SkipUsed
    BY <2>2, <1>2 DEF SkipUsed, InUsed
  <2>3. CASE SkipShort
    BY <2>3, <1>2 DEF SkipShort
  <2>4. CASE AlignUp
    <3> DEFINE r == Raised % PAGE
    <3>1. next_phys_addr' = Raised + (PAGE - r) /\ r \in 0..(PAGE - 1)
      BY <2>4, <1>3 DEF AlignUp
    <3> HIDE DEF r
    <3> QED BY <3>1, <1>2
  <2> QED BY <2>1, <2>2, <2>3, <2>4
<1>5. /\ current_region_index' \in 1..(Len(memory_map) + 1)
      /\ UNCHANGED <<mapvars, phase, boot_next, given, boot_count, out_of_memory>>
  BY <1>2 DEF SkipUnusable, SkipUsed, SkipShort, AlignUp
<1>6. TypeOK'
  BY <1>4, <1>5 DEF IInv, TypeOK, mapvars
<1>7. Position = next_phys_addr /\ Position' = next_phys_addr' /\ ~Booting'
  BY <1>1, <1>5 DEF InRegion, Position, Booting
<1> QED BY <1>2, <1>4, <1>5, <1>6, <1>7, MoveOn

\* The last turn of the loop, which hands out a frame, keeps the invariant.
LEMMA TakeFrameStep == IInv /\ TakeFrame => IInv'
<1> SUFFICES ASSUME IInv, TakeFrame PROVE IInv'
  OBVIOUS
<1>1. /\ TypeOK /\ InRegion /\ CurrRegion.usable /\ ~InUsed(Raised) /\ ~TooShort(Raised)
      /\ Raised % PAGE = 0
      /\ given' = Append(given, Frame(Raised)) /\ next_phys_addr' = Raised + PAGE
      /\ phase' = "kernel"
      /\ UNCHANGED <<mapvars, boot_next, current_region_index, boot_count, out_of_memory>>
  BY DEF IInv, TakeFrame
<1>2. /\ Len(memory_map) \in Nat /\ current_region_index \in 1..Len(memory_map)
      /\ CurrRegion.start \in Nat /\ CurrRegion.len \in Nat \ {0}
      /\ Raised \in Nat /\ next_phys_addr \in Nat /\ next_phys_addr <= Raised
      /\ CurrRegion.start <= Raised /\ PAGE \in Nat \ {0}
      /\ used_frame_range.first \in Nat /\ used_frame_range.last \in Nat
      /\ used_frame_range.first % PAGE = 0
  BY <1>1, InRegionFacts
<1>3. Frame(Raised) = Raised
  BY <1>1, <1>2 DEF Frame
<1>4. FreeFrame(Raised)
  <2>1. Raised + PAGE <= CurrRegion.start + CurrRegion.len
    BY <1>1, <1>2 DEF TooShort, EndAddr
  <2>2. Raised + PAGE <= used_frame_range.first \/ Raised >= used_frame_range.last + PAGE
    <3>1. Raised < used_frame_range.first \/ Raised >= used_frame_range.last + PAGE
      BY <1>1, <1>2 DEF InUsed
    <3> QED BY <3>1, <1>1, <1>2, MultiplesApart
  <2> QED BY <2>1, <2>2, <1>1, <1>2 DEF FreeFrame, CurrRegion
<1>5. Position = next_phys_addr /\ Position' = Raised + PAGE /\ ~Booting'
  BY <1>1 DEF InRegion, Position, Booting
<1>6. given \in Seq(Nat) /\ Len(given) \in Nat /\ boot_count \in 0..Len(given)
  BY <1>1 DEF TypeOK
<1>7. /\ given' \in Seq(Nat) /\ Len(given') = Len(given) + 1
      /\ given'[Len(given) + 1] = Raised
      /\ \A i \in 1..Len(given) : given'[i] = given[i]
  BY <1>1, <1>2, <1>3, <1>6
<1>8. /\ HandedOutOnce'
      /\ \A i \in 1..Len(given') : AlignedMap' \/ boot_count' < i => given'[i] < Raised + PAGE
  <2>1. /\ Raised + PAGE \in Nat /\ Raised < Raised + PAGE /\ Position <= Raised
        /\ Position <= Raised + PAGE
        /\ boot_count' \in {boot_count, boot_count + 1} /\ boot_count' <= Len(given) + 1
    BY <1>1, <1>2, <1>5, <1>6
  <2>2. TypeOK /\ Below /\ HandedOutOnce
    BY DEF IInv
  <2>3. given' = Append(given, Raised) /\ UNCHANGED mapvars
    BY <1>1, <1>3
  <2> QED BY <2>1, <2>2, <2>3, <1>2, <1>5, AddFrame
<1>9. TypeOK'
  BY <1>1, <1>2, <1>6, <1>7 DEF TypeOK, mapvars
<1>10. Below'
  BY <1>5, <1>8 DEF Below
<1>11. KernelFramesFree'
  <2> SUFFICES ASSUME NEW i \in (boot_count' + 1)..Len(given')
               PROVE  FreeFrame(given[i])'
    BY DEF KernelFramesFree
  <2>1. FreeFrame(given'[i])
    <3>1. CASE i = Len(given) + 1
      BY <3>1, <1>4, <1>7
    <3>2. CASE i \in (boot_count + 1)..Len(given)
      BY <3>2, <1>6, <1>7 DEF IInv, KernelFramesFree
    <3>3. i = Len(given) + 1 \/ i \in (boot_count + 1)..Len(given)
      <4>1. i \in Int /\ boot_count + 1 <= i /\ i <= Len(given) + 1
        BY <1>1, <1>6, <1>7
      <4> QED BY <4>1, <1>6
    <3> QED BY <3>1, <3>2, <3>3
  <2> QED BY <2>1, <1>1, Zenon DEF FreeFrame, mapvars
<1> QED BY <1>8, <1>9, <1>10, <1>11 DEF IInv

\* Every step keeps the invariant.
LEMMA NextIInv == IInv /\ [Next]_vars => IInv'
<1> SUFFICES ASSUME IInv, [Next]_vars PROVE IInv'
  OBVIOUS
<1>1. CASE BootAllocate
  BY <1>1, BootAllocateStep
<1>2. CASE HandOver
  BY <1>2, HandOverStep
<1>3. CASE TakeFrame
  BY <1>3, TakeFrameStep
<1>4. CASE SkipUnusable \/ SkipUsed \/ SkipShort \/ AlignUp
  BY <1>4, SkipStep
<1>5. CASE BootPanic \/ Allocate \/ NoRegionLeft
  <2>1. TypeOK'
    <3>1. out_of_memory' \in BOOLEAN
      BY <1>5, Zenon DEF BootPanic, Allocate, NoRegionLeft, IInv, TypeOK
    <3> QED BY <3>1, <1>5 DEF BootPanic, Allocate, NoRegionLeft, IInv, TypeOK, mapvars
  <2>2. UNCHANGED <<mapvars, given, boot_count>> /\ Position' = Position /\ Booting' = Booting
    BY <1>5 DEF BootPanic, Allocate, NoRegionLeft, Position, Booting
  <2>3. Position \in Nat
    BY DEF IInv, TypeOK, Position
  <2> QED BY <2>1, <2>2, <2>3, MoveOn
<1>6. CASE UNCHANGED vars
  <2>1. TypeOK'
    BY <1>6 DEF vars, IInv, TypeOK
  <2>2. UNCHANGED <<mapvars, given, boot_count>> /\ Position' = Position /\ Booting' = Booting
    BY <1>6 DEF vars, mapvars, Position, Booting
  <2>3. Position \in Nat
    BY DEF IInv, TypeOK, Position
  <2> QED BY <2>1, <2>2, <2>3, MoveOn
<1> QED BY <1>1, <1>2, <1>3, <1>4, <1>5, <1>6 DEF Next, LoopStep

\* The invariant always holds.
LEMMA SpecIInv == Spec => []IInv
BY InitIInv, NextIInv, PTL DEF Spec

------------------------------------------------------------------------------
\* The allocators' state stays well typed: the index of BumpAllocator never runs
\* past the end of the memory map by more than one.
THEOREM FrameAllocTypeCorrect == Spec => []TypeOK
<1>1. IInv => TypeOK
  BY DEF IInv
<1> QED BY <1>1, SpecIInv, PTL

\* For every memory map: what next_frame returns is a whole frame of usable memory
\* outside the kernel image.
THEOREM KernelGetsFreeFrames == Spec => []KernelFramesFree
<1>1. IInv => KernelFramesFree
  BY DEF IInv
<1> QED BY <1>1, SpecIInv, PTL

\* For every memory map: no frame is handed out twice, across the hand-over from the
\* boot loader if usable regions begin at frame boundaries, within the kernel always.
THEOREM NoFrameTwice == Spec => []HandedOutOnce
<1>1. IInv => HandedOutOnce
  BY DEF IInv
<1> QED BY <1>1, SpecIInv, PTL

------------------------------------------------------------------------------
(* Nothing is left over.                                                    *)

\* The difference of two multiples is one.
LEMMA DifferenceOfMultiples ==
  ASSUME NEW p \in Nat \ {0}, NEW a \in Nat, NEW b \in Nat, a % p = 0, b % p = 0, b <= a
  PROVE  (a - b) % p = 0
<1> DEFINE i == a \div p
           j == b \div p
<1>1. i \in Nat /\ j \in Nat /\ a = p * i /\ b = p * j
  BY DivMod
<1> HIDE DEF i, j
<1>2. p * (i - j) >= 0 /\ a - b = p * (i - j)
  BY <1>1
<1>3. i - j \in Nat
  <2>1. CASE j - i >= 1
    <3>1. p * (j - i) >= p
      BY <2>1, <1>1
    <3>2. p * (j - i) = b - a
      BY <1>1
    <3> QED BY <3>1, <3>2
  <2> QED BY <2>1, <1>1
<1> QED BY <1>2, <1>3, MultipleMod

\* The frame f lies, whole, in the usable region i, and is not its last.
InsideRegion(f, i) ==
  /\ memory_map[i].usable /\ memory_map[i].start <= f
  /\ f + PAGE <= EndAddr(memory_map[i])

\* A frame that the allocators are to hand out.
Wanted(f) ==
  /\ f \in Nat /\ f >= LowMemory /\ f % PAGE = 0
  /\ \E i \in 1..Len(memory_map) : InsideRegion(f, i)
  /\ f + PAGE <= used_frame_range.first \/ f >= used_frame_range.last + PAGE

\* The allocator in charge has passed the frame f, by its address or by its region.
Passed(f) ==
  \/ f < Position
  \/ ~Booting /\ \E i \in 1..Len(memory_map) : i < current_region_index /\ InsideRegion(f, i)

IsGiven(f) == \E i \in 1..Len(given) : given[i] = f

\* Whatever has been passed has been handed out, and only the end of the map stops
\* next_frame.
Exhaustive ==
  /\ AlignedMap => \A f \in Nat : Wanted(f) /\ Passed(f) => IsGiven(f)
  /\ Booting => ~out_of_memory
  /\ out_of_memory => current_region_index > Len(memory_map)

\* A frame to hand out is an address that the boot loader uses.
LEMMA WantedIsUsable ==
  ASSUME TypeOK, AlignedMap, NEW f \in Nat, Wanted(f)
  PROVE  IsUsableAddr(f)
<1>1. PAGE \in Nat \ {0} /\ used_frame_range.first \in Nat /\ used_frame_range.last \in Nat
  BY FrameAllocAssumption DEF TypeOK
<1>2. Frame(f) = f
  BY <1>1 DEF Wanted, Frame
<1>3. PICK i \in 1..Len(memory_map) : InsideRegion(f, i)
  BY DEF Wanted
<1> DEFINE s == memory_map[i].start
           e == EndAddr(memory_map[i])
<1>4. s \in Nat /\ e \in Nat /\ s <= f /\ f < e /\ memory_map[i].usable
  BY <1>1, <1>3, RegionType DEF InsideRegion, EndAddr
<1>5. s % PAGE = 0 /\ f % PAGE = 0
  BY <1>4 DEF AlignedMap, Wanted
<1>6. (f - s) % PAGE = 0
  <2> HIDE DEF s
  <2> QED BY <1>1, <1>4, <1>5, DifferenceOfMultiples, Zenon
<1>7. Frame(f) > used_frame_range.last \/ Frame(f) < used_frame_range.first
  BY <1>1, <1>2 DEF Wanted
<1> QED BY <1>4, <1>6, <1>7 DEF IsUsableAddr, Wanted

\* Frames stay handed out, and what is to be handed out stays the same.
LEMMA StillGiven ==
  ASSUME TypeOK, TypeOK', UNCHANGED mapvars, NEW f \in Nat,
         given' = given \/ \E x \in Nat : given' = Append(given, x)
  PROVE  /\ IsGiven(f) => IsGiven(f)'
         /\ Wanted(f)' <=> Wanted(f)
         /\ AlignedMap' <=> AlignedMap
<1>1. IsGiven(f) => IsGiven(f)'
  <2>1. CASE given' = given
    BY <2>1 DEF IsGiven
  <2>2. ASSUME NEW x \in Nat, given' = Append(given, x)
        PROVE  IsGiven(f) => IsGiven(f)'
    <3>1. given \in Seq(Nat)
      BY DEF TypeOK
    <3>2. Len(given') = Len(given) + 1 /\ \A i \in 1..Len(given) : given'[i] = given[i]
      BY <2>2, <3>1
    <3>3. Len(given) \in Nat
      BY <3>1
    <3> QED BY <3>2, <3>3 DEF IsGiven
  <2> QED BY <2>1, <2>2
<1>2. Wanted(f)' <=> Wanted(f)
  BY DEF Wanted, InsideRegion, mapvars
<1> QED BY <1>1, <1>2 DEF AlignedMap, mapvars

\* A frame inside a region that begins below another lies in an earlier region.
LEMMA EarlierRegion ==
  ASSUME TypeOK, NEW f \in Nat, NEW i \in 1..Len(memory_map), NEW j \in 1..Len(memory_map),
         InsideRegion(f, i), f < memory_map[j].start
  PROVE  i < j
<1>1. /\ memory_map[i].start \in Nat /\ memory_map[j].start \in Nat
      /\ memory_map[j].len \in Nat \ {0}
  BY RegionType
<1>2. memory_map[i].start < memory_map[j].start
  BY <1>1 DEF InsideRegion
<1>3. CASE j < i
  <2>1. EndAddr(memory_map[j]) < memory_map[i].start
    BY <1>3 DEF TypeOK, IsMemoryMap
  <2> QED BY <2>1, <1>1, <1>2 DEF EndAddr
<1>4. CASE i = j
  BY <1>4, <1>1, <1>2
<1> QED BY <1>3, <1>4

\* What a turn of the loop may pass: the frames below Raised have been passed.
LEMMA BelowRaised ==
  ASSUME TypeOK, Exhaustive, AlignedMap, InRegion, NEW f \in Nat, Wanted(f), f < Raised
  PROVE  IsGiven(f)
<1>1. ~Booting /\ Position = next_phys_addr /\ current_region_index \in 1..Len(memory_map)
  BY InRegionFacts DEF Booting, Position, InRegion
<1>2. CASE f < next_phys_addr
  BY <1>1, <1>2 DEF Exhaustive, Passed
<1>3. CASE f < CurrRegion.start
  <2>1. PICK i \in 1..Len(memory_map) : InsideRegion(f, i)
    BY DEF Wanted
  <2>2. i < current_region_index
    BY <2>1, <1>1, <1>3, EarlierRegion DEF CurrRegion
  <2> QED BY <1>1, <2>1, <2>2 DEF Exhaustive, Passed
<1>4. f < next_phys_addr \/ f < CurrRegion.start
  BY DEF Raised
<1> QED BY <1>2, <1>3, <1>4

\* Nothing has been passed when the boot loader starts.
LEMMA ExhaustiveInit == Init => Exhaustive
<1> SUFFICES ASSUME Init PROVE Exhaustive
  OBVIOUS
<1>1. Position = 0 /\ Booting /\ ~out_of_memory
  BY DEF Init, Position, Booting
<1> QED BY <1>1 DEF Exhaustive, Passed

\* The boot loader takes the first usable address that it has not passed.
LEMMA ExhaustiveBoot ==
  ASSUME IInv, Exhaustive, IInv', BootAllocate \/ HandOver
  PROVE  Exhaustive'
<1>1. PICK a \in 0..MapEnd :
        /\ IsNthUsable(a)
        /\ \/ BootAllocate /\ given' = Append(given, Frame(a)) /\ boot_next' = a + 1
           \/ HandOver /\ next_phys_addr' = Frame(a)
  BY DEF BootAllocate, HandOver
<1>2. a \in Nat /\ IsUsableAddr(a) /\ boot_next \in Nat /\ boot_next <= a
  BY <1>1 DEF IsNthUsable, MapEnd, IInv, TypeOK
<1>3. Frame(a) \in Nat /\ (AlignedMap => Frame(a) = a)
  BY <1>2, UsableAligned DEF IInv
<1>4. Booting /\ Position = boot_next /\ ~out_of_memory /\ ~out_of_memory' /\ UNCHANGED mapvars
  BY DEF BootAllocate, HandOver, Booting, Position, Exhaustive
<1>5. given' = given \/ \E x \in Nat : given' = Append(given, x)
  BY <1>1, <1>3 DEF HandOver
<1>6. ASSUME AlignedMap, NEW f \in Nat, Wanted(f), Passed(f)'
      PROVE  IsGiven(f)'
  <2>1. IsGiven(f) => IsGiven(f)'
    BY <1>4, <1>5, StillGiven DEF IInv
  <2>2. CASE f < boot_next
    BY <2>1, <2>2, <1>4, <1>6 DEF Exhaustive, Passed
  <2>3. CASE boot_next <= f /\ f <= a
    <3>1. f = a
      BY <2>3, <1>1, <1>2, <1>6, WantedIsUsable DEF IsNthUsable, IInv
    <3>2. CASE BootAllocate /\ given' = Append(given, Frame(a))
      <4>1. given' = Append(given, f) /\ given \in Seq(Nat)
        BY <3>1, <3>2, <1>3, <1>6 DEF IInv, TypeOK
      <4> QED BY <4>1 DEF IsGiven
    <3>3. CASE HandOver /\ next_phys_addr' = Frame(a)
      <4>1. Position' = a /\ current_region_index' = 1
        BY <3>3, <1>3, <1>6 DEF HandOver, Position, Booting
      <4> QED BY <4>1, <3>1, <1>2, <1>6 DEF Passed
    <3> QED BY <3>2, <3>3, <1>1
  <2>4. CASE a < f
    <3>1. CASE BootAllocate /\ boot_next' = a + 1
      <4>1. Position' = a + 1 /\ Booting'
        BY <3>1 DEF BootAllocate, Position, Booting
      <4> QED BY <4>1, <2>4, <1>2, <1>6 DEF Passed
    <3>2. CASE HandOver /\ next_phys_addr' = Frame(a)
      <4>1. Position' = a /\ current_region_index' = 1
        BY <3>2, <1>3, <1>6 DEF HandOver, Position, Booting
      <4> QED BY <4>1, <2>4, <1>2, <1>6 DEF Passed
    <3> QED BY <3>1, <3>2, <1>1
  <2> QED BY <2>2, <2>3, <2>4, <1>2
<1>7. \A f \in Nat : (Wanted(f)' <=> Wanted(f)) /\ (AlignedMap' <=> AlignedMap)
  BY <1>4, <1>5, StillGiven DEF IInv
<1>8. AlignedMap' => AlignedMap
  BY <1>4 DEF AlignedMap, mapvars
<1> QED BY <1>4, <1>6, <1>7, <1>8 DEF Exhaustive

\* A turn of the loop passes no frame to hand out, but for the one it returns.
LEMMA ExhaustiveLoop ==
  ASSUME IInv, Exhaustive, IInv', SkipUnusable \/ SkipUsed \/ SkipShort \/ AlignUp \/ TakeFrame
  PROVE  Exhaustive'
<1>1. TypeOK /\ InRegion /\ TypeOK'
  BY DEF IInv, SkipUnusable, SkipUsed, SkipShort, AlignUp, TakeFrame
<1>2. /\ Len(memory_map) \in Nat /\ current_region_index \in 1..Len(memory_map)
      /\ CurrRegion.start \in Nat /\ CurrRegion.len \in Nat \ {0}
      /\ Raised \in Nat /\ PAGE \in Nat \ {0}
      /\ used_frame_range.first \in Nat /\ used_frame_range.last \in Nat
  BY <1>1, InRegionFacts
<1>3. ~Booting /\ ~Booting' /\ ~out_of_memory /\ ~out_of_memory' /\ UNCHANGED mapvars
      /\ Position' = next_phys_addr'
  BY <1>1, <1>2 DEF Exhaustive, SkipUnusable, SkipUsed, SkipShort, AlignUp, TakeFrame, InRegion,
     Booting, Position
<1>4. given' = given \/ \E x \in Nat : given' = Append(given, x)
  <2>1. Frame(Raised) \in Nat
    <3> DEFINE q == Raised \div PAGE
               r == Raised % PAGE
    <3>1. q \in Nat /\ r \in 0..(PAGE - 1) /\ Raised = (PAGE * q) + r /\ Frame(Raised) = Raised - r
      BY <1>2, DivMod, Zenon DEF Frame
    <3> HIDE DEF q, r
    <3>2. PAGE * q \in Nat
      BY <3>1, <1>2
    <3> QED BY <3>1, <3>2, <1>2
  <2> QED BY <2>1 DEF SkipUnusable, SkipUsed, SkipShort, AlignUp, TakeFrame
<1>5. ASSUME AlignedMap, NEW f \in Nat, Wanted(f), Passed(f)', ~IsGiven(f)'
      PROVE  FALSE
  <2>1. ~IsGiven(f)
    BY <1>1, <1>3, <1>4, <1>5, StillGiven
  <2>2. f >= Raised
    BY <1>1, <1>2, <1>5, <2>1, BelowRaised
  <2>3. ~Passed(f)
    BY <1>5, <2>1 DEF Exhaustive
  <2>4. /\ f < next_phys_addr' \/ \E i \in 1..Len(memory_map) :
                                     i < current_region_index' /\ InsideRegion(f, i)
        /\ \A i \in 1..Len(memory_map) : i < current_region_index => ~InsideRegion(f, i)
    BY <1>3, <1>5, <2>3 DEF Passed, InsideRegion, mapvars
  <2>5. f % PAGE = 0 /\ (f + PAGE <= used_frame_range.first \/ f >= used_frame_range.last + PAGE)
    BY <1>5 DEF Wanted
  <2>6. ASSUME current_region_index' = current_region_index + 1, next_phys_addr' = Raised
        PROVE  CurrRegion.usable /\ f + PAGE <= EndAddr(CurrRegion)
    <3>1. PICK i \in 1..Len(memory_map) : i < current_region_index + 1 /\ InsideRegion(f, i)
      BY <2>2, <2>4, <2>6, <1>2
    <3>2. i = current_region_index
      BY <3>1, <2>4, <1>2
    <3> QED BY <3>1, <3>2 DEF InsideRegion, CurrRegion
  <2>7. ASSUME current_region_index' = current_region_index
        PROVE  f < next_phys_addr'
    BY <2>4, <2>7
  <2>8. CASE SkipUnusable
    BY <2>6, <2>8 DEF SkipUnusable
  <2>9. CASE SkipUsed
    <3>1. /\ used_frame_range.first <= Raised /\ Raised < used_frame_range.last + PAGE
          /\ f < used_frame_range.last + PAGE
      BY <2>7, <2>9, Zenon DEF SkipUsed, InUsed
    <3> QED BY <1>2, <2>2, <2>5, <3>1
  <2>10. CASE SkipShort
    <3>1. EndAddr(CurrRegion) < Raised + PAGE /\ EndAddr(CurrRegion) \in Nat
      BY <2>10, <1>2 DEF SkipShort, TooShort, EndAddr
    <3>2. f + PAGE <= EndAddr(CurrRegion)
      BY <2>6, <2>10 DEF SkipShort
    <3> QED BY <3>1, <3>2, <2>2, <1>2
  <2>11. CASE AlignUp
    <3> DEFINE r == Raised % PAGE
               q == Raised \div PAGE
               d == PAGE * q
    <3>1. r \in 0..(PAGE - 1) /\ Raised = d + r /\ q \in Nat
      BY <1>2, DivMod, Zenon
    <3>3. next_phys_addr' = Raised + (PAGE - r) /\ r # 0 /\ f < next_phys_addr'
      BY <2>7, <2>11 DEF AlignUp
    <3> HIDE DEF r, q
    <3>2. d \in Nat /\ d % PAGE = 0
      BY <3>1, <1>2, MultipleMod
    <3> HIDE DEF d
    <3>4. d < f /\ f < d + PAGE
      BY <3>1, <3>2, <3>3, <2>2, <1>2
    <3>5. d + PAGE <= f
      BY <3>2, <3>4, <2>5, <1>2, MultiplesApart, Zenon
    <3> QED BY <3>2, <3>4, <3>5, <1>2
  <2>12. CASE TakeFrame
    <3>1. Raised % PAGE = 0 /\ f < Raised + PAGE /\ given' = Append(given, Frame(Raised))
      BY <2>7, <2>12 DEF TakeFrame
    <3>2. f = Raised
      <4>1. CASE Raised < f
        <5>1. Raised + PAGE <= f
          BY <4>1, <3>1, <2>5, <1>2, MultiplesApart, Zenon
        <5> QED BY <5>1, <3>1, <1>2
      <4> QED BY <4>1, <2>2, <1>2
    <3>3. given' = Append(given, f) /\ given \in Seq(Nat)
      BY <3>1, <3>2, <1>1, <1>2 DEF Frame, TypeOK
    <3> QED BY <3>3, <1>5 DEF IsGiven
  <2> QED BY <2>8, <2>9, <2>10, <2>11, <2>12
<1>6. \A f \in Nat : Wanted(f)' <=> Wanted(f)
  BY <1>1, <1>3, <1>4, StillGiven
<1>7. AlignedMap' => AlignedMap
  BY <1>3 DEF AlignedMap, mapvars
<1> QED BY <1>3, <1>5, <1>6, <1>7 DEF Exhaustive

\* Every step keeps what has been passed handed out.
LEMMA ExhaustiveStep == IInv /\ Exhaustive /\ [Next]_vars /\ IInv' => Exhaustive'
<1> SUFFICES ASSUME IInv, Exhaustive, [Next]_vars, IInv' PROVE Exhaustive'
  OBVIOUS
<1>1. CASE BootAllocate \/ HandOver
  BY <1>1, ExhaustiveBoot
<1>2. CASE SkipUnusable \/ SkipUsed \/ SkipShort \/ AlignUp \/ TakeFrame
  BY <1>2, ExhaustiveLoop
<1>3. CASE BootPanic \/ Allocate \/ NoRegionLeft \/ UNCHANGED vars
  <2>1. /\ UNCHANGED <<mapvars, given, current_region_index>>
        /\ Position' = Position /\ Booting' = Booting
    BY <1>3 DEF BootPanic, Allocate, NoRegionLeft, vars, mapvars, Position, Booting
  <2>2. /\ Booting' => ~out_of_memory'
        /\ out_of_memory' => current_region_index' > Len(memory_map')
    BY <1>3, <2>1 DEF BootPanic, Allocate, NoRegionLeft, vars, mapvars, Booting, Exhaustive
  <2>3. ASSUME NEW f \in Nat
        PROVE  (Wanted(f)' <=> Wanted(f)) /\ (Passed(f)' <=> Passed(f)) /\ (IsGiven(f)' <=> IsGiven(f))
    BY <2>1 DEF Wanted, Passed, IsGiven, InsideRegion, mapvars
  <2>4. AlignedMap' => AlignedMap
    BY <2>1 DEF AlignedMap, mapvars
  <2> QED BY <2>2, <2>3, <2>4 DEF Exhaustive
<1> QED BY <1>1, <1>2, <1>3 DEF Next, LoopStep

\* A frame of a usable region that does not end where the region ends.
LEMMA NotLast ==
  ASSUME TypeOK, NEW f \in Nat, NEW i \in 1..Len(memory_map),
         memory_map[i].usable, memory_map[i].start <= f,
         f + PAGE <= memory_map[i].start + memory_map[i].len,
         f + PAGE # memory_map[i].start + memory_map[i].len
  PROVE  InsideRegion(f, i)
<1>1. memory_map[i].start \in Nat /\ memory_map[i].len \in Nat \ {0} /\ PAGE \in Nat
  BY RegionType, FrameAllocAssumption
<1>2. f + PAGE <= memory_map[i].start + memory_map[i].len - 1
  BY <1>1
<1> QED BY <1>2, Zenon DEF InsideRegion, EndAddr

\* For every memory map with usable regions that begin at frame boundaries: when
\* next_frame returns None, the boot loader and the kernel have handed out every free
\* frame above LowMemory except the ones that end exactly where a region ends.
THEOREM AllFramesHandedOut == Spec => []NothingLeft
<1>1. IInv /\ Exhaustive => NothingLeft
  <2> SUFFICES ASSUME IInv, Exhaustive, out_of_memory, AlignedMap, NEW f \in LowMemory..MapEnd,
                      FreeFrame(f),
                      \A i \in 1..Len(memory_map) : f + PAGE # memory_map[i].start + memory_map[i].len
               PROVE  IsGiven(f)
    BY DEF NothingLeft, IsGiven
  <2>1. f \in Nat /\ f >= LowMemory /\ PAGE \in Nat
    BY FrameAllocAssumption
  <2>2. PICK i \in 1..Len(memory_map) :
          /\ memory_map[i].usable /\ memory_map[i].start <= f
          /\ f + PAGE <= memory_map[i].start + memory_map[i].len
    BY DEF FreeFrame
  <2>4. f + PAGE # memory_map[i].start + memory_map[i].len
    OBVIOUS
  <2>5. InsideRegion(f, i)
    BY <2>1, <2>2, <2>4, NotLast DEF IInv
  <2>6. Wanted(f)
    BY <2>1, <2>5 DEF Wanted, FreeFrame
  <2>7. ~Booting /\ i < current_region_index
    BY DEF Exhaustive, IInv, TypeOK
  <2> QED BY <2>1, <2>5, <2>6, <2>7 DEF Exhaustive, Passed
<1> QED BY <1>1, ExhaustiveInit, ExhaustiveStep, SpecIInv, PTL DEF Spec
==============================================================================
