---------------------------- MODULE IrqLockProofs ----------------------------
(***************************************************************************)
(* SimpleIrqLock makes a guarded region atomic, for every number of        *)
(* threads and every nesting depth.                                        *)
(***************************************************************************)
EXTENDS IrqLock, TLAPS

\* A context that is not running has no guard, and is outside lock() and drop() or
\* has been interrupted between reading IF and disabling interrupts.
IdleOK ==
  \A t \in Thread, l \in Level : ~Running(t, l) =>
    depth[t][l] = 0 /\ pc[t][l] \in (IF l = "irq" THEN {"run"} ELSE {"run", "cli"})

\* The running context: the counter counts its guards, and interrupts are off from
\* the cli in lock() to the sti in drop().
CountOK ==
  LET l == Lvl(cur) IN
    /\ counter = depth[cur][l]
    /\ (in_irq[cur] \/ counter > 0 \/ pc[cur][l] \in {"inc", "save", "restore"}) => ~IF_
    /\ pc[cur][l] = "save" => counter = 1
    /\ pc[cur][l] = "restore" => counter = 0

\* Handlers are switched out, and come back, with interrupts off.
FlagsOK == \A t \in Thread : t # cur /\ in_irq[t] => ~flags[t]

\* What IF was at the outermost lock(): first in the local, then in the static;
\* in a handler it was off.
EntryOK ==
  /\ \A t \in Thread, l \in Level :
       pc[t][l] \in {"cli", "inc"} /\ depth[t][l] = 0 => was[t][l] = entry[t][l]
  /\ LET l == Lvl(cur) IN
       /\ pc[cur][l] = "save" => was[cur][l] = entry[cur][l]
       /\ (depth[cur][l] > 0 /\ pc[cur][l] # "save") \/ pc[cur][l] = "restore"
            => was_en = entry[cur][l]
  /\ in_irq[cur] /\ (depth[cur]["irq"] > 0 \/ pc[cur]["irq"] # "run") => ~entry[cur]["irq"]

\* Nesting never exceeds the bound while lock() is under way.
DepthOK ==
  \A t \in Thread, l \in Level : pc[t][l] \in {"cli", "inc"} => depth[t][l] < MaxDepth

IInv == TypeOK /\ IdleOK /\ CountOK /\ FlagsOK /\ EntryOK /\ DepthOK

\* The invariant holds when the kernel starts.
LEMMA InitIInv == Init => IInv
<1> SUFFICES ASSUME Init PROVE IInv  OBVIOUS
<1>1. TypeOK
  <2>1. in_irq \in [Thread -> BOOLEAN] /\ flags \in [Thread -> BOOLEAN]  BY DEF Init
  <2>2. was \in [Thread -> [Level -> BOOLEAN]] /\ entry \in [Thread -> [Level -> BOOLEAN]]
    BY DEF Init
  <2>3. pc \in [Thread -> [Level -> {"run", "cli", "inc", "save", "restore"}]]  BY DEF Init
  <2>4. depth \in [Thread -> [Level -> 0..MaxDepth]]  BY IrqLockAssumption DEF Init
  <2>5. IF_ \in BOOLEAN /\ was_en \in BOOLEAN /\ counter \in Nat /\ cur \in Thread
    BY IrqLockAssumption, Zenon DEF Init
  <2> QED  BY <2>1, <2>2, <2>3, <2>4, <2>5 DEF TypeOK
<1>2. \A t \in Thread, l \in Level :
        pc[t][l] = "run" /\ depth[t][l] = 0 /\ in_irq[t] = FALSE
  BY DEF Init
<1>3. Lvl(cur) = "thread" /\ cur \in Thread /\ "thread" \in Level /\ "irq" \in Level
  BY <1>2, IrqLockAssumption DEF Lvl, Init, Level
<1>4. IdleOK  BY <1>2 DEF IdleOK
<1>5. CountOK  BY <1>2, <1>3 DEF CountOK, Init
<1>6. FlagsOK  BY <1>2, <1>3 DEF FlagsOK
<1>7. EntryOK  BY <1>2, <1>3 DEF EntryOK
<1>8. DepthOK  BY <1>2 DEF DepthOK
<1> QED  BY <1>1, <1>4, <1>5, <1>6, <1>7, <1>8 DEF IInv

\* lock(), reading the interrupt flag, keeps the invariant.
LEMMA LockReadFlagsInv ==
  ASSUME IInv, NEW t \in Thread, NEW l \in Level, LockReadFlags(t, l)
  PROVE  IInv'
<1> USE DEF IInv, LockReadFlags
<1>1. TypeOK'  BY DEF TypeOK
<1>2. /\ Lvl(t)' = Lvl(t) /\ cur = t /\ l = Lvl(t) /\ cur' = cur
      /\ \A u \in Thread, m \in Level : Running(u, m)' <=> Running(u, m)
  BY DEF Running, Lvl
<1>3. \A u \in Thread, m \in Level :
        /\ pc'[u][m] = IF u = t /\ m = l THEN "cli" ELSE pc[u][m]
        /\ was'[u][m] = IF u = t /\ m = l THEN IF_ ELSE was[u][m]
        /\ entry'[u][m] = IF u = t /\ m = l /\ depth[u][m] = 0 THEN IF_ ELSE entry[u][m]
  BY DEF TypeOK
<1>4. IdleOK'  BY <1>2, <1>3 DEF IdleOK, Running
<1>5. CountOK'  BY <1>2, <1>3 DEF CountOK
<1>6. FlagsOK'  BY DEF FlagsOK
<1>7. EntryOK'
  <2>1. \A u \in Thread, m \in Level :
          pc'[u][m] \in {"cli", "inc"} /\ depth'[u][m] = 0 => was'[u][m] = entry'[u][m]
    BY <1>3 DEF EntryOK
  <2>2. depth[t][l] > 0 => was_en = entry'[t][l]
    BY <1>2, <1>3 DEF EntryOK, TypeOK
  <2>3. in_irq[t] => ~entry'[t][l]
    <3>1. CASE depth[t][l] = 0  BY <3>1, <1>2, <1>3 DEF CountOK
    <3>2. CASE depth[t][l] # 0
      <4>1. depth[t][l] > 0  BY <3>2 DEF TypeOK
      <4> QED  BY <3>2, <4>1, <1>2, <1>3 DEF EntryOK, Lvl
    <3> QED  BY <3>1, <3>2
  <2>4. pc'[t][l] = "cli" /\ depth' = depth /\ was_en' = was_en /\ in_irq' = in_irq
    BY <1>3
  <2>5. in_irq[t] => l = "irq"  BY <1>2 DEF Lvl
  <2> QED  BY <1>2, <2>1, <2>2, <2>3, <2>4, <2>5 DEF EntryOK
<1>8. DepthOK'  BY <1>2, <1>3 DEF DepthOK
<1> QED  BY <1>1, <1>4, <1>5, <1>6, <1>7, <1>8

\* lock(), disabling interrupts, keeps the invariant.
LEMMA LockDisableInv ==
  ASSUME IInv, NEW t \in Thread, NEW l \in Level, LockDisable(t, l)
  PROVE  IInv'
<1> USE DEF IInv, LockDisable
<1>1. TypeOK'  BY Zenon DEF TypeOK
<1>2. /\ Lvl(t)' = Lvl(t) /\ cur = t /\ l = Lvl(t) /\ cur' = cur
      /\ \A u \in Thread, m \in Level : Running(u, m)' <=> Running(u, m)
  BY DEF Running, Lvl
<1>3. \A u \in Thread, m \in Level :
        pc'[u][m] = IF u = t /\ m = l THEN "inc" ELSE pc[u][m]
  BY DEF TypeOK
<1>4. IdleOK'  BY <1>2, <1>3 DEF IdleOK, Running
<1>5. CountOK'  BY <1>2, <1>3 DEF CountOK
<1>6. FlagsOK'  BY DEF FlagsOK
<1>7. EntryOK'  BY <1>2, <1>3 DEF EntryOK, TypeOK
<1>8. DepthOK'  BY <1>2, <1>3 DEF DepthOK
<1> QED  BY <1>1, <1>4, <1>5, <1>6, <1>7, <1>8

\* lock(), incrementing the counter, keeps the invariant.
LEMMA LockCountInv ==
  ASSUME IInv, NEW t \in Thread, NEW l \in Level, LockCount(t, l)
  PROVE  IInv'
<1> USE DEF IInv, LockCount
<1>0. /\ Lvl(t)' = Lvl(t) /\ cur = t /\ l = Lvl(t) /\ cur' = cur
      /\ \A u \in Thread, m \in Level : Running(u, m)' <=> Running(u, m)
  BY DEF Running, Lvl
<1>1. depth[t][l] \in 0..MaxDepth /\ depth[t][l] < MaxDepth /\ counter = depth[t][l]
  BY <1>0 DEF DepthOK, TypeOK, CountOK
<1>2. TypeOK'
  BY <1>1, IrqLockAssumption DEF TypeOK
<1>3. \A u \in Thread, m \in Level :
        /\ pc'[u][m] = IF u = t /\ m = l THEN (IF counter = 0 THEN "save" ELSE "run") ELSE pc[u][m]
        /\ depth'[u][m] = IF u = t /\ m = l THEN depth[u][m] + 1 ELSE depth[u][m]
  BY DEF TypeOK
<1>4. IdleOK'  BY <1>0, <1>3 DEF IdleOK, Running
<1>5. CountOK'  BY <1>0, <1>1, <1>3 DEF CountOK
<1>6. FlagsOK'  BY DEF FlagsOK
<1>7. EntryOK'
  <2>1. counter = 0 => was[t][l] = entry[t][l]  BY <1>1, Zenon DEF EntryOK
  <2>2. counter # 0 => was_en = entry[t][l]  BY <1>0, <1>1 DEF EntryOK
  <2>3. \A u \in Thread, m \in Level :
          pc'[u][m] \in {"cli", "inc"} /\ depth'[u][m] = 0 => was[u][m] = entry[u][m]
    BY <1>3 DEF EntryOK
  <2> QED  BY <1>0, <1>1, <1>3, <2>1, <2>2, <2>3 DEF EntryOK
<1>8. DepthOK'  BY <1>3 DEF DepthOK
<1> QED  BY <1>2, <1>4, <1>5, <1>6, <1>7, <1>8

\* lock(), storing WAS_IRQ_ENABLED, keeps the invariant.
LEMMA LockSaveInv ==
  ASSUME IInv, NEW t \in Thread, NEW l \in Level, LockSave(t, l)
  PROVE  IInv'
<1> USE DEF IInv, LockSave
<1>1. TypeOK'  BY DEF TypeOK
<1>2. /\ Lvl(t)' = Lvl(t) /\ cur = t /\ l = Lvl(t) /\ cur' = cur
      /\ \A u \in Thread, m \in Level : Running(u, m)' <=> Running(u, m)
  BY DEF Running, Lvl
<1>3. \A u \in Thread, m \in Level :
        pc'[u][m] = IF u = t /\ m = l THEN "run" ELSE pc[u][m]
  BY DEF TypeOK
<1>4. IdleOK'  BY <1>2, <1>3 DEF IdleOK, Running
<1>5. CountOK'  BY <1>2, <1>3 DEF CountOK
<1>6. FlagsOK'  BY DEF FlagsOK
<1>7. EntryOK'  BY <1>2, <1>3 DEF EntryOK, TypeOK
<1>8. DepthOK'  BY <1>2, <1>3 DEF DepthOK
<1> QED  BY <1>1, <1>4, <1>5, <1>6, <1>7, <1>8

\* drop(), decrementing the counter, keeps the invariant.
LEMMA DropCountInv ==
  ASSUME IInv, NEW t \in Thread, NEW l \in Level, DropCount(t, l)
  PROVE  IInv'
<1> USE DEF IInv, DropCount
<1>0. /\ Lvl(t)' = Lvl(t) /\ cur = t /\ l = Lvl(t) /\ cur' = cur
      /\ \A u \in Thread, m \in Level : Running(u, m)' <=> Running(u, m)
  BY DEF Running, Lvl
<1>1. depth[t][l] \in 1..MaxDepth /\ counter = depth[t][l]
  BY <1>0 DEF TypeOK, CountOK
<1>2. TypeOK'
  BY <1>1, IrqLockAssumption DEF TypeOK
<1>3. \A u \in Thread, m \in Level :
        /\ pc'[u][m] = IF u = t /\ m = l THEN (IF counter = 1 THEN "restore" ELSE "run") ELSE pc[u][m]
        /\ depth'[u][m] = IF u = t /\ m = l THEN depth[u][m] - 1 ELSE depth[u][m]
  BY DEF TypeOK
<1>4. IdleOK'  BY <1>0, <1>3 DEF IdleOK, Running
<1>5. CountOK'  BY <1>0, <1>1, <1>3 DEF CountOK
<1>6. FlagsOK'  BY DEF FlagsOK
<1>7. EntryOK'
  <2>1. was_en = entry[t][l]  BY <1>0, <1>1 DEF EntryOK
  <2>2. \A u \in Thread, m \in Level :
          pc'[u][m] \in {"cli", "inc"} /\ depth'[u][m] = 0 => was[u][m] = entry[u][m]
    BY <1>3 DEF EntryOK
  <2> QED  BY <1>0, <1>3, <2>1, <2>2 DEF EntryOK
<1>8. DepthOK'  BY <1>3 DEF DepthOK
<1> QED  BY <1>2, <1>4, <1>5, <1>6, <1>7, <1>8

\* drop() of the last guard keeps the invariant and restores the flag.
LEMMA DropRestoreInv ==
  ASSUME IInv, NEW t \in Thread, NEW l \in Level, DropRestore(t, l)
  PROVE  IInv' /\ IF_' = entry[t][l]
<1> USE DEF IInv, DropRestore
<1>1. TypeOK'  BY DEF TypeOK
<1>2. /\ Lvl(t)' = Lvl(t) /\ cur = t /\ l = Lvl(t) /\ cur' = cur
      /\ \A u \in Thread, m \in Level : Running(u, m)' <=> Running(u, m)
  BY DEF Running, Lvl
<1>3. \A u \in Thread, m \in Level :
        pc'[u][m] = IF u = t /\ m = l THEN "run" ELSE pc[u][m]
  BY DEF TypeOK
<1>4. IdleOK'  BY <1>2, <1>3 DEF IdleOK, Running
<1>5. counter = 0 /\ ~IF_ /\ was_en = entry[t][l]
  BY <1>2 DEF CountOK, EntryOK
<1>6. CountOK'
  <2>1. in_irq[t] => ~was_en
    BY <1>2, <1>5 DEF EntryOK, Lvl
  <2>2. in_irq'[t] => ~IF_'  BY <2>1, <1>5, Zenon
  <2>3. pc'[t][l] = "run"  BY <1>3
  <2>4. counter' = counter /\ depth' = depth  OBVIOUS
  <2> QED  BY <1>2, <1>5, <2>2, <2>3, <2>4 DEF CountOK
<1>7. FlagsOK'  BY DEF FlagsOK
<1>8. EntryOK'  BY <1>2, <1>3 DEF EntryOK, TypeOK
<1>9. DepthOK'  BY <1>2, <1>3 DEF DepthOK
<1>10. IF_' = entry[t][l]  BY <1>5 DEF TypeOK
<1> QED  BY <1>1, <1>4, <1>6, <1>7, <1>8, <1>9, <1>10

\* Masking and unmasking outside guards keeps the invariant.
LEMMA SetFlagInv ==
  ASSUME IInv, NEW t \in Thread, NEW b \in BOOLEAN, SetFlag(t, b)
  PROVE  IInv'
<1> USE DEF IInv, SetFlag
<1>1. /\ cur = t /\ Lvl(t) = "thread" /\ ~in_irq[t] /\ Lvl(t)' = Lvl(t) /\ cur' = cur
      /\ \A u \in Thread, m \in Level : Running(u, m)' <=> Running(u, m)
  BY DEF Running, Lvl
<1>2. TypeOK'  BY DEF TypeOK
<1>3. IdleOK'  BY <1>1 DEF IdleOK
<1>4. CountOK'
  <2>1. counter = 0  BY <1>1 DEF CountOK
  <2> QED  BY <1>1, <2>1 DEF CountOK
<1>5. FlagsOK'  BY DEF FlagsOK
<1>6. EntryOK'  BY <1>1 DEF EntryOK
<1>7. DepthOK'  BY DEF DepthOK
<1> QED  BY <1>2, <1>3, <1>4, <1>5, <1>6, <1>7

\* Taking an interrupt keeps the invariant.
LEMMA InterruptInv ==
  ASSUME IInv, Interrupt
  PROVE  IInv'
<1> USE DEF IInv, Interrupt
<1>1. /\ cur \in Thread /\ cur' = cur /\ in_irq'[cur] = TRUE
      /\ \A u \in Thread \ {cur} : in_irq'[u] = in_irq[u]
      /\ "thread" \in Level /\ "irq" \in Level
  BY DEF TypeOK, Level
<1>2. TypeOK'  BY Zenon DEF TypeOK
<1>3. Lvl(cur) = "thread" /\ Lvl(cur)' = "irq"  BY <1>1 DEF Lvl
<1>4. depth[cur]["thread"] = 0 /\ counter = 0 /\ pc[cur]["thread"] \in {"run", "cli"}
  BY <1>1, <1>3 DEF CountOK, TypeOK
<1>5. depth[cur]["irq"] = 0 /\ pc[cur]["irq"] = "run"
  BY <1>1, <1>3 DEF IdleOK, Running
<1>6. IdleOK'
  <2>1. \A u \in Thread \ {cur}, m \in Level : ~Running(u, m)  BY DEF Running
  <2> QED  BY <1>1, <1>3, <1>4, <1>5, <2>1 DEF IdleOK, Running, Level
<1>7. CountOK'  BY <1>1, <1>3, <1>4, <1>5 DEF CountOK
<1>8. FlagsOK'  BY <1>1 DEF FlagsOK
<1>9. EntryOK'  BY <1>1, <1>3, <1>5 DEF EntryOK
<1>10. DepthOK'  BY DEF DepthOK
<1> QED  BY <1>2, <1>6, <1>7, <1>8, <1>9, <1>10

\* Returning from an interrupt keeps the invariant.
LEMMA IretInv ==
  ASSUME IInv, Iret
  PROVE  IInv'
<1> USE DEF IInv, Iret
<1>1. /\ cur \in Thread /\ cur' = cur /\ in_irq'[cur] = FALSE
      /\ \A u \in Thread \ {cur} : in_irq'[u] = in_irq[u]
      /\ "thread" \in Level /\ "irq" \in Level
  BY DEF TypeOK, Level
<1>2. TypeOK'  BY DEF TypeOK
<1>3. Lvl(cur) = "irq" /\ Lvl(cur)' = "thread"  BY <1>1 DEF Lvl
<1>4. depth[cur]["thread"] = 0 /\ pc[cur]["thread"] \in {"run", "cli"}
  BY <1>1, <1>3 DEF IdleOK, Running
<1>5. counter = 0  BY <1>3 DEF CountOK
<1>6. IdleOK'
  <2>1. \A u \in Thread \ {cur}, m \in Level : ~Running(u, m)  BY DEF Running
  <2> QED  BY <1>1, <1>3, <1>4, <2>1 DEF IdleOK, Running, Level
<1>7. CountOK'  BY <1>1, <1>3, <1>4, <1>5 DEF CountOK
<1>8. FlagsOK'  BY <1>1 DEF FlagsOK
<1>9. EntryOK'
  <2>1. \A u \in Thread, m \in Level :
          pc'[u][m] \in {"cli", "inc"} /\ depth'[u][m] = 0 => was'[u][m] = entry'[u][m]
    BY DEF EntryOK
  <2> QED  BY <1>1, <1>3, <1>4, <2>1 DEF EntryOK
<1>10. DepthOK'  BY DEF DepthOK
<1> QED  BY <1>2, <1>6, <1>7, <1>8, <1>9, <1>10

\* switch_to_task keeps the invariant.
LEMMA SwitchInv ==
  ASSUME IInv, NEW t \in Thread, NEW u \in Thread, SwitchToTask(t, u)
  PROVE  IInv'
<1> USE DEF IInv, SwitchToTask
<1>1. /\ cur = t /\ cur' = u /\ u # t /\ pc[t][Lvl(t)] = "run" /\ depth[t][Lvl(t)] = 0
      /\ counter = 0
  BY DEF MaySchedule
<1>2. TypeOK'  BY DEF TypeOK
<1>3. \A v \in Thread : Lvl(v)' = Lvl(v) /\ Lvl(v) \in Level  BY DEF Lvl, Level
<1>4. \A v \in Thread, m \in Level :
        depth[v][m] = 0 /\ pc[v][m] \in (IF m = "irq" THEN {"run"} ELSE {"run", "cli"})
  BY <1>1 DEF IdleOK, Running
<1>5. IdleOK'  BY <1>4 DEF IdleOK
<1>6. CountOK'
  <2>1. in_irq[u] => ~IF_'  BY <1>1 DEF FlagsOK
  <2>2. pc[u][Lvl(u)] \in {"run", "cli"} /\ depth[u][Lvl(u)] = 0  BY <1>3, <1>4
  <2> QED  BY <1>1, <1>3, <2>1, <2>2 DEF CountOK
<1>7. FlagsOK'
  <2>1. in_irq[t] => ~IF_  BY <1>1 DEF CountOK
  <2>2. \A v \in Thread : v # u /\ in_irq[v] => ~flags'[v]
    BY <1>1, <2>1 DEF FlagsOK, TypeOK
  <2> QED  BY <1>1, <2>2 DEF FlagsOK
<1>8. EntryOK'
  <2>1. /\ pc[u][Lvl(u)] \in {"run", "cli"} /\ depth[u][Lvl(u)] = 0
        /\ depth[u]["irq"] = 0 /\ pc[u]["irq"] = "run"
    BY <1>3, <1>4 DEF Level
  <2> QED  BY <1>1, <1>3, <2>1 DEF EntryOK
<1>9. DepthOK'  BY DEF DepthOK
<1> QED  BY <1>2, <1>5, <1>6, <1>7, <1>8, <1>9

\* Every step preserves the invariant.
LEMMA NextIInv == IInv /\ [Next]_vars => IInv'
<1> SUFFICES ASSUME IInv, [Next]_vars PROVE IInv'  OBVIOUS
<1>1. CASE UNCHANGED vars
  BY <1>1 DEF vars, IInv, TypeOK, IdleOK, CountOK, FlagsOK, EntryOK, DepthOK, Running, Lvl
<1> QED
  BY <1>1, LockReadFlagsInv, LockDisableInv, LockCountInv, LockSaveInv, DropCountInv,
     DropRestoreInv, SetFlagInv, InterruptInv, IretInv, SwitchInv DEF Next

\* The invariant always holds.
LEMMA SpecIInv == Spec => []IInv
BY InitIInv, NextIInv, PTL DEF Spec

\* The statics and the contexts stay well typed; in particular the counter, an
\* unsigned number in the code, never drops below zero.
THEOREM IrqLockTypeCorrect == Spec => []TypeOK
<1>1. IInv => TypeOK
  BY DEF IInv
<1> QED  BY <1>1, SpecIInv, PTL

\* A guarded region is atomic, for every number of threads and nesting depth.
THEOREM GuardAtomic == Spec => []GuardedIsAtomic
<1>1. IInv => GuardedIsAtomic
  <2> SUFFICES ASSUME IInv, NEW t \in Thread, NEW l \in Level, depth[t][l] > 0
               PROVE  Running(t, l) /\ ~IF_
    BY DEF GuardedIsAtomic
  <2>1. Running(t, l)  BY DEF IInv, IdleOK
  <2>2. counter > 0  BY <2>1 DEF IInv, CountOK, Running
  <2> QED  BY <2>1, <2>2 DEF IInv, CountOK
<1> QED  BY <1>1, SpecIInv, PTL

\* switch_if_needed never panics with "scheduling while atomic".
THEOREM NeverWhileAtomic == Spec => []NotWhileAtomic
<1>1. IInv => NotWhileAtomic
  BY DEF IInv, NotWhileAtomic, MaySchedule, CountOK
<1> QED  BY <1>1, SpecIInv, PTL

\* The outermost drop restores the interrupt flag its lock found.
THEOREM DropRestoresFlag == Spec => FlagRestored
<1>1. IInv /\ [Next]_vars =>
        [\A t \in Thread, l \in Level : DropRestore(t, l) => IF_' = entry[t][l]]_vars
  BY DropRestoreInv
<1> QED  BY <1>1, SpecIInv, PTL DEF Spec, FlagRestored
==============================================================================
