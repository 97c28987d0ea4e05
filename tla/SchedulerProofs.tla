--------------------------- MODULE SchedulerProofs ---------------------------
(***************************************************************************)
(* For every number of threads, slice length and sleep bound: the          *)
(* scheduler's queue discipline, that only Running threads execute, and    *)
(* that the scheduler implements Threads.tla.                              *)
(***************************************************************************)
EXTENDS Scheduler, Functions, SequenceTheorems, FiniteSetTheorems, TLAPS

------------------------------------------------------------------------------
(* What the operations of a FIFO queue do to the set of its elements and to *)
(* their being distinct.                                                    *)

\* push_back adds one element; it keeps the elements distinct if it is a new one.
LEMMA PushBack ==
  ASSUME NEW S, NEW q \in Seq(S), NEW x \in S
  PROVE  /\ Append(q, x) \in Seq(S)
         /\ Range(Append(q, x)) = Range(q) \cup {x}
         /\ IsInjective(q) /\ x \notin Range(q) => IsInjective(Append(q, x))
<1> DEFINE r == Append(q, x)
<1>1. /\ r \in Seq(S) /\ Len(r) = Len(q) + 1 /\ Len(q) \in Nat
      /\ DOMAIN r = 1..Len(r) /\ DOMAIN q = 1..Len(q)
      /\ \A i \in 1..Len(q) : r[i] = q[i]
      /\ r[Len(q) + 1] = x
  BY AppendProperties
<1> HIDE DEF r
<1>2. Range(r) = Range(q) \cup {x}
  <2>1. Range(r) \subseteq Range(q) \cup {x}  BY <1>1 DEF Range
  <2>2. Range(q) \subseteq Range(r)  BY <1>1 DEF Range
  <2>3. x \in Range(r)
    <3>1. Len(q) + 1 \in DOMAIN r  BY <1>1
    <3> QED  BY <3>1, <1>1 DEF Range
  <2> QED  BY <2>1, <2>2, <2>3
<1>3. ASSUME IsInjective(q), x \notin Range(q)
      PROVE  IsInjective(r)
  BY <1>1, <1>3 DEF IsInjective, Range
<1> QED  BY <1>1, <1>2, <1>3 DEF r

\* pop_front removes exactly the front element of a queue of distinct elements.
LEMMA PopFront ==
  ASSUME NEW S, NEW q \in Seq(S), q # << >>, IsInjective(q)
  PROVE  /\ Tail(q) \in Seq(S) /\ Head(q) \in S /\ Head(q) \in Range(q)
         /\ Range(Tail(q)) = Range(q) \ {Head(q)}
         /\ IsInjective(Tail(q))
<1> DEFINE r == Tail(q)
<1>1. /\ r \in Seq(S) /\ Len(r) = Len(q) - 1 /\ Len(q) \in Nat \ {0}
      /\ DOMAIN r = 1..Len(r) /\ DOMAIN q = 1..Len(q)
      /\ \A i \in 1..Len(r) : r[i] = q[i + 1]
      /\ Head(q) = q[1] /\ Head(q) \in S
  BY HeadTailProperties, EmptySeq
<1> HIDE DEF r
<1>2. Head(q) \in Range(q)
  <2>1. 1 \in DOMAIN q  BY <1>1
  <2> QED  BY <2>1, <1>1 DEF Range
<1>3. ASSUME NEW i \in DOMAIN r
      PROVE  r[i] \in Range(q) \ {Head(q)}
  <2>1. i + 1 \in DOMAIN q /\ 1 \in DOMAIN q /\ i + 1 # 1  BY <1>1
  <2> QED  BY <2>1, <1>1 DEF Range, IsInjective
<1>4. ASSUME NEW i \in DOMAIN q, q[i] # Head(q)
      PROVE  q[i] \in Range(r)
  <2>1. i - 1 \in DOMAIN r /\ r[i - 1] = q[i]  BY <1>1, <1>4
  <2> QED  BY <2>1 DEF Range
<1>5. Range(r) = Range(q) \ {Head(q)}
  BY <1>3, <1>4 DEF Range
<1>6. IsInjective(r)
  <2> SUFFICES ASSUME NEW i \in DOMAIN r, NEW j \in DOMAIN r, r[i] = r[j] PROVE i = j
    BY DEF IsInjective
  <2>1. i + 1 \in DOMAIN q /\ j + 1 \in DOMAIN q /\ q[i + 1] = q[j + 1]  BY <1>1
  <2>2. i + 1 = j + 1  BY <2>1 DEF IsInjective
  <2> QED  BY <2>2, <1>1
<1> QED  BY <1>1, <1>2, <1>5, <1>6 DEF r

\* Pushing the elements of w one after the other.
LEMMA PushAll ==
  ASSUME NEW S, NEW q \in Seq(S), NEW w \in Seq(S)
  PROVE  /\ q \o w \in Seq(S)
         /\ Range(q \o w) = Range(q) \cup Range(w)
         /\ IsInjective(q) /\ IsInjective(w) /\ Range(q) \cap Range(w) = {}
              => IsInjective(q \o w)
<1> DEFINE r == q \o w
<1>1. /\ r \in Seq(S) /\ Len(r) = Len(q) + Len(w)
      /\ Len(q) \in Nat /\ Len(w) \in Nat
      /\ DOMAIN r = 1..Len(r) /\ DOMAIN q = 1..Len(q) /\ DOMAIN w = 1..Len(w)
      /\ \A i \in 1..Len(r) : r[i] = IF i <= Len(q) THEN q[i] ELSE w[i - Len(q)]
  BY ConcatProperties
<1> HIDE DEF r
<1>2. ASSUME NEW i \in DOMAIN r
      PROVE  \/ i \in DOMAIN q /\ r[i] = q[i]
             \/ i - Len(q) \in DOMAIN w /\ i > Len(q) /\ r[i] = w[i - Len(q)]
  BY <1>1
<1>3. Range(r) \subseteq Range(q) \cup Range(w)
  BY <1>2 DEF Range
<1>4. Range(q) \subseteq Range(r)
  <2>1. \A i \in DOMAIN q : i \in DOMAIN r /\ r[i] = q[i]
    BY <1>1
  <2> QED BY <2>1, Zenon DEF Range
<1>5. ASSUME NEW i \in DOMAIN w
      PROVE  w[i] \in Range(r)
  <2>1. i + Len(q) \in DOMAIN r /\ r[i + Len(q)] = w[i]  BY <1>1
  <2> QED  BY <2>1 DEF Range
<1>6. Range(r) = Range(q) \cup Range(w)
  BY <1>3, <1>4, <1>5, Zenon DEF Range
<1>7. ASSUME IsInjective(q), IsInjective(w), Range(q) \cap Range(w) = {},
             NEW i \in DOMAIN r, NEW j \in DOMAIN r, r[i] = r[j]
      PROVE  i = j
  <2>0. i \in Nat /\ j \in Nat  BY <1>1
  <2>1. CASE i \in DOMAIN q /\ r[i] = q[i] /\ j \in DOMAIN q /\ r[j] = q[j]
    BY <2>1, <1>7, Zenon DEF IsInjective
  <2>2. CASE /\ i - Len(q) \in DOMAIN w /\ r[i] = w[i - Len(q)]
             /\ j - Len(q) \in DOMAIN w /\ r[j] = w[j - Len(q)]
    <3>1. i - Len(q) = j - Len(q)  BY <2>2, <1>7, Zenon DEF IsInjective
    <3> QED  BY <3>1, <2>0, <1>1
  <2>3. CASE i \in DOMAIN q /\ r[i] = q[i] /\ j - Len(q) \in DOMAIN w /\ r[j] = w[j - Len(q)]
    <3>1. r[i] \in Range(q) /\ r[i] \in Range(w)  BY <2>3, <1>7, Zenon DEF Range
    <3> QED  BY <3>1, <1>7
  <2>4. CASE j \in DOMAIN q /\ r[j] = q[j] /\ i - Len(q) \in DOMAIN w /\ r[i] = w[i - Len(q)]
    <3>1. r[i] \in Range(q) /\ r[i] \in Range(w)  BY <2>4, <1>7, Zenon DEF Range
    <3> QED  BY <3>1, <1>7
  <2> QED  BY <2>1, <2>2, <2>3, <2>4, <1>2
<1>8. ASSUME IsInjective(q), IsInjective(w), Range(q) \cap Range(w) = {}
      PROVE  IsInjective(r)
  BY <1>7, <1>8 DEF IsInjective
<1> QED  BY <1>1, <1>6, <1>8 DEF r

------------------------------------------------------------------------------
(* The scheduler.                                                           *)

\* The queue q holds exactly the Ready threads of st, each once.
Queued(st, q) ==
  /\ st \in [ThreadId -> ThreadState] /\ q \in Seq(ThreadId)
  /\ IsInjective(q)
  /\ Range(q) = {t \in ThreadId \ {Cleaner} : st[t] = "Ready"}

\* Scheduler.threads holds each thread that was spawned, once.
ThreadsOK ==
  /\ threads \in Seq(ThreadId) /\ IsInjective(threads)
  /\ Range(threads) = {t \in ThreadId \ {Idle} : state[t] # "Unborn"}

\* The two special threads, and the thread that has the CPU: unless it is inside
\* switch_if_needed it is Running, and if it is about to load NEEDS_RESCHEDULE
\* without being Running, the flag is set.
CurrOK ==
  /\ state[Idle] = "Running" /\ pc[Idle] = "thread"
  /\ state[Cleaner] = "Ready" /\ curr # Cleaner
  /\ state[curr] # "Unborn"
  /\ pc[curr] \in {"thread", "terminate"} => state[curr] = "Running"
  /\ pc[curr] = "load" /\ state[curr] # "Running" => needs

\* A thread n that o has picked and not yet switched to is Running, has not the
\* CPU, and has been picked by o alone.
PickedOK ==
  \A o \in ThreadId : pc[o] = "switch" =>
    /\ next[o] # Cleaner
    /\ next[o] = o /\ curr = o => state[o] = "Running"
    /\ next[o] \notin {o, Idle} =>
         /\ state[next[o]] = "Running" /\ next[o] # curr
         /\ \A p \in ThreadId \ {o} :
              pc[p] = "switch" /\ next[p] # p => next[p] # next[o]

IInv ==
  /\ TypeOK
  /\ Queued(state, ready_queue)
  /\ ThreadsOK
  /\ CurrOK
  /\ PickedOK

------------------------------------------------------------------------------
\* The idle thread, the cleaner and the ids that spawn hands out are distinct.
LEMMA ThreadIdFacts ==
  /\ Idle \in ThreadId /\ Cleaner \in ThreadId /\ Idle # Cleaner
  /\ Procs \subseteq ThreadId /\ Idle \notin Procs /\ Cleaner \notin Procs
  /\ Range(BootThreads) \subseteq ThreadId
  /\ Idle \notin Range(BootThreads) /\ Cleaner \notin Range(BootThreads)
BY SchedulerAssumption DEF ThreadId, Idle, Cleaner

\* There are finitely many threads.
LEMMA ThreadIdFinite == IsFiniteSet(ThreadId)
<1>1. IsFiniteSet({Idle, Cleaner})
  <2>1. IsFiniteSet({Idle}) /\ IsFiniteSet({Cleaner})  BY FS_Singleton
  <2>2. {Idle, Cleaner} = {Idle} \cup {Cleaner}  OBVIOUS
  <2> QED  BY <2>1, <2>2, FS_Union, Zenon
<1>2. IsFiniteSet(Range(BootThreads))
  <2>1. BootThreads \in Seq(Nat)  BY SchedulerAssumption
  <2>2. Len(BootThreads) \in Nat /\ DOMAIN BootThreads = 1..Len(BootThreads)
    BY <2>1, LenProperties
  <2>3. IsFiniteSet(1..Len(BootThreads))  BY <2>2, FS_Interval
  <2>4. Range(BootThreads) = {BootThreads[i] : i \in 1..Len(BootThreads)}
    BY <2>2 DEF Range
  <2>5. IsFiniteSet({BootThreads[i] : i \in 1..Len(BootThreads)})
    <3> DEFINE f == [i \in 1..Len(BootThreads) |-> BootThreads[i]]
               T == {BootThreads[i] : i \in 1..Len(BootThreads)}
    <3>1. f \in Surjection(1..Len(BootThreads), T)
      BY DEF Surjection
    <3> QED  BY <3>1, <2>3, FS_Surjection
  <2> QED  BY <2>4, <2>5
<1>3. IsFiniteSet(Procs)  BY SchedulerAssumption
<1> QED  BY <1>1, <1>2, <1>3, FS_Union, Zenon DEF ThreadId

\* The thread pick_next_thread chooses once the current one is requeued, and the
\* thread states after it.
Chosen(st, q) == NextOf(Requeued(st, q))
ChosenState(st, q) == [RequeuedState(st) EXCEPT ![Chosen(st, q)] = "Running"]

\* The locked region of switch_if_needed keeps the queue discipline; it chooses a
\* thread that was Ready, or the current one, or the idle thread.
LEMMA PickLemma ==
  ASSUME NEW st, NEW q, Queued(st, q), curr \in ThreadId, curr # Cleaner,
         st[Idle] = "Running"
  PROVE  /\ Chosen(st, q) \in ThreadId \ {Cleaner}
         /\ Queued(ChosenState(st, q), RestOf(Requeued(st, q)))
         /\ ChosenState(st, q)[Chosen(st, q)] = "Running"
         /\ Chosen(st, q) # Idle =>
              \/ st[Chosen(st, q)] = "Ready"
              \/ Chosen(st, q) = curr /\ st[curr] = "Running"
         /\ \A t \in ThreadId \ {Chosen(st, q)} :
              ChosenState(st, q)[t] = IF t = curr /\ StillRunning(st) THEN "Ready" ELSE st[t]
<1> DEFINE q1 == Requeued(st, q)
           s1 == RequeuedState(st)
           n == NextOf(q1)
           s2 == [s1 EXCEPT ![n] = "Running"]
<1>1. s1 \in [ThreadId -> ThreadState]
  BY DEF Queued, RequeuedState, ThreadState
<1>2. \A t \in ThreadId : s1[t] = IF t = curr /\ StillRunning(st) THEN "Ready" ELSE st[t]
  BY DEF Queued, RequeuedState
<1>3. /\ q1 \in Seq(ThreadId) /\ IsInjective(q1)
      /\ Range(q1) = {t \in ThreadId \ {Cleaner} : s1[t] = "Ready"}
  <2>1. CASE StillRunning(st)
    <3>1. curr \notin Range(q)  BY <2>1 DEF Queued, StillRunning
    <3>2. q1 = Append(q, curr)  BY <2>1 DEF Requeued
    <3>3. q1 \in Seq(ThreadId) /\ IsInjective(q1) /\ Range(q1) = Range(q) \cup {curr}
      BY <3>1, <3>2, PushBack DEF Queued
    <3> QED  BY <3>3, <1>2, <2>1 DEF Queued
  <2>2. CASE ~StillRunning(st)
    BY <2>2, <1>2 DEF Queued, Requeued
  <2> QED  BY <2>1, <2>2
<1>4. s1[Idle] = "Running"
  BY <1>2, ThreadIdFacts DEF StillRunning
<1> HIDE DEF q1, s1
<1>5. CASE q1 = << >>
  <2>1. n = Idle /\ RestOf(q1) = q1  BY <1>5 DEF NextOf, RestOf
  <2>2. s2 = s1  BY <2>1, <1>4, <1>1
  <2>3. Queued(s2, RestOf(q1))  BY <2>1, <2>2, <1>3, <1>1, Zenon DEF Queued
  <2> QED  BY <2>1, <2>2, <2>3, <1>2, <1>4, ThreadIdFacts
           DEF Chosen, ChosenState, q1, s1
<1>6. CASE q1 # << >>
  <2>1. n = Head(q1) /\ RestOf(q1) = Tail(q1)  BY <1>6 DEF NextOf, RestOf
  <2>2. /\ Tail(q1) \in Seq(ThreadId) /\ n \in Range(q1)
        /\ Range(Tail(q1)) = Range(q1) \ {n} /\ IsInjective(Tail(q1))
    BY <1>6, <1>3, <2>1, PopFront
  <2>3. n \in ThreadId \ {Cleaner} /\ s1[n] = "Ready"  BY <2>2, <1>3
  <2>4. s2 \in [ThreadId -> ThreadState]
    BY <1>1, <2>3 DEF ThreadState
  <2>5. \A t \in ThreadId : s2[t] = IF t = n THEN "Running" ELSE s1[t]
    BY <1>1
  <2>6. Range(Tail(q1)) = {t \in ThreadId \ {Cleaner} : s2[t] = "Ready"}
    BY <2>2, <2>5, <1>3
  <2>7. Queued(s2, RestOf(q1))  BY <2>1, <2>2, <2>4, <2>6 DEF Queued
  <2>8. st[n] = "Ready" \/ (n = curr /\ st[curr] = "Running")
    BY <2>3, <1>2 DEF StillRunning
  <2> QED  BY <2>3, <2>5, <2>7, <2>8, <1>2 DEF Chosen, ChosenState, q1, s1
<1> QED  BY <1>5, <1>6

\* An enumeration of the woken sleepers is a queue of distinct threads.
LEMMA WakeOrderLemma ==
  ASSUME ThreadsOK, NEW W \in SUBSET ThreadId, NEW w \in WakeOrders(W)
  PROVE  w \in Seq(ThreadId) /\ IsInjective(w) /\ Range(w) = W
<1>1. Cardinality(W) \in Nat
  BY ThreadIdFinite, FS_Subset, FS_CardinalityType
<1>2. w \in [1..Cardinality(W) -> W]  BY DEF WakeOrders
<1>3. w \in Seq(ThreadId)
  <2>1. w \in [1..Cardinality(W) -> ThreadId]  BY <1>2
  <2> QED  BY <2>1, <1>1, IsASeq
<1>4. Range(w) = W  BY DEF WakeOrders
<1>5. \A a \in ThreadId : ~SpawnedBefore(a, a)
  <2>1. DOMAIN threads = 1..Len(threads) /\ Len(threads) \in Nat
    BY LenProperties DEF ThreadsOK
  <2> QED  BY <2>1 DEF SpawnedBefore, ThreadsOK, IsInjective
<1>6. IsInjective(w)
  <2> SUFFICES ASSUME NEW i \in DOMAIN w, NEW j \in DOMAIN w, w[i] = w[j], i # j
               PROVE  FALSE
    BY DEF IsInjective
  <2>1. i \in Nat /\ j \in Nat  BY <1>1, <1>2
  <2>2. (i < j => SpawnedBefore(w[i], w[j])) /\ (j < i => SpawnedBefore(w[j], w[i]))
    BY DEF WakeOrders
  <2>3. w[i] \in ThreadId  BY <1>2
  <2> QED  BY <2>1, <2>2, <2>3, <1>5
<1> QED  BY <1>3, <1>4, <1>6

\* The timer handler's locked region keeps the queue discipline.
LEMMA TickLemma ==
  ASSUME IInv, WindowFitsSlice, NEW w \in WakeOrders(Woken)
  PROVE  /\ Queued(TickState, TickQueue(w))
         /\ TickState[Idle] = "Running" /\ TickState[Cleaner] = "Ready"
         /\ \A t \in ThreadId : (TickState[t] = "Unborn") <=> (state[t] = "Unborn")
         /\ \A t \in ThreadId : state[t] = "Running" /\ t # curr => TickState[t] = "Running"
         /\ TickState[curr] \notin {"Ready", "Running"} => TickState[curr] = state[curr]
         /\ state[curr] = "Running" /\ ~SliceOver => TickState[curr] = "Running"
         /\ TickSlice \in [ThreadId -> 1..SliceTicks]
<1>1. Woken \subseteq ThreadId /\ \A t \in Woken : state[t] = "Sleep" /\ t # Idle
  BY DEF Woken, IInv, ThreadsOK
<1>2. w \in Seq(ThreadId) /\ IsInjective(w) /\ Range(w) = Woken
  BY <1>1, WakeOrderLemma DEF IInv
<1>3. \A t \in ThreadId :
        TickState[t] = IF t \in Woken \/ (SliceOver /\ t = curr) THEN "Ready" ELSE state[t]
  BY DEF TickState
<1>4. TickState \in [ThreadId -> ThreadState]
  BY DEF TickState, ThreadState, IInv, TypeOK
<1>5. SliceOver => state[curr] = "Running" /\ curr \notin Woken /\ curr # Idle /\ curr # Cleaner
  BY <1>1 DEF SliceOver, WindowFitsSlice, IInv, CurrOK, TypeOK, Window
<1>6. Range(ready_queue) \cap Range(w) = {}
  BY <1>1, <1>2 DEF IInv, Queued
<1> DEFINE q1 == ready_queue \o w
<1>7. q1 \in Seq(ThreadId) /\ IsInjective(q1) /\ Range(q1) = Range(ready_queue) \cup Woken
  BY <1>2, <1>6, PushAll DEF IInv, Queued
<1>8. Cleaner \notin Woken  BY <1>1 DEF IInv, CurrOK
<1> HIDE DEF q1
<1>9. Queued(TickState, TickQueue(w))
  <2>1. CASE SliceOver
    <3>1. curr \notin Range(q1)
      BY <2>1, <1>5, <1>7 DEF IInv, Queued
    <3>2. TickQueue(w) = Append(q1, curr)  BY <2>1 DEF TickQueue, q1
    <3>3. /\ TickQueue(w) \in Seq(ThreadId) /\ IsInjective(TickQueue(w))
          /\ Range(TickQueue(w)) = Range(q1) \cup {curr}
      BY <3>1, <3>2, <1>7, PushBack DEF IInv, TypeOK
    <3> QED
      BY <3>3, <2>1, <1>3, <1>4, <1>5, <1>7, <1>8, <1>1 DEF Queued, IInv, TypeOK
  <2>2. CASE ~SliceOver
    <3>1. TickQueue(w) = q1  BY <2>2 DEF TickQueue, q1
    <3> QED  BY <3>1, <2>2, <1>3, <1>4, <1>7, <1>8, <1>1 DEF Queued, IInv, TypeOK
  <2> QED  BY <2>1, <2>2
<1>10. TickSlice \in [ThreadId -> 1..SliceTicks]
  BY SchedulerAssumption DEF TickSlice, SliceOver, IInv, TypeOK
<1>11. TickState[Idle] = "Running" /\ TickState[Cleaner] = "Ready"
  BY <1>1, <1>3, <1>5, <1>8, ThreadIdFacts DEF IInv, CurrOK
<1>12. \A t \in ThreadId : (TickState[t] = "Unborn") <=> (state[t] = "Unborn")
  BY <1>1, <1>3, <1>5
<1>13. \A t \in ThreadId : state[t] = "Running" /\ t # curr => TickState[t] = "Running"
  BY <1>1, <1>3
<1>14. /\ TickState[curr] \notin {"Ready", "Running"} => TickState[curr] = state[curr]
       /\ state[curr] = "Running" /\ ~SliceOver => TickState[curr] = "Running"
  BY <1>1, <1>3 DEF IInv, TypeOK
<1> QED  BY <1>9, <1>10, <1>11, <1>12, <1>13, <1>14

------------------------------------------------------------------------------
\* _start leaves the scheduler in a state of the invariant.
LEMMA InitIInv == Init => IInv
<1> SUFFICES ASSUME Init PROVE IInv  OBVIOUS
<1>1. BootThreads \in Seq(ThreadId) /\ IsInjective(BootThreads)
  <2>1. BootThreads \in Seq(Range(BootThreads))
    BY SchedulerAssumption, LenProperties, IsASeq DEF Range
  <2>2. /\ DOMAIN BootThreads = 1..Len(BootThreads) /\ Len(BootThreads) \in Nat
        /\ \A i \in 1..Len(BootThreads) : BootThreads[i] \in ThreadId
    BY <2>1, LenProperties, ElementOfSeq, ThreadIdFacts
  <2>3. BootThreads = [i \in 1..Len(BootThreads) |-> BootThreads[i]]
    BY SchedulerAssumption
  <2>4. BootThreads \in [1..Len(BootThreads) -> ThreadId]  BY <2>2, <2>3
  <2> QED  BY <2>2, <2>4, IsASeq, SchedulerAssumption
<1>2. TypeOK
  <2>1. <<Cleaner>> \in Seq(ThreadId)  BY ThreadIdFacts
  <2>2. threads \in Seq(ThreadId)  BY <2>1, <1>1, ConcatProperties DEF Init
  <2>3. state \in [ThreadId -> ThreadState]  BY DEF Init, ThreadState
  <2>4. slice \in [ThreadId -> 1..SliceTicks] /\ left \in [ThreadId -> 0..MaxSleep]
    BY SchedulerAssumption DEF Init
  <2> QED  BY <2>2, <2>3, <2>4, <1>1, ThreadIdFacts, Zenon DEF Init, TypeOK
<1>3. \A t \in ThreadId : /\ t # Idle /\ t \notin Procs => state[t] = "Ready"
                          /\ t \in Procs => state[t] = "Unborn"
                          /\ t = Idle => state[t] = "Running"
  BY ThreadIdFacts DEF Init
<1>4. Queued(state, ready_queue)
  <2>1. Range(ready_queue) = {t \in ThreadId \ {Cleaner} : state[t] = "Ready"}
    BY <1>3, ThreadIdFacts, SchedulerAssumption DEF Init, ThreadId
  <2> QED  BY <2>1, <1>1, <1>2 DEF Queued, TypeOK, Init
<1>5. ThreadsOK
  <2>1. <<Cleaner>> \in Seq(ThreadId) /\ IsInjective(<<Cleaner>>)
        /\ Range(<<Cleaner>>) = {Cleaner}
    BY ThreadIdFacts DEF IsInjective, Range
  <2>2. IsInjective(threads) /\ Range(threads) = {Cleaner} \cup Range(BootThreads)
    <3> DEFINE c == <<Cleaner>>
    <3>1. Range(c) \cap Range(BootThreads) = {}  BY <2>1, ThreadIdFacts
    <3>2. c \in Seq(ThreadId) /\ IsInjective(c)  BY <2>1
    <3> HIDE DEF c
    <3>3. IsInjective(c \o BootThreads)  BY <3>1, <3>2, <1>1, PushAll
    <3>4. Range(c \o BootThreads) = Range(c) \cup Range(BootThreads)
      BY <3>2, <1>1, PushAll
    <3> QED  BY <3>3, <3>4, <2>1 DEF Init, c
  <2>3. Range(threads) = {t \in ThreadId \ {Idle} : state[t] # "Unborn"}
    BY <2>2, <1>3, ThreadIdFacts, SchedulerAssumption DEF ThreadId
  <2> QED  BY <2>2, <2>3, <1>2 DEF ThreadsOK, TypeOK
<1>6. CurrOK  BY ThreadIdFacts DEF Init, CurrOK
<1>7. PickedOK  BY DEF Init, PickedOK
<1> QED  BY <1>2, <1>4, <1>5, <1>6, <1>7 DEF IInv

\* A step in which the current thread t blocks with the reason why.
LEMMA BlockStep ==
  ASSUME IInv, NEW t \in ThreadId, NEW why \in BlockReason,
         curr = t, t # Idle, state[t] = "Running", pc[t] \in {"thread", "terminate"},
         state' = [state EXCEPT ![t] = why],
         slice' = [slice EXCEPT ![t] = SliceTicks],
         left' \in [ThreadId -> 0..MaxSleep],
         needs' = TRUE,
         pc' = [pc EXCEPT ![t] = "load"],
         UNCHANGED <<threads, ready_queue, curr, next>>
  PROVE  IInv'
<1> USE DEF IInv
<1>1. TypeOK'  BY SchedulerAssumption DEF TypeOK, ThreadState, Window
<1>2. Queued(state, ready_queue)'
  <2>1. \A u \in ThreadId : (state'[u] = "Ready") <=> (state[u] = "Ready")
    BY DEF BlockReason, TypeOK
  <2> QED  BY <2>1, <1>1 DEF Queued, TypeOK
<1>3. ThreadsOK'
  <2>1. \A u \in ThreadId : (state'[u] = "Unborn") <=> (state[u] = "Unborn")
    BY DEF BlockReason, TypeOK
  <2> QED  BY <2>1 DEF ThreadsOK
<1>4. CurrOK'
  BY ThreadIdFacts DEF CurrOK, TypeOK, BlockReason
<1>5. PickedOK'  BY DEF PickedOK, TypeOK
<1> QED  BY <1>1, <1>2, <1>3, <1>4, <1>5

\* A step that unblocks a blocked thread.
LEMMA UnblockStep ==
  ASSUME IInv, NEW id \in ThreadId, state[id] \in BlockReason,
         state' = [state EXCEPT ![id] = "Ready"],
         ready_queue' = Append(ready_queue, id),
         needs' = TRUE,
         UNCHANGED <<threads, slice, left, curr, pc, next>>
  PROVE  IInv'
<1> USE DEF IInv
<1>0. state[id] \notin {"Ready", "Running", "Unborn"}  BY DEF BlockReason
<1>1. TypeOK'  BY AppendProperties DEF TypeOK, ThreadState
<1>2. id # Cleaner /\ id # Idle  BY <1>0 DEF CurrOK
<1>3. Queued(state, ready_queue)'
  <2>1. id \notin Range(ready_queue)  BY <1>0 DEF Queued
  <2>2. IsInjective(ready_queue') /\ Range(ready_queue') = Range(ready_queue) \cup {id}
    BY <2>1, PushBack DEF Queued
  <2>3. \A u \in ThreadId : (state'[u] = "Ready") <=> (state[u] = "Ready" \/ u = id)
    BY DEF TypeOK
  <2> QED  BY <2>2, <2>3, <1>1, <1>2 DEF Queued, TypeOK
<1>4. ThreadsOK'
  <2>1. \A u \in ThreadId : (state'[u] = "Unborn") <=> (state[u] = "Unborn")
    BY <1>0 DEF TypeOK
  <2> QED  BY <2>1 DEF ThreadsOK
<1>5. CurrOK'  BY <1>0, <1>2 DEF CurrOK, TypeOK
<1>6. PickedOK'  BY <1>0 DEF PickedOK, TypeOK
<1> QED  BY <1>1, <1>3, <1>4, <1>5, <1>6

\* yield_sched: the current thread becomes Ready and is queued.
LEMMA YieldStep ==
  ASSUME IInv, NEW t \in ThreadId, YieldSched(t)
  PROVE  IInv'
<1> USE DEF IInv
<1>1. TypeOK'
  BY SchedulerAssumption, AppendProperties DEF YieldSched, TypeOK, ThreadState, Window
<1>2. state[t] = "Running" /\ t # Cleaner /\ t # Idle
  BY DEF YieldSched, CurrOK
<1>3. \A u \in ThreadId : state'[u] = IF u = t THEN "Ready" ELSE state[u]
  BY DEF YieldSched, TypeOK
<1>4. Queued(state, ready_queue)'
  <2>1. t \notin Range(ready_queue)  BY <1>2 DEF Queued
  <2>2. IsInjective(ready_queue') /\ Range(ready_queue') = Range(ready_queue) \cup {t}
    BY <2>1, PushBack DEF Queued, YieldSched
  <2> QED  BY <2>2, <1>1, <1>2, <1>3 DEF Queued, TypeOK
<1>5. ThreadsOK'  BY <1>2, <1>3 DEF ThreadsOK, YieldSched
<1>6. CurrOK'  BY <1>2, <1>3, ThreadIdFacts DEF CurrOK, TypeOK, YieldSched
<1>7. PickedOK'  BY <1>3 DEF PickedOK, TypeOK, YieldSched
<1> QED  BY <1>1, <1>4, <1>5, <1>6, <1>7

\* The last region of spawn_proc and fork.
LEMMA SpawnStep ==
  ASSUME IInv, NEW t \in ThreadId, NEW p \in Procs, SpawnProc(t, p)
  PROVE  IInv'
<1> USE DEF IInv
<1>0. p \in ThreadId /\ p # Cleaner /\ p # Idle /\ state[p] = "Unborn" /\ p # curr
  BY ThreadIdFacts DEF SpawnProc, CurrOK
<1>1. TypeOK'
  BY <1>0, AppendProperties DEF SpawnProc, TypeOK, ThreadState
<1>2. \A u \in ThreadId : state'[u] = IF u = p THEN "Ready" ELSE state[u]
  BY DEF SpawnProc, TypeOK
<1>3. Queued(state, ready_queue)'
  <2>1. p \notin Range(ready_queue)  BY <1>0 DEF Queued
  <2>2. IsInjective(ready_queue') /\ Range(ready_queue') = Range(ready_queue) \cup {p}
    BY <2>1, <1>0, PushBack DEF Queued, SpawnProc
  <2> QED  BY <2>2, <1>0, <1>1, <1>2, Zenon DEF Queued, TypeOK
<1>4. ThreadsOK'
  <2>1. p \notin Range(threads)  BY <1>0 DEF ThreadsOK
  <2>2. IsInjective(threads') /\ Range(threads') = Range(threads) \cup {p}
    BY <2>1, <1>0, PushBack DEF ThreadsOK, SpawnProc
  <2> QED  BY <2>2, <1>0, <1>1, <1>2, Zenon DEF ThreadsOK, TypeOK
<1>5. CurrOK'  BY <1>0, <1>2, ThreadIdFacts DEF CurrOK, TypeOK, SpawnProc
<1>6. PickedOK'
  <2>1. curr' = curr /\ pc' = pc /\ next' = next  BY DEF SpawnProc
  <2> QED  BY <1>0, <1>2, <2>1 DEF PickedOK, TypeOK
<1> QED  BY <1>1, <1>3, <1>4, <1>5, <1>6

\* switch_if_needed, one lemma for each of its steps.
LEMMA LoadStep ==
  ASSUME IInv, NEW t \in ThreadId, SwitchLoad(t) \/ SwitchClear(t)
  PROVE  IInv'
<1> USE DEF IInv
<1>0. UNCHANGED <<threads, ready_queue, state, slice, left, curr, next>>
  BY DEF SwitchLoad, SwitchClear
<1>1. TypeOK'
  <2>1. pc' \in [ThreadId -> {"thread", "terminate"} \cup Window] /\ needs' \in BOOLEAN
    BY Zenon DEF SwitchLoad, SwitchClear, TypeOK, Window
  <2> QED  BY <1>0, <2>1 DEF TypeOK
<1>2. Queued(state, ready_queue)'  BY <1>0 DEF Queued
<1>3. ThreadsOK'  BY <1>0 DEF ThreadsOK
<1>4. CurrOK'
  <2>1. CASE SwitchLoad(t)
    BY <2>1, ThreadIdFacts DEF SwitchLoad, CurrOK, TypeOK
  <2>2. CASE SwitchClear(t)
    BY <2>2, ThreadIdFacts DEF SwitchClear, CurrOK, TypeOK
  <2> QED  BY <2>1, <2>2
<1>5. PickedOK'
  <2>1. \A u \in ThreadId : pc'[u] = "switch" => pc[u] = "switch"
    BY DEF SwitchLoad, SwitchClear, TypeOK
  <2> QED  BY <1>0, <2>1 DEF PickedOK
<1> QED  BY <1>1, <1>2, <1>3, <1>4, <1>5

\* SwitchPick, the locked region of switch_if_needed, keeps the invariant.
LEMMA PickStep ==
  ASSUME IInv, NEW t \in ThreadId, SwitchPick(t)
  PROVE  IInv'
<1> USE DEF IInv
<1> DEFINE n == Chosen(state, ready_queue)
<1>1. /\ curr = t /\ pc[t] = "pick" /\ t # Idle /\ t # Cleaner
      /\ state' = ChosenState(state, ready_queue)
      /\ ready_queue' = RestOf(Requeued(state, ready_queue))
      /\ slice' = RequeuedSlice(state, slice)
      /\ next' = [next EXCEPT ![t] = n]
      /\ pc' = [pc EXCEPT ![t] = "switch"]
      /\ UNCHANGED <<threads, left, curr, needs>>
  BY DEF SwitchPick, PickRegion, Chosen, ChosenState, CurrOK
<1>2. /\ n \in ThreadId \ {Cleaner}
      /\ Queued(state', ready_queue')
      /\ state'[n] = "Running"
      /\ n # Idle => state[n] = "Ready" \/ (n = curr /\ state[curr] = "Running")
      /\ \A u \in ThreadId \ {n} :
           state'[u] = IF u = curr /\ StillRunning(state) THEN "Ready" ELSE state[u]
  <2>1. /\ Queued(state, ready_queue) /\ curr \in ThreadId /\ curr # Cleaner
        /\ state[Idle] = "Running"
    BY DEF TypeOK, CurrOK
  <2>2. /\ n \in ThreadId \ {Cleaner}
        /\ Queued(ChosenState(state, ready_queue), RestOf(Requeued(state, ready_queue)))
        /\ ChosenState(state, ready_queue)[n] = "Running"
        /\ n # Idle => state[n] = "Ready" \/ (n = curr /\ state[curr] = "Running")
        /\ \A u \in ThreadId \ {n} :
             ChosenState(state, ready_queue)[u] =
               IF u = curr /\ StillRunning(state) THEN "Ready" ELSE state[u]
    <3> HIDE DEF IInv
    <3> QED  BY ONLY <2>1, PickLemma, Zenon
  <2>3. state' = ChosenState(state, ready_queue)
        /\ ready_queue' = RestOf(Requeued(state, ready_queue))
    BY <1>1
  <2> HIDE DEF n, IInv
  <2> QED  BY ONLY <2>2, <2>3, Zenon
<1> HIDE DEF n
<1>3. TypeOK'
  <2>1. slice' \in [ThreadId -> 1..SliceTicks]
    BY <1>1, SchedulerAssumption DEF RequeuedSlice, TypeOK
  <2>2. /\ pc' \in [ThreadId -> {"thread", "terminate"} \cup Window]
        /\ next' \in [ThreadId -> ThreadId]
    BY <1>1, <1>2 DEF TypeOK, Window
  <2> QED  BY <1>1, <1>2, <2>1, <2>2 DEF TypeOK, Queued
<1>4. ThreadsOK'
  <2>1. \A u \in ThreadId : (state'[u] = "Unborn") <=> (state[u] = "Unborn")
    BY <1>2, ThreadIdFacts DEF StillRunning, CurrOK
  <2> QED  BY <1>1, <2>1 DEF ThreadsOK
<1>5. CurrOK'
  BY <1>1, <1>2, ThreadIdFacts DEF CurrOK, TypeOK, StillRunning
<1>6. PickedOK'
  <2> SUFFICES ASSUME NEW o \in ThreadId, pc'[o] = "switch"
               PROVE  /\ next'[o] # Cleaner
                      /\ next'[o] = o /\ curr' = o => state'[o] = "Running"
                      /\ next'[o] \notin {o, Idle} =>
                           /\ state'[next'[o]] = "Running" /\ next'[o] # curr'
                           /\ \A p \in ThreadId \ {o} :
                                pc'[p] = "switch" /\ next'[p] # p => next'[p] # next'[o]
    BY DEF PickedOK
  <2>1. \A p \in ThreadId \ {t} : pc'[p] = pc[p] /\ next'[p] = next[p]
    BY <1>1 DEF TypeOK
  <2>2. next'[t] = n /\ curr' = t  BY <1>1 DEF TypeOK
  <2>3. \A p \in ThreadId \ {t} : pc[p] = "switch" /\ next[p] \notin {p, Idle} =>
          state[next[p]] = "Running" /\ next[p] # t /\ next[p] # n
    BY <1>1, <1>2 DEF PickedOK
  <2>4. CASE o = t
    <3>1. n \notin {t, Idle} => state'[n] = "Running" /\ n # t  BY <1>2
    <3>2. n # Idle => \A p \in ThreadId \ {t} : pc'[p] = "switch" /\ next'[p] # p => next'[p] # n
      BY <2>1, <2>3
    <3> QED  BY <2>2, <2>4, <3>1, <3>2, <1>2
  <2>5. CASE o # t
    <3>1. pc[o] = "switch" /\ next'[o] = next[o]  BY <2>1, <2>5
    <3>2. next[o] # Cleaner  BY <3>1 DEF PickedOK
    <3>3. ASSUME next[o] \notin {o, Idle}
          PROVE  /\ state'[next[o]] = "Running" /\ next[o] # curr'
                 /\ \A p \in ThreadId \ {o} :
                      pc'[p] = "switch" /\ next'[p] # p => next'[p] # next[o]
      <4>1. state[next[o]] = "Running" /\ next[o] # t /\ next[o] # n
        BY <3>1, <3>3, <2>3, <2>5
      <4>2. state'[next[o]] = "Running"
        BY <4>1, <1>1, <1>2 DEF TypeOK
      <4>3. ASSUME NEW p \in ThreadId \ {o}, pc'[p] = "switch", next'[p] # p
            PROVE  next'[p] # next[o]
        <5>1. CASE p = t  BY <5>1, <4>1, <2>2
        <5>2. CASE p # t  BY <5>2, <4>3, <3>1, <3>3, <2>1 DEF PickedOK
        <5> QED  BY <5>1, <5>2
      <4> QED  BY <4>1, <4>2, <4>3, <2>2
    <3> QED  BY <3>1, <3>2, <3>3, <2>2, <2>5
  <2> QED  BY <2>4, <2>5
<1> QED  BY <1>1, <1>2, <1>3, <1>4, <1>5, <1>6

\* switch_to_task keeps the invariant.
LEMMA SwitchStepInv ==
  ASSUME IInv, NEW t \in ThreadId, SwitchToTask(t)
  PROVE  IInv'
<1> USE DEF IInv
<1>1. /\ curr = t /\ pc[t] = "switch" /\ t # Idle
      /\ curr' = next[t] /\ next' = [next EXCEPT ![t] = Idle]
      /\ pc' = [pc EXCEPT ![t] = "thread"]
      /\ UNCHANGED <<threads, ready_queue, state, slice, left, needs>>
  BY DEF SwitchToTask, CurrOK
<1>2. next[t] \in ThreadId \ {Cleaner} /\ state[next[t]] = "Running"
  BY <1>1, Zenon DEF PickedOK, TypeOK, CurrOK
<1>3. TypeOK'  BY <1>1, <1>2, ThreadIdFacts DEF TypeOK
<1>4. Queued(state, ready_queue)'  BY <1>1 DEF Queued
<1>5. ThreadsOK'  BY <1>1 DEF ThreadsOK
<1>6. CurrOK'  BY <1>1, <1>2, ThreadIdFacts DEF CurrOK, TypeOK
<1>7. PickedOK'
  <2>1. \A o \in ThreadId : pc'[o] = "switch" => o # t /\ pc[o] = "switch" /\ next'[o] = next[o]
    BY <1>1 DEF TypeOK
  <2>2. \A o \in ThreadId : o # t /\ pc[o] = "switch" /\ next[o] \notin {o, Idle} => next[o] # next[t]
    BY <1>1 DEF PickedOK
  <2> QED  BY <1>1, <1>2, <2>1, <2>2 DEF PickedOK
<1> QED  BY <1>3, <1>4, <1>5, <1>6, <1>7

\* The timer interrupt, wherever it falls.
LEMMA TickStep ==
  ASSUME IInv, TimerTick
  PROVE  IInv'
<1> USE DEF IInv
<1>1. PICK w \in WakeOrders(Woken) :
        IF TickNeeds(w)
         THEN /\ PickRegion(TickState, TickQueue(w), TickSlice)
              /\ curr' = NextOf(Requeued(TickState, TickQueue(w)))
         ELSE /\ ready_queue' = TickQueue(w)
              /\ state' = TickState
              /\ slice' = TickSlice
              /\ curr' = curr
  BY DEF TimerTick
<1>2. WindowFitsSlice /\ needs' = FALSE /\ UNCHANGED <<threads, pc, next>>
  BY DEF TimerTick
<1>3. left' \in [ThreadId -> 0..MaxSleep]
  BY SchedulerAssumption DEF TimerTick, TypeOK
<1>4. /\ Queued(TickState, TickQueue(w))
      /\ TickState[Idle] = "Running" /\ TickState[Cleaner] = "Ready"
      /\ \A t \in ThreadId : (TickState[t] = "Unborn") <=> (state[t] = "Unborn")
      /\ \A t \in ThreadId : state[t] = "Running" /\ t # curr => TickState[t] = "Running"
      /\ state[curr] = "Running" /\ ~SliceOver => TickState[curr] = "Running"
      /\ TickSlice \in [ThreadId -> 1..SliceTicks]
  BY <1>2, TickLemma
<1>5. CASE TickNeeds(w)
  <2> DEFINE n == Chosen(TickState, TickQueue(w))
  <2>1. /\ curr' = n
        /\ state' = ChosenState(TickState, TickQueue(w))
        /\ ready_queue' = RestOf(Requeued(TickState, TickQueue(w)))
        /\ slice' = RequeuedSlice(TickState, TickSlice)
    BY <1>1, <1>5 DEF PickRegion, Chosen, ChosenState
  <2>2. /\ n \in ThreadId \ {Cleaner}
        /\ Queued(state', ready_queue')
        /\ state'[n] = "Running"
        /\ n # Idle => TickState[n] = "Ready" \/ (n = curr /\ TickState[curr] = "Running")
        /\ \A u \in ThreadId \ {n} : state'[u] =
             IF u = curr /\ StillRunning(TickState) THEN "Ready" ELSE TickState[u]
    <3>1. /\ Queued(TickState, TickQueue(w)) /\ curr \in ThreadId /\ curr # Cleaner
          /\ TickState[Idle] = "Running"
      BY <1>4 DEF TypeOK, CurrOK
    <3>2. /\ n \in ThreadId \ {Cleaner}
          /\ Queued(ChosenState(TickState, TickQueue(w)),
                    RestOf(Requeued(TickState, TickQueue(w))))
          /\ ChosenState(TickState, TickQueue(w))[n] = "Running"
          /\ n # Idle => TickState[n] = "Ready" \/ (n = curr /\ TickState[curr] = "Running")
          /\ \A u \in ThreadId \ {n} :
               ChosenState(TickState, TickQueue(w))[u] =
                 IF u = curr /\ StillRunning(TickState) THEN "Ready" ELSE TickState[u]
      BY ONLY <3>1, PickLemma, Zenon
    <3>3. state' = ChosenState(TickState, TickQueue(w))
          /\ ready_queue' = RestOf(Requeued(TickState, TickQueue(w)))
      BY <2>1
    <3> HIDE DEF n
    <3> QED  BY ONLY <3>2, <3>3, Zenon
  <2> HIDE DEF n
  <2>3. TypeOK'
    <3>1. slice' \in [ThreadId -> 1..SliceTicks]
      BY <2>1, <1>4, SchedulerAssumption DEF RequeuedSlice, TypeOK
    <3> QED  BY <1>2, <1>3, <2>1, <2>2, <3>1, Zenon DEF TypeOK, Queued
  <2>4. ThreadsOK'
    <3>1. \A u \in ThreadId : (state'[u] = "Unborn") <=> (state[u] = "Unborn")
      BY <2>2, <1>4, ThreadIdFacts DEF StillRunning
    <3> QED  BY <1>2, <3>1 DEF ThreadsOK
  <2>5. CurrOK'
    BY <1>2, <1>4, <2>1, <2>2, ThreadIdFacts, Zenon DEF CurrOK, TypeOK, StillRunning
  <2>6. PickedOK'
    <3>1. \A o \in ThreadId : pc[o] = "switch" /\ next[o] \notin {o, Idle} =>
            state'[next[o]] = "Running" /\ next[o] # n
      <4> SUFFICES ASSUME NEW o \in ThreadId, pc[o] = "switch", next[o] \notin {o, Idle}
                   PROVE  state'[next[o]] = "Running" /\ next[o] # n
        OBVIOUS
      <4>1. next[o] \in ThreadId /\ state[next[o]] = "Running" /\ next[o] # curr
        BY DEF PickedOK, TypeOK
      <4>2. TickState[next[o]] = "Running"  BY <4>1, <1>4
      <4>3. next[o] # n  BY <4>1, <4>2, <2>2
      <4> QED  BY <4>1, <4>2, <4>3, <2>2
    <3>2. \A o \in ThreadId : curr' = o => state'[o] = "Running"  BY <2>1, <2>2
    <3> QED  BY <1>2, <2>1, <3>1, <3>2 DEF PickedOK
  <2> QED  BY <2>1, <2>2, <2>3, <2>4, <2>5, <2>6
<1>6. CASE ~TickNeeds(w)
  <2>1. /\ ready_queue' = TickQueue(w) /\ state' = TickState
        /\ slice' = TickSlice /\ curr' = curr
    BY <1>1, <1>6
  <2>2. Woken = {} /\ ~SliceOver /\ ~needs  BY <1>6 DEF TickNeeds
  <2>3. state' = state
    BY <2>1, <2>2 DEF TickState, TypeOK
  <2>4. TypeOK'  BY <1>2, <1>3, <1>4, <2>1, Zenon DEF TypeOK, Queued
  <2>5. ThreadsOK'  BY <1>2, <2>3 DEF ThreadsOK
  <2>6. CurrOK'  BY <1>2, <2>1, <2>2, <2>3 DEF CurrOK
  <2>7. PickedOK'  BY <1>2, <2>1, <2>3 DEF PickedOK
  <2>8. Queued(state, ready_queue)'  BY <1>4, <2>1
  <2> QED  BY <2>4, <2>5, <2>6, <2>7, <2>8
<1> QED  BY <1>5, <1>6

\* Every step of the scheduler preserves the invariant.
LEMMA NextIInv == IInv /\ [Next]_vars => IInv'
<1> SUFFICES ASSUME IInv, [Next]_vars PROVE IInv'  OBVIOUS
<1>1. ASSUME NEW t \in ThreadId, BlockTask(t, "Wait") PROVE IInv'
  <2>1. state[t] = "Running" /\ "Wait" \in BlockReason /\ left' \in [ThreadId -> 0..MaxSleep]
    BY <1>1 DEF BlockTask, IInv, CurrOK, TypeOK, BlockReason
  <2> QED  BY <1>1, <2>1, BlockStep, Zenon DEF BlockTask
<1>2. ASSUME NEW t \in ThreadId, NEW d \in 1..MaxSleep, NanoSleep(t, d) PROVE IInv'
  <2>1. state[t] = "Running" /\ "Sleep" \in BlockReason /\ t # Idle
    BY <1>2, ThreadIdFacts DEF NanoSleep, IInv, CurrOK, BlockReason
  <2>2. left' \in [ThreadId -> 0..MaxSleep]
    BY <1>2, SchedulerAssumption DEF NanoSleep, IInv, TypeOK
  <2> QED  BY <1>2, <2>1, <2>2, BlockStep, Zenon DEF NanoSleep
<1>3. ASSUME NEW t \in ThreadId, TerminateTask(t) PROVE IInv'
  <2>1. state[Cleaner] \notin BlockReason  BY DEF IInv, CurrOK, BlockReason
  <2>2. UNCHANGED <<threads, ready_queue, state, slice, left, curr, needs, next>>
        /\ pc' = [pc EXCEPT ![t] = "terminate"] /\ curr = t /\ pc[t] = "thread" /\ t # Idle
    BY <1>3, <2>1, ThreadIdFacts DEF TerminateTask, UnblockEffect
  <2>3. TypeOK'  BY <2>2 DEF IInv, TypeOK
  <2>4. CurrOK'  BY <2>2, ThreadIdFacts DEF IInv, CurrOK, TypeOK
  <2>5. PickedOK'  BY <2>2 DEF IInv, PickedOK, TypeOK
  <2>6. Queued(state, ready_queue)' /\ ThreadsOK'  BY <2>2 DEF IInv, Queued, ThreadsOK
  <2> QED  BY <2>3, <2>4, <2>5, <2>6 DEF IInv
<1>4. ASSUME NEW t \in ThreadId, UnblockTask(t) PROVE IInv'
  <2>1. state[t] \in BlockReason  BY <1>4 DEF UnblockTask, BlockReason
  <2> QED  BY <1>4, <2>1, UnblockStep DEF UnblockTask, UnblockEffect
<1>5. ASSUME NEW t \in ThreadId, BlockTerminated(t) PROVE IInv'
  <2>1. /\ state[t] = "Running" /\ "Terminated" \in BlockReason /\ t # Idle
        /\ left' \in [ThreadId -> 0..MaxSleep]
    BY <1>5 DEF BlockTerminated, IInv, CurrOK, TypeOK, BlockReason
  <2> QED  BY <1>5, <2>1, BlockStep, Zenon DEF BlockTerminated
<1>6. CASE SwitchStep
  BY <1>5, <1>6, LoadStep, PickStep, SwitchStepInv DEF SwitchStep
<1>7. CASE TimerTick  BY <1>7, TickStep
<1>8. CASE UNCHANGED vars
  BY <1>8 DEF vars, IInv, TypeOK, Queued, ThreadsOK, CurrOK, PickedOK
<1> QED  BY <1>1, <1>2, <1>3, <1>4, <1>6, <1>7, <1>8, YieldStep, SpawnStep DEF Next

\* The invariant holds in every reachable state.
LEMMA SpecIInv == Spec => []IInv
BY InitIInv, NextIInv, PTL DEF Spec

\* Type correctness, for every number of threads.
THEOREM TypeCorrect == Spec => []TypeOK
<1>1. IInv => TypeOK  BY DEF IInv
<1> QED  BY <1>1, SpecIInv, PTL

\* The ready queue holds each Ready thread once and only existing threads:
\* pick_next_thread finds the thread it pops and dispatches nobody twice.
THEOREM ReadyQueueSound == Spec => []QueueDiscipline
<1>1. IInv => QueueDiscipline
  <2> SUFFICES ASSUME IInv PROVE QueueDiscipline  OBVIOUS
  <2>1. Range(ready_queue) \subseteq Range(threads)
    BY DEF IInv, Queued, ThreadsOK, CurrOK
  <2> QED  BY <2>1 DEF IInv, Queued, QueueDiscipline
<1> QED  BY <1>1, SpecIInv, PTL

\* A thread executes its own code only while it is Running: no block_task,
\* yield_sched or nano_sleep returns early.
THEOREM BlockedStaysOff == Spec => []OnlyRunningExecutes
<1>1. IInv => OnlyRunningExecutes  BY DEF IInv, CurrOK, OnlyRunningExecutes
<1> QED  BY <1>1, SpecIInv, PTL

------------------------------------------------------------------------------
(* Round robin.                                                             *)

\* r starts with q; every element of q behind its front is in r.
Extends(q, r) ==
  r \in Seq(ThreadId) /\ \A j \in DOMAIN q : j \in DOMAIN r /\ r[j] = q[j]
KeepsRest(q, r) == \A j \in DOMAIN q : j > 1 => q[j] \in Range(r)

\* Pushing at the back leaves the front of the queue as it is.
LEMMA ExtendsPush ==
  ASSUME NEW q \in Seq(ThreadId), NEW r, Extends(q, r), NEW x \in ThreadId
  PROVE  Extends(q, Append(r, x))
<1>1. /\ DOMAIN r = 1..Len(r) /\ Len(r) \in Nat
      /\ Append(r, x) \in Seq(ThreadId) /\ Len(Append(r, x)) = Len(r) + 1
      /\ DOMAIN Append(r, x) = 1..Len(Append(r, x))
      /\ \A i \in 1..Len(r) : Append(r, x)[i] = r[i]
  BY AppendProperties DEF Extends
<1> QED  BY <1>1 DEF Extends

\* So does pushing several threads.
LEMMA ExtendsPushAll ==
  ASSUME NEW q \in Seq(ThreadId), NEW w \in Seq(ThreadId)
  PROVE  Extends(q, q \o w)
<1>1. /\ DOMAIN q = 1..Len(q) /\ Len(q) \in Nat /\ Len(w) \in Nat
      /\ q \o w \in Seq(ThreadId) /\ Len(q \o w) = Len(q) + Len(w)
      /\ DOMAIN (q \o w) = 1..Len(q \o w)
      /\ \A i \in 1..Len(q \o w) : (q \o w)[i] = IF i <= Len(q) THEN q[i] ELSE w[i - Len(q)]
  BY ConcatProperties
<1> QED  BY <1>1 DEF Extends

\* Popping the front keeps everybody else in their order.
LEMMA RestKeepsRest ==
  ASSUME NEW q \in Seq(ThreadId), NEW r, Extends(q, r)
  PROVE  KeepsRest(q, r) /\ KeepsRest(q, RestOf(r))
<1>0. DOMAIN q = 1..Len(q) /\ Len(q) \in Nat  BY LenProperties
<1>1. KeepsRest(q, r)  BY DEF Extends, KeepsRest, Range
<1>2. CASE r = << >>  BY <1>1, <1>2 DEF RestOf
<1>3. CASE r # << >>
  <2>1. /\ RestOf(r) = Tail(r) /\ DOMAIN r = 1..Len(r) /\ Len(r) \in Nat
        /\ Tail(r) \in Seq(ThreadId) /\ Len(Tail(r)) = Len(r) - 1
        /\ DOMAIN Tail(r) = 1..Len(Tail(r))
        /\ \A i \in 1..Len(Tail(r)) : Tail(r)[i] = r[i + 1]
    BY <1>3, HeadTailProperties, LenProperties DEF RestOf, Extends
  <2>2. ASSUME NEW j \in DOMAIN q, j > 1 PROVE q[j] \in Range(Tail(r))
    <3>1. j - 1 \in DOMAIN Tail(r) /\ Tail(r)[j - 1] = r[j]
      BY <2>1, <2>2, <1>0 DEF Extends
    <3> QED  BY <3>1 DEF Range, Extends
  <2> QED  BY <1>1, <2>1, <2>2 DEF KeepsRest
<1> QED  BY <1>1, <1>2, <1>3

\* Every step of the scheduler takes at most the front of the queue.
LEMMA StepKeepsRest == IInv /\ [Next]_vars => KeepsRest(ready_queue, ready_queue')
<1> SUFFICES ASSUME IInv, [Next]_vars PROVE KeepsRest(ready_queue, ready_queue')  OBVIOUS
<1>0. ready_queue \in Seq(ThreadId) /\ curr \in ThreadId /\ curr # Cleaner
  BY DEF IInv, TypeOK, CurrOK
<1>1. Extends(ready_queue, ready_queue)  BY <1>0 DEF Extends
<1>2. ASSUME UNCHANGED ready_queue PROVE KeepsRest(ready_queue, ready_queue')
  BY <1>0, <1>1, <1>2, RestKeepsRest
<1>3. ASSUME NEW x \in ThreadId, ready_queue' = Append(ready_queue, x)
      PROVE  KeepsRest(ready_queue, ready_queue')
  BY <1>0, <1>1, <1>3, ExtendsPush, RestKeepsRest
<1>4. ASSUME NEW t \in ThreadId, SwitchPick(t) PROVE KeepsRest(ready_queue, ready_queue')
  <2>1. Extends(ready_queue, Requeued(state, ready_queue))
    BY <1>0, <1>1, ExtendsPush DEF Requeued
  <2> QED  BY <1>0, <1>4, <2>1, RestKeepsRest DEF SwitchPick, PickRegion
<1>5. ASSUME TimerTick PROVE KeepsRest(ready_queue, ready_queue')
  <2>1. PICK w \in WakeOrders(Woken) :
          \/ ready_queue' = RestOf(Requeued(TickState, TickQueue(w)))
          \/ ready_queue' = TickQueue(w)
    BY <1>5 DEF TimerTick, PickRegion
  <2>2. w \in Seq(ThreadId)
    <3>1. Woken \subseteq ThreadId  BY DEF Woken, IInv, ThreadsOK
    <3> QED  BY <3>1, WakeOrderLemma DEF IInv
  <2>3. Extends(ready_queue, ready_queue \o w)  BY <1>0, <2>2, ExtendsPushAll
  <2>4. Extends(ready_queue, TickQueue(w))
    BY <1>0, <2>3, ExtendsPush DEF TickQueue
  <2>5. Extends(ready_queue, Requeued(TickState, TickQueue(w)))
    BY <1>0, <2>4, ExtendsPush DEF Requeued
  <2> QED  BY <1>0, <2>1, <2>4, <2>5, RestKeepsRest
<1>6. ASSUME NEW t \in ThreadId,
             \/ BlockTask(t, "Wait") \/ \E d \in 1..MaxSleep : NanoSleep(t, d)
             \/ BlockTerminated(t) \/ SwitchLoad(t) \/ SwitchClear(t) \/ SwitchToTask(t)
      PROVE  KeepsRest(ready_queue, ready_queue')
  BY <1>2, <1>6 DEF BlockTask, NanoSleep, BlockTerminated, SwitchLoad, SwitchClear, SwitchToTask
<1>7. ASSUME NEW t \in ThreadId, YieldSched(t) PROVE KeepsRest(ready_queue, ready_queue')
  BY <1>3, <1>7 DEF YieldSched
<1>8. ASSUME NEW t \in ThreadId, NEW p \in Procs, SpawnProc(t, p)
      PROVE  KeepsRest(ready_queue, ready_queue')
  BY <1>3, <1>8, ThreadIdFacts DEF SpawnProc
<1>9. ASSUME NEW t \in ThreadId, TerminateTask(t) \/ UnblockTask(t)
      PROVE  KeepsRest(ready_queue, ready_queue')
  BY <1>2, <1>3, <1>9, ThreadIdFacts DEF TerminateTask, UnblockTask, UnblockEffect
<1>10. CASE UNCHANGED vars  BY <1>2, <1>10 DEF vars
<1> QED
  BY <1>4, <1>5, <1>6, <1>7, <1>8, <1>9, <1>10 DEF Next, SwitchStep

\* Only the front of the ready queue ever leaves it: dispatching is first come,
\* first served.
THEOREM RoundRobin == Spec => NoOvertaking
<1> DEFINE A == \A i, j \in DOMAIN ready_queue :
                  i < j /\ ready_queue[j] \notin Range(ready_queue')
                    => ready_queue[i] \notin Range(ready_queue')
<1>1. IInv /\ [Next]_vars => [A]_vars
  <2> SUFFICES ASSUME IInv, [Next]_vars, NEW i \in DOMAIN ready_queue,
                      NEW j \in DOMAIN ready_queue, i < j
               PROVE  ready_queue[j] \in Range(ready_queue')
    OBVIOUS
  <2>1. DOMAIN ready_queue = 1..Len(ready_queue) /\ Len(ready_queue) \in Nat
    BY LenProperties DEF IInv, TypeOK
  <2> QED  BY <2>1, StepKeepsRest DEF KeepsRest
<1> QED  BY <1>1, SpecIInv, PTL DEF Spec, NoOvertaking

------------------------------------------------------------------------------
(* The scheduler implements Threads.tla.                                    *)

\* Every step of the scheduler is a step of Threads.tla or changes no life.
LEMMA StepImplements == IInv /\ IInv' /\ [Next]_vars => [Abstract!ThrNext]_Lives
<1> SUFFICES ASSUME IInv, IInv', [Next]_vars PROVE Abstract!ThrNext \/ Lives' = Lives
  OBVIOUS
<1> DEFINE Run == {"Ready", "Running"}
           R == {"Paused", "Sleep", "Wait"}
<1>1. ASSUME \A t \in ThreadId : state'[t] = state[t] \/ (state[t] \in Run /\ state'[t] \in Run)
      PROVE  Lives' = Lives
  BY <1>1 DEF Lives, ThreadLife
<1>2. ASSUME NEW t \in ThreadId, NEW why \in R, state[t] = "Running",
             state' = [state EXCEPT ![t] = why]
      PROVE  Abstract!ThrNext
  <2>1. Lives[t] = "runnable"  BY <1>2 DEF Lives, ThreadLife
  <2>2. Lives' = [Lives EXCEPT ![t] = why]
    BY <1>2, Zenon DEF Lives, ThreadLife, IInv, TypeOK
  <2> QED  BY <2>1, <2>2, Zenon DEF Abstract!ThrNext, Abstract!Block
<1>3. ASSUME NEW S \in SUBSET ThreadId, S # {}, \A t \in S : state[t] \in R /\ state'[t] \in Run,
             \A t \in ThreadId \ S :
               state'[t] = state[t] \/ (state[t] \in Run /\ state'[t] \in Run)
      PROVE  Abstract!ThrNext
  <2>1. \A t \in S : Lives[t] \in R  BY <1>3 DEF Lives, ThreadLife
  <2>2. Lives' = Abstract!Unblocked(S)
    BY <1>3, <2>1 DEF Lives, ThreadLife, Abstract!Unblocked
  <2> QED  BY <2>1, <2>2, <1>3 DEF Abstract!ThrNext, Abstract!Unblock
<1>4. ASSUME NEW t \in ThreadId, BlockTerminated(t) PROVE Abstract!ThrNext
  <2>1. state[t] = "Running"  BY <1>4 DEF BlockTerminated, IInv, CurrOK
  <2>2. Lives[t] = "runnable"  BY <2>1 DEF Lives, ThreadLife
  <2>3. Lives' = [Lives EXCEPT ![t] = "dead"]
    BY <1>4, Zenon DEF BlockTerminated, Lives, ThreadLife, IInv, TypeOK
  <2> QED  BY <2>2, <2>3, Zenon DEF Abstract!ThrNext, Abstract!Terminate
<1>5. ASSUME NEW t \in ThreadId, NEW p \in Procs, SpawnProc(t, p) PROVE Abstract!ThrNext
  <2>1. p \in ThreadId /\ state[p] = "Unborn" /\ state' = [state EXCEPT ![p] = "Ready"]
    BY <1>5, ThreadIdFacts DEF SpawnProc
  <2>2. Lives[p] = "unborn"  BY <2>1 DEF Lives, ThreadLife
  <2>3. Lives' = [Lives EXCEPT ![p] = "runnable"]
    BY <2>1, Zenon DEF Lives, ThreadLife, IInv, TypeOK
  <2> QED  BY <2>1, <2>2, <2>3, Zenon DEF Abstract!ThrNext, Abstract!Spawn
<1>6. ASSUME NEW t \in ThreadId, BlockTask(t, "Wait") PROVE Abstract!ThrNext
  BY <1>2, <1>6, Zenon DEF BlockTask, IInv, CurrOK
<1>7. ASSUME NEW t \in ThreadId, NEW d \in 1..MaxSleep, NanoSleep(t, d) PROVE Abstract!ThrNext
  BY <1>2, <1>7, Zenon DEF NanoSleep, IInv, CurrOK
<1>8. ASSUME NEW t \in ThreadId, UnblockTask(t) PROVE Abstract!ThrNext
  <2>1. state[t] = "Wait" /\ state' = [state EXCEPT ![t] = "Ready"]
    BY <1>8 DEF UnblockTask, UnblockEffect, BlockReason
  <2>2. /\ state[t] \in R /\ state'[t] \in Run
        /\ \A u \in ThreadId \ {t} : state'[u] = state[u]
    BY <2>1 DEF IInv, TypeOK
  <2> QED  BY <2>2, <1>3, Zenon
<1>9. ASSUME NEW t \in ThreadId, TerminateTask(t) PROVE Lives' = Lives
  <2>1. state' = state
    BY <1>9 DEF TerminateTask, UnblockEffect, IInv, CurrOK, BlockReason
  <2> QED  BY <2>1, <1>1
<1>10. ASSUME NEW t \in ThreadId, YieldSched(t) PROVE Lives' = Lives
  <2>1. state[t] = "Running" /\ \A u \in ThreadId : state'[u] = IF u = t THEN "Ready" ELSE state[u]
    BY <1>10 DEF YieldSched, IInv, CurrOK, TypeOK
  <2> QED  BY <2>1, <1>1
<1>11. ASSUME NEW t \in ThreadId, SwitchLoad(t) \/ SwitchClear(t) \/ SwitchToTask(t)
       PROVE  Lives' = Lives
  <2>1. state' = state  BY <1>11 DEF SwitchLoad, SwitchClear, SwitchToTask
  <2> QED  BY <2>1, <1>1
<1>12. ASSUME NEW t \in ThreadId, SwitchPick(t) PROVE Lives' = Lives
  <2> DEFINE n == Chosen(state, ready_queue)
  <2>1. state' = ChosenState(state, ready_queue)
    BY <1>12 DEF SwitchPick, PickRegion, Chosen, ChosenState
  <2>2. /\ n \in ThreadId /\ state'[n] = "Running"
        /\ n # Idle => state[n] = "Ready" \/ (n = curr /\ state[curr] = "Running")
        /\ \A u \in ThreadId \ {n} :
             state'[u] = IF u = curr /\ StillRunning(state) THEN "Ready" ELSE state[u]
    <3>1. /\ Queued(state, ready_queue) /\ curr \in ThreadId /\ curr # Cleaner
          /\ state[Idle] = "Running"
      BY DEF IInv, TypeOK, CurrOK
    <3> QED  BY <2>1, <3>1, PickLemma
  <2> HIDE DEF n
  <2>3. state[n] \in Run  BY <2>2 DEF IInv, CurrOK
  <2> QED  BY <2>2, <2>3, <1>1 DEF StillRunning
<1>13. ASSUME TimerTick PROVE Abstract!ThrNext \/ Lives' = Lives
  <2>1. PICK w \in WakeOrders(Woken) :
          \/ state' = ChosenState(TickState, TickQueue(w))
          \/ state' = TickState
    BY <1>13 DEF TimerTick, PickRegion, Chosen, ChosenState
  <2>2. /\ Queued(TickState, TickQueue(w))
        /\ TickState[Idle] = "Running"
    BY <1>13, TickLemma DEF TimerTick
  <2>3. Woken \subseteq ThreadId /\ \A t \in Woken : state[t] \in R
    BY DEF Woken, IInv, ThreadsOK
  <2>4. /\ \A t \in Woken : TickState[t] = "Ready"
        /\ \A t \in ThreadId \ Woken :
             TickState[t] = state[t] \/ (state[t] \in Run /\ TickState[t] \in Run)
    BY <1>13, <2>3 DEF TickState, SliceOver, TimerTick, WindowFitsSlice, IInv, CurrOK, TypeOK, Window
  <2> DEFINE n == Chosen(TickState, TickQueue(w))
  <2>5. \A t \in ThreadId : \/ state'[t] = TickState[t]
                            \/ TickState[t] \in Run /\ state'[t] \in Run
    <3>1. CASE state' = TickState  BY <3>1
    <3>2. CASE state' = ChosenState(TickState, TickQueue(w))
      <4>1. /\ n \in ThreadId /\ state'[n] = "Running"
            /\ n # Idle => TickState[n] = "Ready" \/ (n = curr /\ TickState[curr] = "Running")
            /\ \A u \in ThreadId \ {n} :
                 state'[u] = IF u = curr /\ StillRunning(TickState) THEN "Ready" ELSE TickState[u]
        <5>1. curr \in ThreadId /\ curr # Cleaner  BY DEF IInv, TypeOK, CurrOK
        <5> QED  BY <3>2, <2>2, <5>1, PickLemma
      <4> HIDE DEF n
      <4>2. TickState[n] \in Run  BY <4>1, <2>2
      <4> QED  BY <4>1, <4>2 DEF StillRunning
    <3> QED  BY <2>1, <3>1, <3>2
  <2>6. CASE Woken = {}  BY <2>4, <2>5, <2>6, <1>1
  <2>7. CASE Woken # {}  BY <2>3, <2>4, <2>5, <2>7, <1>3
  <2> QED  BY <2>6, <2>7
<1>14. CASE UNCHANGED vars  BY <1>1, <1>14 DEF vars
<1> QED
  BY <1>4, <1>5, <1>6, <1>7, <1>8, <1>9, <1>10, <1>11, <1>12, <1>13, <1>14
     DEF Next, SwitchStep

\* The scheduler implements Threads.tla for every number of threads: the
\* guarantees the rest of the kernel builds on.
THEOREM SchedulerImplementsThreads == Spec => ImplementsThreads
<1>1. Init => Abstract!ThrInit
  BY ThreadIdFacts DEF Init, Abstract!ThrInit, Lives, ThreadLife
<1> QED  BY <1>1, StepImplements, SpecIInv, PTL DEF Spec, ImplementsThreads, Abstract!ThrSpec
==============================================================================
