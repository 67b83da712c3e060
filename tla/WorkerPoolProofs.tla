-------------------------- MODULE WorkerPoolProofs --------------------------
(***************************************************************************)
(* Proofs about WorkerPool, for every number of workers, clients, packets  *)
(* and slab slots.                                                         *)
(***************************************************************************)
EXTENDS WorkerPool, FiniteSetTheorems, TLAPS

\* Labels at which a thread is the one owner of the slot it works on.
ClientOwns == {"recheck", "count", "push"}
WorkerOwns == {"take", "handle", "release"}
Owning == ClientOwns \cup WorkerOwns
\* Labels at which a thread has a packet at hand.
Carrying == {"acquire", "recheck", "count", "push", "announce", "handle"}

(* Who owns a slot: the free list, one queue, or one thread.               *)
SlotOwnership ==
  /\ \A s \in Queued : s \notin free /\ slots[s] \in Packets
  /\ \A w \in Workers : injector \cap local[w] = {}
  /\ \A v, w \in Workers : v # w => local[v] \cap local[w] = {}
  /\ \A t \in Threads : pc[t] \in Owning => slot[t] \in Slots \ (free \cup Queued)
  /\ \A t, u \in Threads :
       pc[t] \in Owning /\ pc[u] \in Owning /\ t # u => slot[t] # slot[u]
  /\ \A t \in Threads : pc[t] \in {"recheck", "count", "push", "take"} => slots[slot[t]] \in Packets
  /\ \A t \in Threads : pc[t] \in Carrying => packet[t] \in Packets

OwnInv == TypeOK /\ SlotOwnership

LEMMA OwnInit == Init => OwnInv
<1> SUFFICES ASSUME Init PROVE OwnInv
  OBVIOUS
<1> USE PoolAssumption DEF PoolAssumption, Init, Threads, WorkerPc, ClientPc, CloserPc
<1>1. Cardinality(Workers) \in Int
  BY FS_CardinalityType
<1>2. \A w \in Workers : local[w] = {}
  OBVIOUS
<1>3. Queued = {}
  BY <1>2 DEF Queued
<1>4. \A t \in Threads : pc[t] \in {"pop", "idle"}
  OBVIOUS
<1>5. TypeOK
  <2>1. accepting \in BOOLEAN /\ shutdown \in BOOLEAN
    OBVIOUS
  <2>2. inflight \in Int /\ live \in Int /\ parked \in Int
    BY <1>1
  <2>3. /\ slots \in [Slots -> Packets \cup {None}] /\ free \subseteq Slots
        /\ injector \subseteq Slots /\ local \in [Workers -> SUBSET Slots]
        /\ slot \in [Threads -> Slots \cup {None}]
        /\ packet \in [Threads -> Packets \cup {None}]
        /\ scanned \in [Workers -> SUBSET Workers]
    OBVIOUS
  <2>4. /\ mutex \in Threads \cup {None} /\ waiting \subseteq Threads
        /\ submitted \subseteq Packets /\ handled \subseteq Packets
        /\ accepted \in [Clients -> SUBSET Packets]
    OBVIOUS
  <2>5. /\ pc \in [Threads -> WorkerPc \cup ClientPc \cup CloserPc]
        /\ \A w \in Workers : pc[w] \in WorkerPc
        /\ \A c \in Clients : pc[c] \in ClientPc
        /\ pc[Closer] \in CloserPc
    OBVIOUS
  <2> QED
    BY <2>1, <2>2, <2>3, <2>4, <2>5 DEF TypeOK
<1>6. SlotOwnership
  BY <1>2, <1>3, <1>4 DEF SlotOwnership, Owning, ClientOwns, WorkerOwns, Carrying
<1> QED
  BY <1>5, <1>6 DEF OwnInv

LEMMA TypeStep == OwnInv /\ [Next]_vars => TypeOK'
<1> SUFFICES ASSUME OwnInv, [Next]_vars PROVE TypeOK'
  OBVIOUS
<1> TypeOK
  BY DEF OwnInv
<1>1. \A t \in Threads : /\ pc[t] \in Owning => slot[t] \in Slots
                         /\ pc[t] \in Carrying => packet[t] \in Packets
  BY DEF OwnInv, SlotOwnership
<1> USE DEF TypeOK, At, Goto, Lock, Unlock, NotifyAll, Sleep, Wake, Threads,
            flagVars, slabVars, queueVars, parkVars, threadVars, historyVars,
            WorkerPc, ClientPc, CloserPc, PoolAssumption
<1> USE PoolAssumption
<1>2. ASSUME NEW w \in Workers, Pop(w) PROVE TypeOK'
  <2>1. CASE PopLocal(w) BY <2>1 DEF PopLocal
  <2>2. CASE PopInjector(w) BY <2>2 DEF PopInjector
  <2>3. CASE PopMiss(w) BY <2>3 DEF PopMiss
  <2>4. CASE StealPeer(w) BY <2>4 DEF StealPeer
  <2>5. CASE PeerEmpty(w) BY <2>5 DEF PeerEmpty
  <2>6. CASE StealMiss(w) BY <2>6 DEF StealMiss
  <2> QED
    BY <1>2, <2>1, <2>2, <2>3, <2>4, <2>5, <2>6 DEF Pop
<1>3. ASSUME NEW w \in Workers, ProcessPacket(w) PROVE TypeOK'
  <2>1. CASE Take(w) BY <1>1, <2>1 DEF Take, Owning, WorkerOwns
  <2>2. CASE Handle(w) BY <1>1, <2>2 DEF Handle, Carrying
  <2>3. CASE Release(w) BY <1>1, <2>3 DEF Release, Owning, WorkerOwns
  <2>4. CASE CountDown(w) BY <2>4 DEF CountDown
  <2>5. CASE Report(w) BY <2>5 DEF Report
  <2> QED
    BY <1>3, <2>1, <2>2, <2>3, <2>4, <2>5 DEF ProcessPacket
<1>4. ASSUME NEW w \in Workers, Park(w) PROVE TypeOK'
  <2>1. CASE ParkLock(w) BY <2>1 DEF ParkLock
  <2>2. CASE ParkReturn(w) BY <2>2 DEF ParkReturn
  <2>3. CASE ParkBegin(w) BY <2>3 DEF ParkBegin
  <2>4. CASE Unpark(w) BY <2>4 DEF Unpark
  <2>5. CASE ParkedExitCheck(w) BY <2>5 DEF ParkedExitCheck
  <2>6. CASE ParkSleep(w) BY <2>6 DEF ParkSleep
  <2>7. CASE ParkWake(w) BY <2>7 DEF ParkWake
  <2> QED
    BY <1>4, <2>1, <2>2, <2>3, <2>4, <2>5, <2>6, <2>7 DEF Park
<1>5. ASSUME NEW w \in Workers, Exit(w) PROVE TypeOK'
  <2>1. CASE Leave(w) BY <2>1 DEF Leave
  <2>2. CASE Goodbye(w) BY <2>2 DEF Goodbye
  <2> QED
    BY <1>5, <2>1, <2>2 DEF Exit
<1>6. ASSUME NEW c \in Clients, Submit(c) PROVE TypeOK'
  <2>1. CASE SubmitCheck(c) BY <2>1 DEF SubmitCheck
  <2>2. CASE SubmitAcquire(c) BY <1>1, <2>2 DEF SubmitAcquire, SubmitRefused, Carrying
  <2>3. CASE SubmitRecheck(c)
    BY <1>1, <2>3 DEF SubmitRecheck, SubmitRefused, Owning, ClientOwns
  <2>4. CASE SubmitCount(c) BY <2>4 DEF SubmitCount
  <2>5. CASE SubmitPush(c) BY <1>1, <2>5 DEF SubmitPush, Owning, ClientOwns
  <2>6. CASE SubmitAnnounce(c) BY <1>1, <2>6 DEF SubmitAnnounce, Carrying
  <2> QED
    BY <1>6, <2>1, <2>2, <2>3, <2>4, <2>5, <2>6 DEF Submit
<1>7. ASSUME NEW c \in Clients, WaitForIdle(c) PROVE TypeOK'
  <2>1. CASE IdleLock(c) BY <2>1 DEF IdleLock
  <2>2. CASE IdleCheck(c) BY <2>2 DEF IdleCheck
  <2>3. CASE IdleWake(c) BY <2>3 DEF IdleWake
  <2> QED
    BY <1>7, <2>1, <2>2, <2>3 DEF WaitForIdle
<1>8. CASE Shutdown
  <2>1. CASE StopAccepting BY <2>1 DEF StopAccepting
  <2>2. CASE RaiseShutdown BY <2>2 DEF RaiseShutdown
  <2>3. CASE AnnounceShutdown BY <2>3 DEF AnnounceShutdown
  <2>4. CASE JoinWorkers BY <2>4 DEF JoinWorkers
  <2> QED
    BY <1>8, <2>1, <2>2, <2>3, <2>4 DEF Shutdown
<1>9. CASE UNCHANGED vars
  BY <1>9 DEF vars
<1> QED
  BY <1>2, <1>3, <1>4, <1>5, <1>6, <1>7, <1>8, <1>9 DEF Next, WorkerStep, ClientStep

\* What a step of SlotOwnership leaves to show when it moves no slot.
LEMMA OwnUnmoved ==
  ASSUME OwnInv, TypeOK',
         UNCHANGED <<slots, free, injector, local, slot>>,
         \A t \in Threads : /\ pc'[t] \in Owning => pc[t] \in Owning
                            /\ pc'[t] \in {"recheck", "count", "push", "take"} =>
                                 pc[t] \in {"recheck", "count", "push", "take"},
         \A t \in Threads : pc'[t] \in Carrying => packet'[t] \in Packets
  PROVE  OwnInv'
<1>1. Queued' = Queued
  BY DEF Queued
<1> QED
  BY <1>1 DEF OwnInv, SlotOwnership, Owning, ClientOwns, WorkerOwns, TypeOK


LEMMA OwnStep == OwnInv /\ [Next]_vars => OwnInv'
<1> SUFFICES ASSUME OwnInv, [Next]_vars PROVE OwnInv'
  OBVIOUS
<1>1. TypeOK /\ SlotOwnership /\ TypeOK'
  BY TypeStep DEF OwnInv
<1>2. ASSUME \/ \E w \in Workers :
                  \/ PopMiss(w) \/ PeerEmpty(w) \/ StealMiss(w) \/ Handle(w)
                  \/ CountDown(w) \/ Report(w) \/ Park(w) \/ Exit(w)
             \/ \E c \in Clients :
                  SubmitCheck(c) \/ SubmitCount(c) \/ WaitForIdle(c)
             \/ Shutdown \/ UNCHANGED vars
      PROVE  OwnInv'
  <2>1. UNCHANGED <<slots, free, injector, local, slot>>
    BY <1>2 DEF vars, flagVars, slabVars, queueVars, threadVars, PopMiss, PeerEmpty, StealMiss,
      Handle, CountDown, Report, Park, ParkLock, ParkReturn, ParkBegin, Unpark,
      ParkedExitCheck, ParkSleep, ParkWake, Exit, Leave, Goodbye, SubmitCheck, SubmitCount,
      WaitForIdle, IdleLock, IdleCheck, IdleWake, Shutdown, StopAccepting, RaiseShutdown,
      AnnounceShutdown, JoinWorkers
  <2> DEFINE Q == \A t \in Threads :
          /\ pc'[t] \in Owning => pc[t] \in Owning
          /\ pc'[t] \in {"recheck", "count", "push", "take"} =>
               pc[t] \in {"recheck", "count", "push", "take"}
          /\ pc'[t] \in Carrying => packet'[t] \in Packets
  <2>2. Q
    <3> USE <1>1 DEF TypeOK, SlotOwnership, At, Goto, NotifyAll, Sleep, Wake, Threads, Owning,
                     ClientOwns, WorkerOwns, Carrying, threadVars
    <3>1. ASSUME NEW w \in Workers,
                 PopMiss(w) \/ PeerEmpty(w) \/ StealMiss(w) \/ Handle(w) \/ CountDown(w)
                 \/ Report(w) \/ Exit(w)
          PROVE  Q
      BY <3>1 DEF PopMiss, PeerEmpty, StealMiss, Handle, CountDown, Report, Exit, Leave, Goodbye
    <3>2. ASSUME NEW w \in Workers, Park(w)
          PROVE  Q
      BY <3>2 DEF Park, ParkLock, ParkReturn, ParkBegin, Unpark, ParkedExitCheck, ParkSleep, ParkWake
    <3>3. ASSUME NEW c \in Clients, SubmitCheck(c) \/ SubmitCount(c) \/ WaitForIdle(c)
          PROVE  Q
      BY <3>3 DEF SubmitCheck, SubmitCount, WaitForIdle, IdleLock, IdleCheck, IdleWake
    <3>4. CASE Shutdown \/ UNCHANGED vars
      BY <3>4 DEF vars, Shutdown, StopAccepting, RaiseShutdown, AnnounceShutdown, JoinWorkers
    <3> QED
      BY <1>2, <3>1, <3>2, <3>3, <3>4
  <2> QED
    BY <1>1, <2>1, <2>2, OwnUnmoved
<1> USE <1>1 DEF TypeOK, SlotOwnership, OwnInv, Owning, ClientOwns, WorkerOwns, Carrying, At, Goto,
        Queued, slabVars, queueVars, threadVars, Threads, PoolAssumption
<1> USE PoolAssumption
<1>3. ASSUME NEW w \in Workers, PopLocal(w) PROVE OwnInv'
  BY <1>3 DEF PopLocal
<1>4. ASSUME NEW w \in Workers, PopInjector(w) PROVE OwnInv'
  BY <1>4 DEF PopInjector
<1>5. ASSUME NEW w \in Workers, StealPeer(w) PROVE OwnInv'
  BY <1>5 DEF StealPeer
<1>6. ASSUME NEW w \in Workers, Take(w) PROVE OwnInv'
  BY <1>6 DEF Take
<1>7. ASSUME NEW w \in Workers, Release(w) PROVE OwnInv'
  BY <1>7 DEF Release
<1>8. ASSUME NEW c \in Clients, SubmitAcquire(c) PROVE OwnInv'
  BY SMTT(60), <1>8 DEF SubmitAcquire, SubmitRefused
<1>9. ASSUME NEW c \in Clients, SubmitRecheck(c) PROVE OwnInv'
  BY SMTT(60), <1>9 DEF SubmitRecheck, SubmitRefused
<1>10. ASSUME NEW c \in Clients, SubmitPush(c) PROVE OwnInv'
  BY <1>10 DEF SubmitPush
<1>11. ASSUME NEW c \in Clients, SubmitAnnounce(c) PROVE OwnInv'
  BY <1>11 DEF SubmitAnnounce, NotifyAll
<1> QED
  BY <1>2, <1>3, <1>4, <1>5, <1>6, <1>7, <1>8, <1>9, <1>10, <1>11
     DEF Next, WorkerStep, ClientStep, Pop, ProcessPacket, Submit


(* A slot has one owner, and every variable its type, in every state.      *)
THEOREM Ownership == Spec => []OwnInv
BY OwnInit, OwnStep, PTL DEF Spec

-----------------------------------------------------------------------------
\* The two things inflight counts.
Counted == Queued \cup InHand({"push", "take", "handle", "release"})
Finishing == Standing({"countDown"})

LEMMA CountedFinite == OwnInv => IsFiniteSet(Counted) /\ IsFiniteSet(Finishing)
<1> SUFFICES ASSUME OwnInv PROVE IsFiniteSet(Counted) /\ IsFiniteSet(Finishing)
  OBVIOUS
<1>1. Counted \subseteq Slots
  BY DEF OwnInv, TypeOK, SlotOwnership, Counted, Queued, InHand, Standing, Owning, ClientOwns,
         WorkerOwns
<1>2. IsFiniteSet(Threads)
  <2>1. IsFiniteSet(Workers \cup Clients)
    BY PoolAssumption, FS_Union DEF PoolAssumption
  <2> QED
    BY <2>1, FS_AddElement DEF Threads
<1>3. Finishing \subseteq Threads
  BY DEF Finishing, Standing
<1> QED
  BY <1>1, <1>2, <1>3, FS_Subset, PoolAssumption DEF PoolAssumption

LEMMA RemoveOne ==
  ASSUME NEW S, NEW x \in S, IsFiniteSet(S)
  PROVE  Cardinality(S \ {x}) = Cardinality(S) - 1
BY FS_RemoveElement

\* A step that leaves the counted sets alone, or moves a slot inside them.
LEMMA CountUnmoved ==
  ASSUME InflightCounts, UNCHANGED <<Counted, Finishing, inflight>>
  PROVE  InflightCounts'
BY DEF InflightCounts, Counted, Finishing

LEMMA CountStep == OwnInv /\ InflightCounts /\ [Next]_vars => InflightCounts'
<1> SUFFICES ASSUME OwnInv, InflightCounts, [Next]_vars PROVE InflightCounts'
  OBVIOUS
<1>1. TypeOK /\ SlotOwnership /\ TypeOK'
  BY TypeStep DEF OwnInv
<1>2. /\ IsFiniteSet(Counted) /\ IsFiniteSet(Finishing)
      /\ Cardinality(Counted) \in Nat /\ Cardinality(Finishing) \in Nat
  BY CountedFinite, FS_CardinalityType
<1>3. inflight = Cardinality(Counted) + Cardinality(Finishing)
  BY DEF InflightCounts, Counted, Finishing
<1> USE <1>1, PoolAssumption DEF TypeOK, At, Goto, NotifyAll, Sleep, Wake, Threads,
      flagVars, slabVars, queueVars, threadVars, PoolAssumption
<1>4. ASSUME NEW c \in Clients, SubmitCount(c) PROVE InflightCounts'
  <2> USE <1>4 DEF SubmitCount
  <2>1. slot[c] \notin Counted
    BY DEF SlotOwnership, Counted, InHand, Standing, Owning, ClientOwns, WorkerOwns
  <2>2. Counted' = Counted \cup {slot[c]}
    BY DEF Counted, Queued, InHand, Standing
  <2>3. Finishing' = Finishing
    BY DEF Finishing, Standing
  <2>4. Cardinality(Counted') = Cardinality(Counted) + 1
    BY <1>2, <2>1, <2>2, FS_AddElement
  <2> QED
    BY <1>2, <1>3, <2>3, <2>4 DEF InflightCounts, Counted, Finishing
<1>5. ASSUME NEW w \in Workers, Release(w) PROVE InflightCounts'
  <2> USE <1>5 DEF Release
  <2>1. slot[w] \in Counted
    BY DEF Counted, InHand, Standing
  <2>2. Counted' = Counted \ {slot[w]}
    BY DEF Counted, Queued, InHand, Standing, SlotOwnership, Owning, ClientOwns, WorkerOwns
  <2>3. Finishing' = Finishing \cup {w} /\ w \notin Finishing
    BY DEF Finishing, Standing
  <2>4. Cardinality(Counted') = Cardinality(Counted) - 1
    <3>1. Cardinality(Counted \ {slot[w]}) = Cardinality(Counted) - 1
      BY <1>2, <2>1, RemoveOne
    <3> QED
      BY <2>2, <3>1
  <2>5. Cardinality(Finishing') = Cardinality(Finishing) + 1
    BY <1>2, <2>3, FS_AddElement
  <2> QED
    BY <1>2, <1>3, <2>4, <2>5 DEF InflightCounts, Counted, Finishing
<1>6. ASSUME NEW w \in Workers, CountDown(w) PROVE InflightCounts'
  <2> USE <1>6 DEF CountDown
  <2>1. Counted' = Counted
    BY DEF Counted, Queued, InHand, Standing
  <2>2. Finishing' = Finishing \ {w} /\ w \in Finishing
    BY DEF Finishing, Standing
  <2>3. Cardinality(Finishing') = Cardinality(Finishing) - 1
    BY <1>2, <2>2, FS_RemoveElement
  <2>4. inflight' = inflight - 1
    OBVIOUS
  <2>5. inflight' = Cardinality(Counted') + Cardinality(Finishing')
    BY <1>2, <1>3, <2>1, <2>3, <2>4
  <2> QED
    BY <2>5 DEF InflightCounts, Counted, Finishing
<1> USE DEF Counted, Finishing, Queued, InHand, Standing
<1>7. ASSUME NEW w \in Workers, PopLocal(w) PROVE InflightCounts'
  <2>1. UNCHANGED <<Counted, Finishing, inflight>>
    BY <1>7 DEF PopLocal
  <2> QED
    BY <2>1, CountUnmoved
<1>8. ASSUME NEW w \in Workers, PopInjector(w) PROVE InflightCounts'
  <2>1. UNCHANGED <<Counted, Finishing, inflight>>
    BY <1>8 DEF PopInjector
  <2> QED
    BY <2>1, CountUnmoved
<1>9. ASSUME NEW w \in Workers, StealPeer(w) PROVE InflightCounts'
  <2>1. UNCHANGED <<Counted, Finishing, inflight>>
    BY <1>9 DEF StealPeer
  <2> QED
    BY <2>1, CountUnmoved
<1>10. ASSUME NEW w \in Workers,
              PopMiss(w) \/ PeerEmpty(w) \/ StealMiss(w) \/ Take(w) \/ Handle(w) \/ Report(w)
              \/ Exit(w)
       PROVE InflightCounts'
  <2>1. UNCHANGED <<Counted, Finishing, inflight>>
    BY <1>10 DEF PopMiss, PeerEmpty, StealMiss, Take, Handle, Report, Exit, Leave, Goodbye
  <2> QED
    BY <2>1, CountUnmoved
<1>11. ASSUME NEW w \in Workers, Park(w) PROVE InflightCounts'
  <2>1. UNCHANGED <<Counted, Finishing, inflight>>
    BY <1>11 DEF Park, ParkLock, ParkReturn, ParkBegin, Unpark, ParkedExitCheck, ParkSleep, ParkWake
  <2> QED
    BY <2>1, CountUnmoved
<1>12. ASSUME NEW c \in Clients,
              SubmitCheck(c) \/ SubmitAcquire(c) \/ SubmitRecheck(c) \/ SubmitAnnounce(c)
              \/ WaitForIdle(c)
       PROVE InflightCounts'
  <2>1. UNCHANGED <<Counted, Finishing, inflight>>
    BY <1>12 DEF SubmitCheck, SubmitAcquire, SubmitRecheck, SubmitRefused, SubmitAnnounce,
                 WaitForIdle, IdleLock, IdleCheck, IdleWake
  <2> QED
    BY <2>1, CountUnmoved
<1>13. ASSUME NEW c \in Clients, SubmitPush(c) PROVE InflightCounts'
  <2>1. UNCHANGED <<Counted, Finishing, inflight>>
    BY <1>13 DEF SubmitPush
  <2> QED
    BY <2>1, CountUnmoved
<1>14. CASE Shutdown \/ UNCHANGED vars
  <2>1. UNCHANGED <<Counted, Finishing, inflight>>
    BY <1>14 DEF vars, Shutdown, StopAccepting, RaiseShutdown, AnnounceShutdown, JoinWorkers
  <2> QED
    BY <2>1, CountUnmoved
<1> QED
  BY <1>4, <1>5, <1>6, <1>7, <1>8, <1>9, <1>10, <1>11, <1>12, <1>13, <1>14
     DEF Next, WorkerStep, ClientStep, Pop, ProcessPacket, Submit


-----------------------------------------------------------------------------
\* Labels inside a critical section of the parking mutex.
LockPc == {"idleCheck", "parkCheck", "parkedExit", "parkedInjector"}

(* The mutex protects its critical sections; a thread that sleeps on the   *)
(* condvar is at a wait; and a parked worker that has read should_exit as  *)
(* false keeps the lock, so the thread that makes it true has yet to       *)
(* notify.                                                                 *)
ParkingInv ==
  /\ \A t \in Threads : pc[t] \in LockPc <=> mutex = t
  /\ \A t \in waiting : pc[t] \in {"idleAsleep", "parkedAsleep"}
  /\ \A w \in Workers : At(w, "parkedInjector") /\ ShouldExit => Notifying

WakeInv == ParkingInv /\ NoLostWakeup

LEMMA WakeInit == Init => WakeInv
BY PoolAssumption DEF PoolAssumption, Init, Threads, WakeInv, ParkingInv, NoLostWakeup, LockPc, At

LEMMA WakeStep ==
  OwnInv /\ InflightCounts /\ WakeInv /\ [Next]_vars => WakeInv'
<1> SUFFICES ASSUME OwnInv, InflightCounts, WakeInv, [Next]_vars PROVE WakeInv'
  OBVIOUS
<1>1. TypeOK /\ TypeOK'
  BY TypeStep DEF OwnInv
<1>2. inflight \in Nat
  BY CountedFinite, FS_CardinalityType DEF InflightCounts, Counted, Finishing
<1> HIDE DEF OwnInv, InflightCounts
<1> USE <1>1, PoolAssumption DEF WakeInv, ParkingInv, NoLostWakeup, TypeOK, At, Goto, Lock, Unlock,
      NotifyAll, Sleep, Wake, Threads, LockPc, ShouldExit, Notifying, Standing,
      flagVars, slabVars, queueVars, parkVars, threadVars, historyVars, PoolAssumption,
      ClientPc, WorkerPc, CloserPc
<1>3. ASSUME NEW w \in Workers, Pop(w) PROVE WakeInv'
  BY <1>3 DEF Pop, PopLocal, PopInjector, PopMiss, StealPeer, PeerEmpty, StealMiss
<1>4. ASSUME NEW w \in Workers, Take(w) \/ Handle(w) \/ Release(w) PROVE WakeInv'
  BY <1>4 DEF Take, Handle, Release
<1>5. ASSUME NEW w \in Workers, CountDown(w) PROVE WakeInv'
  BY <1>5 DEF CountDown
<1>6. ASSUME NEW w \in Workers, Report(w) PROVE WakeInv'
  BY <1>6 DEF Report
<1>7. ASSUME NEW w \in Workers, ParkLock(w) \/ ParkReturn(w) PROVE WakeInv'
  BY <1>7 DEF ParkLock, ParkReturn
<1>8. ASSUME NEW w \in Workers, ParkBegin(w) \/ Unpark(w) PROVE WakeInv'
  BY <1>8 DEF ParkBegin, Unpark
<1>9. ASSUME NEW w \in Workers, ParkedExitCheck(w) PROVE WakeInv'
  BY <1>9 DEF ParkedExitCheck
<1>10. ASSUME NEW w \in Workers, ParkSleep(w) PROVE WakeInv'
  BY <1>10 DEF ParkSleep
<1>11. ASSUME NEW w \in Workers, ParkWake(w) PROVE WakeInv'
  BY <1>11 DEF ParkWake
<1>12. ASSUME NEW w \in Workers, Exit(w) PROVE WakeInv'
  BY <1>12 DEF Exit, Leave, Goodbye
<1>13. ASSUME NEW c \in Clients, SubmitCheck(c) \/ SubmitAcquire(c) \/ SubmitRecheck(c)
       PROVE WakeInv'
  BY <1>13 DEF SubmitCheck, SubmitAcquire, SubmitRecheck, SubmitRefused
<1>14. ASSUME NEW c \in Clients, SubmitCount(c) PROVE WakeInv'
  BY <1>2, <1>14 DEF SubmitCount
<1>15. ASSUME NEW c \in Clients, SubmitPush(c) PROVE WakeInv'
  BY <1>15 DEF SubmitPush
<1>16. ASSUME NEW c \in Clients, SubmitAnnounce(c) PROVE WakeInv'
  BY <1>16 DEF SubmitAnnounce
<1>17. ASSUME NEW c \in Clients, IdleLock(c) PROVE WakeInv'
  BY <1>17 DEF IdleLock
<1>18. ASSUME NEW c \in Clients, IdleCheck(c) PROVE WakeInv'
  BY <1>18 DEF IdleCheck
<1>19. ASSUME NEW c \in Clients, IdleWake(c) PROVE WakeInv'
  BY <1>19 DEF IdleWake
<1>20. CASE StopAccepting
  BY <1>20 DEF StopAccepting
<1>21. CASE RaiseShutdown
  BY <1>21 DEF RaiseShutdown
<1>22. CASE AnnounceShutdown
  BY <1>22 DEF AnnounceShutdown
<1>23. CASE JoinWorkers
  BY <1>23 DEF JoinWorkers
<1>24. CASE UNCHANGED vars
  BY <1>24 DEF vars
<1> QED
  BY <1>3, <1>4, <1>5, <1>6, <1>7, <1>8, <1>9, <1>10, <1>11, <1>12, <1>13, <1>14, <1>15, <1>16,
     <1>17, <1>18, <1>19, <1>20, <1>21, <1>22, <1>23, <1>24
     DEF Next, WorkerStep, ClientStep, ProcessPacket, Park, Submit, WaitForIdle, Shutdown


LEMMA CountInit == Init => InflightCounts
<1> SUFFICES ASSUME Init PROVE InflightCounts
  OBVIOUS
<1>1. Counted = {} /\ Finishing = {}
  BY DEF Init, Counted, Finishing, Queued, InHand, Standing
<1>2. inflight = 0
  BY DEF Init
<1> QED
  BY <1>1, <1>2, FS_EmptySet DEF InflightCounts, Counted, Finishing

(* Well-typedness of every reachable state, for any pool.                  *)
THEOREM TypeCorrect == Spec => []TypeOK
BY Ownership, PTL DEF OwnInv

(* inflight is exact: it never underflows and it is zero only when nothing *)
(* is queued and no handler runs.                                          *)
THEOREM InflightExact == Spec => []InflightCounts
BY OwnInit, OwnStep, CountInit, CountStep, PTL DEF Spec

(* Nobody sleeps through the event it waits for.                           *)
THEOREM WakeupSafe == Spec => []NoLostWakeup
<1>1. Spec => []WakeInv
  BY OwnInit, OwnStep, CountInit, CountStep, WakeInit, WakeStep, PTL DEF Spec
<1> QED
  BY <1>1, PTL DEF WakeInv

-----------------------------------------------------------------------------
\* Slots that hold a packet nobody has taken out yet.
Pending == Queued \cup InHand({"recheck", "count", "push", "take"})
\* Threads that hold a packet outside the slab.
Holders == Standing({"acquire", "handle"})

(* A packet is in one place only, and not yet handled while it is there.   *)
Custody ==
  /\ handled \subseteq submitted
  /\ \A s \in Pending : slots[s] \in submitted \ handled
  /\ \A r, s \in Pending : r # s => slots[r] # slots[s]
  /\ \A t \in Holders : packet[t] \in submitted \ handled
  /\ \A t, u \in Holders : t # u => packet[t] # packet[u]
  /\ \A t \in Holders, s \in Pending : packet[t] # slots[s]

LEMMA CustodyUnmoved ==
  ASSUME Custody, Pending' \subseteq Pending, Holders' \subseteq Holders,
         UNCHANGED <<slots, handled, submitted>>,
         \A t \in Holders' : packet'[t] = packet[t]
  PROVE  Custody'
BY DEF Custody

LEMMA CustodyStep == OwnInv /\ Custody /\ [Next]_vars => Custody'
<1> SUFFICES ASSUME OwnInv, Custody, [Next]_vars PROVE Custody'
  OBVIOUS
<1>1. TypeOK /\ SlotOwnership /\ TypeOK'
  BY TypeStep DEF OwnInv
<1> HIDE DEF OwnInv
<1> USE <1>1, PoolAssumption DEF TypeOK, At, Goto, NotifyAll, Sleep, Wake, Threads,
      flagVars, slabVars, queueVars, threadVars, historyVars, PoolAssumption,
      Pending, Holders, Queued, InHand, Standing
<1>2. ASSUME NEW c \in Clients, SubmitCheck(c) PROVE Custody'
  <2>1. /\ Pending' \subseteq Pending /\ Holders' \subseteq Holders \cup {c}
        /\ UNCHANGED <<slots, handled>> /\ submitted \subseteq submitted'
        /\ \A t \in Holders : packet'[t] = packet[t]
    BY <1>2 DEF SubmitCheck
  <2>2. c \in Holders' => packet'[c] \in submitted' \ submitted
    BY <1>2 DEF SubmitCheck
  <2>3. c \notin Holders
    BY <1>2 DEF SubmitCheck
  <2> HIDE DEF Pending, Holders
  <2> QED
    BY <2>1, <2>2, <2>3 DEF Custody
<1>3. ASSUME NEW c \in Clients, SubmitAcquire(c) PROVE Custody'
  <2>1. CASE free = {}
    BY <1>3, <2>1, CustodyUnmoved DEF SubmitAcquire, SubmitRefused
  <2>2. ASSUME NEW s \in free,
               slots' = [slots EXCEPT ![s] = packet[c]], slot' = [slot EXCEPT ![c] = s],
               Goto(c, "recheck"), packet' = packet
        PROVE  Custody'
    <3>1. UNCHANGED <<injector, local, submitted, handled>> /\ At(c, "acquire")
      BY <1>3 DEF SubmitAcquire
    <3>2. s \notin Pending /\ c \in Holders
      BY <3>1 DEF SlotOwnership, Owning, ClientOwns, WorkerOwns
    <3>3. Pending' = Pending \cup {s} /\ Holders' = Holders \ {c}
      BY <2>2, <3>1
    <3>4. slots'[s] = packet[c] /\ \A r \in Pending : slots'[r] = slots[r]
      BY <2>2, <3>2 DEF SlotOwnership, Owning, ClientOwns, WorkerOwns
    <3> HIDE DEF Pending, Holders
    <3> QED
      BY <2>2, <3>1, <3>2, <3>3, <3>4 DEF Custody
  <2> QED
    BY <1>3, <2>1, <2>2 DEF SubmitAcquire
<1>4. ASSUME NEW c \in Clients, SubmitRecheck(c) PROVE Custody'
  BY <1>4 DEF SubmitRecheck, SubmitRefused, Custody
<1>5. ASSUME NEW c \in Clients, SubmitCount(c) \/ SubmitPush(c) \/ SubmitAnnounce(c) PROVE Custody'
  BY <1>5, CustodyUnmoved DEF SubmitCount, SubmitPush, SubmitAnnounce
<1>6. ASSUME NEW c \in Clients, WaitForIdle(c) PROVE Custody'
  BY <1>6, CustodyUnmoved DEF WaitForIdle, IdleLock, IdleCheck, IdleWake
<1>7. CASE Shutdown \/ UNCHANGED vars
  BY <1>7, CustodyUnmoved
     DEF vars, Shutdown, StopAccepting, RaiseShutdown, AnnounceShutdown, JoinWorkers
<1>8. ASSUME NEW w \in Workers, Pop(w) PROVE Custody'
  BY <1>8, CustodyUnmoved
     DEF Pop, PopLocal, PopInjector, PopMiss, StealPeer, PeerEmpty, StealMiss
<1>9. ASSUME NEW w \in Workers, Take(w) PROVE Custody'
  BY <1>9 DEF Take, Custody, SlotOwnership, Owning, ClientOwns, WorkerOwns
<1>10. ASSUME NEW w \in Workers, Handle(w) PROVE Custody'
  BY <1>10 DEF Handle, Custody
<1>11. ASSUME NEW w \in Workers,
              Release(w) \/ CountDown(w) \/ Report(w) \/ Park(w) \/ Exit(w)
       PROVE Custody'
  BY <1>11, CustodyUnmoved
     DEF Release, CountDown, Report, Exit, Leave, Goodbye, Park, ParkLock, ParkReturn, ParkBegin,
         Unpark, ParkedExitCheck, ParkSleep, ParkWake
<1> QED
  BY <1>2, <1>3, <1>4, <1>5, <1>6, <1>7, <1>8, <1>9, <1>10, <1>11
     DEF Next, WorkerStep, ClientStep, ProcessPacket, Submit

(* No packet is lost in the slab, taken twice or handled twice.            *)
THEOREM SlotsOwned == Spec => []QueuedSlotsAreOwned
<1>1. Init => Custody
  <2> SUFFICES ASSUME Init PROVE Custody
    OBVIOUS
  <2>1. Pending = {} /\ Holders = {}
    BY PoolAssumption DEF PoolAssumption, Init, Pending, Holders, Queued, InHand, Standing, Threads
  <2>2. submitted = {} /\ handled = {}
    BY DEF Init
  <2>3. QED
    BY <2>1, <2>2 DEF Custody
<1>2. OwnInv /\ Custody => QueuedSlotsAreOwned
  BY PoolAssumption DEF PoolAssumption, OwnInv, TypeOK, SlotOwnership, Custody, QueuedSlotsAreOwned,
     Pending, Holders, Queued, InHand, Standing, At, Threads, Owning, ClientOwns, WorkerOwns
<1> QED
  BY <1>1, <1>2, OwnInit, OwnStep, CustodyStep, PTL DEF Spec


=============================================================================
