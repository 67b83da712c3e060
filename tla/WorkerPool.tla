----------------------------- MODULE WorkerPool -----------------------------
(***************************************************************************)
(* The fixed GC worker pool of crates/wjsm-gc/src/worker: clients submit   *)
(* packets through a bounded slab and an injector queue, workers drain     *)
(* their own deque, the injector and their peers' deques, and everybody    *)
(* sleeps on ONE mutex/condvar pair (SharedPool.parking).                  *)
(*                                                                         *)
(* Every atomic load/store of the code is a step of its own wherever       *)
(* another thread can act in between; a critical section that only calls   *)
(* notify_all is one step, enabled while the mutex is free.  A queue is    *)
(* the set of the slots in it: which of them a deque or a thief returns    *)
(* first is left open.                                                     *)
(***************************************************************************)
EXTENDS Integers, FiniteSets

CONSTANTS
  Workers,        (* the pool's threads                                      *)
  Clients,        (* threads that call submit and wait_for_idle              *)
  Closer,         (* the thread that calls shutdown                          *)
  Packets,        (* the packets the clients have to submit                  *)
  Slots,          (* the slots of the packet slab                            *)
  None,           (* no thread, no slot, no packet                           *)
  Overlap         (* may shutdown overlap client calls (a shared pool), or   *)
                  (* does it need exclusive ownership, as Drop does?         *)

Threads == Workers \cup Clients \cup {Closer}

ASSUME PoolAssumption ==
  /\ IsFiniteSet(Workers) /\ IsFiniteSet(Clients) /\ IsFiniteSet(Slots)
  /\ Workers \cap Clients = {} /\ Closer \notin Workers \cup Clients
  /\ None \notin Threads \cup Slots \cup Packets
  /\ Overlap \in BOOLEAN

VARIABLES
  accepting,      (* SharedPool.accepting                                    *)
  shutdown,       (* SharedPool.shutdown                                     *)
  inflight,       (* SharedPool.inflight                                     *)
  live,           (* SharedPool.live_workers                                 *)
  slots,          (* PacketSlabState.slots: the packet of each slot          *)
  free,           (* PacketSlabState.free                                    *)
  injector,       (* the global queue of slots                               *)
  local,          (* the deque of each worker                                *)
  mutex,          (* holder of SharedPool.parking                            *)
  waiting,        (* threads blocked in condvar.wait                         *)
  parked,         (* ParkingState.parked                                     *)
  pc,             (* where each thread is                                    *)
  slot,           (* the slot a thread works on                              *)
  packet,         (* the packet a thread works on                            *)
  scanned,        (* peers whose deque the worker has found empty            *)
  submitted,      (* history: packets a client has tried to submit           *)
  accepted,       (* history: packets whose submit returned Ok, per client   *)
  handled         (* history: packets whose handler has returned             *)

slabVars == <<slots, free>>
queueVars == <<injector, local>>
parkVars == <<mutex, waiting, parked>>
flagVars == <<accepting, shutdown, inflight, live>>
historyVars == <<submitted, accepted, handled>>
threadVars == <<slot, packet, scanned>>
vars == <<flagVars, slabVars, queueVars, parkVars, pc, threadVars, historyVars>>

At(t, label) == pc[t] = label
Goto(t, label) == pc' = [pc EXCEPT ![t] = label]

Init ==
  /\ accepting = TRUE /\ shutdown = FALSE
  /\ inflight = 0 /\ live = Cardinality(Workers)
  /\ slots = [s \in Slots |-> None] /\ free = Slots
  /\ injector = {} /\ local = [w \in Workers |-> {}]
  /\ mutex = None /\ waiting = {} /\ parked = 0
  /\ pc = [t \in Threads |-> IF t \in Workers THEN "pop" ELSE "idle"]
  /\ slot = [t \in Threads |-> None] /\ packet = [t \in Threads |-> None]
  /\ scanned = [w \in Workers |-> {}]
  /\ submitted = {} /\ accepted = [c \in Clients |-> {}] /\ handled = {}

-----------------------------------------------------------------------------
(* The condition variable.                                                 *)

Lock(t) == mutex = None /\ mutex' = t
Unlock == mutex' = None

\* Mutant: notify_all without taking the parking lock first.
NotifyAll_Unlocked(t, next) ==
  /\ waiting' = {}
  /\ Goto(t, next)
  /\ UNCHANGED <<mutex, parked>>

\* notify_all: the lock is taken around the notification (worker/mod.rs:230).
NotifyAll(t, next) ==
  /\ mutex = None
  /\ waiting' = {}
  /\ Goto(t, next)
  /\ UNCHANGED <<mutex, parked>>

\* condvar.wait: give the lock back and sleep, in one step.
Sleep(t, label) ==
  /\ waiting' = waiting \cup {t}
  /\ Unlock
  /\ Goto(t, label)

\* A notified thread returns from condvar.wait with the lock.
Wake(t, label) ==
  /\ t \notin waiting
  /\ Lock(t)
  /\ Goto(t, label)
  /\ UNCHANGED <<waiting, parked>>

\* shutdown is read before inflight, and never goes back to FALSE.
ShouldExit == shutdown /\ inflight = 0

-----------------------------------------------------------------------------
(* submit: two checks of `accepting` around the slab acquisition.          *)

SubmitRefused(c) ==
  /\ Goto(c, "idle")
  /\ slot' = [slot EXCEPT ![c] = None]
  /\ packet' = [packet EXCEPT ![c] = None]

SubmitCheck(c) ==
  /\ At(c, "idle")
  /\ Overlap \/ At(Closer, "idle")
  /\ \E p \in Packets \ submitted :
       /\ submitted' = submitted \cup {p}
       /\ IF accepting
          THEN packet' = [packet EXCEPT ![c] = p] /\ Goto(c, "acquire")
          ELSE UNCHANGED <<packet, pc>>
  /\ UNCHANGED <<flagVars, slabVars, queueVars, parkVars, slot, scanned, accepted, handled>>

SubmitAcquire(c) ==
  /\ At(c, "acquire")
  /\ \/ /\ free = {}                               \* PacketSlabExhausted
        /\ SubmitRefused(c)
        /\ UNCHANGED slabVars
     \/ \E s \in free :
          /\ free' = free \ {s}
          /\ slots' = [slots EXCEPT ![s] = packet[c]]
          /\ slot' = [slot EXCEPT ![c] = s]
          /\ Goto(c, "recheck")
          /\ UNCHANGED packet
  /\ UNCHANGED <<flagVars, queueVars, parkVars, scanned, historyVars>>

SubmitRecheck(c) ==
  /\ At(c, "recheck")
  /\ IF accepting
     THEN Goto(c, "count") /\ UNCHANGED <<free, slot, packet>>
     ELSE free' = free \cup {slot[c]} /\ SubmitRefused(c)
  /\ UNCHANGED <<flagVars, slots, queueVars, parkVars, scanned, historyVars>>

\* Mutant: the packet is pushed but never counted.
SubmitCount_Skipped(c) ==
  /\ At(c, "count")
  /\ Goto(c, "push")
  /\ UNCHANGED <<flagVars, slabVars, queueVars, parkVars, threadVars, historyVars>>

SubmitCount(c) ==
  /\ At(c, "count")
  /\ inflight' = inflight + 1
  /\ Goto(c, "push")
  /\ UNCHANGED <<accepting, shutdown, live, slabVars, queueVars, parkVars, threadVars, historyVars>>

SubmitPush(c) ==
  /\ At(c, "push")
  /\ injector' = injector \cup {slot[c]}
  /\ Goto(c, "announce")
  /\ UNCHANGED <<flagVars, slabVars, local, parkVars, threadVars, historyVars>>

\* Mutant: submit does not notify.
SubmitAnnounce_Silent(c) ==
  /\ At(c, "announce")
  /\ Goto(c, "idle")
  /\ accepted' = [accepted EXCEPT ![c] = @ \cup {packet[c]}]
  /\ slot' = [slot EXCEPT ![c] = None]
  /\ packet' = [packet EXCEPT ![c] = None]
  /\ UNCHANGED <<flagVars, slabVars, queueVars, parkVars, scanned, submitted, handled>>

SubmitAnnounce(c) ==
  /\ At(c, "announce")
  /\ NotifyAll(c, "idle")
  /\ accepted' = [accepted EXCEPT ![c] = @ \cup {packet[c]}]
  /\ slot' = [slot EXCEPT ![c] = None]
  /\ packet' = [packet EXCEPT ![c] = None]
  /\ UNCHANGED <<flagVars, slabVars, queueVars, scanned, submitted, handled>>

Submit(c) ==
  \/ SubmitCheck(c) \/ SubmitAcquire(c) \/ SubmitRecheck(c)
  \/ SubmitCount(c) \/ SubmitPush(c) \/ SubmitAnnounce(c)

-----------------------------------------------------------------------------
(* wait_for_idle: sleep until inflight is zero.                            *)

IdleLock(c) ==
  /\ At(c, "idle")
  /\ Overlap \/ At(Closer, "idle")
  /\ Lock(c)
  /\ Goto(c, "idleCheck")
  /\ UNCHANGED <<flagVars, slabVars, queueVars, waiting, parked, threadVars, historyVars>>

IdleCheck(c) ==
  /\ At(c, "idleCheck")
  /\ IF inflight # 0
     THEN Sleep(c, "idleAsleep")
     ELSE Unlock /\ Goto(c, "idle") /\ UNCHANGED waiting
  /\ UNCHANGED <<flagVars, slabVars, queueVars, parked, threadVars, historyVars>>

\* Mutant: `if` instead of `while` around condvar.wait.
IdleWake_NoRecheck(c) ==
  /\ At(c, "idleAsleep")
  /\ c \notin waiting
  /\ Goto(c, "idle")
  /\ UNCHANGED <<flagVars, slabVars, queueVars, parkVars, threadVars, historyVars>>

IdleWake(c) ==
  /\ At(c, "idleAsleep")
  /\ Wake(c, "idleCheck")
  /\ UNCHANGED <<flagVars, slabVars, queueVars, threadVars, historyVars>>

WaitForIdle(c) == IdleLock(c) \/ IdleCheck(c) \/ IdleWake(c)

-----------------------------------------------------------------------------
(* shutdown: stop accepting, raise the flag, wake everybody, join.         *)

StopAccepting ==
  /\ At(Closer, "idle")
  /\ Overlap \/ \A c \in Clients : At(c, "idle")
  /\ accepting' = FALSE
  /\ Goto(Closer, "raise")
  /\ UNCHANGED <<shutdown, inflight, live, slabVars, queueVars, parkVars, threadVars, historyVars>>

RaiseShutdown ==
  /\ At(Closer, "raise")
  /\ shutdown' = TRUE
  /\ Goto(Closer, "wakeAll")
  /\ UNCHANGED <<accepting, inflight, live, slabVars, queueVars, parkVars, threadVars, historyVars>>

\* Mutant: the flag is raised but nobody is woken.
AnnounceShutdown_Silent ==
  /\ At(Closer, "wakeAll")
  /\ Goto(Closer, "join")
  /\ UNCHANGED <<flagVars, slabVars, queueVars, parkVars, threadVars, historyVars>>

AnnounceShutdown ==
  /\ At(Closer, "wakeAll")
  /\ NotifyAll(Closer, "join")
  /\ UNCHANGED <<flagVars, slabVars, queueVars, threadVars, historyVars>>

\* Every JoinHandle is joined; wait_for_stopped then finds live_workers = 0.
JoinWorkers ==
  /\ At(Closer, "join")
  /\ \A w \in Workers : At(w, "done")
  /\ live = 0
  /\ Goto(Closer, "closed")
  /\ UNCHANGED <<flagVars, slabVars, queueVars, parkVars, threadVars, historyVars>>

Shutdown == StopAccepting \/ RaiseShutdown \/ AnnounceShutdown \/ JoinWorkers

-----------------------------------------------------------------------------
(* WorkerQueues::pop: own deque, then a batch of the injector, then peers. *)

PopLocal(w) ==
  /\ At(w, "pop")
  /\ \E s \in local[w] :
       /\ slot' = [slot EXCEPT ![w] = s]
       /\ local' = [local EXCEPT ![w] = @ \ {s}]
  /\ Goto(w, "take")
  /\ UNCHANGED <<flagVars, slabVars, injector, parkVars, packet, scanned, historyVars>>

\* steal_batch_and_pop moves a batch whose size the deque library chooses.
PopInjector(w) ==
  /\ At(w, "pop")
  /\ local[w] = {}
  /\ \E batch \in SUBSET injector : \E s \in batch :
       /\ slot' = [slot EXCEPT ![w] = s]
       /\ local' = [local EXCEPT ![w] = batch \ {s}]
       /\ injector' = injector \ batch
  /\ Goto(w, "take")
  /\ UNCHANGED <<flagVars, slabVars, parkVars, packet, scanned, historyVars>>

PopMiss(w) ==
  /\ At(w, "pop")
  /\ local[w] = {} /\ injector = {}
  /\ scanned' = [scanned EXCEPT ![w] = {}]
  /\ Goto(w, "steal")
  /\ UNCHANGED <<flagVars, slabVars, queueVars, parkVars, slot, packet, historyVars>>

\* steal_peer visits the other deques one at a time.
StealPeer(w) ==
  /\ At(w, "steal")
  /\ \E v \in Workers \ ({w} \cup scanned[w]), s \in Slots :
       /\ s \in local[v]
       /\ slot' = [slot EXCEPT ![w] = s]
       /\ local' = [local EXCEPT ![v] = @ \ {s}]
  /\ Goto(w, "take")
  /\ UNCHANGED <<flagVars, slabVars, injector, parkVars, packet, scanned, historyVars>>

PeerEmpty(w) ==
  /\ At(w, "steal")
  /\ \E v \in Workers \ ({w} \cup scanned[w]) :
       /\ local[v] = {}
       /\ scanned' = [scanned EXCEPT ![w] = @ \cup {v}]
  /\ UNCHANGED <<flagVars, slabVars, queueVars, parkVars, pc, slot, packet, historyVars>>

StealMiss(w) ==
  /\ At(w, "steal")
  /\ Workers = {w} \cup scanned[w]
  /\ Goto(w, IF ShouldExit THEN "leave" ELSE "park")
  /\ UNCHANGED <<flagVars, slabVars, queueVars, parkVars, threadVars, historyVars>>

Pop(w) ==
  \/ PopLocal(w) \/ PopInjector(w) \/ PopMiss(w)
  \/ StealPeer(w) \/ PeerEmpty(w) \/ StealMiss(w)

-----------------------------------------------------------------------------
(* process_packet: take, run the handler, release the slot, count down.    *)

\* Mutant: the slot goes back to the free list when its packet is taken, and
\* again when the packet is done.
Take_Frees(w) ==
  /\ At(w, "take")
  /\ packet' = [packet EXCEPT ![w] = slots[slot[w]]]
  /\ slots' = [slots EXCEPT ![slot[w]] = None]
  /\ free' = free \cup {slot[w]}
  /\ Goto(w, "handle")
  /\ UNCHANGED <<flagVars, queueVars, parkVars, slot, scanned, historyVars>>

\* Mutant: the slot id is forgotten together with the packet.
Take_Forgets(w) ==
  /\ At(w, "take")
  /\ packet' = [packet EXCEPT ![w] = slots[slot[w]]]
  /\ slots' = [slots EXCEPT ![slot[w]] = None]
  /\ slot' = [slot EXCEPT ![w] = None]
  /\ Goto(w, "handle")
  /\ UNCHANGED <<flagVars, free, queueVars, parkVars, scanned, historyVars>>

Take(w) ==
  /\ At(w, "take")
  /\ packet' = [packet EXCEPT ![w] = slots[slot[w]]]
  /\ slots' = [slots EXCEPT ![slot[w]] = None]
  /\ Goto(w, "handle")
  /\ UNCHANGED <<flagVars, free, queueVars, parkVars, slot, scanned, historyVars>>

Handle(w) ==
  /\ At(w, "handle")
  /\ handled' = handled \cup {packet[w]}
  /\ packet' = [packet EXCEPT ![w] = None]
  /\ Goto(w, "release")
  /\ UNCHANGED <<flagVars, slabVars, queueVars, parkVars, slot, scanned, submitted, accepted>>

Release(w) ==
  /\ At(w, "release")
  /\ free' = free \cup {slot[w]}
  /\ slot' = [slot EXCEPT ![w] = None]
  /\ Goto(w, "countDown")
  /\ UNCHANGED <<flagVars, slots, queueVars, parkVars, packet, scanned, historyVars>>

CountDown(w) ==
  /\ At(w, "countDown")
  /\ inflight' = inflight - 1
  /\ Goto(w, "report")
  /\ UNCHANGED <<accepting, shutdown, live, slabVars, queueVars, parkVars, threadVars, historyVars>>

Report(w) ==
  /\ At(w, "report")
  /\ NotifyAll(w, "pop")
  /\ UNCHANGED <<flagVars, slabVars, queueVars, threadVars, historyVars>>

ProcessPacket(w) == Take(w) \/ Handle(w) \/ Release(w) \/ CountDown(w) \/ Report(w)

-----------------------------------------------------------------------------
(* park_until_work_or_shutdown: both predicates are read under the lock.   *)

ParkLock(w) ==
  /\ At(w, "park")
  /\ Lock(w)
  /\ Goto(w, "parkCheck")
  /\ UNCHANGED <<flagVars, slabVars, queueVars, waiting, parked, threadVars, historyVars>>

ParkReturn(w) ==
  /\ At(w, "parkCheck")
  /\ ShouldExit \/ injector # {}
  /\ Unlock
  /\ Goto(w, "pop")
  /\ UNCHANGED <<flagVars, slabVars, queueVars, waiting, parked, threadVars, historyVars>>

ParkBegin(w) ==
  /\ At(w, "parkCheck")
  /\ ~ShouldExit /\ injector = {}
  /\ parked' = parked + 1
  /\ waiting' = {}
  /\ Goto(w, "parkedExit")
  /\ UNCHANGED <<flagVars, slabVars, queueVars, mutex, threadVars, historyVars>>

\* The while condition reads should_exit first, the injector second.
Unpark(w) ==
  /\ \/ At(w, "parkedExit") /\ ShouldExit
     \/ At(w, "parkedInjector") /\ injector # {}
  /\ parked' = parked - 1
  /\ waiting' = {}
  /\ Unlock
  /\ Goto(w, "pop")
  /\ UNCHANGED <<flagVars, slabVars, queueVars, threadVars, historyVars>>

ParkedExitCheck(w) ==
  /\ At(w, "parkedExit")
  /\ ~ShouldExit
  /\ Goto(w, "parkedInjector")
  /\ UNCHANGED <<flagVars, slabVars, queueVars, parkVars, threadVars, historyVars>>

ParkSleep(w) ==
  /\ At(w, "parkedInjector")
  /\ injector = {}
  /\ Sleep(w, "parkedAsleep")
  /\ UNCHANGED <<flagVars, slabVars, queueVars, parked, threadVars, historyVars>>

ParkWake(w) ==
  /\ At(w, "parkedAsleep")
  /\ Wake(w, "parkedExit")
  /\ UNCHANGED <<flagVars, slabVars, queueVars, threadVars, historyVars>>

Park(w) ==
  \/ ParkLock(w) \/ ParkReturn(w) \/ ParkBegin(w) \/ Unpark(w)
  \/ ParkedExitCheck(w) \/ ParkSleep(w) \/ ParkWake(w)

Leave(w) ==
  /\ At(w, "leave")
  /\ live' = live - 1
  /\ Goto(w, "goodbye")
  /\ UNCHANGED <<accepting, shutdown, inflight, slabVars, queueVars, parkVars, threadVars, historyVars>>

Goodbye(w) ==
  /\ At(w, "goodbye")
  /\ NotifyAll(w, "done")
  /\ UNCHANGED <<flagVars, slabVars, queueVars, threadVars, historyVars>>

Exit(w) == Leave(w) \/ Goodbye(w)

-----------------------------------------------------------------------------
WorkerStep(w) == Pop(w) \/ ProcessPacket(w) \/ Park(w) \/ Exit(w)
ClientStep(c) == Submit(c) \/ WaitForIdle(c)

Next ==
  \/ \E w \in Workers : WorkerStep(w)
  \/ \E c \in Clients : ClientStep(c)
  \/ Shutdown

Spec == Init /\ [][Next]_vars

(* The operating system schedules every thread; a thread inside a call     *)
(* runs on.  Nothing obliges a client to make another call, but the owner  *)
(* does drop the pool once its clients are done.                           *)
FairSpec ==
  /\ Spec
  /\ \A w \in Workers : WF_vars(WorkerStep(w))
  /\ \A c \in Clients : WF_vars(~At(c, "idle") /\ ClientStep(c))
  /\ WF_vars(~At(Closer, "idle") /\ Shutdown)

-----------------------------------------------------------------------------
(* Properties.                                                             *)

WorkerPc ==
  { "pop", "steal", "take", "handle", "release", "countDown", "report", "park",
    "parkCheck", "parkedExit", "parkedInjector", "parkedAsleep", "leave",
    "goodbye", "done" }
ClientPc ==
  { "idle", "acquire", "recheck", "count", "push", "announce", "idleCheck", "idleAsleep" }
CloserPc == {"idle", "raise", "wakeAll", "join", "closed"}

\* The values every variable may take.
TypeOK ==
  /\ accepting \in BOOLEAN /\ shutdown \in BOOLEAN
  /\ inflight \in Int /\ live \in Int
  /\ slots \in [Slots -> Packets \cup {None}] /\ free \subseteq Slots
  /\ injector \subseteq Slots /\ local \in [Workers -> SUBSET Slots]
  /\ mutex \in Threads \cup {None} /\ waiting \subseteq Threads
  /\ parked \in Int
  /\ pc \in [Threads -> WorkerPc \cup ClientPc \cup CloserPc]
  /\ \A w \in Workers : pc[w] \in WorkerPc
  /\ \A c \in Clients : pc[c] \in ClientPc
  /\ pc[Closer] \in CloserPc
  /\ slot \in [Threads -> Slots \cup {None}]
  /\ packet \in [Threads -> Packets \cup {None}]
  /\ scanned \in [Workers -> SUBSET Workers]
  /\ submitted \subseteq Packets /\ handled \subseteq Packets
  /\ accepted \in [Clients -> SUBSET Packets]

Accepted == UNION {accepted[c] : c \in Clients}

\* The slots in a queue, and those of the threads at one of `labels`.
Queued == injector \cup UNION {local[w] : w \in Workers}
Standing(labels) == {t \in Threads : pc[t] \in labels}
InHand(labels) == {slot[t] : t \in Standing(labels)}

(* A slot on its way to a worker still holds its packet and nobody else    *)
(* can be given it: PacketSlab::take never finds the slot empty (its       *)
(* expect, packet.rs:91) and no packet is handled twice, whatever two      *)
(* submitters, a stealing peer and a refused submit do.                    *)
QueuedSlotsAreOwned ==
  /\ \A s \in Queued \cup InHand({"recheck", "count", "push", "take"}) :
       slots[s] # None /\ s \notin free
  /\ InHand({"recheck", "count", "push", "take", "handle", "release"}) \cap Queued = {}
  /\ \A w \in Workers : At(w, "handle") => packet[w] \notin handled

(* inflight counts exactly the packets between a submit's count and the    *)
(* end of their process_packet: it never underflows (the debug_assert at   *)
(* worker/mod.rs:267), and zero means that nothing is under way.           *)
InflightCounts ==
  inflight = Cardinality(Queued \cup InHand({"push", "take", "handle", "release"}))
             + Cardinality(Standing({"countDown"}))

Notifying == Standing({"announce", "wakeAll", "report"}) # {}

(* The lost wakeup the comment at worker/mod.rs:231 describes: nobody      *)
(* sleeps on the condvar while what it waits for is already true, unless   *)
(* the thread that made it true is still about to notify.                  *)
NoLostWakeup ==
  /\ waiting \cap Workers # {} /\ injector # {} =>
       \E c \in Clients : At(c, "announce")
  /\ waiting \cap Workers # {} /\ ShouldExit => Notifying
  /\ waiting \cap Clients # {} /\ inflight = 0 => Notifying

(* wait_for_idle returns only once every packet this caller had accepted   *)
(* has been handled: the collector relies on it between two phases.        *)
IdleMeansHandled ==
  [][\A c \in Clients :
       pc[c] \in {"idleCheck", "idleAsleep"} /\ At(c, "idle")' => accepted[c] \subseteq handled]_vars

(* No packet is stranded: an accepted packet is handled in the end.        *)
AcceptedIsHandled ==
  \A p \in Packets : p \in Accepted ~> p \in handled

(* No caller hangs: every wait_for_idle returns, and shutdown joins.       *)
WaitersReturn ==
  /\ \A c \in Clients : pc[c] # "idle" ~> At(c, "idle")
  /\ At(Closer, "raise") ~> At(Closer, "closed")

=============================================================================
