------------------------ MODULE GenerationalZgcProofs ------------------------
(***************************************************************************)
(* Proofs about GenerationalZgc for any heap, program, number of workers   *)
(* and capacities.  First the collector's variables keep their types and   *)
(* the phases of a cycle do not overlap.  Then, as long as the collector   *)
(* reports no error, no old object moves and the program does none of the  *)
(* things that are known to lose objects: a mark finds all that the        *)
(* program reaches, nothing reachable dies, and the collector implements   *)
(* HeapContract.  Last, what that contract is worth to the program.        *)
(***************************************************************************)
EXTENDS GenerationalZgc, FiniteSetTheorems, TLAPS

-----------------------------------------------------------------------------
(* The inductive invariant. *)

\* The packets of the pool fit its slab.
PacketsFit == InFlight("main") + InFlight("old") <= PacketCapacity

\* A young object is promoted before its age overflows, and an object that is
\* or will be moved has not moved as often as the bound allows.
BoundsKept ==
  /\ \A h \in Handles : entry[h] = "young" => age[h] < 2
  /\ \A h \in moving : addr[h] < MaxMoves
  /\ phase = "select" => \A h \in selected : addr[h] < MaxMoves

\* Objects move in the relocation phase.
MovingWhileRelocating == moving # {} => phase = "relocate"

\* A packet of the main queue belongs to the phase it was submitted in.
InPhase(p) ==
  /\ p.kind \in {"root", "drain"} => phase = "mark"
  /\ p.kind = "page" => phase = "select"
  /\ p.kind = "move" => phase = "relocate"

PacketsInPhase ==
  /\ \A p \in queue : InPhase(p)
  /\ \A w \in Workers : InPhase(job[w])
  /\ mut.pc = "submit" => \A p \in mut.todo : InPhase(p)

\* A worker marks inside a packet of the queue, the mutator when it assists.
HandsInPackets ==
  /\ hand[Mutator] # None => mut.pc = "assist"
  /\ \A w \in Workers : hand[w] # None =>
       job[w].kind = IF hand[w].queue = "old" THEN "oldDrain" ELSE "drain"

\* A queue nobody marks from.
Quiet(q) ==
  /\ pending[q] = {} /\ drains[q] = 0
  /\ \A m \in Markers : hand[m] # None => hand[m].queue # q

\* Each queue is quiet unless it is being marked.
MarksInTurn ==
  /\ phase # "mark" => Quiet("main")
  /\ ~oldActive => Quiet("old") /\ Busy("old") = {}

IInv ==
  /\ TypeOK /\ PacketsFit /\ BoundsKept /\ MovingWhileRelocating
  /\ PacketsInPhase /\ HandsInPackets /\ MarksInTurn


-----------------------------------------------------------------------------
(* Facts the steps share. *)

LEMMA NoneIsNoJob == \A p \in Jobs : p # None /\ p.kind # "none"
  BY DEF Jobs, Packets, None

LEMMA NoneIsNoHand == \A r \in Hands : r # None
  BY DEF Hands, None

LEMMA PacketTypes ==
  \A p \in Packets :
    /\ p.kind \in {"root", "move", "page", "drain"}
    /\ p.kind \in {"root", "move"} => p.handle \in Handles
    /\ p.kind = "page" => p.page \in Pages
  BY DEF Packets

\* What the mutator's label says of its record.
LEMMA MutatorTypes ==
  ASSUME NEW x \in MutatorStates
  PROVE  /\ x.pc \in {"run", "barrier", "assist", "grow", "submit"}
         /\ x.pc = "run" <=> x = Ready
         /\ x.pc = "submit" => x.todo \subseteq Packets
         /\ x.pc \in {"barrier", "assist"} =>
              /\ x.todo \in Seq(Records) /\ x.owner \in Handles
              /\ x.value \in Handles \cup {Null}
              /\ x \in [pc : {"barrier", "assist"}, todo : Seq(Records), owner : Handles,
                        value : Handles \cup {Null}]
         /\ x.pc = "grow" => x.handle \in Handles /\ x.gen \in {"young", "old"}
  BY DEF MutatorStates, Ready

LEMMA WordsAreHandles ==
  ASSUME field \in [Handles -> Handles \cup {Null}], NEW h \in Handles
  PROVE  Word(h) \subseteq Handles
  BY DEF Word

LEMMA RecordTypes ==
  \A r \in Records :
    /\ r.kind \in {"satb", "mark", "owner", "slot"} /\ r.handle \in Handles
    /\ r.kind = "slot" => r.addr \in Addresses
  BY DEF Records

LEMMA RoutedAreHandles ==
  ASSUME field \in [Handles -> Handles \cup {Null}], NEW q \in Queues,
         NEW records \in SUBSET Records
  PROVE  Routed(q, records) \subseteq Handles
<1>1. ASSUME NEW r \in records PROVE RecordWords(r) \subseteq Handles
  BY <1>1, RecordTypes, WordsAreHandles DEF RecordWords
<1>2. QED
  BY <1>1 DEF Routed

LEMMA RootsAreHandles ==
  ASSUME local \in [Locals -> Handles \cup {Null}]
  PROVE  Roots \subseteq Handles
  BY DEF Roots

-----------------------------------------------------------------------------
(* The packets of the pool. *)

LEMMA BusyIsFinite ==
  \A q : Busy(q) \subseteq Workers /\ IsFiniteSet(Busy(q)) /\ Cardinality(Busy(q)) \in Nat
<1> SUFFICES ASSUME NEW q PROVE Busy(q) \subseteq Workers /\ IsFiniteSet(Busy(q)) /\ Cardinality(Busy(q)) \in Nat
  OBVIOUS
<1>1. Busy(q) \in SUBSET Workers
  BY DEF Busy
<1>2. QED
  BY <1>1, ZgcAssumption, FS_Subset, FS_CardinalityType

LEMMA InFlightIsNat ==
  ASSUME TypeOK
  PROVE  \A q \in Queues : InFlight(q) \in Nat
<1>1. Cardinality(queue) \in Nat
  BY FS_CardinalityType DEF TypeOK
<1>2. \A q \in Queues : drains[q] \in Nat
  BY ZgcAssumption DEF TypeOK
<1>3. QED
  BY <1>1, <1>2, BusyIsFinite DEF InFlight

\* A worker that takes a job is busy with it.
LEMMA JobTaken ==
  ASSUME TypeOK, NEW w \in Workers, job[w] = None, NEW p, p # None,
         NEW q \in Queues, (p.kind = "oldDrain") <=> (q = "old"),
         job' = [job EXCEPT ![w] = p]
  PROVE  /\ Cardinality(Busy(q)') = Cardinality(Busy(q)) + 1
         /\ \A o \in Queues \ {q} : Busy(o)' = Busy(o)
<1>1. Busy(q)' = Busy(q) \cup {w} /\ w \notin Busy(q)
  BY DEF Busy, TypeOK, Queues
<1>2. \A o \in Queues \ {q} : Busy(o)' = Busy(o)
  BY DEF Busy, TypeOK, Queues
<1>3. QED
  BY <1>1, <1>2, BusyIsFinite, FS_AddElement

\* A worker that is done is not busy any more.
LEMMA JobDone ==
  ASSUME TypeOK, NEW w \in Workers, job' = [job EXCEPT ![w] = None]
  PROVE  \A q \in Queues : /\ Busy(q)' \subseteq Busy(q)
                            /\ Cardinality(Busy(q)') <= Cardinality(Busy(q))
<1> SUFFICES ASSUME NEW q \in Queues
             PROVE  /\ Busy(q)' \subseteq Busy(q)
                    /\ Cardinality(Busy(q)') <= Cardinality(Busy(q))
  OBVIOUS
<1>1. Busy(q)' \in SUBSET Busy(q)
  BY DEF Busy, TypeOK
<1>2. QED
  BY <1>1, BusyIsFinite, FS_Subset

LEMMA InitInv == Init => IInv
<1> SUFFICES ASSUME Init PROVE IInv
  OBVIOUS
<1> USE DEF Init
<1> PICK heap \in InitialHeaps : entry = heap.entry /\ field = heap.field /\ local = heap.local
  OBVIOUS
<1>1. /\ entry \in [Handles -> {"free", "young", "old"}]
      /\ field \in [Handles -> Handles \cup {Null}] /\ local \in [Locals -> Handles \cup {Null}]
  BY ZgcAssumption
<1>2. IsFiniteSet({}) /\ Cardinality({}) = 0
  BY FS_EmptySet
<1>3. \A q \in Queues : Busy(q) = {} /\ InFlight(q) = 0
  <2>1. job = [w \in Workers |-> None] /\ queue = {} /\ drains = [q \in Queues |-> 0]
    OBVIOUS
  <2> HIDE DEF Init
  <2> SUFFICES ASSUME NEW q \in Queues PROVE Busy(q) = {} /\ InFlight(q) = 0
    OBVIOUS
  <2>2. \A w \in Workers : job[w] = None
    BY ONLY <2>1
  <2>3. Busy(q) = {}
    BY ONLY <2>2 DEF Busy
  <2>4. drains[q] = 0 /\ Cardinality(Busy(q)) = 0 /\ Cardinality(queue) = 0
    BY ONLY <1>2, <2>1, <2>3, q \in Queues
  <2>5. InFlight(q) = 0
    BY ONLY <2>4 DEF InFlight
  <2>6. QED
    BY ONLY <2>3, <2>5
<1>4. TypeOK
  <2>1. 0 \in Addresses /\ 0 \in 0..PacketCapacity /\ 0 \in 0..RingCapacity
    BY ZgcAssumption DEF Addresses
  <2>2. /\ age \in [Handles -> 0..2] /\ addr \in [Handles -> Addresses]
        /\ marks \in [{"young", "old"} -> SUBSET (Handles \X Addresses)]
        /\ drains \in [Queues -> 0..PacketCapacity]
    BY <2>1
  <2>3. /\ pending \in [Queues -> SUBSET Handles] /\ bridges \in [Queues -> SUBSET Handles]
        /\ job \in [Workers -> Jobs \cup {None}] /\ hand \in [Markers -> Hands \cup {None}]
    OBVIOUS
  <2>4. mut \in MutatorStates /\ owners \subseteq Handles
    BY DEF MutatorStates
  <2>5. /\ ring \subseteq Records /\ IsFiniteSet(ring)
        /\ ringLen \in Cardinality(ring)..RingCapacity
        /\ queue \subseteq Packets /\ IsFiniteSet(queue)
    BY <2>1, <1>2
  <2>6. /\ errors \subseteq Queues /\ marking \subseteq {"young", "old"}
        /\ slots \subseteq Handles \X Addresses
        /\ candidates \subseteq Handles /\ selected \subseteq Handles /\ moving \subseteq selected
    OBVIOUS
  <2>7. entry \in [Handles -> {"free", "young", "old", "retired"}]
    BY <1>1
  <2>8. QED
    BY <1>1, <2>2, <2>3, <2>4, <2>5, <2>6, <2>7 DEF TypeOK
<1>5. PacketsFit
  BY <1>3, ZgcAssumption DEF PacketsFit, Queues
<1>6. BoundsKept /\ MovingWhileRelocating
  BY DEF BoundsKept, MovingWhileRelocating
<1>7. PacketsInPhase /\ HandsInPackets
  BY DEF PacketsInPhase, HandsInPackets, InPhase, None, Ready, Markers
<1>8. MarksInTurn
  <2>1. \A q \in Queues : Quiet(q)
    BY DEF Quiet
  <2>2. QED
    BY <1>3, <2>1 DEF MarksInTurn, Queues
<1>9. QED
  BY <1>4, <1>5, <1>6, <1>7, <1>8 DEF IInv

-----------------------------------------------------------------------------
(* The mutator's operations. *)

\* A step of the mutator that leaves the pool, the phase and the grey objects alone.
LEMMA PoolStays ==
  ASSUME IInv, UNCHANGED <<phase, oldActive, pending, drains, queue, job, hand>>,
         mut' = mut \/ (mut'.pc # "submit" /\ (mut'.pc = "assist" \/ hand[Mutator] = None))
  PROVE  (PacketsFit /\ PacketsInPhase /\ HandsInPackets /\ MarksInTurn)'
<1> USE DEF IInv
<1>1. PacketsFit'
  BY DEF PacketsFit, InFlight, Busy
<1>2. PacketsInPhase'
  BY DEF PacketsInPhase, InPhase
<1>3. HandsInPackets'
  BY DEF HandsInPackets
<1>4. MarksInTurn'
  BY DEF MarksInTurn, Quiet, Busy
<1>5. QED
  BY <1>1, <1>2, <1>3, <1>4

LEMMA ObjectsStay ==
  ASSUME IInv, UNCHANGED <<entry, age, addr, phase, selected, moving>>
  PROVE  (BoundsKept /\ MovingWhileRelocating)'
  BY DEF IInv, BoundsKept, MovingWhileRelocating

LEMMA LoadKeeps ==
  ASSUME IInv, NEW l \in Locals, NEW m \in Locals, Load(l, m)
  PROVE  IInv'
<1> USE DEF Load, Operation, heapVars, markVars, ringVars, remVars, cycleVars, sweepVars, packetVars
<1>1. TypeOK'
  BY DEF IInv, TypeOK
<1>2. QED
  BY <1>1, PoolStays, ObjectsStay DEF IInv

LEMMA DropKeeps ==
  ASSUME IInv, NEW l \in Locals, Drop(l)
  PROVE  IInv'
<1> USE DEF Drop, Operation, heapVars, markVars, ringVars, remVars, cycleVars, sweepVars, packetVars
<1>1. TypeOK'
  BY DEF IInv, TypeOK
<1>2. QED
  BY <1>1, PoolStays, ObjectsStay DEF IInv

LEMMA AllocateKeeps ==
  ASSUME IInv, NEW l \in Locals, NEW h \in Handles, Allocate(l, h)
  PROVE  IInv'
<1> USE DEF Allocate, Operation, markVars, ringVars, remVars, cycleVars, sweepVars, packetVars
<1>1. <<h, addr[h]>> \in Handles \X Addresses
  BY DEF IInv, TypeOK
<1>2. marks' \in [{"young", "old"} -> SUBSET (Handles \X Addresses)]
  BY <1>1 DEF IInv, TypeOK
<1>3. TypeOK'
  <2>1. entry' \in [Handles -> {"free", "young", "old", "retired"}] /\ age' \in [Handles -> 0..2]
    BY DEF IInv, TypeOK
  <2>2. /\ field' \in [Handles -> Handles \cup {Null}]
        /\ local' \in [Locals -> Handles \cup {Null}]
    BY DEF IInv, TypeOK
  <2>3. QED
    BY <1>2, <2>1, <2>2 DEF IInv, TypeOK
<1>4. (BoundsKept /\ MovingWhileRelocating)'
  BY DEF IInv, TypeOK, BoundsKept, MovingWhileRelocating
<1>5. QED
  BY <1>3, <1>4, PoolStays DEF IInv

LEMMA BarrierRecordTypes ==
  ASSUME TypeOK, NEW op, NEW h \in Handles, NEW v \in Handles \cup {Null}
  PROVE  BarrierRecords(op, h, v) \in Seq(Records)
<1> DEFINE satb == IF marking # {} /\ field[h] # Null
                   THEN <<[kind |-> "satb", handle |-> field[h]]>> ELSE <<>>
           mark == IF marking # {} /\ v # Null /\ (op = "slot" => IsMarked(h, entry[h]))
                   THEN <<[kind |-> "mark", handle |-> v]>> ELSE <<>>
           slot == IF op = "slot" /\ entry[h] = "old" /\ v # Null /\ entry[v] = "young"
                   THEN <<[kind |-> "slot", handle |-> h, addr |-> addr[h]]>> ELSE <<>>
           owner == IF op = "proto" /\ entry[h] = "old"
                    THEN <<[kind |-> "owner", handle |-> h]>> ELSE <<>>
<1>0. <<>> \in Seq(Records) /\ \A r \in Records : <<r>> \in Seq(Records)
  OBVIOUS
<1>1. satb \in Seq(Records) /\ mark \in Seq(Records)
  <2>1. field[h] # Null => [kind |-> "satb", handle |-> field[h]] \in Records
    BY DEF TypeOK, Records
  <2>2. v # Null => [kind |-> "mark", handle |-> v] \in Records
    BY DEF Records
  <2>3. QED
    BY <1>0, <2>1, <2>2
<1>2. slot \in Seq(Records) /\ owner \in Seq(Records)
  <2>1. [kind |-> "slot", handle |-> h, addr |-> addr[h]] \in Records
    BY DEF TypeOK, Records
  <2>2. [kind |-> "owner", handle |-> h] \in Records
    BY DEF Records
  <2>3. QED
    BY <1>0, <2>1, <2>2
<1>3. BarrierRecords(op, h, v) = satb \o mark \o slot \o owner
  BY DEF BarrierRecords
<1> HIDE DEF satb, mark, slot, owner
<1>4. QED
  BY <1>1, <1>2, <1>3

LEMMA StoreBarrierKeeps ==
  ASSUME IInv, NEW op, NEW h \in Handles, NEW v \in Handles \cup {Null}, StoreBarrier(op, h, v)
  PROVE  IInv'
<1> USE DEF StoreBarrier, Operation, heapVars, markVars, ringVars, remVars, cycleVars, sweepVars, packetVars
<1>1. mut' \in MutatorStates /\ mut'.pc = "barrier"
  <2>1. TypeOK
    BY DEF IInv
  <2>2. BarrierRecords(op, h, v) \in Seq(Records)
    BY <2>1, BarrierRecordTypes
  <2>3. QED
    BY <2>2 DEF MutatorStates
<1>2. hand[Mutator] = None
  BY DEF IInv, HandsInPackets, Running, Ready
<1>3. TypeOK'
  BY <1>1 DEF IInv, TypeOK
<1>4. QED
  BY <1>1, <1>2, <1>3, PoolStays, ObjectsStay DEF IInv

\* Records that are remembered have the type of what is remembered.
LEMMA RememberTypes ==
  ASSUME TypeOK, NEW records \in SUBSET Records, Remember(records)
  PROVE  slots' \subseteq Handles \X Addresses /\ owners' \subseteq Handles
  BY RecordTypes DEF TypeOK, Remember

\* Nothing turns grey in a queue nobody marks from.
LEMMA NothingRouted ==
  ASSUME NEW records
  PROVE  /\ phase # "mark" => Routed("main", records) = {}
         /\ ~oldActive => Routed("old", records) = {}
  BY DEF Routed

LEMMA PushRecordKeeps ==
  ASSUME IInv, PushRecord
  PROVE  IInv'
<1> USE DEF heapVars, markVars, ringVars, remVars, cycleVars, sweepVars, packetVars
<1> DEFINE r == Head(mut.todo)
<1>0. TypeOK /\ mut \in MutatorStates /\ mut.pc = "barrier"
  BY DEF IInv, TypeOK, PushRecord
<1>1. r \in Records /\ Tail(mut.todo) \in Seq(Records)
  BY <1>0, MutatorTypes DEF PushRecord
<1>2. hand[Mutator] = None
  BY <1>0 DEF IInv, HandsInPackets
<1> HIDE DEF r
<1>3. CASE ringLen < RingCapacity
  <2>1. /\ ring' = ring \cup {r} /\ ringLen' = ringLen + 1
        /\ mut' = [mut EXCEPT !.todo = Tail(@)]
        /\ UNCHANGED <<heapVars, local, markVars, remVars, cycleVars, pending, bridges, errors,
                       sweepVars, packetVars, hand, full, failed>>
    BY <1>3 DEF PushRecord, r
  <2>2. mut' \in MutatorStates /\ mut'.pc = "barrier"
    BY <1>0, <1>1, <2>1, MutatorTypes DEF MutatorStates
  <2>3. /\ IsFiniteSet(ring') /\ ring' \subseteq Records
        /\ ringLen' \in Cardinality(ring')..RingCapacity
    <3>1. IsFiniteSet(ring) /\ Cardinality(ring) \in Nat /\ ring \subseteq Records
      BY <1>0, FS_CardinalityType DEF TypeOK
    <3>2. IsFiniteSet(ring') /\ Cardinality(ring') \in Nat /\ Cardinality(ring') <= Cardinality(ring) + 1
      <4>1. ring' = ring \cup {r}
        BY <2>1
      <4>2. /\ IsFiniteSet(ring \cup {r})
            /\ Cardinality(ring \cup {r}) \in {Cardinality(ring), Cardinality(ring) + 1}
        BY <3>1, FS_AddElement
      <4>3. QED
        BY <3>1, <4>1, <4>2
    <3>3. ringLen \in Cardinality(ring)..RingCapacity /\ RingCapacity \in Nat
      BY <1>0, ZgcAssumption DEF TypeOK
    <3>4. ringLen' \in Cardinality(ring')..RingCapacity
      <4>1. ringLen' = ringLen + 1
        BY <2>1
      <4>2. QED
        BY <1>3, <3>1, <3>2, <3>3, <4>1
    <3>5. QED
      BY <1>1, <2>1, <3>1, <3>2, <3>4
  <2>4. TypeOK'
    BY <1>0, <2>1, <2>2, <2>3 DEF TypeOK
  <2>5. QED
    BY <1>2, <2>1, <2>2, <2>4, PoolStays, ObjectsStay DEF IInv
<1>4. CASE ~(ringLen < RingCapacity)
  <2>1. /\ Remember({r}) /\ pending' = [q \in Queues |-> pending[q] \cup Routed(q, {r})]
        /\ mut' = [mut EXCEPT !.todo = Tail(@), !.pc = "assist"]
        /\ UNCHANGED <<heapVars, local, markVars, ringVars, cycleVars, bridges, errors,
                       sweepVars, packetVars, hand, full, failed>>
    BY <1>4 DEF PushRecord, r
  <2>2. mut' \in MutatorStates /\ mut'.pc = "assist"
    BY <1>0, <1>1, <2>1, MutatorTypes DEF MutatorStates
  <2>3. pending' \in [Queues -> SUBSET Handles]
    <3>1. \A q \in Queues : Routed(q, {r}) \subseteq Handles
      BY <1>0, <1>1, RoutedAreHandles DEF TypeOK
    <3>2. QED
      BY <1>0, <2>1, <3>1 DEF TypeOK
  <2>4. TypeOK'
    BY <1>0, <1>1, <2>1, <2>2, <2>3, RememberTypes DEF TypeOK
  <2>5. PacketsFit' /\ PacketsInPhase' /\ HandsInPackets'
    <3>1. PacketsFit'
      BY <2>1 DEF IInv, PacketsFit, InFlight, Busy
    <3>2. PacketsInPhase'
      BY <2>1, <2>2 DEF IInv, PacketsInPhase, InPhase
    <3>3. HandsInPackets'
      BY <2>1, <2>2 DEF IInv, HandsInPackets
    <3>4. QED
      BY <3>1, <3>2, <3>3
  <2>6. MarksInTurn'
    BY <2>1, NothingRouted DEF IInv, MarksInTurn, Quiet, Busy, Queues
  <2>7. QED
    BY <2>1, <2>4, <2>5, <2>6, ObjectsStay DEF IInv
<1>5. QED
  BY <1>3, <1>4

LEMMA AssistDoneKeeps ==
  ASSUME IInv, AssistDone
  PROVE  IInv'
<1> USE DEF AssistDone, heapVars, markVars, ringVars, remVars, cycleVars, sweepVars, packetVars
<1>1. mut' \in MutatorStates /\ mut'.pc = "barrier"
  BY MutatorTypes DEF MutatorStates, IInv, TypeOK
<1>2. TypeOK'
  BY <1>1 DEF IInv, TypeOK
<1>3. QED
  BY <1>1, <1>2, PoolStays, ObjectsStay DEF IInv

LEMMA StoreKeeps ==
  ASSUME IInv, Store
  PROVE  IInv'
<1> USE DEF Store, heapVars, markVars, ringVars, remVars, cycleVars, sweepVars, packetVars
<1>1. mut' \in MutatorStates /\ mut'.pc = "run"
  BY DEF MutatorStates, Ready
<1>2. field' \in [Handles -> Handles \cup {Null}]
  BY MutatorTypes DEF IInv, TypeOK
<1>3. TypeOK'
  BY <1>1, <1>2 DEF IInv, TypeOK
<1>4. hand[Mutator] = None
  BY DEF IInv, HandsInPackets
<1>5. QED
  BY <1>1, <1>3, <1>4, PoolStays, ObjectsStay DEF IInv

LEMMA AssistMoveKeeps ==
  ASSUME IInv, NEW h \in Handles, AssistMove(h)
  PROVE  IInv'
<1> USE DEF AssistMove, markVars, ringVars, remVars, cycleVars, sweepVars, packetVars, mutVars
<1>1. addr[h] + 1 \in Addresses /\ phase = "relocate"
  BY ZgcAssumption DEF IInv, TypeOK, BoundsKept, MovingWhileRelocating, Addresses
<1>2. TypeOK'
  BY <1>1 DEF IInv, TypeOK
<1>3. (BoundsKept /\ MovingWhileRelocating)'
  BY <1>1 DEF IInv, TypeOK, BoundsKept, MovingWhileRelocating
<1>4. QED
  BY <1>2, <1>3, PoolStays DEF IInv

LEMMA GrowPublishKeeps ==
  ASSUME IInv, NEW kind \in {"object", "array"}, NEW h \in Handles, GrowPublish(kind, h)
  PROVE  IInv'
<1> USE DEF GrowPublish, Operation, Growable, markVars, ringVars, remVars, cycleVars, sweepVars, packetVars
<1>1. /\ addr[h] + 1 \in Addresses /\ entry[h] \in {"young", "old"} /\ h \notin moving
      /\ phase = "select" /\ h \in selected => addr[h] + 1 < MaxMoves
  BY ZgcAssumption DEF IInv, TypeOK, Addresses, Live
<1>2. mut' \in MutatorStates /\ mut'.pc = "grow"
  BY <1>1 DEF MutatorStates
<1>3. TypeOK'
  BY <1>1, <1>2 DEF IInv, TypeOK
<1>4. (BoundsKept /\ MovingWhileRelocating)'
  <2>1. \A g \in moving' : addr'[g] < MaxMoves
    BY <1>1 DEF IInv, TypeOK, BoundsKept
  <2>2. phase' = "select" => \A g \in selected' : addr'[g] < MaxMoves
    BY <1>1 DEF IInv, TypeOK, BoundsKept
  <2>3. QED
    BY <2>1, <2>2 DEF IInv, BoundsKept, MovingWhileRelocating
<1>5. hand[Mutator] = None
  BY DEF IInv, HandsInPackets, Running, Ready
<1>6. QED
  BY <1>2, <1>3, <1>4, <1>5, PoolStays DEF IInv

LEMMA GrowFinishKeeps ==
  ASSUME IInv, GrowFinish
  PROVE  IInv'
<1> USE DEF GrowFinish, heapVars, ringVars, remVars, cycleVars, sweepVars, packetVars
<1>1. mut' \in MutatorStates /\ mut'.pc = "run"
  BY DEF MutatorStates, Ready
<1>2. <<mut.handle, addr[mut.handle]>> \in Handles \X Addresses
  BY MutatorTypes DEF IInv, TypeOK
<1>3. marks' \in [{"young", "old"} -> SUBSET (Handles \X Addresses)]
  BY <1>2 DEF IInv, TypeOK
<1>4. TypeOK'
  BY <1>1, <1>3 DEF IInv, TypeOK
<1>5. hand[Mutator] = None
  BY DEF IInv, HandsInPackets
<1>6. QED
  BY <1>1, <1>4, <1>5, PoolStays, ObjectsStay DEF IInv

LEMMA CollectFullKeeps ==
  ASSUME IInv, CollectFull
  PROVE  IInv'
<1> USE DEF CollectFull, heapVars, markVars, ringVars, remVars, cycleVars, sweepVars, packetVars
<1>1. TypeOK'
  BY DEF IInv, TypeOK
<1>2. QED
  BY <1>1, PoolStays, ObjectsStay DEF IInv

-----------------------------------------------------------------------------
(* The markers. *)

LEMMA DrainKind ==
  ASSUME NEW m \in Markers, NEW q \in Queues, Marking(m, q)
  PROVE  /\ hand[m] = None
         /\ m = Mutator => mut.pc = "assist"
         /\ m # Mutator =>
              /\ m \in Workers
              /\ job[m].kind = IF q = "old" THEN "oldDrain" ELSE "drain"
              /\ q = "old" => job[m].budget > 0
<1>1. CASE m = Mutator
  BY <1>1 DEF Marking
<1>2. CASE m # Mutator
  <2>1. m \in Workers
    BY <1>2 DEF Markers
  <2>2. CASE q = "main"
    BY <1>2, <2>1, <2>2 DEF Marking, Queues
  <2>3. CASE q = "old"
    BY <1>2, <2>1, <2>3 DEF Marking, Queues
  <2>4. QED
    BY <2>1, <2>2, <2>3 DEF Queues, Marking
<1>3. QED
  BY <1>1, <1>2

\* A queue with something to mark is being marked.
LEMMA MarkedFrom ==
  ASSUME IInv, NEW q \in Queues,
         pending[q] # {} \/ drains[q] # 0 \/ \E m \in Markers : hand[m] # None /\ hand[m].queue = q
  PROVE  (q = "main" /\ phase = "mark") \/ (q = "old" /\ oldActive)
<1>1. ~Quiet(q)
  BY DEF Quiet
<1>2. QED
  BY <1>1 DEF IInv, MarksInTurn, Queues

\* A job that goes on leaves the pool as it is.
LEMMA SameJobs ==
  ASSUME IInv, UNCHANGED <<queue, drains, phase, mut>>,
         job' = job \/ \E w \in Workers :
           /\ job[w] \in [kind : {"oldDrain"}, budget : 0..OldBudget] /\ job[w].budget > 0
           /\ job' = [job EXCEPT ![w].budget = @ - 1]
  PROVE  /\ job' \in [Workers -> Jobs \cup {None}]
         /\ \A w \in Workers : job'[w].kind = job[w].kind /\ (job'[w] = None <=> job[w] = None)
         /\ \A q \in Queues : Busy(q)' = Busy(q)
         /\ PacketsFit' /\ PacketsInPhase'
<1>1. CASE job' = job
  BY <1>1 DEF IInv, TypeOK, PacketsFit, InFlight, Busy, PacketsInPhase, InPhase
<1>2. ASSUME NEW w \in Workers, job[w] \in [kind : {"oldDrain"}, budget : 0..OldBudget],
             job[w].budget > 0, job' = [job EXCEPT ![w].budget = @ - 1]
      PROVE  /\ job' \in [Workers -> Jobs \cup {None}]
             /\ \A v \in Workers : job'[v].kind = job[v].kind /\ (job'[v] = None <=> job[v] = None)
  <2>1. /\ job'[w] \in [kind : {"oldDrain"}, budget : 0..OldBudget] /\ job'[w].kind = job[w].kind
        /\ job'[w] # None /\ job[w] # None
        /\ \A v \in Workers \ {w} : job'[v] = job[v]
    BY <1>2, ZgcAssumption DEF IInv, TypeOK, None
  <2>2. QED
    BY <1>2, <2>1 DEF IInv, TypeOK, Jobs
<1>3. /\ job' \in [Workers -> Jobs \cup {None}]
      /\ \A w \in Workers : job'[w].kind = job[w].kind /\ (job'[w] = None <=> job[w] = None)
  BY <1>1, <1>2
<1>4. \A q \in Queues : Busy(q)' = Busy(q)
  BY <1>3 DEF Busy
<1>5. PacketsFit'
  BY <1>4 DEF IInv, PacketsFit, InFlight, Queues
<1>6. PacketsInPhase'
  BY <1>3 DEF IInv, PacketsInPhase, InPhase
<1>7. QED
  BY <1>3, <1>4, <1>5, <1>6

LEMMA PopKeeps ==
  ASSUME IInv, NEW m \in Markers, NEW q \in Queues, NEW h \in Handles, Pop(m, q, h)
  PROVE  IInv'
<1> USE DEF heapVars, markVars, ringVars, remVars, cycleVars, sweepVars, mutVars
<1> DEFINE mine == IF q = "old" THEN entry[h] = "old" ELSE Includes(generation, entry[h])
           taken == [queue |-> q, handle |-> h, addr |-> addr[h], gen |-> entry[h],
                     step |-> IF mine THEN "mark" ELSE "scan"]
<1>0. /\ TypeOK /\ hand[m] = None /\ h \in pending[q]
      /\ m = Mutator => mut.pc = "assist"
      /\ m # Mutator =>
           /\ m \in Workers
           /\ job[m].kind = IF q = "old" THEN "oldDrain" ELSE "drain"
           /\ q = "old" => job[m].budget > 0
  BY DrainKind DEF IInv, Pop
<1>1. Live(h) => taken \in Hands
  BY <1>0 DEF TypeOK, Hands, Live
<1>2. /\ pending' = [pending EXCEPT ![q] = @ \ {h}]
      /\ bridges' \in [Queues -> SUBSET Handles]
      /\ hand' = [hand EXCEPT ![m] = hand'[m]]
      /\ hand'[m] = None \/ (Live(h) /\ hand'[m] = taken)
      /\ UNCHANGED <<heapVars, local, markVars, ringVars, remVars, cycleVars, errors,
                     sweepVars, queue, drains, mutVars>>
  BY <1>0 DEF Pop, TypeOK
<1>3. job' = job \/ \E w \in Workers :
           /\ job[w] \in [kind : {"oldDrain"}, budget : 0..OldBudget] /\ job[w].budget > 0
           /\ job' = [job EXCEPT ![w].budget = @ - 1]
  <2>1. CASE m \in Workers /\ q = "old"
    <3>1. job[m] \in [kind : {"oldDrain"}, budget : 0..OldBudget]
      BY <1>0, <2>1, ZgcAssumption DEF TypeOK, Jobs, Packets, None
    <3>2. QED
      BY <1>0, <2>1, <3>1, ZgcAssumption DEF Pop
  <2>2. CASE ~(m \in Workers /\ q = "old")
    BY <2>2 DEF Pop
  <2>3. QED
    BY <2>1, <2>2
<1>4. /\ job' \in [Workers -> Jobs \cup {None}] /\ PacketsFit' /\ PacketsInPhase'
      /\ \A w \in Workers : job'[w].kind = job[w].kind
      /\ \A o \in Queues : Busy(o)' = Busy(o)
  BY <1>2, <1>3, SameJobs
<1> HIDE DEF taken
<1>5. TypeOK'
  <2>1. hand' \in [Markers -> Hands \cup {None}]
    BY <1>0, <1>1, <1>2 DEF TypeOK
  <2>2. pending' \in [Queues -> SUBSET Handles]
    BY <1>0, <1>2 DEF TypeOK
  <2>3. QED
    BY <1>0, <1>2, <1>4, <2>1, <2>2 DEF TypeOK
<1>6. hand'[m] # None => hand'[m].queue = q
  BY <1>2 DEF taken
<1>7. HandsInPackets'
  BY <1>0, <1>2, <1>4, <1>6, ZgcAssumption DEF IInv, HandsInPackets, TypeOK, Markers
<1>8. MarksInTurn'
  <2>1. (q = "main" /\ phase = "mark") \/ (q = "old" /\ oldActive)
    BY <1>0, MarkedFrom
  <2>2. QED
    BY <1>0, <1>2, <1>4, <1>6, <2>1 DEF IInv, MarksInTurn, Quiet, TypeOK, Queues, Markers
<1>9. QED
  BY <1>2, <1>4, <1>5, <1>7, <1>8, ObjectsStay DEF IInv

\* Letting go of an object, or of the packet with it.
LEMMA HandEmptied ==
  ASSUME IInv, NEW m \in Markers, hand[m] # None,
         hand' \in [Markers -> Hands \cup {None}],
         hand' = [hand EXCEPT ![m] = hand'[m]],
         hand'[m] # None => hand'[m].queue = hand[m].queue,
         UNCHANGED <<queue, drains, phase, oldActive>>,
         \/ UNCHANGED <<job, mut>>
         \/ /\ hand'[m] = None /\ m \in Workers /\ m # Mutator
            /\ job' = [job EXCEPT ![m] = None] /\ mut' = mut
         \/ hand'[m] = None /\ m = Mutator /\ job' = job /\ mut' = Ready
  PROVE  /\ PacketsFit' /\ PacketsInPhase' /\ HandsInPackets'
         /\ job' \in [Workers -> Jobs \cup {None}] /\ mut' \in MutatorStates
         /\ \A q \in Queues : Quiet(q) /\ pending'[q] = {} => Quiet(q)'
         /\ Busy("old") = {} => Busy("old")' = {}
<1>0. TypeOK
  BY DEF IInv
<1>1. /\ job' \in [Workers -> Jobs \cup {None}] /\ mut' \in MutatorStates
      /\ \A w \in Workers : job'[w] = job[w] \/ job'[w] = None
      /\ mut' = mut \/ mut'.pc = "run"
  <2>1. Ready \in MutatorStates /\ Ready.pc = "run"
    BY DEF MutatorStates, Ready
  <2>2. job \in [Workers -> Jobs \cup {None}] /\ mut \in MutatorStates
    BY <1>0 DEF TypeOK
  <2>3. QED
    BY <2>1, <2>2
<1>2. \A q \in Queues : /\ Busy(q)' \subseteq Busy(q)
                        /\ Cardinality(Busy(q)') <= Cardinality(Busy(q))
  <2>1. CASE job' = job
    <3>1. \A q \in Queues : Busy(q)' = Busy(q)
      BY <2>1 DEF Busy
    <3>2. QED
      BY <3>1, BusyIsFinite
  <2>2. CASE m \in Workers /\ job' = [job EXCEPT ![m] = None]
    BY <1>0, <2>2, JobDone
  <2>3. QED
    BY <2>1, <2>2
<1>3. PacketsFit'
  <2>1. \A q \in Queues : InFlight(q) \in Nat /\ InFlight(q)' \in Int /\ InFlight(q)' <= InFlight(q)
    <3>1. \A q \in Queues : Cardinality(Busy(q)) \in Nat /\ Cardinality(Busy(q)') \in Nat
      <4>1. \A q \in Queues : IsFiniteSet(Busy(q)')
        BY <1>2, BusyIsFinite, FS_Subset
      <4>2. QED
        BY <4>1, BusyIsFinite, FS_CardinalityType
    <3>2. Cardinality(queue) \in Nat /\ \A q \in Queues : drains[q] \in Nat
      BY <1>0, FS_CardinalityType, ZgcAssumption DEF TypeOK
    <3>3. QED
      BY <1>2, <3>1, <3>2 DEF InFlight
  <2>2. QED
    BY <2>1, ZgcAssumption DEF IInv, PacketsFit, Queues
<1>4. PacketsInPhase'
  <2>1. \A w \in Workers : InPhase(job[w])'
    BY <1>1 DEF IInv, PacketsInPhase, InPhase, None
  <2>2. QED
    BY <1>1, <2>1 DEF IInv, PacketsInPhase, InPhase
<1>5. HandsInPackets'
  BY <1>0, <1>1, ZgcAssumption DEF IInv, HandsInPackets, TypeOK, Markers
<1>6. \A q \in Queues : Quiet(q) /\ pending'[q] = {} => Quiet(q)'
  BY <1>0 DEF Quiet, TypeOK
<1>7. QED
  BY <1>1, <1>2, <1>3, <1>4, <1>5, <1>6 DEF Queues

LEMMA MarkErrorKeeps ==
  ASSUME IInv, NEW m \in Markers, hand[m] # None, MarkError(m),
         UNCHANGED <<heapVars, local, marking, ringVars, remVars, cycleVars, bridges,
                     sweepVars, queue, drains>>
  PROVE  IInv'
<1> USE DEF heapVars, ringVars, remVars, cycleVars, sweepVars, mutVars
<1>0. TypeOK /\ hand[m] \in Hands
  BY DEF IInv, TypeOK
<1>1. /\ hand' \in [Markers -> Hands \cup {None}] /\ hand' = [hand EXCEPT ![m] = None]
      /\ hand'[m] = None
  BY <1>0 DEF MarkError, TypeOK
<1>2. \/ UNCHANGED <<job, mut>>
      \/ /\ hand'[m] = None /\ m \in Workers /\ m # Mutator
         /\ job' = [job EXCEPT ![m] = None] /\ mut' = mut
      \/ hand'[m] = None /\ m = Mutator /\ job' = job /\ mut' = Ready
  BY <1>1 DEF MarkError, Markers
<1>3. /\ PacketsFit' /\ PacketsInPhase' /\ HandsInPackets'
      /\ job' \in [Workers -> Jobs \cup {None}] /\ mut' \in MutatorStates
      /\ \A q \in Queues : Quiet(q) /\ pending'[q] = {} => Quiet(q)'
      /\ Busy("old") = {} => Busy("old")' = {}
  <2>1. hand' = [hand EXCEPT ![m] = hand'[m]]
    BY <1>0, <1>1
  <2>2. QED
    BY <1>1, <1>2, <2>1, HandEmptied
<1>4. TypeOK'
  <2>1. errors' \subseteq Queues /\ full' \in BOOLEAN /\ failed' \in BOOLEAN
    <3>1. hand[m].queue \in Queues /\ "main" \in Queues /\ errors \subseteq Queues
      BY <1>0 DEF TypeOK, Hands, Queues
    <3>2. full \in BOOLEAN /\ failed \in BOOLEAN
      BY <1>0 DEF TypeOK
    <3>3. CASE m = Mutator
      BY <3>1, <3>3 DEF MarkError, Fail
    <3>4. CASE m # Mutator
      BY <3>1, <3>2, <3>4 DEF MarkError
    <3>5. QED
      BY <3>3, <3>4
  <2>2. UNCHANGED <<marks, pending>>
    BY DEF MarkError
  <2>3. QED
    BY <1>0, <1>1, <1>3, <2>1, <2>2 DEF TypeOK
<1>5. MarksInTurn'
  BY <1>3 DEF IInv, MarksInTurn, MarkError, Quiet, Queues
<1>6. QED
  BY <1>3, <1>4, <1>5, ObjectsStay DEF IInv

LEMMA TryMarkKeeps ==
  ASSUME IInv, NEW m \in Markers, TryMark(m)
  PROVE  IInv'
<1> USE DEF heapVars, ringVars, remVars, cycleVars, sweepVars, mutVars
<1>0. TypeOK /\ hand[m] # None /\ hand[m] \in Hands
  BY DEF IInv, TypeOK, TryMark
<1>1. CASE ~Live(hand[m].handle)
  BY <1>0, <1>1, MarkErrorKeeps DEF TryMark
<1>2. CASE Live(hand[m].handle)
  <2>1. /\ marks' = [marks EXCEPT ![hand[m].gen] = @ \cup {<<hand[m].handle, hand[m].addr>>}]
        /\ hand' = [hand EXCEPT ![m] = hand'[m]]
        /\ hand'[m] \in {None, [hand[m] EXCEPT !.step = "scan"]}
        /\ UNCHANGED <<heapVars, local, marking, ringVars, remVars, cycleVars, bridges,
                 sweepVars, queue, drains, errors, job, mutVars, pending>>
    BY <1>0, <1>2 DEF TryMark, TypeOK
  <2>2. hand'[m] = None \/ (hand'[m] \in Hands /\ hand'[m].queue = hand[m].queue)
    BY <1>0, <2>1 DEF Hands
  <2>3. hand' \in [Markers -> Hands \cup {None}] /\ (hand'[m] # None => hand'[m].queue = hand[m].queue)
    BY <1>0, <2>1, <2>2 DEF TypeOK
  <2>4. /\ PacketsFit' /\ PacketsInPhase' /\ HandsInPackets'
        /\ \A q \in Queues : Quiet(q) /\ pending'[q] = {} => Quiet(q)'
        /\ Busy("old") = {} => Busy("old")' = {}
    BY <1>0, <2>1, <2>3, HandEmptied
  <2>5. marks' \in [{"young", "old"} -> SUBSET (Handles \X Addresses)]
    BY <1>0, <2>1 DEF TypeOK, Hands
  <2>6. TypeOK'
    BY <1>0, <2>1, <2>3, <2>5 DEF TypeOK
  <2>7. MarksInTurn'
    BY <2>1, <2>4 DEF IInv, MarksInTurn, Quiet, Queues
  <2>8. QED
    BY <2>1, <2>4, <2>6, <2>7, ObjectsStay DEF IInv
<1>3. QED
  BY <1>1, <1>2

LEMMA ScanKeeps ==
  ASSUME IInv, NEW m \in Markers, Scan(m)
  PROVE  IInv'
<1> USE DEF heapVars, ringVars, remVars, cycleVars, sweepVars, mutVars
<1>0. TypeOK /\ hand[m] # None /\ hand[m] \in Hands /\ hand[m].handle \in Handles
  BY DEF IInv, TypeOK, Scan, Hands
<1>1. CASE ~Live(hand[m].handle)
  BY <1>0, <1>1, MarkErrorKeeps DEF Scan
<1>2. CASE Live(hand[m].handle)
  <2> DEFINE q == hand[m].queue
  <2>0. q \in Queues
    BY <1>0 DEF Hands
  <2>1. /\ pending' = [pending EXCEPT ![q] = @ \cup Word(hand[m].handle)]
        /\ hand' = [hand EXCEPT ![m] = None] /\ hand'[m] = None
        /\ hand' = [hand EXCEPT ![m] = hand'[m]]
        /\ UNCHANGED <<heapVars, local, marking, ringVars, remVars, cycleVars, bridges,
                 sweepVars, queue, drains, marks, errors, job, mutVars>>
    BY <1>0, <1>2 DEF Scan, TypeOK
  <2>2. hand' \in [Markers -> Hands \cup {None}]
    BY <1>0, <2>1 DEF TypeOK
  <2>3. /\ PacketsFit' /\ PacketsInPhase' /\ HandsInPackets'
        /\ \A o \in Queues : Quiet(o) /\ pending'[o] = {} => Quiet(o)'
        /\ Busy("old") = {} => Busy("old")' = {}
    BY <1>0, <2>1, <2>2, HandEmptied
  <2>4. pending' \in [Queues -> SUBSET Handles] /\ \A o \in Queues \ {q} : pending'[o] = pending[o]
    BY <1>0, <2>0, <2>1, WordsAreHandles DEF TypeOK
  <2>5. TypeOK'
    BY <1>0, <2>1, <2>2, <2>4 DEF TypeOK
  <2>6. (q = "main" /\ phase = "mark") \/ (q = "old" /\ oldActive)
    BY <1>0, <2>0, MarkedFrom
  <2>7. MarksInTurn'
    BY <2>1, <2>3, <2>4, <2>6 DEF IInv, MarksInTurn, Quiet, Queues
  <2>8. QED
    BY <2>1, <2>3, <2>5, <2>7, ObjectsStay DEF IInv
<1>3. QED
  BY <1>1, <1>2

-----------------------------------------------------------------------------
(* The workers. *)

\* A worker without a packet has nothing in its hand.
LEMMA IdleHands ==
  ASSUME IInv, NEW w \in Workers, job[w].kind \notin {"drain", "oldDrain"}
  PROVE  hand[w] = None
  BY DEF IInv, HandsInPackets

LEMMA TakePacketKeeps ==
  ASSUME IInv, NEW w \in Workers, TakePacket(w)
  PROVE  IInv'
<1> USE DEF heapVars, markVars, ringVars, remVars, cycleVars, sweepVars, mutVars
<1>0. TypeOK /\ job[w] = None /\ hand[w] = None
  BY IdleHands DEF IInv, TakePacket, None
<1>1. PICK p \in queue :
        /\ queue' = queue \ {p}
        /\ job' = [job EXCEPT ![w] = IF p.kind = "root" THEN [kind |-> "drain"] ELSE p]
        /\ pending' = IF p.kind = "root" THEN [pending EXCEPT !["main"] = @ \cup {p.handle}]
                      ELSE pending
        /\ UNCHANGED <<heapVars, local, markVars, ringVars, remVars, cycleVars, bridges,
                       errors, sweepVars, drains, hand, mutVars>>
  BY DEF TakePacket
<1> DEFINE taken == IF p.kind = "root" THEN [kind |-> "drain"] ELSE p
<1>2. /\ p \in Packets /\ InPhase(p) /\ taken \in Packets /\ InPhase(taken)
      /\ taken # None /\ taken.kind # "oldDrain"
      /\ p.kind = "root" => phase = "mark" /\ p.handle \in Handles
  <2>1. p \in Packets /\ InPhase(p)
    BY <1>0 DEF TypeOK, IInv, PacketsInPhase
  <2>2. p.kind \in {"root", "move", "page", "drain"} /\ (p.kind = "root" => p.handle \in Handles)
    BY <2>1, PacketTypes
  <2>3. [kind |-> "drain"] \in Packets
    BY DEF Packets
  <2>4. taken \in Packets /\ taken.kind # "oldDrain" /\ InPhase(taken)
    BY <2>1, <2>2, <2>3 DEF InPhase
  <2>5. QED
    BY <2>1, <2>2, <2>4, NoneIsNoJob DEF InPhase, Jobs
<1> HIDE DEF taken
<1>3. job' = [job EXCEPT ![w] = taken]
  BY <1>1 DEF taken
<1>4. /\ Cardinality(Busy("main")') = Cardinality(Busy("main")) + 1
      /\ Busy("old")' = Busy("old")
  BY <1>0, <1>2, <1>3, JobTaken DEF Queues
<1>5. IsFiniteSet(queue') /\ Cardinality(queue') = Cardinality(queue) - 1
  <2>1. IsFiniteSet(queue)
    BY <1>0 DEF TypeOK
  <2>2. QED
    BY <1>1, <2>1, FS_RemoveElement
<1>6. PacketsFit'
  <2>1. InFlight("main")' = InFlight("main") /\ InFlight("old")' = InFlight("old")
    <3>1. Cardinality(queue) \in Nat /\ \A q \in Queues : drains[q] \in Nat
      BY <1>0, FS_CardinalityType, ZgcAssumption DEF TypeOK
    <3>2. QED
      BY <1>1, <1>4, <1>5, <3>1, BusyIsFinite DEF InFlight, Queues
  <2>2. QED
    BY <2>1 DEF IInv, PacketsFit
<1>7. TypeOK'
  <2>1. pending' \in [Queues -> SUBSET Handles]
    BY <1>0, <1>1, <1>2 DEF TypeOK
  <2>2. job' \in [Workers -> Jobs \cup {None}]
    BY <1>0, <1>2, <1>3 DEF TypeOK, Jobs
  <2>3. queue' \subseteq Packets
    BY <1>0, <1>1 DEF TypeOK
  <2>4. QED
    BY <1>0, <1>1, <1>5, <2>1, <2>2, <2>3 DEF TypeOK
<1>8. PacketsInPhase'
  <2>1. \A v \in Workers : InPhase(job[v])'
    BY <1>0, <1>1, <1>2, <1>3 DEF IInv, PacketsInPhase, InPhase, TypeOK
  <2>2. QED
    BY <1>1, <2>1 DEF IInv, PacketsInPhase, InPhase
<1>9. HandsInPackets'
  BY <1>0, <1>1, <1>3 DEF IInv, HandsInPackets, TypeOK
<1>10. MarksInTurn'
  BY <1>0, <1>1, <1>2, <1>4 DEF IInv, MarksInTurn, Quiet, TypeOK, Queues
<1>11. QED
  BY <1>1, <1>6, <1>7, <1>8, <1>9, <1>10, ObjectsStay DEF IInv

LEMMA TakeDrainKeeps ==
  ASSUME IInv, NEW w \in Workers, NEW q \in Queues, TakeDrain(w, q)
  PROVE  IInv'
<1> USE DEF heapVars, markVars, ringVars, remVars, cycleVars, sweepVars, mutVars
<1>0. TypeOK /\ job[w] = None /\ hand[w] = None /\ drains[q] \in Nat \ {0}
  BY IdleHands, ZgcAssumption DEF IInv, TakeDrain, None, TypeOK
<1> DEFINE taken == IF q = "main" THEN [kind |-> "drain"] ELSE [kind |-> "oldDrain", budget |-> OldBudget]
<1>1. /\ drains' = [drains EXCEPT ![q] = @ - 1] /\ job' = [job EXCEPT ![w] = taken]
      /\ UNCHANGED <<heapVars, local, markVars, ringVars, remVars, cycleVars, pending,
                     bridges, errors, sweepVars, queue, hand, mutVars>>
  BY DEF TakeDrain
<1>2. (q = "main" /\ phase = "mark") \/ (q = "old" /\ oldActive)
  BY <1>0, MarkedFrom
<1>3. taken \in Jobs /\ taken # None /\ ((taken.kind = "oldDrain") <=> (q = "old"))
  <2>1. taken \in Jobs /\ ((taken.kind = "oldDrain") <=> (q = "old"))
    BY ZgcAssumption DEF Jobs, Packets, Queues
  <2>2. QED
    BY <2>1, NoneIsNoJob
<1>4. taken.kind \in {"drain", "oldDrain"} /\ (taken.kind = "drain" => phase = "mark")
  BY <1>2 DEF Queues
<1> HIDE DEF taken
<1>5. /\ Cardinality(Busy(q)') = Cardinality(Busy(q)) + 1
      /\ \A o \in Queues \ {q} : Busy(o)' = Busy(o)
  BY <1>0, <1>1, <1>3, JobTaken
<1>6. PacketsFit'
  <2>1. \A o \in Queues : InFlight(o)' = InFlight(o)
    <3>1. Cardinality(queue) \in Nat /\ \A o \in Queues : drains[o] \in Nat
      BY <1>0, FS_CardinalityType, ZgcAssumption DEF TypeOK
    <3>2. drains'[q] = drains[q] - 1 /\ \A o \in Queues \ {q} : drains'[o] = drains[o]
      BY <1>0, <1>1 DEF TypeOK
    <3>3. InFlight(q)' = InFlight(q)
      BY <1>1, <1>5, <3>1, <3>2, BusyIsFinite DEF InFlight
    <3>4. QED
      BY <1>1, <1>5, <3>2, <3>3 DEF InFlight
  <2>2. QED
    BY <2>1 DEF IInv, PacketsFit, Queues
<1>7. TypeOK'
  <2>1. drains' \in [Queues -> 0..PacketCapacity]
    <3>1. drains[q] \in 0..PacketCapacity /\ PacketCapacity \in Nat
      BY <1>0, ZgcAssumption DEF TypeOK
    <3>2. drains[q] - 1 \in 0..PacketCapacity
      BY <1>0, <3>1
    <3>3. QED
      BY <1>0, <1>1, <3>2 DEF TypeOK
  <2>2. job' \in [Workers -> Jobs \cup {None}]
    BY <1>0, <1>1, <1>3 DEF TypeOK
  <2>3. QED
    BY <1>0, <1>1, <2>1, <2>2 DEF TypeOK
<1>8. PacketsInPhase'
  <2>1. \A v \in Workers : InPhase(job[v])'
    BY <1>0, <1>1, <1>4 DEF IInv, PacketsInPhase, InPhase, TypeOK
  <2>2. QED
    BY <1>1, <2>1 DEF IInv, PacketsInPhase, InPhase
<1>9. HandsInPackets'
  BY <1>0, <1>1 DEF IInv, HandsInPackets, TypeOK
<1>10. MarksInTurn'
  BY <1>0, <1>1, <1>2, <1>5 DEF IInv, MarksInTurn, Quiet, TypeOK, Queues
<1>11. QED
  BY <1>1, <1>6, <1>7, <1>8, <1>9, <1>10, ObjectsStay DEF IInv

\* A worker is done with its packet.
LEMMA PacketDone ==
  ASSUME IInv, NEW w \in Workers, hand[w] = None, job' = [job EXCEPT ![w] = None],
         UNCHANGED <<queue, drains, hand, phase, mut>>
  PROVE  /\ PacketsFit' /\ PacketsInPhase' /\ HandsInPackets'
         /\ job' \in [Workers -> Jobs \cup {None}]
         /\ \A q \in Queues : Quiet(q) /\ pending'[q] = {} => Quiet(q)'
         /\ Busy("old") = {} => Busy("old")' = {}
<1>0. TypeOK
  BY DEF IInv
<1>1. /\ job' \in [Workers -> Jobs \cup {None}]
      /\ \A v \in Workers : job'[v] = job[v] \/ (job'[v] = None /\ v = w)
  BY <1>0 DEF TypeOK
<1>2. \A q \in Queues : /\ Busy(q)' \subseteq Busy(q)
                        /\ Cardinality(Busy(q)') <= Cardinality(Busy(q))
  BY <1>0, JobDone
<1>3. PacketsFit'
  <2>1. \A q \in Queues : InFlight(q) \in Nat /\ InFlight(q)' \in Int /\ InFlight(q)' <= InFlight(q)
    <3>1. \A q \in Queues : Cardinality(Busy(q)) \in Nat /\ Cardinality(Busy(q)') \in Nat
      <4>1. \A q \in Queues : IsFiniteSet(Busy(q)')
        BY <1>2, BusyIsFinite, FS_Subset
      <4>2. QED
        BY <4>1, BusyIsFinite, FS_CardinalityType
    <3>2. Cardinality(queue) \in Nat /\ \A q \in Queues : drains[q] \in Nat
      BY <1>0, FS_CardinalityType, ZgcAssumption DEF TypeOK
    <3>3. QED
      BY <1>2, <3>1, <3>2 DEF InFlight
  <2>2. QED
    BY <2>1, ZgcAssumption DEF IInv, PacketsFit, Queues
<1>4. PacketsInPhase'
  <2>1. \A v \in Workers : InPhase(job[v])'
    BY <1>1 DEF IInv, PacketsInPhase, InPhase, None
  <2>2. QED
    BY <2>1 DEF IInv, PacketsInPhase, InPhase
<1>5. HandsInPackets'
  BY <1>1 DEF IInv, HandsInPackets
<1>6. \A q \in Queues : Quiet(q) /\ pending'[q] = {} => Quiet(q)'
  BY DEF Quiet
<1>7. QED
  BY <1>1, <1>2, <1>3, <1>4, <1>5, <1>6 DEF Queues

LEMMA FinishDrainKeeps ==
  ASSUME IInv, NEW w \in Workers, FinishDrain(w)
  PROVE  IInv'
<1> USE DEF FinishDrain, heapVars, markVars, ringVars, remVars, cycleVars, sweepVars, mutVars
<1>1. /\ PacketsFit' /\ PacketsInPhase' /\ HandsInPackets'
      /\ job' \in [Workers -> Jobs \cup {None}]
      /\ \A q \in Queues : Quiet(q) /\ pending'[q] = {} => Quiet(q)'
      /\ Busy("old") = {} => Busy("old")' = {}
  BY PacketDone
<1>2. TypeOK'
  BY <1>1 DEF IInv, TypeOK
<1>3. MarksInTurn'
  BY <1>1 DEF IInv, MarksInTurn, Quiet, Queues
<1>4. QED
  BY <1>1, <1>2, <1>3, ObjectsStay DEF IInv

LEMMA RelocateKeeps ==
  ASSUME IInv, NEW w \in Workers, Relocate(w)
  PROVE  IInv'
<1> USE DEF markVars, ringVars, remVars, cycleVars, sweepVars, mutVars
<1> DEFINE h == job[w].handle
<1>0. TypeOK /\ hand[w] = None /\ job[w].kind = "move" /\ phase = "relocate"
  BY IdleHands DEF IInv, Relocate, PacketsInPhase, InPhase
<1>1. h \in Handles
  <2>1. job[w] \in Jobs \cup {None}
    BY <1>0 DEF TypeOK
  <2>2. job[w] \in Packets
    BY <1>0, <2>1 DEF Jobs, None
  <2>3. QED
    BY <1>0, <2>2, PacketTypes
<1> HIDE DEF h
<1>2. /\ job' = [job EXCEPT ![w] = None]
      /\ UNCHANGED <<entry, age, field, local, marking, ringVars, remVars, cycleVars, pending,
                 bridges, errors, candidates, selected, queue, drains, hand, mutVars>>
      /\ \/ /\ h \in moving /\ addr' = [addr EXCEPT ![h] = @ + 1]
            /\ marks' = MovedMarks(h, {entry[h]}) /\ moving' = moving \ {h}
         \/ UNCHANGED <<addr, marks, moving>>
  BY DEF Relocate, h
<1>3. /\ PacketsFit' /\ PacketsInPhase' /\ HandsInPackets'
      /\ job' \in [Workers -> Jobs \cup {None}]
      /\ \A q \in Queues : Quiet(q) /\ pending'[q] = {} => Quiet(q)'
      /\ Busy("old") = {} => Busy("old")' = {}
  BY <1>0, <1>2, PacketDone
<1>4. h \in moving => addr[h] + 1 \in Addresses
  BY <1>0, <1>1, ZgcAssumption DEF IInv, TypeOK, BoundsKept, Addresses
<1>5. TypeOK'
  <2>1. addr' \in [Handles -> Addresses] /\ moving' \subseteq selected
    BY <1>0, <1>1, <1>2, <1>4 DEF TypeOK
  <2>2. marks' \in [{"young", "old"} -> SUBSET (Handles \X Addresses)]
    BY <1>0, <1>1, <1>2, <1>4 DEF TypeOK, MovedMarks
  <2>3. QED
    BY <1>0, <1>2, <1>3, <2>1, <2>2 DEF TypeOK
<1>6. (BoundsKept /\ MovingWhileRelocating)'
  BY <1>0, <1>1, <1>2 DEF IInv, TypeOK, BoundsKept, MovingWhileRelocating
<1>7. MarksInTurn'
  BY <1>2, <1>3 DEF IInv, MarksInTurn, Quiet, Queues
<1>8. QED
  BY <1>3, <1>5, <1>6, <1>7 DEF IInv

LEMMA ProcessPageKeeps ==
  ASSUME IInv, NEW w \in Workers, ProcessPage(w)
  PROVE  IInv'
<1> USE DEF markVars, ringVars, remVars, cycleVars, sweepVars, mutVars
<1>0. TypeOK /\ hand[w] = None /\ job[w].kind = "page" /\ phase = "select" /\ moving = {}
  BY IdleHands DEF IInv, ProcessPage, PacketsInPhase, InPhase, MovingWhileRelocating
<1> DEFINE here == {h \in Handles : Live(h) /\ PageOf[h] = job[w].page}
           mine == {h \in here : Includes(generation, entry[h])}
           kept == {h \in mine : IsMarked(h, entry[h])}
           young == {h \in kept : entry[h] = "young"}
<1>1. PICK sparse \in BOOLEAN :
        LET promoted == {h \in young : age[h] + 1 >= 2 \/ ~sparse}
        IN /\ sparse => \A h \in kept : addr[h] < MaxMoves
           /\ age' = [h \in Handles |-> IF h \in young THEN age[h] + 1 ELSE age[h]]
           /\ entry' = [h \in Handles |-> IF h \in promoted THEN "old" ELSE entry[h]]
           /\ marks' = PromotedMarks(promoted) /\ pending' = PromotedGrey(promoted)
           /\ owners' = owners \cup promoted
           /\ selected' = IF sparse THEN selected \cup (kept \ promoted) ELSE selected
           /\ candidates' = candidates \cup (mine \ kept)
  BY DEF ProcessPage
<1> DEFINE promoted == {h \in young : age[h] + 1 >= 2 \/ ~sparse}
<1>2. /\ job' = [job EXCEPT ![w] = None]
      /\ UNCHANGED <<addr, field, local, marking, ringVars, slots, cycleVars, bridges,
                     errors, moving, queue, drains, hand, mutVars>>
  BY DEF ProcessPage
<1>3. /\ kept \subseteq Handles /\ mine \subseteq Handles /\ young \subseteq kept
      /\ promoted \subseteq young
      /\ \A h \in young : entry[h] = "young" /\ (h \notin promoted => age[h] + 1 < 2)
  BY <1>0 DEF TypeOK
<1>4. /\ sparse => \A h \in kept : addr[h] < MaxMoves
      /\ age' = [h \in Handles |-> IF h \in young THEN age[h] + 1 ELSE age[h]]
      /\ entry' = [h \in Handles |-> IF h \in promoted THEN "old" ELSE entry[h]]
      /\ marks' = PromotedMarks(promoted) /\ pending' = PromotedGrey(promoted)
      /\ owners' = owners \cup promoted
      /\ selected' = IF sparse THEN selected \cup (kept \ promoted) ELSE selected
      /\ candidates' = candidates \cup (mine \ kept)
  BY <1>1
<1>5. \A h \in Handles : entry[h] = "young" => h \in young \/ age'[h] = age[h]
  BY <1>4
<1> HIDE DEF here, mine, kept, young, promoted
<1>6. /\ PacketsFit' /\ PacketsInPhase' /\ HandsInPackets'
      /\ job' \in [Workers -> Jobs \cup {None}]
      /\ \A q \in Queues : Quiet(q) /\ pending'[q] = {} => Quiet(q)'
      /\ Busy("old") = {} => Busy("old")' = {}
  BY <1>0, <1>2, PacketDone
<1>7. TypeOK'
  <2>1. age' \in [Handles -> 0..2]
    <3>1. \A h \in young : age[h] + 1 \in 0..2
      <4>1. \A h \in young : age[h] \in 0..2 /\ age[h] < 2
        BY <1>0, <1>3 DEF IInv, TypeOK, BoundsKept
      <4>2. QED
        BY <4>1
    <3>2. QED
      BY <1>0, <1>4, <3>1 DEF TypeOK
  <2>2. entry' \in [Handles -> {"free", "young", "old", "retired"}]
    BY <1>0, <1>4 DEF TypeOK
  <2>3. marks' \in [{"young", "old"} -> SUBSET (Handles \X Addresses)]
    <3>1. \A h \in promoted : <<h, addr[h]>> \in Handles \X Addresses
      BY <1>0, <1>3 DEF TypeOK
    <3>2. QED
      BY <1>0, <1>4, <3>1 DEF TypeOK, PromotedMarks
  <2>4. pending' \in [Queues -> SUBSET Handles]
    <3>1. promoted \subseteq Handles
      BY <1>3
    <3>2. QED
      BY <1>0, <1>4, <3>1 DEF TypeOK, PromotedGrey
  <2>5. owners' \subseteq Handles /\ selected' \subseteq Handles /\ candidates' \subseteq Handles
    BY <1>0, <1>3, <1>4 DEF TypeOK
  <2>6. QED
    BY <1>0, <1>2, <1>6, <2>1, <2>2, <2>3, <2>4, <2>5 DEF TypeOK
<1>8. (BoundsKept /\ MovingWhileRelocating)'
  <2>1. \A h \in Handles : entry'[h] = "young" => age'[h] < 2
    BY <1>0, <1>3, <1>4, <1>5 DEF IInv, TypeOK, BoundsKept
  <2>2. \A h \in selected' : addr[h] < MaxMoves
    BY <1>0, <1>4 DEF IInv, BoundsKept
  <2>3. QED
    BY <1>0, <1>2, <2>1, <2>2 DEF BoundsKept, MovingWhileRelocating
<1>9. MarksInTurn'
  <2>1. pending'["main"] = pending["main"] /\ (~oldActive => pending' = pending)
    BY <1>0, <1>4 DEF PromotedGrey, TypeOK
  <2>2. QED
    BY <1>2, <1>6, <2>1 DEF IInv, MarksInTurn, Quiet, Queues
<1>10. QED
  BY <1>6, <1>7, <1>8, <1>9 DEF IInv

-----------------------------------------------------------------------------
(* The safepoints. *)

\* Packets submitted to the drains of the queues fit if there is room for them.
LEMMA PacketsAdded ==
  ASSUME IInv, NEW n \in [Queues -> Nat],
         InFlight("main") + InFlight("old") + n["main"] + n["old"] <= PacketCapacity,
         \A q \in Queues : drains'[q] = drains[q] + n[q],
         drains' = [q \in Queues |-> drains'[q]], UNCHANGED <<queue, job>>
  PROVE  PacketsFit' /\ drains' \in [Queues -> 0..PacketCapacity]
<1>1. TypeOK /\ PacketCapacity \in Nat
  BY ZgcAssumption DEF IInv
<1>2. Cardinality(queue) \in Nat /\ \A q \in Queues : drains[q] \in Nat /\ Cardinality(Busy(q)) \in Nat
  BY <1>1, FS_CardinalityType, BusyIsFinite DEF TypeOK
<1>3. \A q \in Queues : InFlight(q) \in Nat /\ InFlight(q)' = InFlight(q) + n[q]
  <2>1. \A q \in Queues : Busy(q)' = Busy(q)
    BY DEF Busy
  <2>2. QED
    BY <1>1, <1>2, <2>1, InFlightIsNat DEF InFlight
<1>4. "main" \in Queues /\ "old" \in Queues /\ n["main"] \in Nat /\ n["old"] \in Nat
  BY DEF Queues
<1>5. PacketsFit'
  BY <1>1, <1>3, <1>4 DEF PacketsFit
<1>6. \A q \in Queues : drains'[q] \in 0..PacketCapacity
  <2>1. \A q \in Queues : drains'[q] \in Nat /\ drains'[q] <= InFlight(q) + n[q]
    BY <1>2 DEF InFlight
  <2>2. \A q \in Queues : drains'[q] <= PacketCapacity
    BY <1>1, <1>3, <1>4, <2>1 DEF Queues
  <2>3. QED
    BY <1>1, <2>1, <2>2
<1>7. QED
  BY <1>5, <1>6

\* One packet of the old mark is submitted where there is room.
LEMMA OldPacketAdded ==
  ASSUME IInv, NEW b \in BOOLEAN, b => Room(1),
         drains' = [drains EXCEPT !["old"] = @ + IF b THEN 1 ELSE 0], UNCHANGED <<queue, job>>
  PROVE  /\ PacketsFit' /\ drains' \in [Queues -> 0..PacketCapacity]
         /\ drains'["main"] = drains["main"] /\ (~b => drains' = drains)
<1> DEFINE n == [q \in Queues |-> IF q = "old" /\ b THEN 1 ELSE 0]
<1>1. TypeOK /\ drains \in [Queues -> 0..PacketCapacity] /\ PacketCapacity \in Nat
  BY ZgcAssumption DEF IInv, TypeOK
<1>2. /\ n \in [Queues -> Nat] /\ n["main"] = 0 /\ n["old"] = IF b THEN 1 ELSE 0
      /\ \A q \in Queues : drains'[q] = drains[q] + n[q]
      /\ drains' = [q \in Queues |-> drains'[q]]
  <2>1. n \in [Queues -> Nat] /\ n["main"] = 0 /\ n["old"] = IF b THEN 1 ELSE 0
    BY DEF Queues
  <2> HIDE DEF n
  <2>2. drains'["main"] = drains["main"] + 0 /\ drains'["old"] = drains["old"] + n["old"]
    BY <1>1, <2>1 DEF Queues
  <2>3. drains' = [q \in Queues |-> drains'[q]]
    BY <1>1
  <2>4. QED
    BY <2>1, <2>2, <2>3 DEF Queues
<1>3. InFlight("main") \in Nat /\ InFlight("old") \in Nat
  BY <1>1, InFlightIsNat DEF Queues
<1> HIDE DEF n
<1>4. InFlight("main") + InFlight("old") + n["main"] + n["old"] <= PacketCapacity
  BY <1>1, <1>2, <1>3 DEF IInv, PacketsFit, Room
<1>5. PacketsFit' /\ drains' \in [Queues -> 0..PacketCapacity]
  BY <1>2, <1>4, PacketsAdded
<1>6. drains'["main"] = drains["main"] /\ (~b => drains' = drains)
  BY <1>1 DEF Queues
<1>7. QED
  BY <1>5, <1>6

LEMMA SubmitDrainsFit ==
  ASSUME IInv, NEW qs \in SUBSET Queues, SubmitDrains(qs), UNCHANGED <<queue, job>>
  PROVE  /\ PacketsFit' /\ drains' \in [Queues -> 0..PacketCapacity]
         /\ full' \in BOOLEAN /\ failed' \in BOOLEAN
         /\ \A q \in Queues \ qs : drains'[q] = drains[q]
<1>1. TypeOK /\ drains \in [Queues -> 0..PacketCapacity] /\ PacketCapacity \in Nat
  BY ZgcAssumption DEF IInv, TypeOK
<1>2. /\ Cardinality(qs) \in Nat /\ (qs # {} => Cardinality(qs) >= 1)
      /\ ("main" \in qs /\ "old" \in qs => Cardinality(qs) = 2)
  <2>1. IsFiniteSet({}) /\ Cardinality({}) = 0
    BY FS_EmptySet
  <2>2. /\ Cardinality({"main"}) = 1 /\ Cardinality({"old"}) = 1
        /\ IsFiniteSet({"main"}) /\ IsFiniteSet({"old"})
    BY FS_Singleton
  <2>3. Cardinality({"main"} \cup {"old"}) = 2
    BY <2>2, FS_AddElement
  <2>4. qs = {} \/ qs = {"main"} \/ qs = {"old"} \/ qs = {"main"} \cup {"old"}
    BY DEF Queues
  <2>5. QED
    BY <2>1, <2>2, <2>3, <2>4
<1>3. InFlight("main") \in Nat /\ InFlight("old") \in Nat
  BY <1>1, InFlightIsNat DEF Queues
<1> DEFINE n == [q \in Queues |->
                   IF q \in qs /\ Room(IF q = "old" THEN Cardinality(qs) ELSE 1) THEN 1 ELSE 0]
<1>4. /\ n \in [Queues -> Nat] /\ n["main"] \in {0, 1} /\ n["old"] \in {0, 1}
      /\ n["main"] = 1 => "main" \in qs /\ Room(1)
      /\ n["old"] = 1 => "old" \in qs /\ Room(Cardinality(qs))
      /\ \A q \in Queues \ qs : n[q] = 0
  BY DEF Queues
<1>5. \A q \in Queues : drains'[q] = drains[q] + n[q]
  BY DEF SubmitDrains
<1>6. drains' = [q \in Queues |-> drains'[q]]
  BY DEF SubmitDrains
<1> HIDE DEF n
<1>7. InFlight("main") + InFlight("old") + n["main"] + n["old"] <= PacketCapacity
  BY <1>1, <1>2, <1>3, <1>4 DEF IInv, PacketsFit, Room
<1>8. PacketsFit' /\ drains' \in [Queues -> 0..PacketCapacity]
  BY <1>4, <1>5, <1>6, <1>7, PacketsAdded
<1>9. full' \in BOOLEAN /\ failed' \in BOOLEAN
  BY <1>1 DEF SubmitDrains, Fail, TypeOK
<1>10. \A q \in Queues \ qs : drains'[q] = drains[q]
  BY <1>1, <1>4, <1>5
<1>11. QED
  BY <1>8, <1>9, <1>10

\* A queue without packets in flight has none in the pool, and no worker or hand.
LEMMA NothingInFlight ==
  ASSUME IInv, mut = Ready, NEW q \in Queues, InFlight(q) = 0
  PROVE  /\ drains[q] = 0 /\ Busy(q) = {} /\ (q = "main" => queue = {})
         /\ \A m \in Markers : hand[m] # None => hand[m].queue # q
<1>1. TypeOK
  BY DEF IInv
<1>2. /\ Cardinality(queue) \in Nat /\ drains[q] \in Nat /\ Cardinality(Busy(q)) \in Nat
      /\ IsFiniteSet(queue) /\ IsFiniteSet(Busy(q))
  BY <1>1, FS_CardinalityType, BusyIsFinite, ZgcAssumption DEF TypeOK
<1>3. drains[q] = 0 /\ Cardinality(Busy(q)) = 0 /\ (q = "main" => Cardinality(queue) = 0)
  BY <1>2 DEF InFlight
<1>4. Busy(q) = {} /\ (q = "main" => queue = {})
  BY <1>2, <1>3, FS_EmptySet
<1>5. ASSUME NEW m \in Markers, hand[m] # None
      PROVE  hand[m].queue # q
  <2>1. CASE m = Mutator
    BY <1>5, <2>1 DEF IInv, HandsInPackets, Ready
  <2>2. CASE m \in Workers
    <3>1. hand[m] \in Hands /\ job[m].kind = IF hand[m].queue = "old" THEN "oldDrain" ELSE "drain"
      BY <1>1, <1>5, <2>2 DEF IInv, HandsInPackets, TypeOK
    <3>2. hand[m].queue \in Queues
      BY <3>1 DEF Hands
    <3>3. m \in Busy(hand[m].queue)
      BY <2>2, <3>1, <3>2 DEF Busy, Queues, None
    <3>4. QED
      BY <1>4, <3>3
  <2>3. QED
    BY <2>1, <2>2 DEF Markers
<1>6. QED
  BY <1>3, <1>4, <1>5

\* Between the phases of a cycle the pool has no packet of the main queue.
LEMMA NoMainPackets ==
  ASSUME IInv, phase \in {"idle", "await", "reclaim"}
  PROVE  queue = {} /\ Busy("main") = {}
<1>1. TypeOK
  BY DEF IInv
<1>2. queue = {}
  BY <1>1, PacketTypes DEF IInv, PacketsInPhase, InPhase, TypeOK
<1>3. ASSUME NEW w \in Workers, job[w] # None, job[w].kind # "oldDrain"
      PROVE  FALSE
  <2>1. job[w] \in Packets
    BY <1>1, <1>3 DEF TypeOK, Jobs
  <2>2. QED
    BY <2>1, PacketTypes DEF IInv, PacketsInPhase, InPhase
<1>4. QED
  BY <1>2, <1>3 DEF Busy

\* A phase may begin when the main queue has no packet in the pool.
LEMMA PoolInPhase ==
  ASSUME TypeOK, queue = {}, Busy("main") = {}, UNCHANGED <<queue, job>>
  PROVE  (\A p \in queue : InPhase(p))' /\ (\A w \in Workers : InPhase(job[w]))'
<1>1. ASSUME NEW w \in Workers
      PROVE  job[w] = None \/ job[w].kind = "oldDrain"
  BY DEF Busy
<1>2. QED
  BY <1>1 DEF InPhase, None

\* A flush leaves the ring empty and hands the queues nothing but handles.
LEMMA FlushTypes ==
  ASSUME IInv, Flush
  PROVE  /\ slots' \subseteq Handles \X Addresses /\ owners' \subseteq Handles
         /\ ring' \subseteq Records /\ IsFiniteSet(ring') /\ ringLen' \in Cardinality(ring')..RingCapacity
         /\ pending' \in [Queues -> SUBSET Handles]
         /\ pending'["main"] = pending["main"] \cup Routed("main", ring)
         /\ (~oldActive => pending'["old"] = pending["old"])
<1>1. TypeOK /\ ring \in SUBSET Records
  BY DEF IInv, TypeOK
<1>2. slots' \subseteq Handles \X Addresses /\ owners' \subseteq Handles
  BY <1>1, RememberTypes DEF Flush
<1>3. ring' \subseteq Records /\ IsFiniteSet(ring') /\ ringLen' \in Cardinality(ring')..RingCapacity
  <2>1. ring' = {} /\ ringLen' = 0 /\ 0 \in 0..RingCapacity
    BY ZgcAssumption DEF Flush
  <2>2. IsFiniteSet({}) /\ Cardinality({}) = 0
    BY FS_EmptySet
  <2>3. QED
    BY <2>1, <2>2
<1>4. Routed("main", ring) \subseteq Handles /\ Routed("old", ring) \subseteq Handles
  BY <1>1, RoutedAreHandles DEF TypeOK, Queues
<1>5. pending["main"] \subseteq Handles /\ pending["old"] \subseteq Handles
  BY <1>1 DEF TypeOK, Queues
<1>6. /\ pending'["main"] = pending["main"] \cup Routed("main", ring)
      /\ pending'["old"] \in {pending["old"], pending["old"] \cup Routed("old", ring)}
      /\ DOMAIN pending' = Queues /\ pending' = [q \in Queues |-> pending'[q]]
  BY DEF Flush, Queues
<1>7. pending' \in [Queues -> SUBSET Handles]
  <2>1. \A q \in Queues : pending'[q] \in SUBSET Handles
    BY <1>4, <1>5, <1>6 DEF Queues
  <2>2. QED
    BY <1>6, <2>1
<1>8. ~oldActive => pending'["old"] = pending["old"]
  BY <1>6, NothingRouted
<1>9. QED
  BY <1>2, <1>3, <1>6, <1>7, <1>8

LEMMA SubmitKeeps ==
  ASSUME IInv, Submit
  PROVE  IInv'
<1> USE DEF heapVars, markVars, ringVars, remVars, cycleVars, sweepVars
<1>0. /\ TypeOK /\ mut \in MutatorStates /\ mut.pc = "submit" /\ hand[Mutator] = None
      /\ mut.todo \subseteq Packets
  BY MutatorTypes DEF IInv, HandsInPackets, TypeOK, Submit
<1>1. UNCHANGED <<heapVars, local, markVars, ringVars, remVars, cycleVars, pending,
                  bridges, errors, sweepVars, job, hand, ops>>
  BY DEF Submit
<1>2. CASE mut' = Ready /\ UNCHANGED <<queue, drains>> /\ full' \in BOOLEAN /\ failed' \in BOOLEAN
  <2>1. TypeOK'
    BY <1>0, <1>1, <1>2 DEF TypeOK, MutatorStates
  <2>2. QED
    BY <1>0, <1>1, <1>2, <2>1, PoolStays, ObjectsStay DEF IInv, Ready
<1>3. ASSUME NEW p \in mut.todo, Room(1), mut' = [mut EXCEPT !.todo = @ \ {p}],
             UNCHANGED <<full, failed>>,
             \/ p.kind = "drain" /\ drains' = [drains EXCEPT !["main"] = @ + 1] /\ UNCHANGED queue
             \/ queue' = queue \cup {p} /\ UNCHANGED drains /\ p.kind # "drain"
      PROVE  IInv'
  <2>1. mut' \in MutatorStates /\ mut'.pc = "submit" /\ mut'.todo \subseteq mut.todo
    <3>1. mut \in [pc : {"submit"}, todo : SUBSET Packets]
      BY <1>0 DEF MutatorStates, Ready
    <3>2. mut' \in [pc : {"submit"}, todo : SUBSET Packets] /\ mut'.todo = mut.todo \ {p}
      BY <1>3, <3>1
    <3>3. QED
      BY <3>2 DEF MutatorStates
  <2>2. p \in Packets /\ InPhase(p) /\ (p.kind = "drain" => phase = "mark")
    BY <1>0, <1>3 DEF IInv, PacketsInPhase, InPhase
  <2>3. /\ PacketsFit' /\ drains' \in [Queues -> 0..PacketCapacity] /\ IsFiniteSet(queue')
        /\ queue' \subseteq Packets
    <3>1. /\ Cardinality(queue) \in Nat /\ IsFiniteSet(queue)
          /\ \A q \in Queues : drains[q] \in Nat /\ Cardinality(Busy(q)) \in Nat
          /\ InFlight("main") \in Nat /\ InFlight("old") \in Nat /\ PacketCapacity \in Nat
      BY <1>0, FS_CardinalityType, BusyIsFinite, InFlightIsNat, ZgcAssumption DEF TypeOK, Queues
    <3>2. \A q \in Queues : Busy(q)' = Busy(q)
      BY <1>1 DEF Busy
    <3>3. CASE p.kind = "drain" /\ drains' = [drains EXCEPT !["main"] = @ + 1] /\ UNCHANGED queue
      <4>1. drains'["main"] = drains["main"] + 1 /\ drains'["old"] = drains["old"]
        BY <1>0, <3>3 DEF TypeOK, Queues
      <4>2. InFlight("main")' = InFlight("main") + 1 /\ InFlight("old")' = InFlight("old")
        BY <3>1, <3>2, <3>3, <4>1 DEF InFlight, Queues
      <4>3. PacketsFit'
        BY <1>3, <3>1, <4>2 DEF PacketsFit, Room
      <4>4. drains["main"] + 1 \in 0..PacketCapacity
        <5>1. drains["main"] <= InFlight("main")
          BY <3>1 DEF InFlight, Queues
        <5>2. QED
          BY <1>3, <3>1, <5>1 DEF Room, Queues
      <4>5. QED
        BY <1>0, <3>1, <3>3, <4>3, <4>4 DEF TypeOK
    <3>4. CASE queue' = queue \cup {p} /\ UNCHANGED drains
      <4>1. IsFiniteSet(queue') /\ Cardinality(queue') \in {Cardinality(queue), Cardinality(queue) + 1}
        <5>1. /\ IsFiniteSet(queue \cup {p})
              /\ Cardinality(queue \cup {p}) \in {Cardinality(queue), Cardinality(queue) + 1}
          BY <3>1, FS_AddElement
        <5>2. QED
          BY <3>4, <5>1
      <4>2. /\ InFlight("main")' \in {InFlight("main"), InFlight("main") + 1}
            /\ InFlight("old")' = InFlight("old")
        BY <3>1, <3>2, <3>4, <4>1 DEF InFlight, Queues
      <4>3. PacketsFit'
        BY <1>3, <3>1, <4>2 DEF PacketsFit, Room
      <4>4. QED
        BY <1>0, <2>2, <3>4, <4>1, <4>3 DEF TypeOK
    <3>5. QED
      BY <1>3, <3>3, <3>4
  <2>4. TypeOK'
    BY <1>0, <1>1, <1>3, <2>1, <2>3 DEF TypeOK
  <2>5. PacketsInPhase'
    BY <1>1, <1>3, <2>1, <2>2 DEF IInv, PacketsInPhase, InPhase
  <2>6. HandsInPackets'
    BY <1>0, <1>1 DEF IInv, HandsInPackets
  <2>7. MarksInTurn'
    <3>1. drains'["old"] = drains["old"] /\ (phase # "mark" => drains' = drains)
      BY <1>0, <1>3, <2>2 DEF TypeOK, Queues
    <3>2. QED
      BY <1>1, <3>1 DEF IInv, MarksInTurn, Quiet, Busy
  <2>8. QED
    BY <1>1, <2>3, <2>4, <2>5, <2>6, <2>7, ObjectsStay DEF IInv
<1>4. QED
  <2>1. CASE mut.todo = {}
    BY <1>0, <1>2, <2>1 DEF Submit, TypeOK
  <2>2. ASSUME mut.todo # {}, NEW p \in mut.todo, ~Room(1), mut' = Ready /\ Fail /\ UNCHANGED <<queue, drains>>
        PROVE  IInv'
    BY <1>0, <1>2, <2>2 DEF Fail
  <2>3. QED
    BY <1>3, <2>1, <2>2 DEF Submit

LEMMA BeginMarkKeeps ==
  ASSUME IInv, NEW g \in {"young", "full"}, BeginMark(g)
  PROVE  IInv'
<1> USE DEF heapVars, ringVars, remVars, cycleVars, sweepVars, packetVars
<1> DEFINE grey == IF g = "young" THEN RememberedGrey ELSE {}
           todo == IF Roots = {} /\ grey # {} THEN {[kind |-> "drain"]}
                   ELSE {[kind |-> "root", handle |-> h] : h \in Roots}
<1>0. /\ TypeOK /\ phase = "idle" /\ mut = Ready /\ hand[Mutator] = None
      /\ moving = {} /\ queue = {} /\ Busy("main") = {}
  BY NoMainPackets DEF IInv, HandsInPackets, MovingWhileRelocating, BeginMark, Polling, Ready
<1>1. /\ slots' \in {slots, KeptSlots} /\ owners' \in {owners, KeptOwners}
      /\ pending' = [pending EXCEPT !["main"] = grey] /\ SubmitAll(todo)
      /\ marks' = [k \in {"young", "old"} |-> IF Includes(g, k) THEN {} ELSE marks[k]]
      /\ marking' = marking \cup {EpochOf(g)}
      /\ phase' = "mark" /\ generation' = g
      /\ bridges' = [bridges EXCEPT !["main"] = {}] /\ errors' = errors \ {"main"}
      /\ UNCHANGED <<heapVars, local, ringVars, oldActive, sweepVars, packetVars, hand,
                     full, failed, ops>>
  BY DEF BeginMark
<1>2. todo \subseteq Packets /\ \A p \in todo : p.kind \in {"drain", "root"}
  BY <1>0, RootsAreHandles DEF TypeOK, Packets
<1>3. grey \subseteq Handles
  <2>1. \A h \in Handles : Word(h) \subseteq Handles
    BY <1>0, WordsAreHandles DEF TypeOK
  <2>2. KeptOwners \subseteq Handles /\ \A s \in KeptSlots : s[1] \in Handles
    BY <1>0 DEF TypeOK, KeptOwners, KeptSlots
  <2>3. QED
    BY <2>1, <2>2 DEF RememberedGrey
<1> HIDE DEF grey, todo
<1>4. mut' = [pc |-> "submit", todo |-> todo] /\ mut' \in MutatorStates
  BY <1>1, <1>2 DEF SubmitAll, MutatorStates
<1>5. TypeOK'
  <2>1. slots' \subseteq Handles \X Addresses /\ owners' \subseteq Handles
    BY <1>0, <1>1 DEF TypeOK, KeptSlots, KeptOwners
  <2>2. /\ pending' \in [Queues -> SUBSET Handles] /\ bridges' \in [Queues -> SUBSET Handles]
        /\ errors' \subseteq Queues
    BY <1>0, <1>1, <1>3 DEF TypeOK
  <2>3. /\ marks' \in [{"young", "old"} -> SUBSET (Handles \X Addresses)]
        /\ marking' \subseteq {"young", "old"}
    BY <1>0, <1>1 DEF TypeOK, EpochOf
  <2>4. QED
    BY <1>0, <1>1, <1>4, <2>1, <2>2, <2>3 DEF TypeOK
<1>6. PacketsFit' /\ HandsInPackets'
  BY <1>0, <1>1, <1>4 DEF IInv, PacketsFit, InFlight, Busy, HandsInPackets
<1>7. (BoundsKept /\ MovingWhileRelocating)'
  BY <1>0, <1>1 DEF IInv, BoundsKept, MovingWhileRelocating
<1>8. PacketsInPhase'
  <2>1. (\A p \in queue : InPhase(p))' /\ (\A w \in Workers : InPhase(job[w]))'
    BY <1>0, <1>1, PoolInPhase
  <2>2. mut'.pc = "submit" => \A p \in mut'.todo : InPhase(p)'
    BY <1>1, <1>2, <1>4 DEF InPhase
  <2>3. QED
    BY <2>1, <2>2 DEF PacketsInPhase
<1>9. MarksInTurn'
  <2>1. pending'["old"] = pending["old"]
    BY <1>0, <1>1 DEF TypeOK, Queues
  <2>2. QED
    BY <1>1, <2>1 DEF IInv, MarksInTurn, Quiet, Busy
<1>10. QED
  BY <1>5, <1>6, <1>7, <1>8, <1>9 DEF IInv

LEMMA BeginOldMarkKeeps ==
  ASSUME IInv, BeginOldMark
  PROVE  IInv'
<1> USE DEF heapVars, ringVars, remVars, sweepVars
<1>0. /\ TypeOK /\ phase \in {"idle", "await"} /\ mut = Ready
      /\ moving = {} /\ queue = {} /\ Busy("main") = {}
  BY NoMainPackets DEF IInv, MovingWhileRelocating, BeginOldMark, Polling
<1>1. /\ marks' = [marks EXCEPT !["old"] = {}] /\ marking' = marking \cup {"old"}
      /\ oldActive' = TRUE /\ pending' = [pending EXCEPT !["old"] = Roots]
      /\ bridges' = [bridges EXCEPT !["old"] = {}] /\ errors' = errors \ {"old"}
      /\ SubmitDrains({"old"}) /\ phase' \in {"idle", "await"}
      /\ UNCHANGED <<heapVars, local, ringVars, remVars, generation, sweepVars, queue, job,
                     hand, mut, ops>>
  BY DEF BeginOldMark
<1>2. /\ PacketsFit' /\ drains' \in [Queues -> 0..PacketCapacity]
      /\ full' \in BOOLEAN /\ failed' \in BOOLEAN /\ drains'["main"] = drains["main"]
  <2>1. {"old"} \in SUBSET Queues /\ "main" \in Queues \ {"old"}
    BY DEF Queues
  <2>2. QED
    BY <1>1, <2>1, SubmitDrainsFit
<1>3. TypeOK'
  <2>1. /\ pending' \in [Queues -> SUBSET Handles] /\ bridges' \in [Queues -> SUBSET Handles]
        /\ errors' \subseteq Queues
    BY <1>0, <1>1, RootsAreHandles DEF TypeOK
  <2>2. /\ marks' \in [{"young", "old"} -> SUBSET (Handles \X Addresses)]
        /\ marking' \subseteq {"young", "old"}
    BY <1>0, <1>1 DEF TypeOK
  <2>3. QED
    BY <1>0, <1>1, <1>2, <2>1, <2>2 DEF TypeOK
<1>4. (BoundsKept /\ MovingWhileRelocating)'
  BY <1>0, <1>1 DEF IInv, BoundsKept, MovingWhileRelocating
<1>5. PacketsInPhase'
  <2>1. (\A p \in queue : InPhase(p))' /\ (\A w \in Workers : InPhase(job[w]))'
    BY <1>0, <1>1, PoolInPhase
  <2>2. QED
    BY <1>0, <1>1, <2>1 DEF PacketsInPhase, Ready
<1>6. HandsInPackets'
  BY <1>1 DEF IInv, HandsInPackets
<1>7. MarksInTurn'
  <2>1. pending'["main"] = pending["main"]
    BY <1>0, <1>1 DEF TypeOK, Queues
  <2>2. Quiet("main") /\ Quiet("main")'
    BY <1>0, <1>1, <1>2, <2>1 DEF IInv, MarksInTurn, Quiet
  <2>3. QED
    BY <1>1, <2>2 DEF MarksInTurn
<1>8. QED
  BY <1>2, <1>3, <1>4, <1>5, <1>6, <1>7 DEF IInv

\* The old mark is only handed a packet when it runs.
LEMMA OldPacketMeansOld ==
  NeedsOldPacket \in BOOLEAN /\ (NeedsOldPacket => oldActive)
  BY DEF NeedsOldPacket

\* A poll that flushes the barriers and hands packets to the drains, in a phase
\* that stays.
LEMMA FlushAndSubmitKeeps ==
  ASSUME IInv, mut = Ready, Flush, NEW qs \in SUBSET Queues, SubmitDrains(qs),
         phase # "mark" => "main" \notin qs, ~oldActive => "old" \notin qs,
         errors' \subseteq Queues,
         UNCHANGED <<heapVars, local, markVars, cycleVars, bridges, sweepVars, queue, job,
                     hand, mut, ops>>
  PROVE  IInv'
<1> USE DEF heapVars, markVars, cycleVars, sweepVars
<1>0. TypeOK
  BY DEF IInv
<1>1. /\ PacketsFit' /\ drains' \in [Queues -> 0..PacketCapacity]
      /\ full' \in BOOLEAN /\ failed' \in BOOLEAN
      /\ \A q \in Queues \ qs : drains'[q] = drains[q]
  BY SubmitDrainsFit
<1>2. /\ slots' \subseteq Handles \X Addresses /\ owners' \subseteq Handles
      /\ ring' \subseteq Records /\ IsFiniteSet(ring') /\ ringLen' \in Cardinality(ring')..RingCapacity
      /\ pending' \in [Queues -> SUBSET Handles]
      /\ pending'["main"] = pending["main"] \cup Routed("main", ring)
      /\ (~oldActive => pending'["old"] = pending["old"])
  BY FlushTypes
<1>3. TypeOK'
  BY <1>0, <1>1, <1>2 DEF TypeOK
<1>4. PacketsInPhase' /\ HandsInPackets'
  BY DEF IInv, PacketsInPhase, InPhase, HandsInPackets
<1>5. MarksInTurn'
  <2>1. /\ phase # "mark" => drains'["main"] = drains["main"] /\ pending'["main"] = pending["main"]
        /\ ~oldActive => drains'["old"] = drains["old"]
    BY <1>1, <1>2, NothingRouted DEF Queues
  <2>2. QED
    BY <1>2, <2>1 DEF IInv, MarksInTurn, Quiet, Busy
<1>6. QED
  BY <1>1, <1>3, <1>4, <1>5, ObjectsStay DEF IInv

LEMMA PollOldMarkKeeps ==
  ASSUME IInv, PollOldMark
  PROVE  IInv'
<1>1. /\ mut = Ready /\ phase = "idle" /\ oldActive /\ Flush
      /\ SubmitDrains(IF NeedsOldPacket THEN {"old"} ELSE {})
      /\ errors' = IF NeedsOldPacket /\ ~Room(1) /\ ringLen = 0 THEN errors \cup {"old"} ELSE errors
      /\ UNCHANGED <<heapVars, local, markVars, cycleVars, bridges, sweepVars, queue, job,
                     hand, mut, ops>>
  BY DEF PollOldMark, Polling
<1> DEFINE qs == IF NeedsOldPacket THEN {"old"} ELSE {}
<1>2. qs \in SUBSET Queues /\ "main" \notin qs
  BY DEF Queues
<1>3. errors' \subseteq Queues
  BY <1>1 DEF IInv, TypeOK, Queues
<1>4. SubmitDrains(qs)
  BY <1>1
<1> HIDE DEF qs
<1>5. QED
  BY <1>1, <1>2, <1>3, <1>4, FlushAndSubmitKeeps

LEMMA PollSelectWaitKeeps ==
  ASSUME IInv, PollSelectWait
  PROVE  IInv'
<1> DEFINE qs == (IF InFlight("main") = 0 /\ pending["main"] # {} THEN {"main"} ELSE {}) \cup
                 (IF NeedsOldPacket THEN {"old"} ELSE {})
<1>1. /\ mut = Ready /\ phase = "select" /\ Flush /\ SubmitDrains(qs)
      /\ UNCHANGED <<heapVars, local, markVars, cycleVars, bridges, errors, sweepVars, queue,
                     job, hand, mut, ops>>
  BY DEF PollSelectWait, Polling
<1>2. pending["main"] = {} /\ errors' \subseteq Queues
  BY <1>1 DEF IInv, MarksInTurn, Quiet, TypeOK
<1>3. qs \in SUBSET Queues /\ "main" \notin qs /\ (~oldActive => "old" \notin qs)
  BY <1>2, OldPacketMeansOld DEF Queues
<1> HIDE DEF qs
<1>4. QED
  BY <1>1, <1>2, <1>3, FlushAndSubmitKeeps

\* The sweep is handed a packet for each page.
LEMMA SelectionBegins ==
  ASSUME IInv, NEW error \in BOOLEAN, BeginSelection(error), mut = Ready, moving = {},
         UNCHANGED <<entry, age, addr, moving, queue, job, hand>>,
         queue = {}, Busy("main") = {}, phase' = phase \/ ~error
  PROVE  /\ phase' \in {phase, "select"} /\ mut' \in MutatorStates
         /\ candidates' \subseteq Handles /\ selected' \subseteq Handles
         /\ full' \in BOOLEAN /\ failed' \in BOOLEAN
         /\ (BoundsKept /\ MovingWhileRelocating)' /\ PacketsInPhase' /\ HandsInPackets'
<1>0. TypeOK /\ hand[Mutator] = None
  BY DEF IInv, HandsInPackets, Ready
<1>1. CASE error
  <2>1. UNCHANGED <<phase, candidates, selected, mut>> /\ full' \in BOOLEAN /\ failed' \in BOOLEAN
    BY <1>1 DEF BeginSelection, Fail
  <2>2. PacketsInPhase' /\ HandsInPackets'
    BY <2>1 DEF IInv, PacketsInPhase, InPhase, HandsInPackets
  <2>3. QED
    BY <1>0, <2>1, <2>2, ObjectsStay DEF TypeOK
<1>2. CASE ~error
  <2> DEFINE todo == {[kind |-> "page", page |-> p] : p \in Pages}
  <2>1. /\ phase' = "select" /\ candidates' = {} /\ selected' = {}
        /\ mut' = [pc |-> "submit", todo |-> todo] /\ UNCHANGED <<full, failed>>
    BY <1>2 DEF BeginSelection, SubmitAll
  <2>2. todo \subseteq Packets /\ \A p \in todo : p.kind = "page"
    BY DEF Packets
  <2> HIDE DEF todo
  <2>3. mut' \in MutatorStates
    BY <2>1, <2>2 DEF MutatorStates
  <2>4. (\A p \in queue : InPhase(p))' /\ (\A w \in Workers : InPhase(job[w]))'
    BY <1>0, PoolInPhase
  <2>5. \A p \in todo : InPhase(p)'
    BY <2>1, <2>2 DEF InPhase
  <2>6. PacketsInPhase' /\ HandsInPackets'
    BY <1>0, <2>1, <2>4, <2>5 DEF IInv, PacketsInPhase, HandsInPackets
  <2>7. (BoundsKept /\ MovingWhileRelocating)'
    BY <2>1 DEF IInv, BoundsKept, MovingWhileRelocating
  <2>8. QED
    BY <1>0, <2>1, <2>3, <2>6, <2>7 DEF TypeOK
<1>3. QED
  BY <1>1, <1>2

LEMMA FinishOldMarkKeeps ==
  ASSUME IInv, FinishOldMark
  PROVE  IInv'
<1> USE DEF heapVars, markVars, ringVars, remVars, packetVars
<1>0. /\ TypeOK /\ mut = Ready /\ phase = "idle" /\ moving = {} /\ queue = {} /\ Busy("main") = {}
      /\ pending["old"] = {} /\ InFlight("old") = 0 /\ hand[Mutator] = None
  BY NoMainPackets
     DEF IInv, MovingWhileRelocating, HandsInPackets, FinishOldMark, Polling, Ready
<1>1. /\ oldActive' = FALSE /\ generation' = "old"
      /\ pending' = [pending EXCEPT !["main"] = {}]
      /\ bridges' = [bridges EXCEPT !["main"] = {}] /\ errors' = {}
      /\ UNCHANGED <<heapVars, local, markVars, ringVars, remVars, moving, packetVars, hand, ops>>
  BY DEF FinishOldMark
<1>2. Quiet("old") /\ Busy("old") = {} /\ Quiet("main")
  BY <1>0, NothingInFlight DEF IInv, MarksInTurn, Quiet, Queues
<1>3. PacketsFit' /\ MarksInTurn'
  <2>1. pending'["main"] = {} /\ pending'["old"] = {}
    BY <1>0, <1>1 DEF TypeOK, Queues
  <2>2. (Quiet("old") /\ Busy("old") = {} /\ Quiet("main"))'
    BY <1>1, <1>2, <2>1 DEF Quiet, Busy
  <2>3. PacketsFit'
    BY <1>1 DEF IInv, PacketsFit, InFlight, Busy
  <2>4. QED
    BY <2>2, <2>3 DEF MarksInTurn
<1>4. /\ pending' \in [Queues -> SUBSET Handles] /\ bridges' \in [Queues -> SUBSET Handles]
      /\ errors' \subseteq Queues
  BY <1>0, <1>1 DEF TypeOK
<1>5. CASE "old" \in errors
  <2>1. /\ phase' = "mark" /\ UNCHANGED <<candidates, selected, mut>>
        /\ full' \in BOOLEAN /\ failed' \in BOOLEAN
    BY <1>5 DEF FinishOldMark, Fail
  <2>2. TypeOK'
    BY <1>0, <1>1, <1>4, <2>1 DEF TypeOK
  <2>3. (BoundsKept /\ MovingWhileRelocating)'
    BY <1>0, <1>1, <2>1 DEF IInv, BoundsKept, MovingWhileRelocating
  <2>4. PacketsInPhase'
    <3>1. (\A p \in queue : InPhase(p))' /\ (\A w \in Workers : InPhase(job[w]))'
      BY <1>0, <1>1, PoolInPhase
    <3>2. QED
      BY <1>0, <2>1, <3>1 DEF PacketsInPhase, Ready
  <2>5. HandsInPackets'
    BY <1>1, <2>1 DEF IInv, HandsInPackets
  <2>6. QED
    BY <1>3, <2>2, <2>3, <2>4, <2>5 DEF IInv
<1>6. CASE "old" \notin errors
  <2>1. BeginSelection(FALSE)
    BY <1>6 DEF FinishOldMark
  <2>2. /\ phase' \in {phase, "select"} /\ mut' \in MutatorStates
        /\ candidates' \subseteq Handles /\ selected' \subseteq Handles
        /\ full' \in BOOLEAN /\ failed' \in BOOLEAN
        /\ (BoundsKept /\ MovingWhileRelocating)' /\ PacketsInPhase' /\ HandsInPackets'
    BY <1>0, <1>1, <2>1, SelectionBegins
  <2>3. TypeOK'
    BY <1>0, <1>1, <1>4, <2>2 DEF TypeOK
  <2>4. QED
    BY <1>3, <2>2, <2>3 DEF IInv
<1>7. QED
  BY <1>5, <1>6

LEMMA PollMarkKeeps ==
  ASSUME IInv, PollMark
  PROVE  IInv'
<1> USE DEF heapVars, markVars
<1> DEFINE flushed == Routed("main", ring) # {}
           quiet == InFlight("main") = 0 /\ ~flushed
           grey == quiet /\ pending["main"] # {}
           qs == (IF flushed \/ grey THEN {"main"} ELSE {}) \cup
                 (IF NeedsOldPacket THEN {"old"} ELSE {})
<1>0. /\ TypeOK /\ mut = Ready /\ phase = "mark" /\ Flush
      /\ UNCHANGED <<heapVars, local, markVars, generation, oldActive, bridges, moving,
                     queue, job, hand, ops>>
  BY DEF IInv, PollMark, Polling
<1>1. CASE quiet /\ ~grey /\ (NeedsOldPacket => Room(1))
  <2>1. /\ BeginSelection("main" \in errors) /\ errors' = errors \ {"main"}
        /\ drains' = [drains EXCEPT !["old"] = @ + IF NeedsOldPacket THEN 1 ELSE 0]
    BY <1>1 DEF PollMark
  <2>2. InFlight("main") = 0 /\ Routed("main", ring) = {} /\ pending["main"] = {} /\ moving = {}
    BY <1>0, <1>1 DEF IInv, MovingWhileRelocating
  <2> HIDE DEF flushed, quiet, grey, qs
  <2>3. drains["main"] = 0 /\ Busy("main") = {} /\ queue = {} /\ Quiet("main")
    BY <1>0, <2>2, NothingInFlight DEF Quiet, Queues
  <2>4. /\ phase' \in {phase, "select"} /\ mut' \in MutatorStates
        /\ candidates' \subseteq Handles /\ selected' \subseteq Handles
        /\ full' \in BOOLEAN /\ failed' \in BOOLEAN
        /\ (BoundsKept /\ MovingWhileRelocating)' /\ PacketsInPhase' /\ HandsInPackets'
    BY <1>0, <2>1, <2>2, <2>3, SelectionBegins DEF BeginSelection
  <2>5. /\ PacketsFit' /\ drains' \in [Queues -> 0..PacketCapacity]
        /\ drains'["main"] = drains["main"] /\ (~NeedsOldPacket => drains' = drains)
    BY <1>0, <1>1, <2>1, OldPacketAdded, OldPacketMeansOld
  <2>6. /\ slots' \subseteq Handles \X Addresses /\ owners' \subseteq Handles
        /\ ring' \subseteq Records /\ IsFiniteSet(ring') /\ ringLen' \in Cardinality(ring')..RingCapacity
        /\ pending' \in [Queues -> SUBSET Handles]
        /\ pending'["main"] = pending["main"] \cup Routed("main", ring)
        /\ (~oldActive => pending'["old"] = pending["old"])
    BY <1>0, FlushTypes
  <2>7. TypeOK'
    BY <1>0, <2>1, <2>2, <2>4, <2>5, <2>6 DEF TypeOK
  <2>8. MarksInTurn'
    BY <1>0, <2>2, <2>3, <2>5, <2>6, OldPacketMeansOld DEF IInv, MarksInTurn, Quiet, Busy
  <2>9. QED
    BY <2>4, <2>5, <2>7, <2>8 DEF IInv
<1>2. CASE ~(quiet /\ ~grey /\ (NeedsOldPacket => Room(1)))
  <2>1. SubmitDrains(qs) /\ UNCHANGED <<phase, candidates, selected, errors, mut>>
    BY <1>2 DEF PollMark
  <2>2. qs \in SUBSET Queues /\ (~oldActive => "old" \notin qs) /\ errors' \subseteq Queues
    BY <1>0, <2>1, OldPacketMeansOld DEF Queues, TypeOK
  <2> HIDE DEF flushed, quiet, grey, qs
  <2>3. QED
    BY <1>0, <2>1, <2>2, FlushAndSubmitKeeps DEF cycleVars, sweepVars
<1>3. QED
  BY <1>1, <1>2

\* The reclamation gives handles, addresses and marks values of their types.
LEMMA ReclaimedTypes ==
  ASSUME TypeOK, NEW entries \in [Handles -> {"free", "young", "old", "retired"}],
         Reclaimed(entries)
  PROVE  /\ entry' \in [Handles -> {"free", "young", "old", "retired"}]
         /\ age' \in [Handles -> 0..2] /\ addr' \in [Handles -> Addresses]
         /\ field' \in [Handles -> Handles \cup {Null}]
         /\ marks' \in [{"young", "old"} -> SUBSET (Handles \X Addresses)]
         /\ \A h \in Handles : entry'[h] = "young" => entries[h] = "young" /\ age'[h] = age[h]
<1>1. 0 \in Addresses /\ 0 \in 0..2
  BY ZgcAssumption DEF Addresses
<1>2. /\ entry' \in [Handles -> {"free", "young", "old", "retired"}]
      /\ field' \in [Handles -> Handles \cup {Null}]
      /\ \A h \in Handles : entry'[h] = "young" => entries[h] = "young" /\ age'[h] = age[h]
  BY DEF TypeOK, Reclaimed
<1>3. age' \in [Handles -> 0..2] /\ addr' \in [Handles -> Addresses]
  BY <1>1 DEF TypeOK, Reclaimed
<1>4. marks' \in [{"young", "old"} -> SUBSET (Handles \X Addresses)]
  BY DEF TypeOK, Reclaimed
<1>5. QED
  BY <1>2, <1>3, <1>4

\* The end of a cycle, with the main queue's packets gone.
LEMMA FinishCycleKeeps ==
  ASSUME IInv, mut = Ready, queue = {}, Busy("main") = {}, phase # "mark",
         NEW entries \in [Handles -> {"free", "young", "old", "retired"}],
         \A h \in Handles : entries[h] = "young" => entry[h] = "young",
         NEW old \in SUBSET Handles, ~oldActive => old = {},
         FinishCycle(entries, old),
         ring' \subseteq Records, IsFiniteSet(ring'), ringLen' \in Cardinality(ring')..RingCapacity,
         slots' \subseteq Handles \X Addresses, owners' \subseteq Handles,
         marking' \subseteq {"young", "old"},
         PacketsFit', drains' \in [Queues -> 0..PacketCapacity],
         drains'["main"] = drains["main"], ~oldActive => drains' = drains,
         UNCHANGED <<local, generation, oldActive, bridges, queue, job, hand, mut, ops>>
  PROVE  IInv'
<1>0. TypeOK /\ Quiet("main")
  BY DEF IInv, MarksInTurn
<1>1. /\ entry' \in [Handles -> {"free", "young", "old", "retired"}]
      /\ age' \in [Handles -> 0..2] /\ addr' \in [Handles -> Addresses]
      /\ field' \in [Handles -> Handles \cup {Null}]
      /\ marks' \in [{"young", "old"} -> SUBSET (Handles \X Addresses)]
      /\ \A h \in Handles : entry'[h] = "young" => entries[h] = "young" /\ age'[h] = age[h]
  BY <1>0, ReclaimedTypes DEF FinishCycle
<1>2. /\ moving' = {} /\ errors' \subseteq Queues /\ phase' \in {"reclaim", "idle"}
      /\ pending' \in [Queues -> SUBSET Handles] /\ pending'["main"] = {}
      /\ ~oldActive => pending'["old"] = {}
      /\ candidates' \subseteq Handles /\ selected' \subseteq Handles
      /\ full' \in BOOLEAN /\ failed' \in BOOLEAN
  <2>1. moving' = {} /\ errors' \subseteq Queues
    BY <1>0 DEF FinishCycle, TypeOK
  <2>2. CASE "main" \in errors
    BY <1>0, <2>1, <2>2 DEF IInv, MarksInTurn, FinishCycle, Fail, TypeOK, Quiet
  <2>3. CASE "main" \notin errors
    <3>1. pending' = [main |-> {}, old |-> old] /\ phase' = "idle" /\ candidates' = {} /\ selected' = {}
          /\ full' \in BOOLEAN /\ failed' = failed
      BY <1>0, <2>3 DEF FinishCycle, TypeOK
    <3>2. pending' \in [Queues -> SUBSET Handles]
      BY <3>1 DEF Queues
    <3>3. QED
      BY <1>0, <2>1, <3>1, <3>2 DEF TypeOK
  <2>4. QED
    BY <2>2, <2>3
<1>3. TypeOK'
  BY <1>0, <1>1, <1>2 DEF TypeOK
<1>4. (BoundsKept /\ MovingWhileRelocating)'
  BY <1>1, <1>2 DEF IInv, BoundsKept, MovingWhileRelocating
<1>5. PacketsInPhase' /\ HandsInPackets'
  <2>1. (\A p \in queue : InPhase(p))' /\ (\A w \in Workers : InPhase(job[w]))'
    BY <1>0, PoolInPhase
  <2>2. QED
    BY <2>1 DEF IInv, PacketsInPhase, HandsInPackets, Ready
<1>6. MarksInTurn'
  BY <1>0, <1>2 DEF IInv, MarksInTurn, Quiet, Busy
<1>7. QED
  BY <1>3, <1>4, <1>5, <1>6 DEF IInv

LEMMA PollSelectKeeps ==
  ASSUME IInv, PollSelect
  PROVE  IInv'
<1> USE DEF ringVars, remVars
<1> DEFINE retired == [h \in Handles |-> IF h \in Doomed THEN "retired" ELSE entry[h]]
           old == pending["old"] \cup Routed("old", ring)
           grey == [pending EXCEPT !["old"] = old]
<1>0. /\ TypeOK /\ mut = Ready /\ phase = "select" /\ InFlight("main") = 0
      /\ Remember(ring) /\ ring' = {} /\ ringLen' = 0
      /\ drains' = [drains EXCEPT !["old"] = @ + IF NeedsOldPacket THEN 1 ELSE 0]
      /\ NeedsOldPacket => Room(1)
      /\ marking' = marking \ {EpochOf(generation)}
      /\ UNCHANGED <<local, generation, oldActive, bridges, queue, job, hand, ops>>
  BY DEF IInv, PollSelect, Polling
<1>1. \/ /\ full' \in BOOLEAN /\ failed' \in BOOLEAN /\ errors' \subseteq Queues
         /\ entry' = retired /\ candidates' = Doomed /\ pending' = grey
         /\ UNCHANGED <<age, addr, field, marks, phase, selected, moving, mut>>
      \/ FinishCycle(retired, old) /\ UNCHANGED mut
      \/ /\ entry' = retired /\ candidates' = Doomed /\ pending' = grey
         /\ moving' = selected /\ phase' = "relocate"
         /\ SubmitAll({[kind |-> "move", handle |-> h] : h \in selected})
         /\ UNCHANGED <<age, addr, field, marks, errors, selected, full, failed>>
  BY <1>0 DEF PollSelect, Fail, TypeOK
<1>2. queue = {} /\ Busy("main") = {} /\ Quiet("main") /\ moving = {} /\ hand[Mutator] = None
  BY <1>0, NothingInFlight
     DEF IInv, MarksInTurn, MovingWhileRelocating, HandsInPackets, Ready, Queues
<1>3. /\ retired \in [Handles -> {"free", "young", "old", "retired"}]
      /\ \A h \in Handles : retired[h] = "young" => entry[h] = "young"
      /\ Doomed \subseteq Handles
  BY <1>0 DEF TypeOK, Doomed
<1>4. old \in SUBSET Handles /\ (~oldActive => old = {})
  <2>1. Routed("old", ring) \subseteq Handles
    BY <1>0, RoutedAreHandles DEF TypeOK, Queues
  <2>2. QED
    BY <1>0, <2>1, NothingRouted DEF IInv, MarksInTurn, Quiet, TypeOK, Queues
<1>5. /\ grey \in [Queues -> SUBSET Handles] /\ grey["main"] = pending["main"] /\ grey["old"] = old
  BY <1>0, <1>4 DEF TypeOK, Queues
<1> HIDE DEF retired, old, grey
<1>6. /\ PacketsFit' /\ drains' \in [Queues -> 0..PacketCapacity]
      /\ drains'["main"] = drains["main"] /\ (~oldActive => drains' = drains)
  BY <1>0, OldPacketAdded, OldPacketMeansOld
<1>7. /\ ring' \subseteq Records /\ IsFiniteSet(ring') /\ ringLen' \in Cardinality(ring')..RingCapacity
      /\ slots' \subseteq Handles \X Addresses /\ owners' \subseteq Handles
      /\ marking' \subseteq {"young", "old"}
  <2>1. IsFiniteSet({}) /\ Cardinality({}) = 0 /\ 0 \in 0..RingCapacity
    BY FS_EmptySet, ZgcAssumption
  <2>2. slots' \subseteq Handles \X Addresses /\ owners' \subseteq Handles
    BY <1>0, RememberTypes DEF TypeOK
  <2>3. QED
    BY <1>0, <2>1, <2>2 DEF TypeOK
<1>8. ASSUME entry' = retired, candidates' = Doomed, pending' = grey,
             UNCHANGED <<age, addr, field, marks, selected>>
      PROVE  /\ entry' \in [Handles -> {"free", "young", "old", "retired"}]
             /\ pending' \in [Queues -> SUBSET Handles] /\ candidates' \subseteq Handles
             /\ \A h \in Handles : entry'[h] = "young" => age'[h] < 2
             /\ MarksInTurn'
  <2>1. MarksInTurn'
    BY <1>0, <1>2, <1>4, <1>5, <1>6, <1>8 DEF IInv, MarksInTurn, Quiet, Busy
  <2>2. \A h \in Handles : entry'[h] = "young" => age'[h] < 2
    BY <1>3, <1>8 DEF IInv, BoundsKept
  <2>3. QED
    BY <1>3, <1>5, <1>8, <2>1, <2>2
<1>9. CASE /\ full' \in BOOLEAN /\ failed' \in BOOLEAN /\ errors' \subseteq Queues
           /\ entry' = retired /\ candidates' = Doomed /\ pending' = grey
           /\ UNCHANGED <<age, addr, field, marks, phase, selected, moving, mut>>
  <2>1. TypeOK'
    BY <1>0, <1>6, <1>7, <1>8, <1>9 DEF TypeOK
  <2>2. (BoundsKept /\ MovingWhileRelocating)'
    BY <1>8, <1>9 DEF IInv, BoundsKept, MovingWhileRelocating
  <2>3. PacketsInPhase' /\ HandsInPackets'
    BY <1>0, <1>9 DEF IInv, PacketsInPhase, InPhase, HandsInPackets
  <2>4. QED
    BY <1>6, <1>8, <1>9, <2>1, <2>2, <2>3 DEF IInv
<1>10. CASE FinishCycle(retired, old) /\ UNCHANGED mut
  BY <1>0, <1>2, <1>3, <1>4, <1>6, <1>7, <1>10, FinishCycleKeeps
<1>11. CASE /\ entry' = retired /\ candidates' = Doomed /\ pending' = grey
            /\ moving' = selected /\ phase' = "relocate"
            /\ SubmitAll({[kind |-> "move", handle |-> h] : h \in selected})
            /\ UNCHANGED <<age, addr, field, marks, errors, selected, full, failed>>
  <2> DEFINE todo == {[kind |-> "move", handle |-> h] : h \in selected}
  <2>1. mut' = [pc |-> "submit", todo |-> todo]
    BY <1>11 DEF SubmitAll
  <2>2. todo \subseteq Packets /\ \A p \in todo : p.kind = "move"
    BY <1>0 DEF Packets, TypeOK
  <2> HIDE DEF todo
  <2>3. mut' \in MutatorStates
    BY <2>1, <2>2 DEF MutatorStates
  <2>4. TypeOK'
    BY <1>0, <1>6, <1>7, <1>8, <1>11, <2>3 DEF TypeOK
  <2>5. (BoundsKept /\ MovingWhileRelocating)'
    BY <1>0, <1>8, <1>11 DEF IInv, BoundsKept, MovingWhileRelocating
  <2>6. PacketsInPhase'
    <3>1. (\A p \in queue : InPhase(p))' /\ (\A w \in Workers : InPhase(job[w]))'
      BY <1>0, <1>2, PoolInPhase
    <3>2. \A p \in todo : InPhase(p)'
      BY <1>11, <2>2 DEF InPhase
    <3>3. QED
      BY <2>1, <3>1, <3>2 DEF PacketsInPhase
  <2>7. HandsInPackets'
    BY <1>0, <1>2 DEF IInv, HandsInPackets
  <2>8. QED
    BY <1>6, <1>8, <1>11, <2>4, <2>5, <2>6, <2>7 DEF IInv
<1>12. QED
  BY <1>1, <1>9, <1>10, <1>11

LEMMA PollRelocateKeeps ==
  ASSUME IInv, PollRelocate
  PROVE  IInv'
<1> USE DEF ringVars, remVars, packetVars
<1>0. /\ TypeOK /\ mut = Ready /\ phase # "mark" /\ FinishCycle(entry, pending["old"])
      /\ phase = "reclaim" \/ InFlight("main") = 0
      /\ UNCHANGED <<local, marking, ringVars, remVars, generation, oldActive, bridges,
                     packetVars, hand, mut, ops>>
  BY DEF IInv, PollRelocate, Polling
<1>1. queue = {} /\ Busy("main") = {}
  BY <1>0, NothingInFlight, NoMainPackets DEF Queues
<1>2. PacketsFit'
  BY <1>0 DEF IInv, PacketsFit, InFlight, Busy
<1>3. /\ pending["old"] \in SUBSET Handles /\ (~oldActive => pending["old"] = {})
      /\ entry \in [Handles -> {"free", "young", "old", "retired"}]
      /\ \A h \in Handles : entry[h] = "young" => entry[h] = "young"
  BY <1>0 DEF IInv, TypeOK, MarksInTurn, Quiet, Queues
<1>4. /\ ring' \subseteq Records /\ IsFiniteSet(ring') /\ ringLen' \in Cardinality(ring')..RingCapacity
      /\ slots' \subseteq Handles \X Addresses /\ owners' \subseteq Handles
      /\ marking' \subseteq {"young", "old"} /\ drains' \in [Queues -> 0..PacketCapacity]
      /\ drains'["main"] = drains["main"] /\ drains' = drains
  BY <1>0 DEF TypeOK
<1>5. QED
  BY <1>0, <1>1, <1>2, <1>3, <1>4, FinishCycleKeeps

-----------------------------------------------------------------------------
(* The theorems. *)

LEMMA StepKeeps ==
  ASSUME IInv, [Next]_vars
  PROVE  IInv'
<1>1. CASE UNCHANGED vars
  <2> USE DEF vars, heapVars, markVars, ringVars, remVars, cycleVars, sweepVars, packetVars, mutVars
  <2>1. TypeOK'
    BY <1>1 DEF IInv, TypeOK
  <2>2. (PacketsFit /\ PacketsInPhase /\ HandsInPackets /\ MarksInTurn)'
    BY <1>1, PoolStays
  <2>3. (BoundsKept /\ MovingWhileRelocating)'
    BY <1>1, ObjectsStay
  <2>4. QED
    BY <2>1, <2>2, <2>3 DEF IInv
<1>2. CASE MutatorStep
  <2>1. ASSUME NEW q \in Queues, NEW h \in Handles, Pop(Mutator, q, h) PROVE IInv'
    BY <2>1, PopKeeps DEF Markers
  <2>2. ASSUME TryMark(Mutator) \/ Scan(Mutator) PROVE IInv'
    BY <2>2, TryMarkKeeps, ScanKeeps DEF Markers
  <2>3. ASSUME NEW op \in {"slot", "proto"}, NEW h \in Handles, NEW v \in Handles \cup {Null},
               StoreBarrier(op, h, v) PROVE IInv'
    BY <2>3, StoreBarrierKeeps
  <2>4. QED
    BY <1>2, <2>1, <2>2, <2>3, LoadKeeps, DropKeeps, AllocateKeeps, PushRecordKeeps,
       AssistDoneKeeps, StoreKeeps, AssistMoveKeeps, GrowPublishKeeps, GrowFinishKeeps
       DEF MutatorStep
<1>3. CASE CollectFull
  BY <1>3, CollectFullKeeps
<1>4. CASE Safepoint
  BY <1>4, BeginMarkKeeps, BeginOldMarkKeeps, PollOldMarkKeeps, FinishOldMarkKeeps,
     PollMarkKeeps, PollSelectWaitKeeps, PollSelectKeeps, PollRelocateKeeps, SubmitKeeps
     DEF Safepoint
<1>5. ASSUME NEW w \in Workers, WorkerStep(w) PROVE IInv'
  <2>1. w \in Markers
    BY DEF Markers
  <2>2. QED
    BY <1>5, <2>1, TakePacketKeeps, FinishDrainKeeps, ProcessPageKeeps, RelocateKeeps,
       TakeDrainKeeps, PopKeeps, TryMarkKeeps, ScanKeeps DEF WorkerStep
<1>6. QED
  BY <1>1, <1>2, <1>3, <1>4, <1>5 DEF Next

LEMMA Invariance == Spec => []IInv
<1>1. Init => IInv
  BY InitInv
<1>2. IInv /\ [Next]_vars => IInv'
  BY StepKeeps
<1>3. QED
  BY <1>1, <1>2, PTL DEF Spec

\* Every variable keeps its type, and the ring and the pool's slab their bounds.
THEOREM TypeCorrect == Spec => []TypeOK
<1>1. IInv => TypeOK
  BY DEF IInv
<1>2. QED
  BY <1>1, Invariance, PTL

\* A phase of a cycle starts only when the one before has no packet, no grey
\* object and no marker left, and an old mark leaves none behind either.
THEOREM PhasesInTurn == Spec => []PhasesDoNotOverlap
<1>1. IInv => PhasesDoNotOverlap
  <2> SUFFICES ASSUME IInv PROVE PhasesDoNotOverlap
    OBVIOUS
  <2>1. phase \in {"idle", "reclaim"} => InFlight("main") = 0
    <3> SUFFICES ASSUME phase \in {"idle", "reclaim"} PROVE InFlight("main") = 0
      OBVIOUS
    <3>1. queue = {} /\ Busy("main") = {} /\ drains["main"] = 0
      BY NoMainPackets DEF IInv, MarksInTurn, Quiet
    <3>2. Cardinality({}) = 0
      BY FS_EmptySet
    <3>3. QED
      BY <3>1, <3>2 DEF InFlight
  <2>2. QED
    BY <2>1 DEF IInv, MarksInTurn, Quiet, PhasesDoNotOverlap
<1>2. QED
  BY <1>1, Invariance, PTL

-----------------------------------------------------------------------------
(* What the markers of a cycle still have before them. *)

\* The records of the ring, those the mutator has still to push, and what they
\* name: the words of their slots and owners, or the objects themselves.
Todo == {mut.todo[i] : i \in DOMAIN mut.todo}
OpenRecords == ring \cup IF mut.pc \in {"barrier", "assist"} THEN Todo ELSE {}
RecordedWords == UNION {RecordWords(r) : r \in OpenRecords}
Recorded == {r.handle : r \in {s \in OpenRecords : s.kind \in {"satb", "mark"}}}

\* Objects in the hands of the markers of a queue, and those about to be scanned.
InHand(q) ==
  {hand[m].handle : m \in {k \in Markers : hand[k] # None /\ hand[k].queue = q}}
Scanning(q) ==
  {hand[m].handle :
     m \in {k \in Markers : hand[k] # None /\ hand[k].queue = q /\ hand[k].step = "scan"}}

\* The roots on their way to the markers.
RootPackets ==
  {p \in queue \cup (IF mut.pc = "submit" THEN mut.todo ELSE {}) : p.kind = "root"}

\* The objects the main cycle collects, and those of them it has not found yet.
Included(h) == Live(h) /\ Includes(generation, entry[h])
Marked(h) == IsMarked(h, entry[h])
White(h) == Included(h) /\ ~Marked(h)

\* A set of white objects that holds whatever the markers may still find.
GreyMain ==
  pending["main"] \cup {p.handle : p \in RootPackets} \cup InHand("main") \cup RecordedWords
ClosedMain(S) ==
  /\ \A x \in GreyMain : White(x) => x \in S
  /\ \A x \in Scanning("main") : \A y \in Word(x) : White(y) => y \in S
  /\ \A x \in S : White(x) => \A y \in Word(x) : White(y) => y \in S

\* Every object the program can reach is marked, or the markers will find it.
MainCovered ==
  phase = "mark" => \A S \in SUBSET Handles : ClosedMain(S) =>
    \A h \in HC!Reachable : White(h) => h \in S

\* The same for the old mark, whose markers have seen the objects of B. Young
\* objects are in B too: the old mark scans those it meets, once.
GreyOld ==
  pending["old"] \cup InHand("old") \cup {v \in Recorded : entry[v] = "old"}
ClosedOld(B, S) ==
  /\ GreyOld \subseteq B \cup S
  /\ \A x \in S \ B : entry[x] = "old" => Word(x) \subseteq B \cup S
Seen(B) ==
  /\ \A S \in SUBSET Handles : ClosedOld(B, S) =>
       /\ Roots \subseteq B \cup S
       /\ \A x \in B : \A y \in Word(x) : Live(y) => y \in B \cup S
  /\ \A bit \in marks["old"] : Live(bit[1]) => bit[1] \in B \cup Scanning("old")
  /\ \A h \in bridges["old"] : Live(h) => h \in B \cup Scanning("old")
  /\ \A h \in B : entry[h] = "old" => Marked(h) \/ h \in GreyOld
  /\ mut.pc \in {"barrier", "assist"} =>
       \A w \in Word(mut.owner) : entry[w] = "old" /\ w \in B \cup GreyOld
OldCovered == oldActive /\ "old" \notin errors => \E B \in SUBSET Handles : Seen(B)

\* The program stores what it holds, and what it overwrites is shaded.
StoreShaded ==
  mut.pc \in {"barrier", "assist"} =>
    /\ mut.owner \in Roots /\ mut.value \in Roots \cup {Null}
    /\ phase = "mark" => \A w \in Word(mut.owner) : White(w) =>
         w \in pending["main"] \cup InHand("main") \cup Recorded

\* A mark raises its flag, and growth waits for every flag to fall.
FlagsRaised ==
  /\ phase \in {"mark", "select"} => EpochOf(generation) \in marking
  /\ oldActive => "old" \in marking
  /\ mut.pc = "grow" => marking = {}

\* A cycle without errors leaves out the phases that retry, and an old mark has
\* beside it only young cycles.
CyclesInTurn ==
  /\ phase \notin {"await", "reclaim"} /\ "main" \notin errors
  /\ phase = "mark" => generation # "old"
  /\ phase # "idle" /\ generation # "young" => ~oldActive

\* What a marker holds is what it resolved.
HandsAreCurrent ==
  \A m \in Markers : hand[m] # None =>
    LET h == hand[m].handle IN
    /\ hand[m].queue = "main" =>
         /\ Live(h) /\ hand[m].gen = entry[h] /\ hand[m].addr = addr[h]
         /\ hand[m].step = "mark" => Included(h)
         /\ White(h) => hand[m].step = "mark"
    /\ hand[m].queue = "old" /\ hand[m].step = "mark" =>
         entry[h] = "old" /\ hand[m].gen = "old" /\ hand[m].addr = addr[h]
    /\ hand[m].queue = "old" /\ hand[m].step = "scan" /\ entry[h] = "old" =>
         \/ Marked(h) \/ h \in pending["old"]
         \/ \E k \in Markers : /\ hand[k] # None /\ hand[k].queue = "old"
                               /\ hand[k].step = "mark" /\ hand[k].handle = h

\* The page packets that wait for a worker or are in its hands: each page is
\* swept once, and a young cycle moves no old object.
PagePackets ==
  {p \in queue \cup {job[w] : w \in Workers}
        \cup (IF mut.pc = "submit" THEN mut.todo ELSE {}) : p.kind = "page"}
SweptOnce ==
  /\ mut.pc = "submit" => \A p \in mut.todo : p.kind = "page" =>
       p \notin queue /\ \A w \in Workers : job[w] # p
  /\ \A p \in queue : p.kind = "page" => \A w \in Workers : job[w] # p
  /\ \A v, w \in Workers : job[v] = job[w] /\ job[v].kind = "page" => v = w
  /\ \A p \in PagePackets : \A h \in selected : PageOf[h] # p.page

\* A sweep's candidates were not found, and a young cycle moves no old object.
SweepsAreSafe ==
  /\ phase = "select" => \A h \in candidates : White(h)
  /\ generation = "young" /\ phase \in {"select", "relocate"} =>
       \A h \in selected : entry[h] # "old"

\* The invariant of marking.
MarkInv ==
  /\ ReachableIsLive /\ StoreShaded /\ FlagsRaised /\ CyclesInTurn /\ HandsAreCurrent
  /\ SweptOnce /\ SweepsAreSafe /\ MarkComplete /\ MainCovered /\ OldCovered

\* The edge that a store is about to make is remembered before it is made.
StoreRemembered ==
  mut.pc \in {"barrier", "assist"} /\ entry[mut.owner] = "old" /\ mut.value # Null
  /\ entry[mut.value] = "young" => Remembered(mut.owner, OpenRecords)

\* The invariant of the remembered set.
EdgesInv == EdgesRemembered /\ StoreRemembered

-----------------------------------------------------------------------------
(* What the program can reach. *)

\* A reference from an object within reach leads to one within reach.
LEMMA ReachableClosed ==
  ASSUME TypeOK
  PROVE  /\ HC!Reachable \subseteq Handles /\ Roots \subseteq HC!Reachable
         /\ \A h \in HC!Reachable : field[h] \in HC!Reachable \cup {Null}
<1>1. HC!Reachable \subseteq Handles
  BY DEF HC!Reachable
<1>2. Roots \subseteq HC!Reachable
  BY DEF HC!Reachable, HC!Closed, Roots, TypeOK
<1>3. \A h \in HC!Reachable : field[h] \in HC!Reachable \cup {Null}
  BY DEF HC!Reachable, HC!Closed, TypeOK
<1>4. QED
  BY <1>1, <1>2, <1>3

\* The program is confined to every set that is closed.
LEMMA ReachableInside ==
  ASSUME NEW T \in SUBSET Handles, HC!Closed(T)
  PROVE  HC!Reachable \subseteq T
  BY DEF HC!Reachable

\* The same of the next state.
LEMMA ReachableWillBeInside ==
  ASSUME NEW T \in SUBSET Handles, HC!Closed(T)'
  PROVE  HC!Reachable' \subseteq T
  BY DEF HC!Reachable

\* The words of what the program can reach stay: it reaches no more than before.
LEMMA ReachableStays ==
  ASSUME TypeOK, UNCHANGED local, \A h \in HC!Reachable : field'[h] = field[h]
  PROVE  HC!Reachable' \subseteq HC!Reachable
<1>1. PICK T \in SUBSET Handles : T = HC!Reachable
  BY DEF HC!Reachable
<1>2. \A l \in Locals : local[l] \in T \cup {Null}
  BY <1>1, ReachableClosed DEF Roots
<1>3. \A h \in T : field'[h] \in T \cup {Null}
  BY <1>1, ReachableClosed
<1>4. HC!Closed(T)'
  BY <1>2, <1>3 DEF HC!Closed
<1>5. QED
  BY <1>1, <1>4, ReachableWillBeInside

\* The program follows or drops a reference.
LEMMA ReachableLoaded ==
  ASSUME TypeOK, NEW l \in Locals, NEW v \in HC!Reachable \cup {Null},
         local' = [local EXCEPT ![l] = v], UNCHANGED field
  PROVE  HC!Reachable' \subseteq HC!Reachable
<1>1. PICK T \in SUBSET Handles : T = HC!Reachable
  BY DEF HC!Reachable
<1>2. \A k \in Locals : local'[k] \in T \cup {Null}
  BY <1>1, ReachableClosed DEF Roots, TypeOK
<1>3. \A h \in T : field'[h] \in T \cup {Null}
  BY <1>1, ReachableClosed
<1>4. HC!Closed(T)'
  BY <1>2, <1>3 DEF HC!Closed
<1>5. QED
  BY <1>1, <1>4, ReachableWillBeInside

\* The program stores what it holds.
LEMMA ReachableStored ==
  ASSUME TypeOK, NEW o \in HC!Reachable, NEW v \in HC!Reachable \cup {Null},
         field' = [field EXCEPT ![o] = v], UNCHANGED local
  PROVE  HC!Reachable' \subseteq HC!Reachable
<1>1. PICK T \in SUBSET Handles : T = HC!Reachable
  BY DEF HC!Reachable
<1>2. \A k \in Locals : local[k] \in T \cup {Null}
  BY <1>1, ReachableClosed DEF Roots
<1>3. \A h \in T : field'[h] \in T \cup {Null}
  BY <1>1, ReachableClosed DEF TypeOK
<1>4. HC!Closed(T)'
  BY <1>2, <1>3 DEF HC!Closed
<1>5. QED
  BY <1>1, <1>4, ReachableWillBeInside

\* The program allocates: it reaches the new object and no other.
LEMMA ReachableAllocated ==
  ASSUME TypeOK, NEW l \in Locals, NEW h \in Handles,
         local' = [local EXCEPT ![l] = h], field' = [field EXCEPT ![h] = Null]
  PROVE  HC!Reachable' \subseteq HC!Reachable \cup {h}
<1>1. PICK T \in SUBSET Handles : T = HC!Reachable \cup {h}
  BY DEF HC!Reachable
<1>2. \A k \in Locals : local'[k] \in T \cup {Null}
  BY <1>1, ReachableClosed DEF Roots, TypeOK
<1>3. \A k \in T : field'[k] \in T \cup {Null}
  BY <1>1, ReachableClosed DEF TypeOK
<1>4. HC!Closed(T)'
  BY <1>2, <1>3 DEF HC!Closed
<1>5. QED
  BY <1>1, <1>4, ReachableWillBeInside

\* Nothing but handles is grey.
LEMMA GreyTypes ==
  ASSUME TypeOK
  PROVE  /\ GreyMain \subseteq Handles /\ GreyOld \subseteq Handles
         /\ \A q \in Queues : InHand(q) \subseteq Handles /\ Scanning(q) \subseteq InHand(q)
<1>1. \A q \in Queues : InHand(q) \subseteq Handles /\ Scanning(q) \subseteq InHand(q)
  BY DEF InHand, Scanning, TypeOK, Hands
<1>2. OpenRecords \subseteq Records
  <2>1. mut.pc \in {"barrier", "assist"} => mut.todo \in Seq(Records)
    BY MutatorTypes DEF TypeOK
  <2>2. mut.pc \in {"barrier", "assist"} => Todo \subseteq Records
    BY <2>1 DEF Todo
  <2>3. QED
    BY <2>2 DEF OpenRecords, TypeOK
<1>3. RecordedWords \subseteq Handles /\ Recorded \subseteq Handles
  <2>1. \A r \in Records : RecordWords(r) \subseteq Handles
    BY RecordTypes, WordsAreHandles DEF RecordWords, TypeOK
  <2>2. QED
    BY <1>2, <2>1, RecordTypes DEF RecordedWords, Recorded
<1>4. {p.handle : p \in RootPackets} \subseteq Handles
  <2>1. mut.pc = "submit" => mut.todo \subseteq Packets
    BY MutatorTypes DEF TypeOK
  <2>2. RootPackets \subseteq Packets /\ \A p \in RootPackets : p.kind = "root"
    BY <2>1 DEF RootPackets, TypeOK
  <2>3. QED
    BY <2>2, PacketTypes
<1>5. pending["main"] \subseteq Handles /\ pending["old"] \subseteq Handles
  BY DEF TypeOK, Queues
<1>6. QED
  BY <1>1, <1>3, <1>4, <1>5 DEF GreyMain, GreyOld, Queues

-----------------------------------------------------------------------------
(* Steps that leave a part of the invariant alone. *)

\* What the markers may still find is not less than before.
LEMMA MainCarries ==
  ASSUME MainCovered, phase = "mark",
         \A h \in HC!Reachable' : White(h)' => h \in HC!Reachable /\ White(h),
         NEW X \in SUBSET Handles, \A x \in X : ~White(x)',
         \A S \in SUBSET Handles : ClosedMain(S)' => ClosedMain(S \cup X)
  PROVE  MainCovered'
<1> SUFFICES ASSUME NEW S \in SUBSET Handles, ClosedMain(S)', NEW h \in HC!Reachable', White(h)'
             PROVE  h \in S
  BY DEF MainCovered
<1>1. S \cup X \in SUBSET Handles /\ ClosedMain(S \cup X)
  OBVIOUS
<1>2. h \in HC!Reachable /\ White(h)
  OBVIOUS
<1>3. h \in S \cup X
  BY <1>1, <1>2 DEF MainCovered
<1>4. QED
  BY <1>3

\* The objects and their marks stay, and grey objects stay grey.
LEMMA MainStays ==
  ASSUME MainCovered, phase' = "mark" => phase = "mark",
         UNCHANGED <<entry, addr, field, marks, generation, hand>>,
         HC!Reachable' \subseteq HC!Reachable,
         \A x \in GreyMain : White(x) => x \in GreyMain'
  PROVE  MainCovered'
<1> SUFFICES ASSUME phase' = "mark" PROVE MainCovered'
  BY DEF MainCovered
<1>1. \A h : White(h)' = White(h)
  BY DEF White, Included, Marked, IsMarked, Live
<1>2. Scanning("main")' = Scanning("main") /\ \A h : Word(h)' = Word(h)
  BY DEF Scanning, Word, Live
<1>3. \A S \in SUBSET Handles : ClosedMain(S)' => ClosedMain(S)
  BY <1>1, <1>2 DEF ClosedMain
<1>4. QED
  BY <1>1, <1>3, MainCarries DEF MainCovered

\* The same of the old mark, with the same set of objects it has seen.
LEMMA OldStays ==
  ASSUME OldCovered, UNCHANGED <<entry, field, bridges, hand, local>>,
         oldActive => /\ marks'["old"] \subseteq marks["old"]
                      /\ \A h : entry[h] = "old" /\ Marked(h) => Marked(h)',
         oldActive' => oldActive, "old" \in errors => "old" \in errors',
         GreyOld \subseteq GreyOld',
         mut'.pc \in {"barrier", "assist"} =>
           \/ mut.pc \in {"barrier", "assist"} /\ mut'.owner = mut.owner
           \/ \A w \in Word(mut'.owner) : entry[w] = "old" /\ w \in GreyOld'
  PROVE  OldCovered'
<1> SUFFICES ASSUME oldActive', "old" \notin errors'
             PROVE  \E B \in SUBSET Handles : Seen(B)'
  BY DEF OldCovered
<1>1. PICK B \in SUBSET Handles : Seen(B)
  BY DEF OldCovered
<1>2. Scanning("old")' = Scanning("old") /\ Roots' = Roots
  BY DEF Scanning, Roots
<1>3. \A h : Word(h)' = Word(h) /\ Live(h)' = Live(h)
  BY DEF Word, Live
<1>4. \A S \in SUBSET Handles : ClosedOld(B, S)' => ClosedOld(B, S)
  BY <1>3 DEF ClosedOld
<1>5. \A S \in SUBSET Handles : ClosedOld(B, S)' =>
       /\ Roots' \subseteq B \cup S
       /\ \A x \in B : \A y \in Word(x)' : Live(y)' => y \in B \cup S
  BY <1>1, <1>2, <1>3, <1>4 DEF Seen
<1>6. /\ \A bit \in marks'["old"] : Live(bit[1])' => bit[1] \in B \cup Scanning("old")'
      /\ \A h \in bridges'["old"] : Live(h)' => h \in B \cup Scanning("old")'
  BY <1>1, <1>2, <1>3 DEF Seen
<1>7. \A h \in B : entry'[h] = "old" => Marked(h)' \/ h \in GreyOld'
  BY <1>1, <1>3 DEF Seen
<1>8. (mut.pc \in {"barrier", "assist"} =>
        \A w \in Word(mut.owner) : entry[w] = "old" /\ w \in B \cup GreyOld)'
  <2>1. Word(mut.owner)' = Word(mut'.owner)
    BY DEF Word, Live
  <2>2. QED
    BY <1>1, <2>1 DEF Seen
<1>9. Seen(B)'
  BY <1>5, <1>6, <1>7, <1>8 DEF Seen
<1>10. QED
  BY <1>9

\* The flags and the order of the cycles outlive what leaves the phase alone.
LEMMA FlagsStay ==
  ASSUME FlagsRaised, CyclesInTurn, UNCHANGED <<marking, generation, oldActive, phase>>,
         "main" \notin errors', mut'.pc = "grow" => mut.pc = "grow"
  PROVE  FlagsRaised' /\ CyclesInTurn'
  BY DEF FlagsRaised, CyclesInTurn, EpochOf

\* What a sweep relies on outlives steps that add nothing to the reach of the program.
LEMMA SweepStays ==
  ASSUME SweepsAreSafe, MarkComplete, ReachableIsLive, TypeOK, HC!Reachable' \subseteq HC!Reachable,
         UNCHANGED <<entry, addr, marks, phase, generation, candidates, selected>>
  PROVE  SweepsAreSafe' /\ MarkComplete' /\ ReachableIsLive'
<1>1. \A h : Live(h)' = Live(h) /\ White(h)' = White(h) /\ IsMarked(h, entry[h])' = IsMarked(h, entry[h])
  BY DEF White, Included, Marked, IsMarked, Live
<1>2. SweepsAreSafe'
  BY <1>1 DEF SweepsAreSafe
<1>3. MarkComplete'
  BY <1>1 DEF MarkComplete
<1>4. ReachableIsLive'
  BY <1>1 DEF ReachableIsLive, HC!NoDanglingReference, HC!Reachable
<1>5. QED
  BY <1>2, <1>3, <1>4

\* Markers keep what they hold while the objects and their marks stay.
LEMMA HandsStay ==
  ASSUME HandsAreCurrent, UNCHANGED <<entry, addr, marks, generation, hand>>,
         pending["old"] \subseteq pending'["old"]
  PROVE  HandsAreCurrent'
<1>1. \A h : Live(h)' = Live(h) /\ Included(h)' = Included(h) /\ Marked(h)' = Marked(h)
             /\ White(h)' = White(h)
  BY DEF White, Included, Marked, IsMarked, Live
<1>2. QED
  BY <1>1 DEF HandsAreCurrent

\* No page packet is added to those that wait.
LEMMA PagesStay ==
  ASSUME SweptOnce, UNCHANGED <<queue, selected>>,
         \A w \in Workers : job'[w] = job[w] \/ job'[w].kind # "page",
         mut'.pc = "submit" => mut.pc = "submit" /\ mut'.todo \subseteq mut.todo
  PROVE  SweptOnce'
<1>1. PagePackets' \subseteq PagePackets
  BY DEF PagePackets
<1>2. (mut.pc = "submit" => \A p \in mut.todo : p.kind = "page" =>
         p \notin queue /\ \A w \in Workers : job[w] # p)'
  BY DEF SweptOnce
<1>3. (\A p \in queue : p.kind = "page" => \A w \in Workers : job[w] # p)'
  BY DEF SweptOnce
<1>4. (\A v, w \in Workers : job[v] = job[w] /\ job[v].kind = "page" => v = w)'
  BY DEF SweptOnce
<1>5. QED
  BY <1>1, <1>2, <1>3, <1>4 DEF SweptOnce

\* Outside the sweep there are no page packets.
LEMMA NoPages ==
  ASSUME PacketsInPhase', phase' # "select"
  PROVE  SweptOnce'
<1>1. PagePackets' = {} /\ \A w \in Workers : job'[w].kind # "page"
  BY DEF PagePackets, PacketsInPhase, InPhase
<1>2. QED
  BY <1>1 DEF SweptOnce, PagePackets

\* A store that is under way stays shaded while its records do.
LEMMA ShadedStays ==
  ASSUME StoreShaded, UNCHANGED <<entry, addr, field, local, marks, generation, hand>>,
         phase' = "mark" => phase = "mark",
         mut'.pc \in {"barrier", "assist"} =>
           mut.pc \in {"barrier", "assist"} /\ mut'.owner = mut.owner /\ mut'.value = mut.value,
         phase = "mark" => \A x \in pending["main"] \cup Recorded : White(x) =>
           x \in pending'["main"] \cup Recorded'
  PROVE  StoreShaded'
<1>1. \A h : White(h)' = White(h) /\ Word(h)' = Word(h)
  BY DEF White, Included, Marked, IsMarked, Live, Word
<1>2. Roots' = Roots /\ InHand("main")' = InHand("main")
  BY DEF Roots, InHand
<1>3. mut'.pc \in {"barrier", "assist"} => Word(mut.owner)' = Word(mut.owner)
  BY DEF Word, Live
<1>4. QED
  BY <1>1, <1>2, <1>3 DEF StoreShaded

\* Steps that leave the heap, the marks and the hands alone.
LEMMA BookkeepingKeeps ==
  ASSUME TypeOK, MarkInv, SweptOnce',
         UNCHANGED <<entry, addr, field, local, marks, marking, phase, generation, oldActive,
                     candidates, selected, bridges, hand>>,
         "main" \notin errors', "old" \in errors => "old" \in errors',
         mut'.pc = "grow" => mut.pc = "grow",
         mut'.pc \in {"barrier", "assist"} =>
           mut.pc \in {"barrier", "assist"} /\ mut'.owner = mut.owner /\ mut'.value = mut.value,
         phase = "mark" => \A x \in pending["main"] \cup Recorded : White(x) =>
           x \in pending'["main"] \cup Recorded',
         phase = "mark" => \A x \in GreyMain : White(x) => x \in GreyMain',
         pending["old"] \subseteq pending'["old"], oldActive => GreyOld \subseteq GreyOld'
  PROVE  MarkInv'
<1>1. HC!Reachable' \subseteq HC!Reachable
  BY ReachableStays
<1>2. SweepsAreSafe' /\ MarkComplete' /\ ReachableIsLive'
  BY <1>1, SweepStays DEF MarkInv
<1>3. FlagsRaised' /\ CyclesInTurn'
  BY FlagsStay DEF MarkInv
<1>4. HandsAreCurrent'
  BY HandsStay DEF MarkInv
<1>5. StoreShaded'
  BY ShadedStays DEF MarkInv
<1>6. MainCovered'
  <2>1. CASE phase = "mark"
    BY <1>1, <2>1, MainStays DEF MarkInv
  <2>2. CASE phase # "mark"
    BY <2>2 DEF MainCovered
  <2>3. QED
    BY <2>1, <2>2
<1>7. OldCovered'
  <2>1. CASE oldActive
    <3>1. \A h : Marked(h)' = Marked(h)
      BY DEF Marked, IsMarked
    <3>2. QED
      BY <2>1, <3>1, OldStays DEF MarkInv
  <2>2. CASE ~oldActive
    BY <2>2 DEF OldCovered
  <2>3. QED
    BY <2>1, <2>2
<1>8. QED
  BY <1>2, <1>3, <1>4, <1>5, <1>6, <1>7 DEF MarkInv

\* Nothing grey is added or lost when queues, records and hands stay.
LEMMA GreyStays ==
  ASSUME UNCHANGED <<entry, addr, field, pending, hand, ring, mut, queue>>
  PROVE  GreyMain' = GreyMain /\ GreyOld' = GreyOld /\ Recorded' = Recorded
<1>1. OpenRecords' = OpenRecords
  BY DEF OpenRecords, Todo
<1>2. RecordedWords' = RecordedWords /\ Recorded' = Recorded
  <2>1. \A r : RecordWords(r)' = RecordWords(r)
    BY DEF RecordWords, Word, Live
  <2>2. QED
    BY <1>1, <2>1 DEF RecordedWords, Recorded
<1>3. QED
  BY <1>2 DEF GreyMain, GreyOld, InHand, RootPackets

-----------------------------------------------------------------------------
(* Packets and barrier records change hands. *)

\* The program asks for a full collection.
LEMMA CollectFullMarks ==
  ASSUME IInv, MarkInv, CollectFull
  PROVE  MarkInv'
<1> USE DEF CollectFull, heapVars, markVars, ringVars, remVars, cycleVars, sweepVars, packetVars
<1>1. SweptOnce'
  BY PagesStay DEF MarkInv
<1>2. GreyMain' = GreyMain /\ GreyOld' = GreyOld /\ Recorded' = Recorded
  BY GreyStays
<1>3. QED
  BY <1>1, <1>2, BookkeepingKeeps DEF IInv, MarkInv, CyclesInTurn

\* A worker takes a drain packet.
LEMMA TakeDrainMarks ==
  ASSUME IInv, MarkInv, NEW w \in Workers, NEW q \in Queues, TakeDrain(w, q)
  PROVE  MarkInv'
<1> USE DEF TakeDrain, heapVars, markVars, ringVars, remVars, cycleVars, sweepVars, mutVars
<1>0. TypeOK /\ SweptOnce
  BY DEF IInv, MarkInv
<1>1. SweptOnce'
  <2>1. \A v \in Workers : job'[v] = job[v] \/ job'[v].kind # "page"
    BY <1>0 DEF TypeOK
  <2>2. QED
    BY <1>0, <2>1, PagesStay
<1>2. GreyMain' = GreyMain /\ GreyOld' = GreyOld /\ Recorded' = Recorded
  BY GreyStays
<1>3. QED
  BY <1>0, <1>1, <1>2, BookkeepingKeeps DEF MarkInv, CyclesInTurn

\* A worker is done with its drain packet.
LEMMA FinishDrainMarks ==
  ASSUME IInv, MarkInv, NEW w \in Workers, FinishDrain(w)
  PROVE  MarkInv'
<1> USE DEF FinishDrain, heapVars, markVars, ringVars, remVars, cycleVars, sweepVars, mutVars
<1>0. TypeOK /\ SweptOnce
  BY DEF IInv, MarkInv
<1>1. SweptOnce'
  <2>1. \A v \in Workers : job'[v] = job[v] \/ job'[v].kind # "page"
    BY <1>0 DEF TypeOK, None
  <2>2. QED
    BY <1>0, <2>1, PagesStay
<1>2. GreyMain' = GreyMain /\ GreyOld' = GreyOld /\ Recorded' = Recorded
  BY GreyStays
<1>3. QED
  BY <1>0, <1>1, <1>2, BookkeepingKeeps DEF MarkInv, CyclesInTurn

\* The mutator has marked what it was to mark, and goes on with its store.
LEMMA AssistDoneMarks ==
  ASSUME IInv, MarkInv, AssistDone
  PROVE  MarkInv'
<1> USE DEF heapVars, markVars, ringVars, remVars, cycleVars, sweepVars, packetVars
<1>0. TypeOK /\ SweptOnce /\ mut \in MutatorStates
  BY DEF IInv, MarkInv, TypeOK
<1>1. /\ mut.pc = "assist" /\ mut'.pc = "barrier" /\ mut'.todo = mut.todo
      /\ mut'.owner = mut.owner /\ mut'.value = mut.value
  BY <1>0, MutatorTypes DEF AssistDone
<1>2. UNCHANGED <<heapVars, local, markVars, ringVars, remVars, cycleVars, pending, bridges,
                  errors, sweepVars, packetVars, hand, full, failed, ops>>
  BY DEF AssistDone
<1>3. SweptOnce'
  BY <1>0, <1>1, <1>2, PagesStay
<1>4. GreyMain' = GreyMain /\ GreyOld' = GreyOld /\ Recorded' = Recorded
  <2>1. OpenRecords' = OpenRecords
    BY <1>1, <1>2 DEF OpenRecords, Todo
  <2>2. RecordedWords' = RecordedWords /\ Recorded' = Recorded
    <3>1. \A r : RecordWords(r)' = RecordWords(r)
      BY <1>2 DEF RecordWords, Word, Live
    <3>2. QED
      BY <2>1, <3>1 DEF RecordedWords, Recorded
  <2>3. RootPackets' = RootPackets
    BY <1>1, <1>2 DEF RootPackets
  <2>4. QED
    BY <1>2, <2>2, <2>3 DEF GreyMain, GreyOld, InHand
<1>5. QED
  BY <1>0, <1>1, <1>2, <1>3, <1>4, BookkeepingKeeps DEF MarkInv, CyclesInTurn

\* The records still to be pushed are the first one and the rest.
LEMMA HeadAndTail ==
  ASSUME NEW D, NEW s \in Seq(D), s # <<>>
  PROVE  {s[i] : i \in DOMAIN s} = {Head(s)} \cup {Tail(s)[i] : i \in DOMAIN Tail(s)}
<1>1. /\ Len(s) \in Nat /\ Len(s) >= 1 /\ DOMAIN s = 1..Len(s)
      /\ DOMAIN Tail(s) = 1..(Len(s) - 1) /\ Head(s) = s[1]
  OBVIOUS
<1>2. \A i \in 1..(Len(s) - 1) : Tail(s)[i] = s[i + 1]
  OBVIOUS
<1>3. ASSUME NEW i \in DOMAIN s, i # 1 PROVE s[i] \in {Tail(s)[j] : j \in DOMAIN Tail(s)}
  <2>1. i - 1 \in DOMAIN Tail(s) /\ Tail(s)[i - 1] = s[i]
    BY <1>1, <1>2, <1>3
  <2>2. QED
    BY <2>1
<1>4. ASSUME NEW j \in DOMAIN Tail(s) PROVE Tail(s)[j] \in {s[i] : i \in DOMAIN s}
  <2>1. j + 1 \in DOMAIN s /\ Tail(s)[j] = s[j + 1]
    BY <1>1, <1>2
  <2>2. QED
    BY <2>1
<1>5. Head(s) \in {s[i] : i \in DOMAIN s}
  BY <1>1
<1>6. \A x \in {s[i] : i \in DOMAIN s} : x = Head(s) \/ x \in {Tail(s)[j] : j \in DOMAIN Tail(s)}
  BY <1>1, <1>3
<1>7. QED
  BY <1>4, <1>5, <1>6

\* A record goes from the mutator to the ring, or where it is routed.
LEMMA PushRecordMarks ==
  ASSUME IInv, MarkInv, PushRecord
  PROVE  MarkInv'
<1> USE DEF heapVars, markVars, ringVars, remVars, cycleVars, sweepVars, packetVars
<1> DEFINE r == Head(mut.todo)
<1>0. TypeOK /\ SweptOnce /\ mut \in MutatorStates /\ mut.pc = "barrier"
  BY DEF IInv, MarkInv, TypeOK, PushRecord
<1>1. /\ mut.todo \in Seq(Records) /\ mut.todo # <<>> /\ r \in Records
      /\ Todo = {r} \cup {Tail(mut.todo)[i] : i \in DOMAIN Tail(mut.todo)}
  <2>1. mut.todo \in Seq(Records) /\ mut.todo # <<>>
    BY <1>0, MutatorTypes DEF PushRecord
  <2>2. Todo = {r} \cup {Tail(mut.todo)[i] : i \in DOMAIN Tail(mut.todo)}
    BY <2>1, HeadAndTail DEF Todo
  <2>3. r \in Records
    BY <2>1
  <2>4. QED
    BY <2>1, <2>2, <2>3
<1>2. /\ mut'.pc \in {"barrier", "assist"} /\ mut'.todo = Tail(mut.todo)
      /\ mut'.owner = mut.owner /\ mut'.value = mut.value
  BY <1>0, MutatorTypes DEF PushRecord
<1>3. /\ UNCHANGED <<heapVars, local, markVars, cycleVars, bridges, errors, sweepVars,
                     packetVars, hand, full, failed, ops>>
      /\ \/ ring' = ring \cup {r} /\ pending' = pending
         \/ pending' = [q \in Queues |-> pending[q] \cup Routed(q, {r})] /\ ring' = ring
  BY DEF PushRecord
<1> HIDE DEF r
<1>4. SweptOnce'
  BY <1>0, <1>2, <1>3, PagesStay
<1>5. Todo = {r} \cup Todo'
  BY <1>1, <1>2 DEF Todo
<1>6. /\ OpenRecords = ring \cup {r} \cup Todo' /\ OpenRecords' = ring' \cup Todo'
      /\ \A s : RecordWords(s)' = RecordWords(s)
  BY <1>0, <1>2, <1>3, <1>5 DEF OpenRecords, RecordWords, Word, Live
<1>7. /\ pending["main"] \subseteq pending'["main"] /\ pending["old"] \subseteq pending'["old"]
      /\ RootPackets' = RootPackets /\ \A q \in Queues : InHand(q)' = InHand(q)
  BY <1>0, <1>2, <1>3 DEF TypeOK, Queues, RootPackets, InHand
<1>8. phase = "mark" => \A x \in RecordWords(r) : White(x) =>
        r \in OpenRecords' \/ x \in pending'["main"]
  BY <1>3, <1>6 DEF Routed, White, Included, Queues
<1>9. oldActive /\ r.kind \in {"satb", "mark"} /\ entry[r.handle] = "old" =>
        r \in OpenRecords' \/ r.handle \in pending'["old"]
  BY <1>3, <1>6 DEF Routed, RecordWords, Queues
<1>10. phase = "mark" => \A x \in pending["main"] \cup Recorded : White(x) =>
           x \in pending'["main"] \cup Recorded'
  <2>1. \A s : s.kind \in {"satb", "mark"} => RecordWords(s) = {s.handle}
    BY DEF RecordWords
  <2>2. ASSUME NEW x \in Recorded, White(x), phase = "mark"
        PROVE  x \in pending'["main"] \cup Recorded'
    <3>1. PICK s \in OpenRecords : s.kind \in {"satb", "mark"} /\ x = s.handle
      BY DEF Recorded
    <3>2. CASE s \in OpenRecords'
      BY <3>1, <3>2 DEF Recorded
    <3>3. CASE s \notin OpenRecords'
      <4>1. s = r /\ x \in RecordWords(r)
        BY <1>6, <2>1, <3>1, <3>3, <1>3
      <4>2. QED
        BY <1>8, <2>2, <3>3, <4>1
    <3>4. QED
      BY <3>2, <3>3
  <2>3. QED
    BY <1>7, <2>2
<1>11. phase = "mark" => \A x \in GreyMain : White(x) => x \in GreyMain'
  <2>1. phase = "mark" => \A x \in RecordedWords : White(x) => x \in pending'["main"] \cup RecordedWords'
    <3> SUFFICES ASSUME phase = "mark", NEW x \in RecordedWords, White(x)
                 PROVE  x \in pending'["main"] \cup RecordedWords'
      OBVIOUS
    <3>1. PICK s \in OpenRecords : x \in RecordWords(s)
      BY DEF RecordedWords
    <3>2. CASE s \in OpenRecords'
      BY <1>6, <3>1, <3>2 DEF RecordedWords
    <3>3. CASE s \notin OpenRecords'
      <4>1. s = r
        BY <1>6, <3>1, <3>3, <1>3
      <4>2. QED
        BY <1>8, <3>1, <3>3, <4>1
    <3>4. QED
      BY <3>2, <3>3
  <2>2. QED
    BY <1>7, <2>1 DEF GreyMain, Queues
<1>12. oldActive => GreyOld \subseteq GreyOld'
  <2>1. oldActive => \A x \in Recorded : entry[x] = "old" => x \in pending'["old"] \cup Recorded'
    <3> SUFFICES ASSUME oldActive, NEW x \in Recorded, entry[x] = "old"
                 PROVE  x \in pending'["old"] \cup Recorded'
      OBVIOUS
    <3>1. PICK s \in OpenRecords : s.kind \in {"satb", "mark"} /\ x = s.handle
      BY DEF Recorded
    <3>2. CASE s \in OpenRecords'
      BY <3>1, <3>2 DEF Recorded
    <3>3. CASE s \notin OpenRecords'
      <4>1. s = r
        BY <1>6, <3>1, <3>3, <1>3
      <4>2. QED
        BY <1>9, <3>1, <3>3, <4>1
    <3>4. QED
      BY <3>2, <3>3
  <2>2. QED
    BY <1>3, <1>7, <2>1 DEF GreyOld, Queues
<1>13. QED
  BY <1>0, <1>2, <1>3, <1>4, <1>7, <1>10, <1>11, <1>12, BookkeepingKeeps DEF MarkInv, CyclesInTurn

\* A worker takes a packet; a root packet greys its handle.
LEMMA TakePacketMarks ==
  ASSUME IInv, MarkInv, NEW w \in Workers, TakePacket(w)
  PROVE  MarkInv'
<1> USE DEF heapVars, markVars, ringVars, remVars, cycleVars, sweepVars, mutVars
<1>0. TypeOK /\ SweptOnce /\ job[w] = None
  BY DEF IInv, MarkInv, TakePacket
<1>1. PICK p \in queue :
        /\ queue' = queue \ {p}
        /\ job' = [job EXCEPT ![w] = IF p.kind = "root" THEN [kind |-> "drain"] ELSE p]
        /\ pending' = IF p.kind = "root" THEN [pending EXCEPT !["main"] = @ \cup {p.handle}]
                      ELSE pending
  BY DEF TakePacket
<1>2. UNCHANGED <<heapVars, local, markVars, ringVars, remVars, cycleVars, bridges,
                  errors, sweepVars, drains, hand, mutVars>>
  BY DEF TakePacket
<1>3. /\ \A v \in Workers \ {w} : job'[v] = job[v]
      /\ job'[w].kind = "page" => job'[w] = p
  BY <1>0, <1>1 DEF TypeOK
<1>4. SweptOnce'
  <2>1. PagePackets' \subseteq PagePackets
    BY <1>1, <1>2, <1>3 DEF PagePackets
  <2>2. (mut.pc = "submit" => \A t \in mut.todo : t.kind = "page" =>
           t \notin queue /\ \A v \in Workers : job[v] # t)'
    BY <1>0, <1>1, <1>2, <1>3 DEF SweptOnce
  <2>3. (\A t \in queue : t.kind = "page" => \A v \in Workers : job[v] # t)'
    BY <1>0, <1>1, <1>3 DEF SweptOnce
  <2>4. (\A u, v \in Workers : job[u] = job[v] /\ job[u].kind = "page" => u = v)'
    <3>1. job'[w].kind = "page" => \A v \in Workers \ {w} : job'[v] # job'[w]
      BY <1>0, <1>3 DEF SweptOnce
    <3>2. QED
      BY <1>0, <1>3, <3>1 DEF SweptOnce
  <2>5. QED
    BY <1>0, <1>2, <2>1, <2>2, <2>3, <2>4 DEF SweptOnce
<1>5. /\ pending["main"] \subseteq pending'["main"] /\ pending'["old"] = pending["old"]
      /\ p.kind = "root" => p.handle \in pending'["main"]
  BY <1>0, <1>1 DEF TypeOK, Queues
<1>6. OpenRecords' = OpenRecords /\ Recorded' = Recorded /\ RecordedWords' = RecordedWords
      /\ \A q \in Queues : InHand(q)' = InHand(q)
  <2>1. OpenRecords' = OpenRecords /\ \A r : RecordWords(r)' = RecordWords(r)
    BY <1>2 DEF OpenRecords, Todo, RecordWords, Word, Live
  <2>2. QED
    BY <1>2, <2>1 DEF Recorded, RecordedWords, InHand
<1>7. GreyMain \subseteq GreyMain'
  <2>1. \A r \in RootPackets : r \in RootPackets' \/ r.handle \in pending'["main"]
    BY <1>1, <1>2, <1>5 DEF RootPackets
  <2>2. {r.handle : r \in RootPackets} \subseteq pending'["main"] \cup {r.handle : r \in RootPackets'}
    BY <2>1
  <2>3. QED
    BY <1>5, <1>6, <2>2 DEF GreyMain, Queues
<1>8. GreyOld \subseteq GreyOld'
  BY <1>2, <1>5, <1>6 DEF GreyOld, Queues
<1>9. QED
  BY <1>0, <1>2, <1>4, <1>5, <1>6, <1>7, <1>8, BookkeepingKeeps DEF MarkInv, CyclesInTurn

\* A safepoint hands one more of its packets to the pool.
LEMMA SubmitMarks ==
  ASSUME IInv, MarkInv, Submit, ~failed'
  PROVE  MarkInv'
<1> USE DEF heapVars, markVars, ringVars, remVars, cycleVars, sweepVars
<1>0. TypeOK /\ SweptOnce /\ mut \in MutatorStates /\ mut.pc = "submit"
  BY DEF IInv, MarkInv, TypeOK, Submit
<1>1. UNCHANGED <<heapVars, local, markVars, ringVars, remVars, cycleVars, pending,
                  bridges, errors, sweepVars, job, hand, ops>>
  BY DEF Submit
<1>2. CASE mut.todo = {}
  <2>1. mut' = Ready /\ UNCHANGED queue
    BY <1>2 DEF Submit
  <2>2. SweptOnce'
    BY <1>0, <1>1, <2>1, PagesStay DEF Ready
  <2>3. OpenRecords' = OpenRecords /\ RootPackets' = RootPackets
    BY <1>0, <1>1, <1>2, <2>1 DEF OpenRecords, RootPackets, Ready
  <2>4. Recorded' = Recorded /\ RecordedWords' = RecordedWords
        /\ \A q \in Queues : InHand(q)' = InHand(q)
    <3>1. \A r : RecordWords(r)' = RecordWords(r)
      BY <1>1 DEF RecordWords, Word, Live
    <3>2. QED
      BY <1>1, <2>3, <3>1 DEF Recorded, RecordedWords, InHand
  <2>5. GreyMain' = GreyMain /\ GreyOld' = GreyOld
    BY <1>1, <2>3, <2>4 DEF GreyMain, GreyOld, Queues
  <2>6. QED
    BY <1>0, <1>1, <2>1, <2>2, <2>4, <2>5, BookkeepingKeeps DEF MarkInv, CyclesInTurn, Ready
<1>3. CASE mut.todo # {}
  <2>1. PICK p \in mut.todo :
          /\ mut' = [mut EXCEPT !.todo = @ \ {p}]
          /\ IF p.kind = "drain"
             THEN drains' = [drains EXCEPT !["main"] = @ + 1] /\ UNCHANGED queue
             ELSE queue' = queue \cup {p} /\ UNCHANGED drains
    BY <1>3 DEF Submit, Fail
  <2>2. mut'.pc = "submit" /\ mut'.todo = mut.todo \ {p}
    <3>1. mut \in [pc : {"submit"}, todo : SUBSET Packets]
      BY <1>0 DEF MutatorStates, Ready
    <3>2. QED
      BY <2>1, <3>1
  <2>3. queue' \in {queue, queue \cup {p}} /\ (p.kind # "drain" => p \in queue')
    BY <2>1
  <2>4. SweptOnce'
    <3>1. PagePackets' \subseteq PagePackets
      BY <1>0, <1>1, <2>2, <2>3 DEF PagePackets
    <3>2. (mut.pc = "submit" => \A t \in mut.todo : t.kind = "page" =>
             t \notin queue /\ \A v \in Workers : job[v] # t)'
      BY <1>0, <1>1, <2>2, <2>3 DEF SweptOnce
    <3>3. (\A t \in queue : t.kind = "page" => \A v \in Workers : job[v] # t)'
      BY <1>0, <1>1, <2>3 DEF SweptOnce
    <3>4. QED
      BY <1>0, <1>1, <3>1, <3>2, <3>3 DEF SweptOnce
  <2>5. RootPackets \subseteq RootPackets'
    BY <1>0, <2>2, <2>3 DEF RootPackets
  <2>6. OpenRecords' = OpenRecords
    BY <1>0, <1>1, <2>2 DEF OpenRecords
  <2>7. Recorded' = Recorded /\ RecordedWords' = RecordedWords
        /\ \A q \in Queues : InHand(q)' = InHand(q)
    <3>1. \A r : RecordWords(r)' = RecordWords(r)
      BY <1>1 DEF RecordWords, Word, Live
    <3>2. QED
      BY <1>1, <2>6, <3>1 DEF Recorded, RecordedWords, InHand
  <2>8. GreyMain \subseteq GreyMain' /\ GreyOld' = GreyOld
    BY <1>1, <2>5, <2>7 DEF GreyMain, GreyOld, Queues
  <2>9. QED
    BY <1>0, <1>1, <2>2, <2>4, <2>7, <2>8, BookkeepingKeeps DEF MarkInv, CyclesInTurn
<1>4. QED
  BY <1>2, <1>3

\* A flush between two operations routes all that the records name.
LEMMA FlushRoutes ==
  ASSUME TypeOK, mut = Ready, Flush, UNCHANGED <<entry, addr, field, hand, queue, mut>>,
         Routed("main", ring) # {} => Room(1)
  PROVE  /\ pending["main"] \subseteq pending'["main"] /\ pending["old"] \subseteq pending'["old"]
         /\ phase = "mark" => \A x \in GreyMain : White(x) => x \in GreyMain'
         /\ phase = "mark" => \A x \in pending["main"] \cup Recorded : White(x) => x \in pending'["main"]
         /\ oldActive => GreyOld \subseteq GreyOld'
<1>1. OpenRecords = ring
  BY DEF OpenRecords, Ready
<1>2. /\ pending'["main"] = pending["main"] \cup Routed("main", ring)
      /\ pending'["old"] = pending["old"] \cup Routed("old", ring)
  BY DEF Flush
<1>3. \A r \in ring : r.kind \in {"satb", "mark"} => r.handle \in RecordWords(r)
  BY DEF RecordWords
<1>4. /\ RecordedWords = UNION {RecordWords(r) : r \in ring}
      /\ Recorded \subseteq RecordedWords
  BY <1>1, <1>3 DEF Recorded, RecordedWords
<1>5. phase = "mark" => \A x \in RecordedWords : White(x) => x \in pending'["main"]
  BY <1>2, <1>4 DEF Routed, White, Included
<1>6. oldActive => \A x \in Recorded : entry[x] = "old" => x \in pending'["old"]
  BY <1>2, <1>4 DEF Routed
<1>7. RootPackets' = RootPackets /\ \A q \in Queues : InHand(q)' = InHand(q)
  BY DEF RootPackets, InHand
<1>8. phase = "mark" => \A x \in GreyMain : White(x) => x \in GreyMain'
  BY <1>2, <1>5, <1>7 DEF GreyMain, Queues
<1>9. oldActive => GreyOld \subseteq GreyOld'
  BY <1>2, <1>6, <1>7 DEF GreyOld, Queues
<1>10. QED
  BY <1>2, <1>4, <1>5, <1>8, <1>9

\* A poll that flushes the barriers and hands packets to the drains.
LEMMA FlushAndSubmitMarks ==
  ASSUME IInv, MarkInv, mut = Ready, Flush, Routed("main", ring) # {} => Room(1),
         "main" \notin errors', "old" \in errors => "old" \in errors',
         UNCHANGED <<heapVars, local, markVars, cycleVars, bridges, sweepVars, queue, job,
                     hand, mut, ops>>
  PROVE  MarkInv'
<1> USE DEF heapVars, markVars, cycleVars, sweepVars
<1>0. TypeOK /\ SweptOnce
  BY DEF IInv, MarkInv
<1>1. SweptOnce'
  BY <1>0, PagesStay
<1>2. /\ pending["main"] \subseteq pending'["main"] /\ pending["old"] \subseteq pending'["old"]
      /\ phase = "mark" => \A x \in GreyMain : White(x) => x \in GreyMain'
      /\ phase = "mark" => \A x \in pending["main"] \cup Recorded : White(x) => x \in pending'["main"]
      /\ oldActive => GreyOld \subseteq GreyOld'
  BY <1>0, FlushRoutes
<1>3. QED
  BY <1>0, <1>1, <1>2, BookkeepingKeeps

\* An error is reported unless there is room for every packet.
LEMMA SubmittedWithRoom ==
  ASSUME TypeOK, NEW qs \in SUBSET Queues, SubmitDrains(qs), ~failed', qs # {}
  PROVE  Room(1)
<1>1. Cardinality(qs) \in Nat /\ Cardinality(qs) >= 1
  <2>1. /\ Cardinality({"main"}) = 1 /\ Cardinality({"old"}) = 1
        /\ IsFiniteSet({"main"}) /\ IsFiniteSet({"old"})
    BY FS_Singleton
  <2>2. Cardinality({"main"} \cup {"old"}) = 2
    <3>1. "old" \notin {"main"}
      OBVIOUS
    <3>2. Cardinality({"main"} \cup {"old"}) = Cardinality({"main"}) + 1
      BY <2>1, <3>1, FS_AddElement
    <3>3. QED
      BY <2>1, <3>2
  <2>3. qs = {"main"} \/ qs = {"old"} \/ qs = {"main"} \cup {"old"}
    BY DEF Queues
  <2>4. QED
    BY <2>1, <2>2, <2>3
<1>2. Room(Cardinality(qs))
  BY DEF SubmitDrains, Fail
<1>3. InFlight("main") \in Nat /\ InFlight("old") \in Nat /\ PacketCapacity \in Nat
  BY InFlightIsNat, ZgcAssumption DEF Queues
<1>4. QED
  BY <1>1, <1>2, <1>3 DEF Room

\* A poll lets the old mark go on.
LEMMA PollOldMarkMarks ==
  ASSUME IInv, MarkInv, PollOldMark, ~failed'
  PROVE  MarkInv'
<1>1. /\ mut = Ready /\ phase = "idle" /\ oldActive /\ Flush
      /\ errors' = IF NeedsOldPacket /\ ~Room(1) /\ ringLen = 0 THEN errors \cup {"old"} ELSE errors
      /\ UNCHANGED <<heapVars, local, markVars, cycleVars, bridges, sweepVars, queue, job,
                     hand, mut, ops>>
  BY DEF PollOldMark, Polling
<1>2. Routed("main", ring) = {}
  BY <1>1, NothingRouted
<1>3. "main" \notin errors' /\ ("old" \in errors => "old" \in errors')
  BY <1>1 DEF MarkInv, CyclesInTurn
<1>4. QED
  BY <1>1, <1>2, <1>3, FlushAndSubmitMarks

\* A poll finds the sweep still running.
LEMMA PollSelectWaitMarks ==
  ASSUME IInv, MarkInv, PollSelectWait, ~failed'
  PROVE  MarkInv'
<1>1. /\ mut = Ready /\ phase = "select" /\ Flush
      /\ UNCHANGED <<heapVars, local, markVars, cycleVars, bridges, errors, sweepVars, queue,
                     job, hand, mut, ops>>
  BY DEF PollSelectWait, Polling
<1>2. Routed("main", ring) = {}
  BY <1>1, NothingRouted
<1>3. "main" \notin errors'
  BY <1>1 DEF MarkInv, CyclesInTurn
<1>4. QED
  BY <1>1, <1>2, <1>3, FlushAndSubmitMarks

-----------------------------------------------------------------------------
(* The operations of the program. *)

\* What is known to lose objects is excluded: growth while a mark runs, and
\* following or cutting the paths through young objects during an old mark.
Restrained == {"arrayGrowth", "objectGrowth", "youngPaths"} \subseteq Excluded

\* The program follows or drops a reference.
LEMMA LoadedMarks ==
  ASSUME IInv, MarkInv, mut = Ready, NEW l \in Locals, NEW v \in HC!Reachable \cup {Null},
         local' = [local EXCEPT ![l] = v],
         oldActive /\ v # Null =>
           \E x \in Roots : entry[x] = "old" /\ v \in Word(x),
         UNCHANGED <<heapVars, markVars, ringVars, remVars, cycleVars, pending, bridges,
                     errors, sweepVars, packetVars, hand, mut, full, failed>>
  PROVE  MarkInv'
<1> USE DEF heapVars, markVars, ringVars, remVars, cycleVars, sweepVars, packetVars
<1>0. TypeOK /\ SweptOnce
  BY DEF IInv, MarkInv
<1>1. HC!Reachable' \subseteq HC!Reachable
  BY <1>0, ReachableLoaded
<1>2. GreyMain' = GreyMain /\ GreyOld' = GreyOld /\ Recorded' = Recorded
  BY GreyStays
<1>3. SweepsAreSafe' /\ MarkComplete' /\ ReachableIsLive'
  BY <1>0, <1>1, SweepStays DEF MarkInv
<1>4. FlagsRaised' /\ CyclesInTurn' /\ HandsAreCurrent' /\ SweptOnce'
  BY <1>0, FlagsStay, HandsStay, PagesStay DEF MarkInv, CyclesInTurn
<1>5. StoreShaded'
  BY DEF StoreShaded, Ready
<1>6. MainCovered'
  BY <1>1, <1>2, MainStays DEF MarkInv
<1>7. OldCovered'
  <2> SUFFICES ASSUME oldActive, "old" \notin errors
               PROVE  \E B \in SUBSET Handles : Seen(B)'
    BY DEF OldCovered
  <2>1. PICK B \in SUBSET Handles : Seen(B)
    BY DEF OldCovered, MarkInv
  <2>2. \A h : Word(h)' = Word(h) /\ Live(h)' = Live(h) /\ Marked(h)' = Marked(h)
    BY DEF Word, Live, Marked, IsMarked
  <2>3. \A S \in SUBSET Handles : ClosedOld(B, S)' => ClosedOld(B, S)
    BY <1>2, <2>2 DEF ClosedOld
  <2>4. v # Null => Live(v)
    BY DEF MarkInv, ReachableIsLive, HC!NoDanglingReference
  <2>5. Roots' \subseteq Roots \cup ({v} \ {Null})
    BY <1>0 DEF Roots, TypeOK
  <2>6. ASSUME NEW S \in SUBSET Handles, ClosedOld(B, S)
        PROVE  /\ Roots' \subseteq B \cup S
               /\ \A x \in B : \A y \in Word(x) : Live(y) => y \in B \cup S
    <3>1. /\ Roots \subseteq B \cup S
          /\ \A x \in B : \A y \in Word(x) : Live(y) => y \in B \cup S
      BY <2>1, <2>6 DEF Seen
    <3>2. v # Null => v \in B \cup S
      BY <2>4, <2>6, <3>1 DEF ClosedOld
    <3>3. QED
      BY <2>5, <3>1, <3>2
  <2>7. Scanning("old")' = Scanning("old")
    BY DEF Scanning
  <2>8. \A S \in SUBSET Handles : ClosedOld(B, S)' =>
          /\ Roots' \subseteq B \cup S
          /\ \A x \in B : \A y \in Word(x)' : Live(y)' => y \in B \cup S
    BY <2>2, <2>3, <2>6
  <2>9. Seen(B)'
    BY <1>2, <2>1, <2>2, <2>7, <2>8 DEF Seen, Ready
  <2>10. QED
    BY <2>9
<1>8. QED
  BY <1>3, <1>4, <1>5, <1>6, <1>7 DEF MarkInv

\* A load hands the program a reference it could follow before.
LEMMA LoadMarks ==
  ASSUME IInv, MarkInv, Restrained, NEW l \in Locals, NEW m \in Locals, Load(l, m)
  PROVE  MarkInv'
<1> DEFINE x == local[m]
<1>0. TypeOK
  BY DEF IInv
<1>1. /\ mut = Ready /\ x # Null /\ Live(x) /\ MayFollow(x)
      /\ local' = [local EXCEPT ![l] = field[x]]
      /\ UNCHANGED <<heapVars, markVars, ringVars, remVars, cycleVars, pending, bridges,
                     errors, sweepVars, packetVars, hand, mut, full, failed>>
  BY DEF Load, Operation, Running
<1>2. x \in Roots
  BY <1>1 DEF Roots
<1>3. field[x] \in HC!Reachable \cup {Null}
  BY <1>0, <1>2, ReachableClosed
<1>4. oldActive => entry[x] = "old"
  BY <1>1 DEF MarkInv, FlagsRaised, MayFollow, Restrained, Live
<1>5. field[x] # Null => field[x] \in Word(x)
  BY <1>1 DEF Word
<1> HIDE DEF x
<1>6. QED
  BY <1>1, <1>2, <1>3, <1>4, <1>5, LoadedMarks

\* The program drops a root.
LEMMA DropMarks ==
  ASSUME IInv, MarkInv, NEW l \in Locals, Drop(l)
  PROVE  MarkInv'
<1>1. /\ mut = Ready /\ local' = [local EXCEPT ![l] = Null]
      /\ UNCHANGED <<heapVars, markVars, ringVars, remVars, cycleVars, pending, bridges,
                     errors, sweepVars, packetVars, hand, mut, full, failed>>
  BY DEF Drop, Operation, Running
<1>2. QED
  BY <1>1, LoadedMarks

\* A new object is born black, or is none of the markers' business.
LEMMA AllocateMarks ==
  ASSUME IInv, MarkInv, NEW l \in Locals, NEW h \in Handles, Allocate(l, h)
  PROVE  MarkInv'
<1> USE DEF markVars, ringVars, remVars, cycleVars, sweepVars, packetVars
<1>0. TypeOK /\ SweptOnce /\ mut = Ready /\ entry[h] = "free"
  BY DEF IInv, MarkInv, Allocate, Operation, Running
<1>1. /\ entry' = [entry EXCEPT ![h] = "young"] /\ field' = [field EXCEPT ![h] = Null]
      /\ local' = [local EXCEPT ![l] = h]
      /\ marks' = [g \in {"young", "old"} |->
           IF g \in BlackIn THEN marks[g] \cup {<<h, addr[h]>>} ELSE marks[g]]
      /\ UNCHANGED <<addr, marking, ringVars, remVars, cycleVars, pending, bridges, errors,
                     sweepVars, packetVars, hand, mut, full, failed>>
  BY DEF Allocate
<1>2. HC!Reachable' \subseteq HC!Reachable \cup {h}
  BY <1>0, <1>1, ReachableAllocated
<1>3. entry'[h] = "young" /\ field'[h] = Null /\ Live(h)' /\ ~Live(h) /\ Word(h) = {} /\ Word(h)' = {}
  BY <1>0, <1>1 DEF TypeOK, Live, Word
<1>4. /\ \A k \in Handles \ {h} : entry'[k] = entry[k] /\ field'[k] = field[k]
      /\ \A k \in Handles \ {h}, g \in {"young", "old"} : IsMarked(k, g)' = IsMarked(k, g)
  BY <1>0, <1>1 DEF TypeOK, IsMarked
<1>5. \A k \in Handles \ {h} :
        /\ Live(k)' = Live(k) /\ Word(k)' = Word(k)
        /\ Included(k)' = Included(k) /\ White(k)' = White(k)
        /\ Live(k) => (Marked(k)' = Marked(k))
  <2>1. \A k \in Handles \ {h} : entry[k] \in {"young", "old"} => Marked(k)' = Marked(k)
    BY <1>4 DEF Marked
  <2>2. \A k \in Handles \ {h} : Live(k)' = Live(k) /\ Word(k)' = Word(k) /\ Included(k)' = Included(k)
    BY <1>1, <1>4 DEF Live, Word, Included
  <2>3. QED
    BY <2>1, <2>2 DEF White, Included, Live
<1>51. \A k \in Handles \ {h} : entry[k] = "old" => (Marked(k)' = Marked(k))
  BY <1>5 DEF Live
<1>6. phase \in {"mark", "select"} => ~White(h)'
  <2>1. phase \in {"mark", "select"} /\ Includes(generation, "young") => <<h, addr'[h]>> \in marks'["young"]
    BY <1>1 DEF BlackIn
  <2>2. QED
    BY <1>1, <1>3, <2>1 DEF White, Included, Marked, IsMarked
<1>7. ReachableIsLive'
  BY <1>2, <1>3, <1>5 DEF MarkInv, ReachableIsLive, HC!NoDanglingReference, HC!Reachable
<1>8. FlagsRaised' /\ CyclesInTurn' /\ StoreShaded' /\ SweptOnce'
  <2>1. FlagsRaised' /\ CyclesInTurn'
    BY <1>1, FlagsStay DEF MarkInv, CyclesInTurn
  <2>2. SweptOnce'
    BY <1>0, <1>1, PagesStay
  <2>3. QED
    BY <1>0, <1>1, <2>1, <2>2 DEF StoreShaded, Ready
<1>9. HandsAreCurrent'
  <2> SUFFICES ASSUME NEW m \in Markers, hand[m] # None
               PROVE  (LET k == hand[m].handle IN
                       /\ hand[m].queue = "main" =>
                            /\ Live(k) /\ hand[m].gen = entry[k] /\ hand[m].addr = addr[k]
                            /\ hand[m].step = "mark" => Included(k)
                            /\ White(k) => hand[m].step = "mark"
                       /\ hand[m].queue = "old" /\ hand[m].step = "mark" =>
                            entry[k] = "old" /\ hand[m].gen = "old" /\ hand[m].addr = addr[k]
                       /\ hand[m].queue = "old" /\ hand[m].step = "scan" /\ entry[k] = "old" =>
                            \/ Marked(k) \/ k \in pending["old"]
                            \/ \E n \in Markers : /\ hand[n] # None /\ hand[n].queue = "old"
                                                  /\ hand[n].step = "mark" /\ hand[n].handle = k)'
    BY <1>1 DEF HandsAreCurrent
  <2>1. hand[m].handle \in Handles
    BY <1>0 DEF TypeOK, Hands
  <2>2. CASE hand[m].handle = h
    BY <1>0, <1>1, <1>3, <2>2 DEF MarkInv, HandsAreCurrent
  <2>3. CASE hand[m].handle # h
    BY <1>1, <1>4, <1>5, <1>51, <2>1, <2>3 DEF MarkInv, HandsAreCurrent
  <2>4. QED
    BY <2>2, <2>3
<1>10. SweepsAreSafe' /\ MarkComplete'
  <2>1. \A k \in candidates : phase = "select" => k \in Handles \ {h}
    BY <1>0, <1>3 DEF MarkInv, SweepsAreSafe, White, Included, TypeOK
  <2>2. SweepsAreSafe'
    <3>1. selected \subseteq Handles
      BY <1>0 DEF TypeOK
    <3>2. QED
      BY <1>1, <1>3, <1>4, <1>5, <2>1, <3>1 DEF MarkInv, SweepsAreSafe
  <2>3. MarkComplete'
    <3> SUFFICES ASSUME phase = "select", NEW k \in HC!Reachable'
                 PROVE  ~White(k)'
      BY <1>1 DEF MarkComplete, White, Included, Marked
    <3>1. k \in HC!Reachable \/ k = h
      BY <1>2
    <3>2. k \in HC!Reachable => ~White(k)
      BY DEF MarkInv, MarkComplete, White, Included, Marked
    <3>3. k \in Handles
      BY DEF HC!Reachable
    <3>4. QED
      BY <1>5, <1>6, <3>1, <3>2, <3>3
  <2>4. QED
    BY <2>2, <2>3
<1>11. /\ GreyMain' = GreyMain
       /\ GreyOld' = GreyOld /\ \A q \in Queues : Scanning(q)' = Scanning(q)
  <2>1. OpenRecords' = OpenRecords /\ OpenRecords = ring /\ ring \subseteq Records
    BY <1>0, <1>1 DEF OpenRecords, Ready, TypeOK
  <2>2. \A r \in ring : RecordWords(r)' = RecordWords(r)
    <3>1. \A k \in Handles : Word(k)' = Word(k)
      BY <1>3, <1>5
    <3>2. QED
      BY <1>1, <2>1, <3>1, RecordTypes DEF RecordWords
  <2>3. RecordedWords' = RecordedWords /\ Recorded' = Recorded
    BY <2>1, <2>2 DEF RecordedWords, Recorded
  <2>4. {v \in Recorded : entry[v] = "old"}' = {v \in Recorded : entry[v] = "old"}
    <3>1. Recorded \subseteq Handles
      BY <2>1, RecordTypes DEF Recorded
    <3>2. QED
      BY <1>0, <1>3, <1>4, <2>3, <3>1
  <2>5. QED
    BY <1>1, <2>3, <2>4 DEF GreyMain, GreyOld, RootPackets, InHand, Scanning
<1>12. MainCovered'
  <2> SUFFICES ASSUME phase = "mark" PROVE MainCovered'
    BY <1>1 DEF MainCovered
  <2>1. \A k \in HC!Reachable' : White(k)' => k \in HC!Reachable /\ White(k)
    BY <1>2, <1>5, <1>6 DEF HC!Reachable
  <2>2. \A S \in SUBSET Handles : ClosedMain(S)' => ClosedMain(S \cup {})
    <3> SUFFICES ASSUME NEW S \in SUBSET Handles, ClosedMain(S)'
                 PROVE  ClosedMain(S)
      OBVIOUS
    <3>1. \A k : White(k) => k \in Handles \ {h} \/ k \notin Handles
      BY <1>3 DEF White, Included
    <3>2. GreyMain \subseteq Handles /\ Scanning("main") \subseteq Handles
      BY <1>0, GreyTypes DEF Queues
    <3>3. \A x \in Handles : Word(x) \subseteq Handles /\ Word(x)' = Word(x)
      BY <1>0, <1>3, <1>5, WordsAreHandles DEF TypeOK
    <3>4. \A x \in Handles : White(x) => White(x)'
      BY <1>5, <3>1
    <3>5. QED
      BY <1>11, <3>2, <3>3, <3>4 DEF ClosedMain, Queues
  <2>3. {} \in SUBSET Handles /\ (\A x \in {} : ~White(x)') /\ MainCovered
    BY DEF MarkInv
  <2>4. QED
    BY <2>1, <2>2, <2>3, MainCarries
<1>13. OldCovered'
  <2> SUFFICES ASSUME oldActive, "old" \notin errors
               PROVE  \E B \in SUBSET Handles : Seen(B)'
    BY <1>1 DEF OldCovered
  <2>1. PICK B \in SUBSET Handles : Seen(B)
    BY DEF OldCovered, MarkInv
  <2> DEFINE C == B \cup {h}
  <2>2. \A x \in Handles : Word(x) \subseteq Handles /\ Word(x)' = Word(x)
    BY <1>0, <1>3, <1>5, WordsAreHandles DEF TypeOK
  <2>3. Roots' \subseteq Roots \cup {h}
    BY <1>0, <1>1 DEF Roots, TypeOK
  <2>4. ASSUME NEW S \in SUBSET Handles, ClosedOld(C, S)'
        PROVE  /\ Roots' \subseteq C \cup S
               /\ \A x \in C : \A y \in Word(x)' : Live(y)' => y \in C \cup S
    <3>1. ClosedOld(B, S \cup {h})
      <4>1. GreyOld \subseteq B \cup (S \cup {h})
        BY <1>11, <2>4 DEF ClosedOld
      <4>2. \A x \in (S \cup {h}) \ B : entry[x] = "old" => x \in S \ C /\ entry'[x] = "old"
        BY <1>0, <1>4
      <4>3. \A x \in (S \cup {h}) \ B : entry[x] = "old" => Word(x) \subseteq B \cup (S \cup {h})
        BY <2>2, <2>4, <4>2 DEF ClosedOld
      <4>4. QED
        BY <4>1, <4>3 DEF ClosedOld
    <3>2. /\ Roots \subseteq B \cup (S \cup {h})
          /\ \A x \in B : \A y \in Word(x) : Live(y) => y \in B \cup (S \cup {h})
      BY <2>1, <3>1 DEF Seen
    <3>3. \A x \in C : \A y \in Word(x)' : Live(y)' => y \in C \cup S
      BY <1>3, <1>5, <2>2, <3>2
    <3>4. QED
      BY <2>3, <3>2, <3>3
  <2>5. \A bit \in marks'["old"] : Live(bit[1])' => bit[1] \in C \cup Scanning("old")'
    <3>1. \A bit \in marks'["old"] : bit[1] = h \/ bit \in marks["old"]
      BY <1>0, <1>1 DEF TypeOK
    <3>2. \A bit \in marks["old"] : bit[1] \in Handles
      BY <1>0 DEF TypeOK
    <3>3. \A bit \in marks["old"] : Live(bit[1]) => bit[1] \in B \cup Scanning("old")
      BY <2>1 DEF Seen
    <3>4. QED
      BY <1>5, <1>11, <3>1, <3>2, <3>3 DEF Queues
  <2>6. \A k \in bridges'["old"] : Live(k)' => k \in C \cup Scanning("old")'
    <3>1. \A k \in bridges["old"] : k \in Handles /\ (Live(k) => k \in B \cup Scanning("old"))
      BY <1>0, <2>1 DEF Seen, TypeOK, Queues
    <3>2. QED
      BY <1>1, <1>5, <1>11, <3>1 DEF Queues
  <2>7. \A k \in C : entry'[k] = "old" => Marked(k)' \/ k \in GreyOld'
    <3> SUFFICES ASSUME NEW k \in C, entry'[k] = "old"
                 PROVE  Marked(k)' \/ k \in GreyOld'
      OBVIOUS
    <3>1. k # h /\ k \in B /\ entry[k] = "old"
      BY <1>3, <1>4
    <3>2. Marked(k) \/ k \in GreyOld
      BY <2>1, <3>1 DEF Seen
    <3>3. QED
      BY <1>11, <1>51, <3>1, <3>2
  <2>8. mut'.pc \notin {"barrier", "assist"}
    BY <1>0, <1>1 DEF Ready
  <2>9. Seen(C)'
    BY <2>4, <2>5, <2>6, <2>7, <2>8 DEF Seen
  <2>10. C \in SUBSET Handles
    OBVIOUS
  <2>11. QED
    BY <2>9, <2>10
<1>14. QED
  BY <1>7, <1>8, <1>9, <1>10, <1>12, <1>13 DEF MarkInv

\* The word about to be overwritten is the first record of the barrier.
LEMMA OverwrittenIsRecorded ==
  ASSUME TypeOK, NEW op, NEW h \in Handles, NEW v \in Handles \cup {Null},
         marking # {}, field[h] # Null
  PROVE  [kind |-> "satb", handle |-> field[h]] \in
           {BarrierRecords(op, h, v)[i] : i \in DOMAIN BarrierRecords(op, h, v)}
<1> DEFINE satb == <<[kind |-> "satb", handle |-> field[h]]>>
           mark == IF marking # {} /\ v # Null /\ (op = "slot" => IsMarked(h, entry[h]))
                   THEN <<[kind |-> "mark", handle |-> v]>> ELSE <<>>
           slot == IF op = "slot" /\ entry[h] = "old" /\ v # Null /\ entry[v] = "young"
                   THEN <<[kind |-> "slot", handle |-> h, addr |-> addr[h]]>> ELSE <<>>
           owner == IF op = "proto" /\ entry[h] = "old"
                    THEN <<[kind |-> "owner", handle |-> h]>> ELSE <<>>
<1>0. <<>> \in Seq(Records) /\ \A r \in Records : <<r>> \in Seq(Records)
  OBVIOUS
<1>1. satb \in Seq(Records) /\ mark \in Seq(Records)
  <2>1. [kind |-> "satb", handle |-> field[h]] \in Records
    BY DEF TypeOK, Records
  <2>2. v # Null => [kind |-> "mark", handle |-> v] \in Records
    BY DEF Records
  <2>3. QED
    BY <1>0, <2>1, <2>2
<1>2. slot \in Seq(Records) /\ owner \in Seq(Records)
  <2>1. [kind |-> "slot", handle |-> h, addr |-> addr[h]] \in Records
    BY DEF TypeOK, Records
  <2>2. [kind |-> "owner", handle |-> h] \in Records
    BY DEF Records
  <2>3. QED
    BY <1>0, <2>1, <2>2
<1>3. BarrierRecords(op, h, v) = satb \o mark \o slot \o owner
  BY DEF BarrierRecords
<1>4. Len(satb) = 1 /\ satb[1] = [kind |-> "satb", handle |-> field[h]]
  OBVIOUS
<1> HIDE DEF satb, mark, slot, owner
<1>5. ASSUME NEW s \in Seq(Records), NEW t \in Seq(Records), Len(s) >= 1
      PROVE  s \o t \in Seq(Records) /\ Len(s \o t) >= 1 /\ (s \o t)[1] = s[1]
  <2>1. Len(s) \in Nat /\ Len(t) \in Nat /\ 1 \in 1..Len(s)
    BY <1>5
  <2>2. s \o t \in Seq(Records) /\ Len(s \o t) = Len(s) + Len(t)
    OBVIOUS
  <2>3. \A i \in 1..Len(s) : (s \o t)[i] = s[i]
    BY <2>1
  <2>4. QED
    BY <1>5, <2>1, <2>2, <2>3
<1>6. /\ satb \o mark \in Seq(Records) /\ Len(satb \o mark) >= 1
      /\ (satb \o mark)[1] = satb[1]
  <2>1. Len(satb) >= 1
    BY <1>4
  <2>2. satb \in Seq(Records) /\ mark \in Seq(Records)
    BY <1>1
  <2>3. QED
    BY ONLY <1>5, <2>1, <2>2
<1>7. /\ satb \o mark \o slot \in Seq(Records) /\ Len(satb \o mark \o slot) >= 1
      /\ (satb \o mark \o slot)[1] = satb[1]
  BY <1>2, <1>5, <1>6
<1>8. /\ satb \o mark \o slot \o owner \in Seq(Records)
      /\ Len(satb \o mark \o slot \o owner) >= 1
      /\ (satb \o mark \o slot \o owner)[1] = satb[1]
  BY <1>2, <1>5, <1>7
<1>9. /\ 1 \in DOMAIN BarrierRecords(op, h, v)
      /\ BarrierRecords(op, h, v)[1] = [kind |-> "satb", handle |-> field[h]]
  BY <1>3, <1>4, <1>8
<1>10. QED
  BY <1>9

\* The barrier of a store shades what the store overwrites.
LEMMA StoreBarrierMarks ==
  ASSUME IInv, MarkInv, Restrained, NEW op, NEW h \in Handles, NEW v \in Handles \cup {Null},
         StoreBarrier(op, h, v)
  PROVE  MarkInv'
<1> USE DEF heapVars, markVars, ringVars, remVars, cycleVars, sweepVars, packetVars
<1>0. TypeOK /\ SweptOnce /\ mut = Ready
  BY DEF IInv, MarkInv, StoreBarrier, Operation, Running
<1>1. /\ h \in Roots /\ v \in Roots \cup {Null} /\ Live(h) /\ MayOverwrite(h)
      /\ mut' = [pc |-> "barrier", todo |-> BarrierRecords(op, h, v), owner |-> h, value |-> v]
      /\ UNCHANGED <<heapVars, local, markVars, ringVars, remVars, cycleVars, pending,
                     bridges, errors, sweepVars, packetVars, hand, full, failed>>
  BY DEF StoreBarrier
<1>2. /\ mut'.pc = "barrier" /\ mut'.owner = h /\ mut'.value = v
      /\ mut'.todo = BarrierRecords(op, h, v)
  BY <1>1
<1>3. HC!Reachable' \subseteq HC!Reachable
  BY <1>0, <1>1, ReachableStays
<1>4. /\ \A k : White(k)' = White(k) /\ Word(k)' = Word(k) /\ Marked(k)' = Marked(k)
      /\ \A r : RecordWords(r)' = RecordWords(r)
      /\ \A q : InHand(q)' = InHand(q) /\ Roots' = Roots
  BY <1>1 DEF White, Included, Marked, IsMarked, Live, Word, RecordWords, InHand, Roots
<1>5. ring \subseteq OpenRecords' /\ OpenRecords = ring
  BY <1>0, <1>1 DEF OpenRecords, Ready
<1>6. Recorded \subseteq Recorded' /\ RecordedWords \subseteq RecordedWords'
  BY <1>4, <1>5 DEF Recorded, RecordedWords
<1>7. RootPackets \subseteq RootPackets'
  BY <1>0, <1>1, <1>2 DEF RootPackets, Ready
<1>8. GreyMain \subseteq GreyMain' /\ GreyOld \subseteq GreyOld'
  BY <1>1, <1>4, <1>6, <1>7 DEF GreyMain, GreyOld
<1>9. marking # {} => \A w \in Word(h) : w \in Recorded'
  <2> SUFFICES ASSUME marking # {}, field[h] # Null PROVE field[h] \in Recorded'
    BY DEF Word
  <2>1. [kind |-> "satb", handle |-> field[h]] \in Todo'
    BY <1>0, <1>2, OverwrittenIsRecorded DEF Todo
  <2>2. Todo' \subseteq OpenRecords'
    BY <1>2 DEF OpenRecords
  <2>3. QED
    BY <2>1, <2>2 DEF Recorded
<1>10. SweepsAreSafe' /\ MarkComplete' /\ ReachableIsLive'
  BY <1>0, <1>1, <1>3, SweepStays DEF MarkInv
<1>11. FlagsRaised' /\ CyclesInTurn' /\ HandsAreCurrent' /\ SweptOnce'
  <2>1. FlagsRaised' /\ CyclesInTurn'
    BY <1>1, <1>2, FlagsStay DEF MarkInv, CyclesInTurn
  <2>2. HandsAreCurrent' /\ SweptOnce'
    BY <1>0, <1>1, <1>2, HandsStay, PagesStay DEF MarkInv
  <2>3. QED
    BY <2>1, <2>2
<1>12. StoreShaded'
  <2>1. phase = "mark" => marking # {}
    BY DEF MarkInv, FlagsRaised
  <2>2. Word(mut.owner)' = Word(h)
    BY <1>2, <1>4
  <2>3. QED
    BY <1>1, <1>2, <1>4, <1>9, <2>1, <2>2 DEF StoreShaded
<1>13. MainCovered'
  BY <1>1, <1>3, <1>8, MainStays DEF MarkInv
<1>14. OldCovered'
  <2>1. CASE oldActive
    <3>1. \A w \in Word(h) : entry[w] = "old" /\ w \in GreyOld'
      <4>1. "old" \in marking
        BY <2>1 DEF MarkInv, FlagsRaised
      <4>2. \A w \in Word(h) : w \in HC!Reachable /\ w = field[h] /\ w # Null
        BY <1>0, <1>1, ReachableClosed DEF Word
      <4>3. \A w \in Word(h) : Live(w)
        BY <4>2 DEF MarkInv, ReachableIsLive, HC!NoDanglingReference
      <4>4. \A w \in Word(h) : entry[w] = "old"
        BY <1>1, <4>1, <4>2, <4>3 DEF MayOverwrite, MayFollow, Restrained, Live
      <4>5. QED
        BY <1>1, <1>9, <4>1, <4>4 DEF GreyOld
    <3>2. QED
      BY <1>1, <1>2, <1>4, <1>8, <3>1, OldStays DEF MarkInv
  <2>2. CASE ~oldActive
    BY <1>1, <2>2 DEF OldCovered
  <2>3. QED
    BY <2>1, <2>2
<1>15. QED
  BY <1>10, <1>11, <1>12, <1>13, <1>14 DEF MarkInv

\* The store itself: what it overwrites is shaded, what it writes is a root.
LEMMA StoreMarks ==
  ASSUME IInv, MarkInv, Store
  PROVE  MarkInv'
<1> USE DEF markVars, ringVars, remVars, cycleVars, sweepVars, packetVars
<1>0. PICK o \in Handles, v \in Handles \cup {Null} :
        /\ o = mut.owner /\ v = mut.value
        /\ TypeOK /\ SweptOnce /\ mut.pc = "barrier" /\ mut.todo = <<>>
        /\ mut' = Ready /\ mut'.pc = "run"
  <2>1. TypeOK /\ SweptOnce /\ mut \in MutatorStates /\ mut.pc = "barrier"
    BY DEF IInv, MarkInv, TypeOK, Store
  <2>2. QED
    BY <2>1, MutatorTypes DEF Store, Ready
<1>1. /\ field' = [field EXCEPT ![o] = v]
      /\ UNCHANGED <<entry, age, addr, local, markVars, ringVars, remVars, cycleVars, pending,
                     bridges, errors, sweepVars, packetVars, hand, full, failed, ops>>
  BY <1>0 DEF Store
<1>2. /\ o \in Roots /\ v \in Roots \cup {Null}
      /\ phase = "mark" => \A w \in Word(o) : White(w) =>
           w \in pending["main"] \cup InHand("main") \cup Recorded
  BY <1>0 DEF MarkInv, StoreShaded
<1>3. OpenRecords = ring /\ OpenRecords' = ring
  <2>1. Todo = {}
    BY <1>0 DEF Todo
  <2>2. QED
    BY <1>0, <1>1, <2>1 DEF OpenRecords
<1>4. HC!Reachable' \subseteq HC!Reachable
  <2>1. o \in HC!Reachable /\ v \in HC!Reachable \cup {Null}
    BY <1>0, <1>2, ReachableClosed
  <2>2. QED
    BY <1>0, <1>1, <2>1, ReachableStored
<1>5. /\ \A k : White(k)' = White(k) /\ Live(k)' = Live(k) /\ Marked(k)' = Marked(k)
      /\ \A k \in Handles \ {o} : Word(k)' = Word(k)
      /\ Word(o)' \subseteq {v} \ {Null}
      /\ \A q : InHand(q)' = InHand(q) /\ Scanning(q)' = Scanning(q)
      /\ Roots' = Roots
  <2>1. \A k : White(k)' = White(k) /\ Live(k)' = Live(k) /\ Marked(k)' = Marked(k)
    BY <1>1 DEF White, Included, Marked, IsMarked, Live
  <2>2. /\ \A k \in Handles \ {o} : field'[k] = field[k]
        /\ field'[o] = v
    BY <1>0, <1>1 DEF TypeOK
  <2>3. /\ \A k \in Handles \ {o} : Word(k)' = Word(k)
        /\ Word(o)' \subseteq {v} \ {Null}
    BY <2>1, <2>2 DEF Word
  <2>4. /\ \A q : InHand(q)' = InHand(q) /\ Scanning(q)' = Scanning(q)
        /\ Roots' = Roots
    BY <1>1 DEF InHand, Scanning, Roots
  <2>5. QED
    BY <2>1, <2>3, <2>4
<1>6. Recorded' = Recorded /\ Recorded \subseteq RecordedWords'
  <2>1. \A r : r.kind \in {"satb", "mark"} => (RecordWords(r)' = {r.handle})
    BY DEF RecordWords
  <2>2. QED
    BY <1>3, <2>1 DEF Recorded, RecordedWords
<1>7. RootPackets' = RootPackets
  BY <1>0, <1>1 DEF RootPackets
<1>8. SweepsAreSafe' /\ MarkComplete' /\ ReachableIsLive'
  BY <1>0, <1>1, <1>4, SweepStays DEF MarkInv
<1>9. FlagsRaised' /\ CyclesInTurn' /\ HandsAreCurrent' /\ SweptOnce' /\ StoreShaded'
  <2>1. FlagsRaised' /\ CyclesInTurn'
    BY <1>0, <1>1, FlagsStay DEF MarkInv, CyclesInTurn
  <2>2. HandsAreCurrent' /\ SweptOnce'
    BY <1>0, <1>1, HandsStay, PagesStay DEF MarkInv
  <2>3. StoreShaded'
    BY <1>0 DEF StoreShaded
  <2>4. QED
    BY <2>1, <2>2, <2>3
<1>10. MainCovered'
  <2> SUFFICES ASSUME phase = "mark" PROVE MainCovered'
    BY <1>1 DEF MainCovered
  <2>1. \A w \in Word(o) : White(w) => w \in GreyMain'
    BY <1>1, <1>2, <1>5, <1>6 DEF GreyMain
  <2>2. \A w \in GreyMain : White(w) => w \in GreyMain'
    <3>1. \A w \in RecordedWords : w \in RecordedWords' \/ w \in Word(o)
      <4> SUFFICES ASSUME NEW r \in ring, NEW w \in RecordWords(r), w \notin Word(o)
                   PROVE  w \in RecordWords(r)'
        BY <1>3 DEF RecordedWords
      <4>1. r.handle \in Handles /\ r.kind \in {"satb", "mark", "owner", "slot"}
        BY <1>0, RecordTypes DEF TypeOK
      <4>2. CASE r.handle = o /\ r.kind \in {"owner", "slot"}
        BY <4>2 DEF RecordWords
      <4>3. CASE r.kind \in {"satb", "mark"}
        BY <4>3 DEF RecordWords
      <4>4. CASE r.handle # o /\ r.kind \in {"owner", "slot"}
        <5>1. Word(r.handle)' = Word(r.handle)
          BY <1>5, <4>1, <4>4
        <5>2. QED
          BY <1>1, <4>4, <5>1 DEF RecordWords
      <4>5. QED
        BY <4>1, <4>2, <4>3, <4>4
    <3>2. QED
      BY <1>1, <1>5, <1>7, <2>1, <3>1 DEF GreyMain
  <2>3. ASSUME NEW S \in SUBSET Handles, ClosedMain(S)'
        PROVE  ClosedMain(S)
    <3>1. \A x \in GreyMain' : White(x) => x \in S
      BY <1>5, <2>3 DEF ClosedMain
    <3>2. \A x \in GreyMain : White(x) => x \in S
      BY <2>2, <3>1
    <3>3. \A w \in Word(o) : White(w) => w \in S
      BY <2>1, <3>1
    <3>4. \A x \in Scanning("main") : \A y \in Word(x) : White(y) => y \in S
      <4>1. Scanning("main") \subseteq Handles
        BY <1>0, GreyTypes DEF Queues
      <4>2. QED
        BY <1>5, <2>3, <3>3, <4>1 DEF ClosedMain
    <3>5. \A x \in S : White(x) => \A y \in Word(x) : White(y) => y \in S
      BY <1>5, <2>3, <3>3 DEF ClosedMain
    <3>6. QED
      BY <3>2, <3>4, <3>5 DEF ClosedMain
  <2>4. QED
    BY <1>4, <1>5, <2>3 DEF MainCovered, MarkInv
<1>11. OldCovered'
  <2> SUFFICES ASSUME oldActive, "old" \notin errors
               PROVE  \E B \in SUBSET Handles : Seen(B)'
    BY <1>1 DEF OldCovered
  <2>1. PICK B \in SUBSET Handles : Seen(B)
    BY DEF OldCovered, MarkInv
  <2>2. GreyOld' = GreyOld
    BY <1>1, <1>5, <1>6 DEF GreyOld
  <2>3. \A w \in Word(o) : w \in B \cup GreyOld
    BY <1>0, <2>1 DEF Seen
  <2>4. ASSUME NEW S \in SUBSET Handles, ClosedOld(B, S)'
        PROVE  /\ Roots' \subseteq B \cup S
               /\ \A x \in B : \A y \in Word(x)' : Live(y)' => y \in B \cup S
    <3>1. GreyOld \subseteq B \cup S
      BY <2>2, <2>4 DEF ClosedOld
    <3>2. \A x \in S \ B : entry[x] = "old" => Word(x) \subseteq B \cup S
      BY <1>1, <1>5, <2>3, <2>4, <3>1 DEF ClosedOld
    <3>3. /\ Roots \subseteq B \cup S
          /\ \A x \in B : \A y \in Word(x) : Live(y) => y \in B \cup S
      BY <2>1, <3>1, <3>2 DEF Seen, ClosedOld
    <3>4. ASSUME NEW x \in B, NEW y \in Word(x)', Live(y)' PROVE y \in B \cup S
      <4>1. CASE x = o
        BY <1>2, <1>5, <3>3, <4>1
      <4>2. CASE x # o
        BY <1>5, <3>3, <3>4, <4>2
      <4>3. QED
        BY <4>1, <4>2
    <3>5. QED
      BY <1>5, <3>3, <3>4
  <2>5. /\ \A bit \in marks'["old"] : Live(bit[1])' => bit[1] \in B \cup Scanning("old")'
        /\ \A h \in bridges'["old"] : Live(h)' => h \in B \cup Scanning("old")'
        /\ \A h \in B : entry'[h] = "old" => Marked(h)' \/ h \in GreyOld'
    BY <1>1, <1>5, <2>1, <2>2 DEF Seen
  <2>6. Seen(B)'
    BY <1>0, <2>4, <2>5 DEF Seen
  <2>7. QED
    BY <2>6
<1>12. QED
  BY <1>8, <1>9, <1>10, <1>11 DEF MarkInv

-----------------------------------------------------------------------------
(* Objects move. *)

\* While objects move only an old mark runs, and it has no business with them.
LEMMA MovedKeeps ==
  ASSUME IInv, MarkInv, SweptOnce', phase = "relocate", NEW h \in selected,
         \A k \in Handles \ {h} : addr'[k] = addr[k],
         \A k \in Handles \ {h} : IsMarked(k, "old") => IsMarked(k, "old")',
         entry[h] # "old" => marks'["old"] \subseteq marks["old"],
         UNCHANGED <<entry, field, local, marking, ring, phase, generation, oldActive, pending,
                     bridges, errors, selected, queue, hand, mut>>
  PROVE  MarkInv'
<1>0. TypeOK /\ h \in Handles
  BY DEF IInv, TypeOK
<1>1. oldActive => entry[h] # "old"
  BY DEF MarkInv, CyclesInTurn, SweepsAreSafe
<1>2. HC!Reachable' \subseteq HC!Reachable
  BY <1>0, ReachableStays
<1>3. ReachableIsLive' /\ SweepsAreSafe' /\ MarkComplete' /\ MainCovered'
  BY <1>2 DEF MarkInv, ReachableIsLive, HC!NoDanglingReference, HC!Reachable, Live, SweepsAreSafe,
         MarkComplete, MainCovered
<1>4. FlagsRaised' /\ CyclesInTurn' /\ StoreShaded'
  <2>1. FlagsRaised' /\ CyclesInTurn'
    BY FlagsStay DEF MarkInv, CyclesInTurn
  <2>2. Roots' = Roots
    BY DEF Roots
  <2>3. QED
    BY <2>1, <2>2 DEF MarkInv, StoreShaded
<1>5. \A k \in Handles : oldActive /\ entry[k] = "old" =>
        k # h /\ addr'[k] = addr[k] /\ (Marked(k) => Marked(k)')
  BY <1>1 DEF Marked
<1>6. HandsAreCurrent'
  <2> SUFFICES ASSUME NEW m \in Markers, hand[m] # None
               PROVE  LET k == hand[m].handle IN
                       /\ hand[m].queue = "old"
                       /\ hand[m].step = "mark" =>
                            entry[k] = "old" /\ hand[m].gen = "old" /\ hand[m].addr = addr'[k]
                       /\ hand[m].step = "scan" /\ entry[k] = "old" =>
                            \/ Marked(k)' \/ k \in pending["old"]
                            \/ \E n \in Markers : /\ hand[n] # None /\ hand[n].queue = "old"
                                                  /\ hand[n].step = "mark" /\ hand[n].handle = k
    BY DEF HandsAreCurrent
  <2>1. hand[m].handle \in Handles /\ hand[m].queue \in Queues
    BY <1>0 DEF TypeOK, Hands
  <2>2. hand[m].queue = "old" /\ oldActive
    BY <2>1 DEF IInv, MarksInTurn, Quiet, Queues
  <2>3. QED
    BY <1>5, <2>1, <2>2 DEF MarkInv, HandsAreCurrent
<1>7. OldCovered'
  <2>1. CASE oldActive
    <3>1. OpenRecords' = OpenRecords
      BY DEF OpenRecords, Todo
    <3>2. GreyOld' = GreyOld
      BY <3>1 DEF GreyOld, Recorded, InHand
    <3>3. \A k : entry[k] = "old" /\ Marked(k) => Marked(k)'
      <4> SUFFICES ASSUME NEW k, entry[k] = "old", Marked(k) PROVE Marked(k)'
        OBVIOUS
      <4>1. k \in Handles
        BY <1>0 DEF Marked, IsMarked, TypeOK
      <4>2. QED
        BY <1>5, <2>1, <4>1
    <3>4. QED
      BY <1>1, <2>1, <3>2, <3>3, OldStays DEF MarkInv
  <2>2. CASE ~oldActive
    BY <2>2 DEF OldCovered
  <2>3. QED
    BY <2>1, <2>2
<1>8. QED
  BY <1>3, <1>4, <1>6, <1>7 DEF MarkInv

\* The mutator copies an object it needs.
LEMMA AssistMoveMarks ==
  ASSUME IInv, MarkInv, NEW h \in Handles, AssistMove(h)
  PROVE  MarkInv'
<1> USE DEF markVars, ringVars, remVars, cycleVars, sweepVars, packetVars, mutVars
<1>0. TypeOK /\ SweptOnce /\ h \in selected /\ phase = "relocate"
  BY DEF IInv, TypeOK, MovingWhileRelocating, MarkInv, AssistMove
<1>1. /\ addr' = [addr EXCEPT ![h] = @ + 1]
      /\ UNCHANGED <<entry, age, field, local, markVars, ringVars, remVars, cycleVars, pending,
                     bridges, errors, candidates, selected, packetVars, hand, mutVars>>
  BY DEF AssistMove
<1>2. \A k \in Handles \ {h} : addr'[k] = addr[k] /\ IsMarked(k, "old")' = IsMarked(k, "old")
  BY <1>0, <1>1 DEF TypeOK, IsMarked
<1>3. SweptOnce'
  BY <1>0, <1>1, PagesStay
<1>4. QED
  BY <1>0, <1>1, <1>2, <1>3, MovedKeeps

\* A worker copies an object.
LEMMA RelocateMarks ==
  ASSUME IInv, MarkInv, NEW w \in Workers, Relocate(w)
  PROVE  MarkInv'
<1> USE DEF ringVars, remVars, cycleVars, mutVars
<1> DEFINE h == job[w].handle
<1>0. TypeOK /\ SweptOnce /\ job[w].kind = "move"
  BY DEF IInv, MarkInv, Relocate
<1>1. /\ job' = [job EXCEPT ![w] = None]
      /\ IF h \in moving
         THEN addr' = [addr EXCEPT ![h] = @ + 1] /\ marks' = MovedMarks(h, {entry[h]})
         ELSE UNCHANGED <<addr, marks>>
      /\ UNCHANGED <<entry, age, field, local, marking, ringVars, remVars, cycleVars, pending,
                     bridges, errors, candidates, selected, queue, drains, hand, mutVars>>
  BY DEF Relocate
<1>2. SweptOnce'
  <2>1. \A v \in Workers : job'[v] = job[v] \/ job'[v].kind # "page"
    BY <1>0, <1>1 DEF TypeOK, None
  <2>2. QED
    BY <1>0, <1>1, <2>1, PagesStay
<1> HIDE DEF h
<1>3. CASE h \in moving
  <2>1. h \in selected /\ h \in Handles /\ phase = "relocate"
    BY <1>0, <1>3 DEF IInv, TypeOK, MovingWhileRelocating
  <2>2. \A k \in Handles \ {h} : addr'[k] = addr[k]
    BY <1>0, <1>1, <1>3 DEF TypeOK
  <2>3. marks' = MovedMarks(h, {entry[h]})
    BY <1>1, <1>3
  <2>4. entry[h] # "old" => marks'["old"] \subseteq marks["old"]
    BY <2>3 DEF MovedMarks
  <2>5. \A k \in Handles \ {h} : IsMarked(k, "old") => IsMarked(k, "old")'
    BY <2>2, <2>3 DEF MovedMarks, IsMarked
  <2>6. QED
    BY <1>0, <1>1, <1>2, <2>1, <2>2, <2>4, <2>5, MovedKeeps
<1>4. CASE h \notin moving
  <2>1. UNCHANGED <<entry, addr, field, local, marks, marking, phase, generation, oldActive,
                    pending, selected, bridges, errors, ring, queue, hand, mut, candidates>>
    BY <1>1, <1>4
  <2>2. GreyMain' = GreyMain /\ GreyOld' = GreyOld /\ Recorded' = Recorded
    BY <2>1, GreyStays
  <2>3. QED
    BY <1>0, <1>2, <2>1, <2>2, BookkeepingKeeps DEF MarkInv, CyclesInTurn
<1>5. QED
  BY <1>3, <1>4

\* Objects grow when no flag is raised: there is no marker to lose sight of them.
LEMMA UnmarkedKeeps ==
  ASSUME IInv, MarkInv, marking = {}, mut.pc \in {"run", "grow"}, mut'.pc \in {"run", "grow"},
         UNCHANGED <<entry, field, local, marking, phase, generation, oldActive, errors,
                     selected, queue, job, hand>>
  PROVE  MarkInv'
<1>0. TypeOK /\ SweptOnce
  BY DEF IInv, MarkInv
<1>1. phase \notin {"mark", "select"} /\ ~oldActive
  BY DEF MarkInv, FlagsRaised
<1>2. \A m \in Markers : hand[m] = None
  BY <1>0, <1>1 DEF IInv, MarksInTurn, Quiet, TypeOK, Hands, Queues
<1>3. SweptOnce'
  BY <1>0, PagesStay
<1>4. HC!Reachable' \subseteq HC!Reachable
  BY <1>0, ReachableStays
<1>5. ReachableIsLive'
  BY <1>4 DEF MarkInv, ReachableIsLive, HC!NoDanglingReference, HC!Reachable, Live
<1>6. SweepsAreSafe' /\ MarkComplete' /\ MainCovered' /\ OldCovered'
  BY <1>1 DEF MarkInv, SweepsAreSafe, MarkComplete, MainCovered, OldCovered
<1>7. HandsAreCurrent' /\ StoreShaded' /\ FlagsRaised' /\ CyclesInTurn'
  BY <1>1, <1>2 DEF MarkInv, HandsAreCurrent, StoreShaded, FlagsRaised, CyclesInTurn
<1>8. QED
  BY <1>3, <1>5, <1>6, <1>7 DEF MarkInv

\* A growth publishes the new address.
LEMMA GrowPublishMarks ==
  ASSUME IInv, MarkInv, Restrained, NEW kind \in {"object", "array"}, NEW h \in Handles,
         GrowPublish(kind, h)
  PROVE  MarkInv'
<1> USE DEF markVars, ringVars, remVars, cycleVars, sweepVars, packetVars
<1>1. marking = {} /\ mut = Ready
  BY DEF GrowPublish, Growable, Restrained, Operation, Running, Growth
<1>2. /\ mut' = [pc |-> "grow", kind |-> kind, handle |-> h, gen |-> entry[h]]
      /\ UNCHANGED <<entry, age, field, local, markVars, ringVars, remVars, cycleVars, pending,
                     bridges, errors, sweepVars, packetVars, hand, full, failed>>
  BY DEF GrowPublish
<1>3. QED
  BY <1>1, <1>2, UnmarkedKeeps DEF Ready

\* A growth repairs the marks.
LEMMA GrowFinishMarks ==
  ASSUME IInv, MarkInv, GrowFinish
  PROVE  MarkInv'
<1> USE DEF heapVars, ringVars, remVars, cycleVars, sweepVars, packetVars
<1>1. marking = {} /\ mut.pc = "grow"
  BY DEF GrowFinish, MarkInv, FlagsRaised
<1>2. /\ mut' = Ready
      /\ UNCHANGED <<heapVars, local, marking, ringVars, remVars, cycleVars, pending, bridges,
                     errors, sweepVars, packetVars, hand, full, failed, ops>>
  BY DEF GrowFinish
<1>3. QED
  BY <1>1, <1>2, UnmarkedKeeps DEF Ready

-----------------------------------------------------------------------------
(* The markers. *)

\* What the old mark has seen, or holds, stays so.
LEMMA OldKeeps ==
  ASSUME OldCovered, UNCHANGED <<entry, field, local, oldActive>>,
         mut'.pc \in {"barrier", "assist"} => mut' = mut,
         "old" \in errors => "old" \in errors',
         Scanning("old") \subseteq Scanning("old")', GreyOld \subseteq GreyOld',
         bridges'["old"] \subseteq bridges["old"] \cup Scanning("old")',
         \A bit \in marks'["old"] : bit \in marks["old"] \/ bit[1] \in Scanning("old")',
         \A h : entry[h] = "old" /\ Marked(h) => Marked(h)'
  PROVE  OldCovered'
<1> SUFFICES ASSUME oldActive, "old" \notin errors'
             PROVE  \E B \in SUBSET Handles : Seen(B)'
  BY DEF OldCovered
<1>1. PICK B \in SUBSET Handles : Seen(B)
  BY DEF OldCovered
<1>2. Roots' = Roots /\ \A h : Word(h)' = Word(h) /\ Live(h)' = Live(h)
  BY DEF Word, Live, Roots
<1>3. \A S \in SUBSET Handles : ClosedOld(B, S)' => ClosedOld(B, S)
  BY <1>2 DEF ClosedOld
<1>4. \A S \in SUBSET Handles : ClosedOld(B, S)' =>
       /\ Roots' \subseteq B \cup S
       /\ \A x \in B : \A y \in Word(x)' : Live(y)' => y \in B \cup S
  BY <1>1, <1>2, <1>3 DEF Seen
<1>5. /\ \A bit \in marks'["old"] : Live(bit[1])' => bit[1] \in B \cup Scanning("old")'
      /\ \A h \in bridges'["old"] : Live(h)' => h \in B \cup Scanning("old")'
  BY <1>1, <1>2 DEF Seen
<1>6. \A h \in B : entry'[h] = "old" => Marked(h)' \/ h \in GreyOld'
  BY <1>1 DEF Seen
<1>7. (mut.pc \in {"barrier", "assist"} =>
        \A w \in Word(mut.owner) : entry[w] = "old" /\ w \in B \cup GreyOld)'
  <2>1. mut' = mut => Word(mut.owner)' = Word(mut.owner)
    BY DEF Word, Live
  <2>2. QED
    BY <1>1, <2>1 DEF Seen
<1>8. Seen(B)'
  BY <1>4, <1>5, <1>6, <1>7 DEF Seen
<1>9. QED
  BY <1>8

\* What the main markers have yet to find is not less than before.
LEMMA MainKeeps ==
  ASSUME TypeOK, MainCovered, phase = "mark", UNCHANGED <<entry, addr, field, local, marks, generation>>,
         \A x \in GreyMain : White(x) => x \in GreyMain',
         \A x \in Scanning("main") : x \in Scanning("main")' \/ Word(x) \subseteq GreyMain'
  PROVE  MainCovered'
<1>1. HC!Reachable' \subseteq HC!Reachable
  BY ReachableStays
<1>2. \A h : White(h)' = White(h) /\ Word(h)' = Word(h)
  BY DEF White, Included, Marked, IsMarked, Live, Word
<1>3. \A S \in SUBSET Handles : ClosedMain(S)' => ClosedMain(S \cup {})
  <2> SUFFICES ASSUME NEW S \in SUBSET Handles, ClosedMain(S)'
               PROVE  ClosedMain(S)
    OBVIOUS
  <2>1. \A x \in GreyMain' : White(x) => x \in S
    BY <1>2 DEF ClosedMain
  <2>2. \A x \in Scanning("main") : \A y \in Word(x) : White(y) => y \in S
    BY <1>2, <2>1 DEF ClosedMain
  <2>3. QED
    BY <1>2, <2>1, <2>2 DEF ClosedMain
<1>4. \A h \in HC!Reachable' : White(h)' => h \in HC!Reachable /\ White(h)
  BY <1>1, <1>2
<1>5. {} \in SUBSET Handles /\ \A x \in {} : ~White(x)'
  OBVIOUS
<1>6. QED
  BY <1>3, <1>4, <1>5, MainCarries

\* A marker takes up an object or is done with one.
LEMMA OneHand ==
  ASSUME TypeOK, NEW m \in Markers, NEW v, hand' = [hand EXCEPT ![m] = v], NEW q
  PROVE  /\ hand[m] = None \/ hand[m].queue # q =>
              InHand(q) \subseteq InHand(q)' /\ Scanning(q) \subseteq Scanning(q)'
         /\ InHand(q) \ {hand[m].handle} \subseteq InHand(q)'
         /\ Scanning(q) \ {hand[m].handle} \subseteq Scanning(q)'
         /\ hand[m] # None /\ hand[m].step # "scan" => Scanning(q) \subseteq Scanning(q)'
         /\ v # None /\ v.queue = q =>
              v.handle \in InHand(q)' /\ (v.step = "scan" => v.handle \in Scanning(q)')
<1>1. DOMAIN hand = Markers
  BY DEF TypeOK
<1>2. hand'[m] = v /\ \A k \in Markers \ {m} : hand'[k] = hand[k]
  BY <1>1
<1>3. \A k \in Markers \ {m} : hand[k] # None /\ hand[k].queue = q =>
        /\ hand[k].handle \in InHand(q)'
        /\ hand[k].step = "scan" => hand[k].handle \in Scanning(q)'
  BY <1>2 DEF InHand, Scanning
<1>4. /\ \A x \in InHand(q) : \E k \in Markers : hand[k] # None /\ hand[k].queue = q /\ x = hand[k].handle
      /\ \A x \in Scanning(q) : \E k \in Markers :
           hand[k] # None /\ hand[k].queue = q /\ hand[k].step = "scan" /\ x = hand[k].handle
  BY DEF InHand, Scanning
<1>5. v # None /\ v.queue = q =>
        v.handle \in InHand(q)' /\ (v.step = "scan" => v.handle \in Scanning(q)')
  BY <1>2 DEF InHand, Scanning
<1>6. QED
  BY <1>3, <1>4, <1>5

\* What a marker knows of an object it takes up, when it is the only one to know.
Resolved(v) ==
  /\ v.queue = "main" =>
       /\ Live(v.handle) /\ v.gen = entry[v.handle] /\ v.addr = addr[v.handle]
       /\ v.step = "mark" => Included(v.handle)
       /\ White(v.handle) => v.step = "mark"
  /\ v.queue = "old" /\ v.step = "mark" =>
       entry[v.handle] = "old" /\ v.gen = "old" /\ v.addr = addr[v.handle]
  /\ v.queue = "old" /\ v.step = "scan" /\ entry[v.handle] = "old" => Marked(v.handle)

\* What the other markers hold stays current.
LEMMA HandChanges ==
  ASSUME TypeOK, HandsAreCurrent, NEW m \in Markers, NEW v, hand' = [hand EXCEPT ![m] = v],
         UNCHANGED <<entry, addr, generation>>,
         \A k \in Handles : Live(k) /\ Marked(k) => Marked(k)',
         \A k \in Handles : hand[m] # None /\ hand[m].queue = "old" /\ hand[m].step = "mark"
                            /\ hand[m].handle = k => Marked(k)',
         \A k \in pending["old"] : entry[k] = "old" =>
           \/ k \in pending'["old"]
           \/ v # None /\ v.queue = "old" /\ v.step = "mark" /\ v.handle = k,
         v = None \/ Resolved(v)'
  PROVE  HandsAreCurrent'
<1>1. DOMAIN hand = Markers
  BY DEF TypeOK
<1>2. hand'[m] = v /\ \A k \in Markers \ {m} : hand'[k] = hand[k]
  BY <1>1
<1>3. \A k : Live(k)' = Live(k) /\ Included(k)' = Included(k)
  BY DEF Live, Included
<1>4. \A k \in Handles : White(k)' => White(k)
  BY <1>3 DEF White, Included
<1> SUFFICES ASSUME NEW n \in Markers, hand'[n] # None
             PROVE  (LET k == hand[n].handle IN
                     /\ hand[n].queue = "main" =>
                          /\ Live(k) /\ hand[n].gen = entry[k] /\ hand[n].addr = addr[k]
                          /\ hand[n].step = "mark" => Included(k)
                          /\ White(k) => hand[n].step = "mark"
                     /\ hand[n].queue = "old" /\ hand[n].step = "mark" =>
                          entry[k] = "old" /\ hand[n].gen = "old" /\ hand[n].addr = addr[k]
                     /\ hand[n].queue = "old" /\ hand[n].step = "scan" /\ entry[k] = "old" =>
                          \/ Marked(k) \/ k \in pending["old"]
                          \/ \E o \in Markers : /\ hand[o] # None /\ hand[o].queue = "old"
                                                /\ hand[o].step = "mark" /\ hand[o].handle = k)'
  BY DEF HandsAreCurrent
<1>5. CASE n = m
  BY <1>2, <1>3, <1>5 DEF Resolved
<1>6. CASE n # m
  <2> DEFINE k == hand[n].handle
  <2>1. hand'[n] = hand[n] /\ hand[n] # None /\ k \in Handles /\ hand[n] \in Hands
    BY <1>2, <1>6 DEF TypeOK, Hands
  <2>2. hand[n].queue = "main" =>
          /\ Live(k) /\ hand[n].gen = entry[k] /\ hand[n].addr = addr[k]
          /\ hand[n].step = "mark" => Included(k)
          /\ White(k)' => hand[n].step = "mark"
    BY <1>4, <2>1 DEF HandsAreCurrent
  <2>3. hand[n].queue = "old" /\ hand[n].step = "mark" =>
          entry[k] = "old" /\ hand[n].gen = "old" /\ hand[n].addr = addr[k]
    BY <2>1 DEF HandsAreCurrent
  <2>4. ASSUME hand[n].queue = "old" /\ hand[n].step = "scan" /\ entry[k] = "old"
        PROVE  \/ Marked(k)' \/ k \in pending'["old"]
               \/ \E o \in Markers : /\ hand'[o] # None /\ hand'[o].queue = "old"
                                     /\ hand'[o].step = "mark" /\ hand'[o].handle = k
    <3>1. Live(k)
      BY <2>4 DEF Live
    <3>2. CASE Marked(k)
      BY <2>1, <3>1, <3>2
    <3>3. CASE k \in pending["old"]
      BY <1>2, <2>4, <3>3
    <3>4. CASE \E o \in Markers : /\ hand[o] # None /\ hand[o].queue = "old"
                                  /\ hand[o].step = "mark" /\ hand[o].handle = k
      <4>1. PICK o \in Markers : /\ hand[o] # None /\ hand[o].queue = "old"
                                  /\ hand[o].step = "mark" /\ hand[o].handle = k
        BY <3>4
      <4>2. CASE o = m
        BY <2>1, <4>1, <4>2
      <4>3. CASE o # m
        BY <1>2, <4>1, <4>3
      <4>4. QED
        BY <4>2, <4>3
    <3>5. QED
      BY <2>1, <2>4, <3>2, <3>3, <3>4 DEF HandsAreCurrent
  <2> HIDE DEF k
  <2>5. QED
    BY <1>2, <1>3, <1>6, <2>1, <2>2, <2>3, <2>4 DEF k
<1>7. QED
  BY <1>5, <1>6

\* A marker leaves the heap alone and clears no mark.
LEMMA MarkerKeeps ==
  ASSUME IInv, MarkInv,
         UNCHANGED <<heapVars, local, marking, cycleVars, sweepVars, queue, mut>>,
         "main" \notin errors', \A w \in Workers : job'[w] = job[w] \/ job'[w].kind # "page",
         phase = "select" => \A h : White(h)' = White(h)
  PROVE  /\ ReachableIsLive' /\ FlagsRaised' /\ CyclesInTurn' /\ SweptOnce' /\ SweepsAreSafe'
         /\ MarkComplete'
<1> USE DEF heapVars, cycleVars, sweepVars
<1>0. TypeOK /\ SweptOnce
  BY DEF IInv, MarkInv
<1>1. HC!Reachable' \subseteq HC!Reachable
  BY <1>0, ReachableStays
<1>2. ReachableIsLive'
  BY <1>1 DEF MarkInv, ReachableIsLive, HC!NoDanglingReference, HC!Reachable, Live
<1>3. FlagsRaised' /\ CyclesInTurn'
  BY FlagsStay DEF MarkInv
<1>4. SweptOnce'
  BY <1>0, PagesStay
<1>5. SweepsAreSafe'
  BY DEF MarkInv, SweepsAreSafe
<1>6. MarkComplete'
  BY <1>1 DEF MarkInv, MarkComplete, White, Included, Marked
<1>7. QED
  BY <1>2, <1>3, <1>4, <1>5, <1>6

\* A marker leaves the barrier records alone.
LEMMA RecordsStay ==
  ASSUME UNCHANGED <<entry, addr, field, ring, mut, queue>>
  PROVE  /\ Recorded' = Recorded /\ RecordedWords' = RecordedWords /\ RootPackets' = RootPackets
         /\ {v \in Recorded : entry[v] = "old"}' = {v \in Recorded : entry[v] = "old"}
<1>1. OpenRecords' = OpenRecords
  BY DEF OpenRecords, Todo
<1>2. \A r : RecordWords(r)' = RecordWords(r)
  BY DEF RecordWords, Word, Live
<1>3. Recorded' = Recorded
  BY <1>1 DEF Recorded
<1>4. QED
  BY <1>1, <1>2, <1>3 DEF RecordedWords, RootPackets

\* Taking an object from the queue of the main cycle.
LEMMA PopMainMarks ==
  ASSUME IInv, MarkInv, NEW m \in Markers, NEW h \in Handles, Pop(m, "main", h)
  PROVE  MarkInv'
<1> USE DEF markVars, ringVars, remVars, sweepVars, mutVars
<1> DEFINE mine == Includes(generation, entry[h])
           bridge == Live(h) /\ ~mine /\ h \notin bridges["main"]
<1>0. /\ TypeOK /\ SweptOnce /\ hand[m] = None /\ h \in pending["main"] /\ phase = "mark"
      /\ generation # "old"
  <2>1. h \in pending["main"] /\ hand[m] = None
    BY DEF Pop, Marking
  <2>2. phase = "mark"
    BY <2>1, MarkedFrom DEF Queues
  <2>3. QED
    BY <2>1, <2>2 DEF IInv, MarkInv, CyclesInTurn
<1>1. PICK v :
        /\ hand' = [hand EXCEPT ![m] = v]
        /\ v = IF Live(h) /\ (mine \/ bridge)
               THEN [queue |-> "main", handle |-> h, addr |-> addr[h], gen |-> entry[h],
                     step |-> IF mine THEN "mark" ELSE "scan"]
               ELSE None
        /\ pending' = [pending EXCEPT !["main"] = @ \ {h}]
        /\ bridges' = [bridges EXCEPT !["main"] = IF bridge THEN @ \cup {h} ELSE @]
        /\ UNCHANGED <<heapVars, local, marks, marking, ringVars, remVars, cycleVars, errors,
                       sweepVars, queue, drains, mutVars, job>>
  BY DEF Pop
<1>2. /\ v # None => /\ v.queue = "main" /\ v.handle = h /\ v.addr = addr[h] /\ v.gen = entry[h]
                     /\ Live(h) /\ v.step \in {"mark", "scan"} /\ (v.step = "mark" <=> mine)
      /\ v = None => ~White(h)
  BY <1>1 DEF White, Included, None
<1>3. /\ pending'["main"] = pending["main"] \ {h} /\ pending'["old"] = pending["old"]
      /\ bridges'["old"] = bridges["old"]
  BY <1>0, <1>1 DEF TypeOK, Queues
<1> HIDE DEF mine, bridge
<1>4. /\ \A q : InHand(q) \subseteq InHand(q)' /\ Scanning(q) \subseteq Scanning(q)'
      /\ v # None => h \in InHand("main")'
  BY <1>0, <1>1, <1>2, OneHand
<1>5. Recorded' = Recorded /\ RecordedWords' = RecordedWords /\ RootPackets' = RootPackets
      /\ {x \in Recorded : entry[x] = "old"}' = {x \in Recorded : entry[x] = "old"}
  BY <1>1, RecordsStay DEF heapVars
<1>6. \A x \in pending["main"] \cup InHand("main") : White(x) =>
        x \in pending'["main"] \cup InHand("main")'
  BY <1>2, <1>3, <1>4
<1>7. /\ \A k : White(k)' = White(k) /\ Word(k)' = Word(k) /\ Marked(k)' = Marked(k)
      /\ Roots' = Roots
  BY <1>1 DEF heapVars, cycleVars, White, Included, Marked, IsMarked, Live, Word, Roots
<1>8. ReachableIsLive' /\ FlagsRaised' /\ CyclesInTurn' /\ SweptOnce' /\ SweepsAreSafe' /\ MarkComplete'
  BY <1>1, <1>7, MarkerKeeps DEF MarkInv, CyclesInTurn
<1>9. StoreShaded'
  <2>1. Word(mut.owner)' = Word(mut.owner)
    BY <1>1 DEF heapVars, Word, Live
  <2>2. QED
    BY <1>1, <1>5, <1>6, <1>7, <2>1 DEF MarkInv, StoreShaded, cycleVars
<1>10. HandsAreCurrent'
  <2>1. v = None \/ Resolved(v)'
    <3>1. v # None => (v.step = "mark" => Included(h)) /\ (White(h) => v.step = "mark")
      BY <1>2 DEF mine, Included, White
    <3>2. \A k : /\ White(k)' = White(k) /\ Live(k)' = Live(k) /\ Included(k)' = Included(k)
                 /\ entry' = entry /\ addr' = addr
      BY <1>1, <1>7 DEF Live, Included, heapVars, cycleVars
    <3>3. QED
      BY <1>2, <3>1, <3>2 DEF Resolved
  <2>2. UNCHANGED <<entry, addr, generation>>
    BY <1>1 DEF heapVars, cycleVars
  <2>3. QED
    BY <1>0, <1>1, <1>3, <1>7, <2>1, <2>2, HandChanges DEF MarkInv
<1>11. MainCovered'
  <2>1. \A x \in GreyMain : White(x) => x \in GreyMain'
    BY <1>5, <1>6 DEF GreyMain
  <2>2. QED
    BY <1>0, <1>1, <1>4, <2>1, MainKeeps DEF MarkInv, heapVars, cycleVars
<1>12. OldCovered'
  <2>1. GreyOld \subseteq GreyOld'
    BY <1>3, <1>4, <1>5 DEF GreyOld
  <2>2. QED
    BY <1>1, <1>3, <1>4, <1>7, <2>1, OldKeeps DEF MarkInv, heapVars, cycleVars
<1>13. QED
  BY <1>8, <1>9, <1>10, <1>11, <1>12 DEF MarkInv

\* A worker that takes an object for the old mark has a job of the old mark.
LEMMA PoppedJobs ==
  ASSUME TypeOK, NEW m \in Markers, NEW q \in Queues, NEW h \in Handles, Pop(m, q, h)
  PROVE  \A w \in Workers : job'[w] = job[w] \/ job'[w].kind # "page"
<1>1. CASE m \in Workers /\ q = "old"
  <2>1. m # Mutator
    BY <1>1, ZgcAssumption
  <2>2. job[m].kind = "oldDrain" /\ job[m] \in Jobs \cup {None}
    BY <1>1, <2>1, DrainKind DEF Pop, TypeOK
  <2>3. job[m] \in [kind : {"oldDrain"}, budget : 0..OldBudget]
    BY <2>2, PacketTypes DEF Jobs, None
  <2>4. job' = [job EXCEPT ![m] = [job[m] EXCEPT !.budget = @ - 1]]
    BY <1>1 DEF Pop
  <2>5. job'[m].kind = "oldDrain" /\ \A w \in Workers \ {m} : job'[w] = job[w]
    BY <1>1, <2>3, <2>4 DEF TypeOK
  <2>6. QED
    BY <2>5
<1>2. CASE ~(m \in Workers /\ q = "old")
  BY <1>2 DEF Pop
<1>3. QED
  BY <1>1, <1>2

\* Beside an old mark the main cycle, if there is one, is a young one.
LEMMA OldMarksLeaveWhite ==
  ASSUME MarkInv, oldActive, phase # "idle", UNCHANGED <<entry, addr, generation>>,
         marks'["young"] = marks["young"]
  PROVE  \A k : White(k)' = White(k)
<1>1. generation = "young"
  BY DEF MarkInv, CyclesInTurn
<1>2. QED
  BY <1>1 DEF White, Included, Marked, IsMarked, Includes, Live

\* Taking an object from the queue of the old mark.
LEMMA PopOldMarks ==
  ASSUME IInv, MarkInv, NEW m \in Markers, NEW h \in Handles, Pop(m, "old", h)
  PROVE  MarkInv'
<1> USE DEF markVars, ringVars, remVars, sweepVars, mutVars
<1> DEFINE mine == entry[h] = "old"
           bridge == Live(h) /\ ~mine /\ h \notin bridges["old"]
<1>0. /\ TypeOK /\ SweptOnce /\ hand[m] = None /\ h \in pending["old"] /\ oldActive
  <2>1. h \in pending["old"] /\ hand[m] = None
    BY DEF Pop, Marking
  <2>2. oldActive
    BY <2>1, MarkedFrom DEF Queues
  <2>3. QED
    BY <2>1, <2>2 DEF IInv, MarkInv
<1>1. PICK v :
        /\ hand' = [hand EXCEPT ![m] = v]
        /\ v = IF Live(h) /\ (mine \/ bridge)
               THEN [queue |-> "old", handle |-> h, addr |-> addr[h], gen |-> entry[h],
                     step |-> IF mine THEN "mark" ELSE "scan"]
               ELSE None
        /\ pending' = [pending EXCEPT !["old"] = @ \ {h}]
        /\ bridges' = [bridges EXCEPT !["old"] = IF bridge THEN @ \cup {h} ELSE @]
        /\ UNCHANGED <<heapVars, local, marks, marking, ringVars, remVars, cycleVars, errors,
                       sweepVars, queue, drains, mutVars>>
  BY DEF Pop
<1>2. /\ v # None => /\ v.queue = "old" /\ v.handle = h /\ v.addr = addr[h] /\ v.gen = entry[h]
                     /\ Live(h) /\ (IF mine THEN v.step = "mark" ELSE v.step = "scan")
      /\ v = None => ~Live(h) \/ (~mine /\ h \in bridges["old"])
  BY <1>1 DEF None
<1>3. /\ pending'["main"] = pending["main"] /\ pending'["old"] = pending["old"] \ {h}
      /\ bridges'["old"] \subseteq bridges["old"] \cup {h}
      /\ v = None => bridges'["old"] = bridges["old"]
      /\ mine => bridges'["old"] = bridges["old"]
  BY <1>0, <1>1 DEF TypeOK, Queues, None
<1> HIDE DEF bridge
<1>4. /\ \A q : InHand(q) \subseteq InHand(q)' /\ Scanning(q) \subseteq Scanning(q)'
      /\ v # None => h \in InHand("old")'
      /\ v # None /\ ~mine => h \in Scanning("old")'
  BY <1>0, <1>1, <1>2, OneHand
<1>5. Recorded' = Recorded /\ RecordedWords' = RecordedWords /\ RootPackets' = RootPackets
      /\ {x \in Recorded : entry[x] = "old"}' = {x \in Recorded : entry[x] = "old"}
  BY <1>1, RecordsStay DEF heapVars
<1>6. GreyOld \subseteq GreyOld' \cup {h} /\ (v # None => h \in GreyOld')
  BY <1>3, <1>4, <1>5 DEF GreyOld
<1>7. /\ \A k : White(k)' = White(k) /\ Word(k)' = Word(k) /\ Marked(k)' = Marked(k)
                /\ Live(k)' = Live(k)
      /\ Roots' = Roots
  BY <1>1 DEF heapVars, cycleVars, White, Included, Marked, IsMarked, Live, Word, Roots
<1>8. ReachableIsLive' /\ FlagsRaised' /\ CyclesInTurn' /\ SweptOnce' /\ SweepsAreSafe' /\ MarkComplete'
  <2>1. \A w \in Workers : job'[w] = job[w] \/ job'[w].kind # "page"
    BY <1>0, PoppedJobs DEF Queues
  <2>2. QED
    BY <1>1, <1>7, <2>1, MarkerKeeps DEF MarkInv, CyclesInTurn
<1>9. StoreShaded'
  <2>1. Word(mut.owner)' = Word(mut.owner)
    BY <1>1 DEF heapVars, Word, Live
  <2>2. QED
    BY <1>1, <1>3, <1>4, <1>5, <1>7, <2>1 DEF MarkInv, StoreShaded, cycleVars
<1>10. HandsAreCurrent'
  <2>1. v = None \/ Resolved(v)'
    BY <1>1, <1>2 DEF Resolved, heapVars
  <2>2. \A k \in pending["old"] : entry[k] = "old" =>
          k \in pending'["old"]
          \/ (v # None /\ v.queue = "old" /\ v.step = "mark" /\ v.handle = k)
    BY <1>2, <1>3 DEF Live
  <2>3. UNCHANGED <<entry, addr, generation>>
    BY <1>1 DEF heapVars, cycleVars
  <2>4. /\ \A k \in Handles : Live(k) /\ Marked(k) => Marked(k)'
        /\ hand' = [hand EXCEPT ![m] = v] /\ TypeOK /\ HandsAreCurrent
        /\ \A k \in Handles : hand[m] # None /\ hand[m].queue = "old" /\ hand[m].step = "mark"
                            /\ hand[m].handle = k => Marked(k)'
    BY <1>0, <1>1, <1>7 DEF MarkInv
  <2>5. QED
    BY <2>1, <2>2, <2>3, <2>4, HandChanges
<1>11. MainCovered'
  <2>1. CASE phase = "mark"
    <3>1. GreyMain \subseteq GreyMain'
      BY <1>3, <1>4, <1>5 DEF GreyMain
    <3>2. QED
      BY <1>0, <1>1, <1>4, <2>1, <3>1, MainKeeps DEF MarkInv, heapVars, cycleVars
  <2>2. CASE phase # "mark"
    BY <1>1, <2>2 DEF MainCovered, cycleVars
  <2>3. QED
    BY <2>1, <2>2
<1>12. OldCovered'
  <2>1. CASE v # None
    <3>1. GreyOld \subseteq GreyOld'
      BY <1>6, <2>1
    <3>2. bridges'["old"] \subseteq bridges["old"] \cup Scanning("old")'
      BY <1>3, <1>4, <2>1
    <3>3. QED
      BY <1>1, <1>4, <1>7, <3>1, <3>2, OldKeeps DEF MarkInv, heapVars, cycleVars
  <2>2. CASE v = None
    <3> SUFFICES ASSUME oldActive, "old" \notin errors
                 PROVE  \E B \in SUBSET Handles : Seen(B)'
      BY <1>1 DEF OldCovered, cycleVars
    <3>1. PICK B \in SUBSET Handles : Seen(B)
      BY DEF OldCovered, MarkInv
    <3>2. /\ \A x \in Roots : Live(x)
          /\ Live(h) => ~mine /\ h \in bridges["old"]
      <4>1. Roots \subseteq HC!Reachable
        BY <1>0, ReachableClosed
      <4>2. QED
        BY <1>2, <2>2, <4>1 DEF MarkInv, ReachableIsLive, HC!NoDanglingReference
    <3>3. ~mine
      BY <3>2 DEF Live
    <3>4. ASSUME NEW S \in SUBSET Handles, ClosedOld(B, S)'
          PROVE  /\ Roots' \subseteq B \cup S
                 /\ \A x \in B : \A y \in Word(x)' : Live(y)' => y \in B \cup S
      <4>1. GreyOld' \subseteq B \cup S /\ \A x \in S \ B : entry[x] = "old" => Word(x) \subseteq B \cup S
        BY <1>1, <1>7, <3>4 DEF ClosedOld, heapVars
      <4>2. ClosedOld(B, S \cup {h})
        BY <1>6, <3>3, <4>1 DEF ClosedOld
      <4>3. /\ Roots \subseteq B \cup (S \cup {h})
            /\ \A x \in B : \A y \in Word(x) : Live(y) => y \in B \cup (S \cup {h})
        BY <3>1, <4>2 DEF Seen
      <4>4. Live(h) => h \in B \cup S
        <5>1. Live(h) => h \in B \cup Scanning("old")
          BY <3>1, <3>2 DEF Seen
        <5>2. Scanning("old") \subseteq GreyOld'
          BY <1>0, <1>4, GreyTypes DEF GreyOld, Queues
        <5>3. QED
          BY <4>1, <5>1, <5>2
      <4>5. QED
        BY <1>7, <3>2, <4>3, <4>4
    <3>5. /\ \A bit \in marks'["old"] : Live(bit[1])' => bit[1] \in B \cup Scanning("old")'
          /\ \A k \in bridges'["old"] : Live(k)' => k \in B \cup Scanning("old")'
      BY <1>1, <1>3, <1>4, <1>7, <2>2, <3>1 DEF Seen
    <3>6. \A k \in B : entry'[k] = "old" => Marked(k)' \/ k \in GreyOld'
      BY <1>1, <1>6, <1>7, <3>1, <3>3 DEF Seen, heapVars
    <3>7. (mut.pc \in {"barrier", "assist"} =>
            \A w \in Word(mut.owner) : entry[w] = "old" /\ w \in B \cup GreyOld)'
      <4>1. Word(mut.owner)' = Word(mut.owner) /\ mut' = mut /\ entry' = entry
        BY <1>1 DEF heapVars, Word, Live
      <4>2. QED
        BY <1>6, <3>1, <3>3, <4>1 DEF Seen
    <3>8. Seen(B)'
      BY <3>4, <3>5, <3>6, <3>7 DEF Seen
    <3>9. QED
      BY <3>8
  <2>3. QED
    BY <2>1, <2>2
<1>13. QED
  BY <1>8, <1>9, <1>10, <1>11, <1>12 DEF MarkInv

\* The main cycle marks an object.
LEMMA TryMarkMainMarks ==
  ASSUME IInv, MarkInv, NEW m \in Markers, TryMark(m), hand[m].queue = "main"
  PROVE  MarkInv'
<1> USE DEF ringVars, remVars, sweepVars, mutVars, heapVars, cycleVars
<1>0. PICK h \in Handles :
        /\ h = hand[m].handle /\ TypeOK /\ SweptOnce /\ phase = "mark" /\ generation # "old"
        /\ hand[m] # None /\ hand[m] \in Hands /\ hand[m].step = "mark"
        /\ Live(h) /\ hand[m].gen = entry[h] /\ hand[m].addr = addr[h] /\ Included(h)
  <2>1. hand[m] # None /\ hand[m].step = "mark" /\ TypeOK /\ SweptOnce
    BY DEF TryMark, IInv, MarkInv
  <2>2. hand[m] \in Hands /\ hand[m].handle \in Handles
    BY <2>1 DEF TypeOK, Hands
  <2>3. phase = "mark" /\ generation # "old"
    BY <2>1, MarkedFrom DEF Queues, MarkInv, CyclesInTurn
  <2>4. QED
    BY <2>1, <2>2, <2>3 DEF MarkInv, HandsAreCurrent
<1>1. PICK v :
        /\ hand' = [hand EXCEPT ![m] = v]
        /\ v = IF <<h, addr[h]>> \in marks[entry[h]] THEN None ELSE [hand[m] EXCEPT !.step = "scan"]
        /\ marks' = [marks EXCEPT ![entry[h]] = @ \cup {<<h, addr[h]>>}]
        /\ UNCHANGED <<heapVars, local, marking, ringVars, remVars, cycleVars, pending, bridges,
                       errors, sweepVars, queue, drains, job, mutVars>>
  BY <1>0 DEF TryMark
<1>2. /\ v # None => /\ v.queue = "main" /\ v.handle = h /\ v.addr = addr[h] /\ v.gen = entry[h]
                     /\ v.step = "scan"
      /\ v = None => Marked(h)
  <2>1. LET u == [hand[m] EXCEPT !.step = "scan"] IN
          /\ u \in Hands /\ u.queue = "main" /\ u.handle = h /\ u.addr = addr[h] /\ u.gen = entry[h]
          /\ u.step = "scan"
    BY <1>0 DEF Hands
  <2>2. QED
    BY <1>1, <2>1, NoneIsNoHand DEF Marked, IsMarked
<1>3. /\ \A k : Live(k)' = Live(k) /\ Included(k)' = Included(k) /\ Word(k)' = Word(k)
      /\ Marked(h)' /\ ~White(h)' /\ Roots' = Roots
      /\ \A k : k # h => White(k)' = White(k)
      /\ \A k : Live(k) /\ Marked(k) => Marked(k)'
  <2>1. \A k : Live(k)' = Live(k) /\ Included(k)' = Included(k) /\ Word(k)' = Word(k)
    BY <1>1 DEF Live, Included, Word
  <2>2. entry[h] \in {"young", "old"} /\ DOMAIN marks = {"young", "old"}
    BY <1>0 DEF Live, TypeOK
  <2>3. Marked(h)'
    BY <1>1, <2>2 DEF Marked, IsMarked
  <2>4. \A k : k # h /\ Live(k) => (Marked(k)' = Marked(k))
    BY <1>1, <2>2 DEF Marked, IsMarked, Live
  <2>5. QED
    BY <1>1, <2>1, <2>3, <2>4 DEF White, Roots, Included
<1>4. /\ InHand("main") \ {h} \subseteq InHand("main")' /\ InHand("old") \subseteq InHand("old")'
      /\ Scanning("main") \subseteq Scanning("main")' /\ Scanning("old") \subseteq Scanning("old")'
      /\ v # None => h \in InHand("main")' /\ h \in Scanning("main")'
  BY <1>0, <1>1, <1>2, OneHand
<1>5. Recorded' = Recorded /\ RecordedWords' = RecordedWords /\ RootPackets' = RootPackets
      /\ {x \in Recorded : entry[x] = "old"}' = {x \in Recorded : entry[x] = "old"}
  BY <1>1, RecordsStay
<1>6. oldActive => marks'["old"] = marks["old"]
  BY <1>0, <1>1 DEF MarkInv, CyclesInTurn, Included, Includes, TypeOK
<1>8. ReachableIsLive' /\ FlagsRaised' /\ CyclesInTurn' /\ SweptOnce' /\ SweepsAreSafe' /\ MarkComplete'
  BY <1>0, <1>1, MarkerKeeps DEF MarkInv, CyclesInTurn
<1>9. StoreShaded'
  <2>1. Word(mut.owner)' = Word(mut.owner)
    BY <1>1 DEF Word, Live
  <2>2. \A w \in Word(mut.owner)' : White(w)' => w # h /\ White(w)
    BY <1>3
  <2>3. QED
    BY <1>1, <1>3, <1>4, <1>5, <2>1, <2>2 DEF MarkInv, StoreShaded
<1>10. HandsAreCurrent'
  <2>1. v = None \/ Resolved(v)'
    BY <1>0, <1>1, <1>2, <1>3 DEF Resolved
  <2>2. UNCHANGED <<entry, addr, generation>>
    BY <1>1
  <2>3. /\ \A k \in Handles : Live(k) /\ Marked(k) => Marked(k)'
        /\ hand' = [hand EXCEPT ![m] = v] /\ TypeOK /\ HandsAreCurrent
        /\ hand[m].queue # "old" /\ pending' = pending
    BY <1>0, <1>1, <1>3 DEF MarkInv
  <2>4. QED
    BY <2>1, <2>2, <2>3, HandChanges
<1>11. MainCovered'
  <2>1. HC!Reachable' \subseteq HC!Reachable
    BY <1>0, <1>1, ReachableStays
  <2>2. \A k \in HC!Reachable' : White(k)' => k \in HC!Reachable /\ White(k)
    BY <1>3, <2>1
  <2>3. {h} \in SUBSET Handles /\ \A x \in {h} : ~White(x)'
    BY <1>3
  <2>4. ASSUME NEW S \in SUBSET Handles, ClosedMain(S)'
        PROVE  ClosedMain(S \cup {h})
    <3>1. \A x \in GreyMain : x = h \/ x \in GreyMain'
      BY <1>1, <1>4, <1>5 DEF GreyMain
    <3>2. \A x \in GreyMain : White(x) => x \in S \cup {h}
      BY <1>3, <2>4, <3>1 DEF ClosedMain
    <3>3. \A x \in Scanning("main")' : \A y \in Word(x) : White(y) => y \in S \cup {h}
      BY <1>3, <2>4 DEF ClosedMain
    <3>4. \A x \in Scanning("main") : \A y \in Word(x) : White(y) => y \in S \cup {h}
      BY <1>4, <3>3
    <3>5. White(h) => h \in Scanning("main")'
      BY <1>2, <1>4 DEF White
    <3>6. \A x \in S \cup {h} : White(x) => \A y \in Word(x) : White(y) => y \in S \cup {h}
      BY <1>3, <2>4, <3>3, <3>5 DEF ClosedMain
    <3>7. QED
      BY <3>2, <3>4, <3>6 DEF ClosedMain
  <2>5. MainCovered /\ phase = "mark"
    BY <1>0 DEF MarkInv
  <2>6. QED
    BY <2>2, <2>3, <2>4, <2>5, MainCarries
<1>12. OldCovered'
  <2>1. CASE oldActive
    <3>1. GreyOld \subseteq GreyOld'
      BY <1>1, <1>4, <1>5 DEF GreyOld
    <3>2. \A k : entry[k] = "old" /\ Marked(k) => Marked(k)'
      BY <1>3 DEF Live
    <3>3. QED
      BY <1>1, <1>4, <1>6, <2>1, <3>1, <3>2, OldKeeps DEF MarkInv
  <2>2. CASE ~oldActive
    BY <1>1, <2>2 DEF OldCovered
  <2>3. QED
    BY <2>1, <2>2
<1>13. QED
  BY <1>8, <1>9, <1>10, <1>11, <1>12 DEF MarkInv

\* The old mark marks an object.
LEMMA TryMarkOldMarks ==
  ASSUME IInv, MarkInv, NEW m \in Markers, TryMark(m), hand[m].queue = "old"
  PROVE  MarkInv'
<1> USE DEF ringVars, remVars, sweepVars, mutVars, heapVars, cycleVars
<1>0. PICK h \in Handles :
        /\ h = hand[m].handle /\ TypeOK /\ SweptOnce /\ oldActive /\ entry[h] = "old" /\ Live(h)
        /\ hand[m] # None /\ hand[m] \in Hands /\ hand[m].step = "mark"
        /\ hand[m].gen = "old" /\ hand[m].addr = addr[h]
  <2>1. hand[m] # None /\ hand[m].step = "mark" /\ TypeOK /\ SweptOnce
    BY DEF TryMark, IInv, MarkInv
  <2>2. hand[m] \in Hands /\ hand[m].handle \in Handles
    BY <2>1 DEF TypeOK, Hands
  <2>3. oldActive
    BY <2>1, MarkedFrom DEF Queues
  <2>4. QED
    BY <2>1, <2>2, <2>3 DEF MarkInv, HandsAreCurrent, Live
<1>1. PICK v :
        /\ hand' = [hand EXCEPT ![m] = v]
        /\ v = IF <<h, addr[h]>> \in marks["old"] THEN None ELSE [hand[m] EXCEPT !.step = "scan"]
        /\ marks' = [marks EXCEPT !["old"] = @ \cup {<<h, addr[h]>>}]
        /\ UNCHANGED <<heapVars, local, marking, ringVars, remVars, cycleVars, pending, bridges,
                       errors, sweepVars, queue, drains, job, mutVars>>
  BY <1>0 DEF TryMark
<1>2. /\ v # None => /\ v.queue = "old" /\ v.handle = h /\ v.addr = addr[h] /\ v.gen = "old"
                     /\ v.step = "scan"
      /\ v = None => <<h, addr[h]>> \in marks["old"]
  <2>1. LET u == [hand[m] EXCEPT !.step = "scan"] IN
          /\ u \in Hands /\ u.queue = "old" /\ u.handle = h /\ u.addr = addr[h] /\ u.gen = "old"
          /\ u.step = "scan"
    BY <1>0 DEF Hands
  <2>2. QED
    BY <1>1, <2>1, NoneIsNoHand
<1>3. /\ \A k : Live(k)' = Live(k) /\ Included(k)' = Included(k) /\ Word(k)' = Word(k)
      /\ Marked(h)' /\ Roots' = Roots
      /\ \A k : Live(k) /\ Marked(k) => Marked(k)'
      /\ marks'["young"] = marks["young"] /\ marks'["old"] = marks["old"] \cup {<<h, addr[h]>>}
  <2>1. \A k : Live(k)' = Live(k) /\ Included(k)' = Included(k) /\ Word(k)' = Word(k)
    BY <1>1 DEF Live, Included, Word
  <2>2. marks'["young"] = marks["young"] /\ marks'["old"] = marks["old"] \cup {<<h, addr[h]>>}
    BY <1>0, <1>1 DEF TypeOK
  <2>3. Marked(h)' /\ \A k : Live(k) /\ Marked(k) => Marked(k)'
    BY <1>0, <1>1, <2>2 DEF Marked, IsMarked, Live
  <2>4. QED
    BY <1>1, <2>1, <2>2, <2>3 DEF Roots
<1>4. /\ InHand("old") \ {h} \subseteq InHand("old")' /\ InHand("main") \subseteq InHand("main")'
      /\ Scanning("main") \subseteq Scanning("main")' /\ Scanning("old") \subseteq Scanning("old")'
      /\ v # None => h \in InHand("old")' /\ h \in Scanning("old")'
  BY <1>0, <1>1, <1>2, OneHand
<1>5. Recorded' = Recorded /\ RecordedWords' = RecordedWords /\ RootPackets' = RootPackets
      /\ {x \in Recorded : entry[x] = "old"}' = {x \in Recorded : entry[x] = "old"}
  BY <1>1, RecordsStay
<1>6. phase # "idle" => \A k : White(k)' = White(k)
  BY <1>0, <1>1, <1>3, OldMarksLeaveWhite
<1>8. ReachableIsLive' /\ FlagsRaised' /\ CyclesInTurn' /\ SweptOnce' /\ SweepsAreSafe' /\ MarkComplete'
  BY <1>1, <1>6, MarkerKeeps DEF MarkInv, CyclesInTurn
<1>9. StoreShaded'
  <2>1. Word(mut.owner)' = Word(mut.owner)
    BY <1>1 DEF Word, Live
  <2>2. QED
    BY <1>1, <1>3, <1>4, <1>5, <1>6, <2>1 DEF MarkInv, StoreShaded
<1>10. HandsAreCurrent'
  <2>1. v = None \/ Resolved(v)'
    BY <1>0, <1>1, <1>2, <1>3 DEF Resolved
  <2>2. UNCHANGED <<entry, addr, generation>>
    BY <1>1
  <2>3. /\ \A k \in Handles : Live(k) /\ Marked(k) => Marked(k)'
        /\ hand' = [hand EXCEPT ![m] = v] /\ TypeOK /\ HandsAreCurrent /\ pending' = pending
        /\ \A k \in Handles : hand[m] # None /\ hand[m].queue = "old" /\ hand[m].step = "mark"
                              /\ hand[m].handle = k => Marked(k)'
    BY <1>0, <1>1, <1>3 DEF MarkInv
  <2>4. QED
    BY <2>1, <2>2, <2>3, HandChanges
<1>11. MainCovered'
  <2>1. CASE phase = "mark"
    <3>1. GreyMain \subseteq GreyMain'
      BY <1>1, <1>4, <1>5 DEF GreyMain
    <3>2. HC!Reachable' \subseteq HC!Reachable
      BY <1>0, <1>1, ReachableStays
    <3>3. \A k \in HC!Reachable' : White(k)' => k \in HC!Reachable /\ White(k)
      BY <1>6, <2>1, <3>2
    <3>4. \A S \in SUBSET Handles : ClosedMain(S)' => ClosedMain(S \cup {})
      <4> SUFFICES ASSUME NEW S \in SUBSET Handles, ClosedMain(S)'
                   PROVE  ClosedMain(S)
        OBVIOUS
      <4>1. QED
        BY <1>3, <1>4, <1>6, <2>1, <3>1 DEF ClosedMain
    <3>5. {} \in SUBSET Handles /\ (\A x \in {} : ~White(x)') /\ MainCovered
      BY DEF MarkInv
    <3>6. QED
      BY <2>1, <3>3, <3>4, <3>5, MainCarries
  <2>2. CASE phase # "mark"
    BY <1>1, <2>2 DEF MainCovered
  <2>3. QED
    BY <2>1, <2>2
<1>12. OldCovered'
  <2>0. \A k : entry[k] = "old" /\ Marked(k) => Marked(k)'
    BY <1>3 DEF Live
  <2>1. CASE v # None
    <3>1. GreyOld \subseteq GreyOld'
      BY <1>1, <1>4, <1>5, <2>1 DEF GreyOld
    <3>2. \A bit \in marks'["old"] : bit \in marks["old"] \/ bit[1] \in Scanning("old")'
      BY <1>3, <1>4, <2>1
    <3>3. QED
      BY <1>1, <1>4, <2>0, <3>1, <3>2, OldKeeps DEF MarkInv
  <2>2. CASE v = None
    <3> SUFFICES ASSUME oldActive, "old" \notin errors
                 PROVE  \E B \in SUBSET Handles : Seen(B)'
      BY <1>1 DEF OldCovered
    <3>1. PICK B \in SUBSET Handles : Seen(B)
      BY DEF OldCovered, MarkInv
    <3>2. marks'["old"] = marks["old"]
      BY <1>2, <1>3, <2>2
    <3>3. h \in B \cup Scanning("old")
      BY <1>0, <1>2, <2>2, <3>1 DEF Seen
    <3>4. Scanning("old")' \subseteq InHand("old")'
      BY DEF InHand, Scanning
    <3>5. GreyOld \subseteq GreyOld' \cup {h} /\ h \in B \cup GreyOld'
      BY <1>1, <1>4, <1>5, <3>3, <3>4 DEF GreyOld
    <3>6. ASSUME NEW S \in SUBSET Handles, ClosedOld(B, S)'
          PROVE  /\ Roots' \subseteq B \cup S
                 /\ \A x \in B : \A y \in Word(x)' : Live(y)' => y \in B \cup S
      <4>1. ClosedOld(B, S)
        BY <1>1, <1>3, <3>5, <3>6 DEF ClosedOld
      <4>2. QED
        BY <1>3, <3>1, <4>1 DEF Seen
    <3>7. /\ \A bit \in marks'["old"] : Live(bit[1])' => bit[1] \in B \cup Scanning("old")'
          /\ \A k \in bridges'["old"] : Live(k)' => k \in B \cup Scanning("old")'
      BY <1>1, <1>3, <1>4, <3>1, <3>2 DEF Seen
    <3>8. \A k \in B : entry'[k] = "old" => Marked(k)' \/ k \in GreyOld'
      BY <1>1, <1>3, <2>0, <3>1, <3>5 DEF Seen
    <3>9. (mut.pc \in {"barrier", "assist"} =>
            \A w \in Word(mut.owner) : entry[w] = "old" /\ w \in B \cup GreyOld)'
      <4>1. Word(mut.owner)' = Word(mut.owner) /\ mut' = mut /\ entry' = entry
        BY <1>1 DEF Word, Live
      <4>2. QED
        BY <3>1, <3>5, <4>1 DEF Seen
    <3>10. Seen(B)'
      BY <3>6, <3>7, <3>8, <3>9 DEF Seen
    <3>11. QED
      BY <3>10
  <2>3. QED
    BY <2>1, <2>2
<1>13. QED
  BY <1>8, <1>9, <1>10, <1>11, <1>12 DEF MarkInv

\* The main cycle scans an object it has marked.
LEMMA ScanMainMarks ==
  ASSUME IInv, MarkInv, NEW m \in Markers, Scan(m), hand[m].queue = "main"
  PROVE  MarkInv'
<1> USE DEF ringVars, remVars, sweepVars, mutVars, heapVars, cycleVars
<1>0. PICK h \in Handles :
        /\ h = hand[m].handle /\ TypeOK /\ SweptOnce /\ phase = "mark"
        /\ hand[m] # None /\ hand[m].step = "scan" /\ Live(h) /\ ~White(h)
  <2>1. hand[m] # None /\ hand[m].step = "scan" /\ TypeOK /\ SweptOnce
    BY DEF Scan, IInv, MarkInv
  <2>2. hand[m].handle \in Handles
    BY <2>1 DEF TypeOK, Hands
  <2>3. phase = "mark"
    BY <2>1, MarkedFrom DEF Queues
  <2>4. QED
    BY <2>1, <2>2, <2>3 DEF MarkInv, HandsAreCurrent
<1>1. /\ hand' = [hand EXCEPT ![m] = None]
      /\ pending' = [pending EXCEPT !["main"] = @ \cup Word(h)]
      /\ UNCHANGED <<heapVars, local, marks, marking, ringVars, remVars, cycleVars, bridges,
                     errors, sweepVars, queue, drains, job, mutVars>>
  BY <1>0 DEF Scan
<1>2. /\ pending'["main"] = pending["main"] \cup Word(h) /\ pending'["old"] = pending["old"]
  BY <1>0, <1>1 DEF TypeOK, Queues
<1>3. /\ \A k : White(k)' = White(k) /\ Word(k)' = Word(k) /\ Marked(k)' = Marked(k)
      /\ Roots' = Roots
  BY <1>1 DEF White, Included, Marked, IsMarked, Live, Word, Roots
<1>4. /\ InHand("main") \ {h} \subseteq InHand("main")' /\ InHand("old") \subseteq InHand("old")'
      /\ Scanning("main") \ {h} \subseteq Scanning("main")' /\ Scanning("old") \subseteq Scanning("old")'
  BY <1>0, <1>1, OneHand
<1>5. Recorded' = Recorded /\ RecordedWords' = RecordedWords /\ RootPackets' = RootPackets
      /\ {x \in Recorded : entry[x] = "old"}' = {x \in Recorded : entry[x] = "old"}
  BY <1>1, RecordsStay
<1>6. \A x \in pending["main"] \cup InHand("main") : White(x) =>
        x \in pending'["main"] \cup InHand("main")'
  BY <1>0, <1>2, <1>4
<1>8. ReachableIsLive' /\ FlagsRaised' /\ CyclesInTurn' /\ SweptOnce' /\ SweepsAreSafe' /\ MarkComplete'
  BY <1>1, <1>3, MarkerKeeps DEF MarkInv, CyclesInTurn
<1>9. StoreShaded'
  <2>1. Word(mut.owner)' = Word(mut.owner)
    BY <1>1 DEF Word, Live
  <2>2. QED
    BY <1>1, <1>3, <1>5, <1>6, <2>1 DEF MarkInv, StoreShaded
<1>10. HandsAreCurrent'
  <2>1. UNCHANGED <<entry, addr, generation>>
    BY <1>1
  <2>2. /\ \A k \in Handles : Live(k) /\ Marked(k) => Marked(k)'
        /\ TypeOK /\ HandsAreCurrent /\ hand[m].queue # "old" /\ pending'["old"] = pending["old"]
    BY <1>0, <1>2, <1>3 DEF MarkInv
  <2>3. QED
    BY <1>1, <2>1, <2>2, HandChanges
<1>11. MainCovered'
  <2>1. \A x \in GreyMain : White(x) => x \in GreyMain'
    BY <1>5, <1>6 DEF GreyMain
  <2>2. \A x \in Scanning("main") : x \in Scanning("main")' \/ Word(x) \subseteq GreyMain'
    BY <1>2, <1>4 DEF GreyMain
  <2>3. QED
    BY <1>0, <1>1, <2>1, <2>2, MainKeeps DEF MarkInv
<1>12. OldCovered'
  <2>1. GreyOld \subseteq GreyOld'
    BY <1>2, <1>4, <1>5 DEF GreyOld
  <2>2. QED
    BY <1>1, <1>3, <1>4, <2>1, OldKeeps DEF MarkInv
<1>13. QED
  BY <1>8, <1>9, <1>10, <1>11, <1>12 DEF MarkInv

\* The old mark scans an object: it has seen it now.
LEMMA ScanOldMarks ==
  ASSUME IInv, MarkInv, NEW m \in Markers, Scan(m), hand[m].queue = "old", Live(hand[m].handle)
  PROVE  MarkInv'
<1> USE DEF ringVars, remVars, sweepVars, mutVars, heapVars, cycleVars
<1>0. PICK h \in Handles :
        /\ h = hand[m].handle /\ TypeOK /\ SweptOnce /\ oldActive
        /\ hand[m] # None /\ hand[m].step = "scan" /\ Live(h)
        /\ entry[h] = "old" =>
             \/ Marked(h) \/ h \in pending["old"]
             \/ \E k \in Markers : /\ hand[k] # None /\ hand[k].queue = "old"
                                   /\ hand[k].step = "mark" /\ hand[k].handle = h
  <2>1. hand[m] # None /\ hand[m].step = "scan" /\ TypeOK /\ SweptOnce
    BY DEF Scan, IInv, MarkInv
  <2>2. hand[m].handle \in Handles
    BY <2>1 DEF TypeOK, Hands
  <2>3. oldActive
    BY <2>1, MarkedFrom DEF Queues
  <2>4. QED
    BY <2>1, <2>2, <2>3 DEF MarkInv, HandsAreCurrent
<1>1. /\ hand' = [hand EXCEPT ![m] = None]
      /\ pending' = [pending EXCEPT !["old"] = @ \cup Word(h)]
      /\ UNCHANGED <<heapVars, local, marks, marking, ringVars, remVars, cycleVars, bridges,
                     errors, sweepVars, queue, drains, job, mutVars>>
  BY <1>0 DEF Scan
<1>2. /\ pending'["old"] = pending["old"] \cup Word(h) /\ pending'["main"] = pending["main"]
  BY <1>0, <1>1 DEF TypeOK, Queues
<1>3. /\ \A k : White(k)' = White(k) /\ Word(k)' = Word(k) /\ Marked(k)' = Marked(k)
                /\ Live(k)' = Live(k)
      /\ Roots' = Roots
  BY <1>1 DEF White, Included, Marked, IsMarked, Live, Word, Roots
<1>4. /\ InHand("old") \ {h} \subseteq InHand("old")' /\ InHand("main") \subseteq InHand("main")'
      /\ Scanning("old") \ {h} \subseteq Scanning("old")'
      /\ Scanning("main") \subseteq Scanning("main")'
  BY <1>0, <1>1, OneHand
<1>5. Recorded' = Recorded /\ RecordedWords' = RecordedWords /\ RootPackets' = RootPackets
      /\ {x \in Recorded : entry[x] = "old"}' = {x \in Recorded : entry[x] = "old"}
  BY <1>1, RecordsStay
<1>6. GreyOld \subseteq GreyOld' \cup {h} /\ Word(h) \subseteq GreyOld'
  BY <1>2, <1>4, <1>5 DEF GreyOld
<1>8. ReachableIsLive' /\ FlagsRaised' /\ CyclesInTurn' /\ SweptOnce' /\ SweepsAreSafe' /\ MarkComplete'
  BY <1>1, <1>3, MarkerKeeps DEF MarkInv, CyclesInTurn
<1>9. StoreShaded'
  <2>1. Word(mut.owner)' = Word(mut.owner)
    BY <1>1 DEF Word, Live
  <2>2. QED
    BY <1>1, <1>2, <1>3, <1>4, <1>5, <2>1 DEF MarkInv, StoreShaded
<1>10. HandsAreCurrent'
  <2>1. UNCHANGED <<entry, addr, generation>>
    BY <1>1
  <2>2. /\ \A k \in Handles : Live(k) /\ Marked(k) => Marked(k)'
        /\ TypeOK /\ HandsAreCurrent /\ hand[m].step # "mark"
        /\ pending["old"] \subseteq pending'["old"]
    BY <1>0, <1>2, <1>3 DEF MarkInv
  <2>3. QED
    BY <1>1, <2>1, <2>2, HandChanges
<1>11. MainCovered'
  <2>1. CASE phase = "mark"
    <3>1. GreyMain \subseteq GreyMain'
      BY <1>2, <1>4, <1>5 DEF GreyMain
    <3>2. QED
      BY <1>0, <1>1, <1>4, <2>1, <3>1, MainKeeps DEF MarkInv
  <2>2. CASE phase # "mark"
    BY <1>1, <2>2 DEF MainCovered
  <2>3. QED
    BY <2>1, <2>2
<1>12. OldCovered'
  <2> SUFFICES ASSUME oldActive, "old" \notin errors
               PROVE  \E B \in SUBSET Handles : Seen(B)'
    BY <1>1 DEF OldCovered
  <2>1. PICK B \in SUBSET Handles : Seen(B)
    BY DEF OldCovered, MarkInv
  <2>2. PICK C \in SUBSET Handles : C = B \cup {h}
    BY <1>0
  <2>3. ASSUME NEW S \in SUBSET Handles, ClosedOld(C, S)'
        PROVE  /\ Roots' \subseteq C \cup S
               /\ \A x \in C : \A y \in Word(x)' : Live(y)' => y \in C \cup S
    <3>1. GreyOld' \subseteq C \cup S /\ \A x \in S \ C : entry[x] = "old" => Word(x) \subseteq C \cup S
      BY <1>1, <1>3, <2>3 DEF ClosedOld
    <3>2. ClosedOld(B, S \cup {h})
      BY <1>6, <2>2, <3>1 DEF ClosedOld
    <3>3. S \cup {h} \in SUBSET Handles
      BY <1>0
    <3>4. /\ Roots \subseteq B \cup (S \cup {h})
          /\ \A x \in B : \A y \in Word(x) : Live(y) => y \in B \cup (S \cup {h})
      BY <2>1, <3>2, <3>3 DEF Seen
    <3>5. QED
      BY <1>3, <1>6, <2>2, <3>1, <3>4
  <2>4. /\ \A bit \in marks'["old"] : Live(bit[1])' => bit[1] \in C \cup Scanning("old")'
        /\ \A k \in bridges'["old"] : Live(k)' => k \in C \cup Scanning("old")'
    BY <1>1, <1>3, <1>4, <2>1, <2>2 DEF Seen
  <2>5. \A k \in C : entry'[k] = "old" => Marked(k)' \/ k \in GreyOld'
    <3>1. entry[h] = "old" => Marked(h) \/ h \in GreyOld'
      <4>1. pending'["old"] \subseteq GreyOld' /\ InHand("old")' \subseteq GreyOld'
        BY DEF GreyOld
      <4>2. \A k \in Markers : /\ hand[k] # None /\ hand[k].queue = "old"
                               /\ hand[k].step = "mark" /\ hand[k].handle = h
                               => h \in InHand("old")'
        <5> SUFFICES ASSUME NEW k \in Markers, hand[k] # None, hand[k].queue = "old",
                            hand[k].step = "mark", hand[k].handle = h
                     PROVE  h \in InHand("old")'
          OBVIOUS
        <5>1. hand'[k] = hand[k]
          BY <1>0, <1>1 DEF TypeOK
        <5>2. QED
          BY <5>1 DEF InHand
      <4>3. QED
        BY <1>0, <1>2, <4>1, <4>2
    <3>2. \A k \in B : entry[k] = "old" => Marked(k) \/ k \in GreyOld
      BY <2>1 DEF Seen
    <3>3. QED
      BY <1>1, <1>3, <1>6, <2>2, <3>1, <3>2
  <2>6. (mut.pc \in {"barrier", "assist"} =>
          \A w \in Word(mut.owner) : entry[w] = "old" /\ w \in C \cup GreyOld)'
    <3>1. Word(mut.owner)' = Word(mut.owner) /\ mut' = mut /\ entry' = entry
      BY <1>1 DEF Word, Live
    <3>2. QED
      BY <1>6, <2>1, <2>2, <3>1 DEF Seen
  <2>7. Seen(C)'
    BY <2>3, <2>4, <2>5, <2>6 DEF Seen
  <2>8. QED
    BY <2>7
<1>13. QED
  BY <1>8, <1>9, <1>10, <1>11, <1>12 DEF MarkInv

\* A worker of the old mark drops its packet when an object has died in its hands.
LEMMA ScanErrorMarks ==
  ASSUME IInv, MarkInv, NEW m \in Markers, Scan(m), ~Live(hand[m].handle), ~failed'
  PROVE  MarkInv'
<1> USE DEF ringVars, remVars, sweepVars, mutVars, heapVars, cycleVars
<1>0. /\ TypeOK /\ SweptOnce /\ hand[m] # None /\ hand[m].step = "scan" /\ MarkError(m)
      /\ hand[m].queue \in Queues
  BY DEF Scan, IInv, MarkInv, TypeOK, Hands
<1>1. hand[m].queue = "old"
  BY <1>0 DEF MarkInv, HandsAreCurrent, Queues
<1>2. m # Mutator
  BY <1>0 DEF MarkError, Fail
<1>3. /\ hand' = [hand EXCEPT ![m] = None] /\ job' = [job EXCEPT ![m] = None]
      /\ errors' = errors \cup {"old"} /\ m \in Workers
      /\ UNCHANGED <<heapVars, local, marks, marking, ringVars, remVars, cycleVars, pending,
                     bridges, sweepVars, queue, drains, mutVars>>
  BY <1>0, <1>1, <1>2 DEF Scan, MarkError, Markers
<1>4. /\ InHand("main") \subseteq InHand("main")' /\ Scanning("main") \subseteq Scanning("main")'
  BY <1>0, <1>1, <1>3, OneHand
<1>5. Recorded' = Recorded /\ RecordedWords' = RecordedWords /\ RootPackets' = RootPackets
  BY <1>3, RecordsStay
<1>6. /\ \A k : White(k)' = White(k) /\ Marked(k)' = Marked(k)
      /\ Roots' = Roots
  BY <1>3 DEF White, Included, Marked, IsMarked, Live, Roots
<1>7. ReachableIsLive' /\ FlagsRaised' /\ CyclesInTurn' /\ SweptOnce' /\ SweepsAreSafe' /\ MarkComplete'
  <2>1. \A w \in Workers : job'[w] = job[w] \/ job'[w].kind # "page"
    BY <1>0, <1>3 DEF TypeOK, None
  <2>2. "main" \notin errors'
    BY <1>3 DEF MarkInv, CyclesInTurn
  <2>3. QED
    BY <1>3, <1>6, <2>1, <2>2, MarkerKeeps
<1>8. StoreShaded'
  <2>1. Word(mut.owner)' = Word(mut.owner)
    BY <1>3 DEF Word, Live
  <2>2. QED
    BY <1>3, <1>4, <1>5, <1>6, <2>1 DEF MarkInv, StoreShaded
<1>9. HandsAreCurrent'
  <2>1. UNCHANGED <<entry, addr, generation, pending>>
    BY <1>3
  <2>2. /\ \A k \in Handles : Live(k) /\ Marked(k) => Marked(k)'
        /\ TypeOK /\ HandsAreCurrent /\ hand[m].step # "mark"
    BY <1>0, <1>6 DEF MarkInv
  <2>3. QED
    BY <1>3, <2>1, <2>2, HandChanges
<1>10. MainCovered'
  <2>1. CASE phase = "mark"
    <3>1. GreyMain \subseteq GreyMain'
      BY <1>3, <1>4, <1>5 DEF GreyMain
    <3>2. QED
      BY <1>0, <1>3, <1>4, <2>1, <3>1, MainKeeps DEF MarkInv
  <2>2. CASE phase # "mark"
    BY <1>3, <2>2 DEF MainCovered
  <2>3. QED
    BY <2>1, <2>2
<1>11. OldCovered'
  BY <1>3 DEF OldCovered
<1>12. QED
  BY <1>7, <1>8, <1>9, <1>10, <1>11 DEF MarkInv

\* Every step of a marker.
LEMMA MarkersMark ==
  ASSUME IInv, MarkInv, ~failed', NEW m \in Markers,
         \/ \E q \in Queues, h \in Handles : Pop(m, q, h)
         \/ TryMark(m) \/ Scan(m)
  PROVE  MarkInv'
<1>1. ASSUME NEW q \in Queues, NEW h \in Handles, Pop(m, q, h)
      PROVE  MarkInv'
  BY <1>1, PopMainMarks, PopOldMarks DEF Queues
<1>2. hand[m] # None => hand[m].queue \in {"main", "old"}
  BY DEF IInv, TypeOK, Hands, Queues
<1>3. CASE TryMark(m)
  BY <1>2, <1>3, TryMarkMainMarks, TryMarkOldMarks DEF TryMark
<1>4. CASE Scan(m)
  <2>1. CASE ~Live(hand[m].handle)
    BY <1>4, <2>1, ScanErrorMarks
  <2>2. CASE Live(hand[m].handle) /\ hand[m].queue = "main"
    BY <1>4, <2>2, ScanMainMarks
  <2>3. CASE Live(hand[m].handle) /\ hand[m].queue = "old"
    BY <1>4, <2>3, ScanOldMarks
  <2>4. QED
    BY <1>2, <1>4, <2>1, <2>2, <2>3 DEF Scan
<1>5. QED
  BY <1>1, <1>3, <1>4

-----------------------------------------------------------------------------
(* The phases of a cycle. *)

\* A sweep of a page moves or promotes what is marked, and gives up what is not.
LEMMA ProcessPageMarks ==
  ASSUME IInv, MarkInv, NEW w \in Workers, ProcessPage(w)
  PROVE  MarkInv'
<1> USE DEF ringVars, cycleVars, mutVars
<1> DEFINE here == {h \in Handles : Live(h) /\ PageOf[h] = job[w].page}
           mine == {h \in here : Includes(generation, entry[h])}
           kept == {h \in mine : IsMarked(h, entry[h])}
           young == {h \in kept : entry[h] = "young"}
<1>0. /\ TypeOK /\ SweptOnce /\ job[w].kind = "page" /\ phase = "select" /\ job[w] \in Packets
  <2>1. TypeOK /\ SweptOnce /\ job[w].kind = "page"
    BY DEF IInv, MarkInv, ProcessPage
  <2>2. phase = "select"
    BY <2>1 DEF IInv, PacketsInPhase, InPhase
  <2>3. job[w] \in Packets
    BY <2>1 DEF TypeOK, Jobs, None
  <2>4. QED
    BY <2>1, <2>2, <2>3
<1>1. PICK promoted \in SUBSET young :
        /\ entry' = [h \in Handles |-> IF h \in promoted THEN "old" ELSE entry[h]]
        /\ marks' = PromotedMarks(promoted) /\ pending' = PromotedGrey(promoted)
        /\ selected' = selected \/ selected' = selected \cup (kept \ promoted)
        /\ candidates' = candidates \cup (mine \ kept)
        /\ job' = [job EXCEPT ![w] = None]
        /\ UNCHANGED <<addr, field, local, marking, ringVars, slots, cycleVars, bridges,
                       errors, moving, queue, drains, hand, mutVars>>
  <2>1. PICK sparse \in {FALSE, TRUE} :
          LET promoted == {h \in young : age[h] + 1 >= 2 \/ ~sparse} IN
            /\ entry' = [h \in Handles |-> IF h \in promoted THEN "old" ELSE entry[h]]
            /\ marks' = PromotedMarks(promoted) /\ pending' = PromotedGrey(promoted)
            /\ selected' = IF sparse THEN selected \cup (kept \ promoted) ELSE selected
            /\ candidates' = candidates \cup (mine \ kept)
    BY DEF ProcessPage
  <2>2. /\ job' = [job EXCEPT ![w] = None]
        /\ UNCHANGED <<addr, field, local, marking, ringVars, slots, cycleVars, bridges,
                       errors, moving, queue, drains, hand, mutVars>>
    BY DEF ProcessPage
  <2> HIDE DEF young
  <2>3. {h \in young : age[h] + 1 >= 2 \/ ~sparse} \in SUBSET young
    OBVIOUS
  <2>4. QED
    BY <2>1, <2>2, <2>3
<1>2. \A h \in promoted : /\ h \in Handles /\ entry[h] = "young" /\ entry'[h] = "old" /\ Live(h)
                          /\ IsMarked(h, "young") /\ Includes(generation, "young")
                          /\ PageOf[h] = job[w].page
  BY <1>1
<1>3. \A h \in Handles \ promoted : entry'[h] = entry[h]
  BY <1>1
<1>4. /\ \A h \in mine \ kept : White(h)
      /\ \A h \in kept : h \in Handles /\ Includes(generation, entry[h]) /\ PageOf[h] = job[w].page
  BY DEF White, Included, Marked
<1> HIDE DEF young, kept, mine, here
<1>5. \A h \in Handles : Live(h)' = Live(h) /\ Word(h)' = Word(h) /\ (entry[h] = "old" => entry'[h] = "old")
  <2>1. \A h \in Handles : Live(h)' = Live(h) /\ (entry[h] = "old" => entry'[h] = "old")
    BY <1>2, <1>3 DEF Live
  <2>2. QED
    BY <1>1, <2>1 DEF Word
<1>6. oldActive => generation = "young" /\ marks' = marks /\ UNCHANGED <<addr>>
  BY <1>0, <1>1 DEF MarkInv, CyclesInTurn, PromotedMarks
<1>7. \A h \in Handles : White(h)' = White(h)
  <2>0. /\ marks' = marks \/ (generation = "full" /\ marks'["young"] = marks["young"]
             /\ marks'["old"] = marks["old"] \cup {<<k, addr[k]>> : k \in promoted})
    BY <1>0, <1>1 DEF PromotedMarks, TypeOK
  <2>1. ASSUME NEW h \in promoted PROVE ~White(h) /\ ~White(h)'
    <3>1. ~White(h)
      BY <1>2, <2>1 DEF White, Marked
    <3>2. generation = "full" => <<h, addr[h]>> \in marks'["old"]
      BY <1>1, <2>1, <1>0 DEF PromotedMarks, TypeOK
    <3>3. generation # "full" => generation # "old"
      BY <1>2, <2>1 DEF Includes
    <3>4. QED
      BY <1>1, <1>2, <2>1, <3>1, <3>2, <3>3 DEF White, Included, Marked, IsMarked, Includes
  <2>2. ASSUME NEW h \in Handles \ promoted PROVE White(h)' = White(h)
    <3>1. Included(h)' = Included(h)
      BY <1>1, <1>3, <1>5 DEF Included
    <3>2. \A g \in {"young", "old"} : IsMarked(h, g)' = IsMarked(h, g)
      BY <1>1, <2>0 DEF IsMarked
    <3>3. Live(h) => (Marked(h)' = Marked(h))
      BY <1>3, <3>2 DEF Marked, Live
    <3>4. QED
      BY <3>1, <3>3 DEF White, Included
  <2>3. QED
    <3> SUFFICES ASSUME NEW h \in Handles PROVE White(h)' = White(h)
      OBVIOUS
    <3>1. CASE h \in promoted
      <4>1. ~White(h) /\ ~White(h)'
        BY <2>1, <3>1
      <4>2. White(h) \in BOOLEAN /\ White(h)' \in BOOLEAN
        BY DEF White
      <4>3. QED
        BY <4>1, <4>2
    <3>2. CASE h \notin promoted
      BY <2>2, <3>2
    <3>3. QED
      BY <3>1, <3>2
<1>8. HC!Reachable' \subseteq HC!Reachable /\ HC!Reachable \subseteq Handles
  BY <1>0, <1>1, ReachableStays DEF HC!Reachable
<1>9. ReachableIsLive' /\ MarkComplete'
  <2>1. ReachableIsLive'
    BY <1>5, <1>8 DEF MarkInv, ReachableIsLive, HC!NoDanglingReference, HC!Reachable
  <2>2. \A h \in HC!Reachable' : ~White(h)'
    BY <1>0, <1>7, <1>8 DEF MarkInv, MarkComplete, White, Included, Marked
  <2>3. QED
    BY <2>1, <2>2 DEF MarkComplete, White, Included, Marked
<1>10. FlagsRaised' /\ CyclesInTurn' /\ StoreShaded' /\ MainCovered'
  <2>1. FlagsRaised' /\ CyclesInTurn'
    BY <1>1, FlagsStay DEF MarkInv, CyclesInTurn
  <2>2. StoreShaded' /\ MainCovered'
    BY <1>0, <1>1 DEF MarkInv, StoreShaded, MainCovered, Roots
  <2>3. QED
    BY <2>1, <2>2
<1>11. \A h \in selected : PageOf[h] # job[w].page
  <2>1. job[w] \in PagePackets
    BY <1>0 DEF PagePackets
  <2>2. QED
    BY <1>0, <2>1 DEF SweptOnce
<1>12. SweepsAreSafe'
  <2>1. \A h \in candidates' : White(h)'
    <3>1. candidates' \subseteq Handles
      BY <1>0, <1>1 DEF TypeOK, mine, here
    <3>2. \A h \in candidates' : White(h)
      BY <1>0, <1>1, <1>4 DEF MarkInv, SweepsAreSafe
    <3>3. QED
      BY <1>7, <3>1, <3>2
  <2>2. generation = "young" => \A h \in selected' : entry'[h] # "old"
    <3> SUFFICES ASSUME generation = "young", NEW h \in selected' PROVE entry'[h] # "old"
      OBVIOUS
    <3>1. CASE h \in selected
      <4>1. h \in Handles \ promoted /\ entry[h] # "old"
        BY <1>0, <1>2, <1>11, <3>1 DEF TypeOK, MarkInv, SweepsAreSafe
      <4>2. QED
        BY <1>3, <4>1
    <3>2. CASE h \in kept \ promoted
      BY <1>3, <1>4, <3>2 DEF Includes
    <3>3. QED
      BY <1>1, <3>1, <3>2
  <2>3. QED
    BY <1>1, <2>1, <2>2 DEF SweepsAreSafe
<1>13. SweptOnce'
  <2>1. job'[w] = None /\ \A v \in Workers \ {w} : job'[v] = job[v]
    BY <1>0, <1>1 DEF TypeOK
  <2>2. (mut.pc = "submit" => \A p \in mut.todo : p.kind = "page" =>
           p \notin queue /\ \A v \in Workers : job[v] # p)'
    BY <1>0, <1>1, <2>1 DEF SweptOnce, None
  <2>3. (\A p \in queue : p.kind = "page" => \A v \in Workers : job[v] # p)'
    BY <1>0, <1>1, <2>1 DEF SweptOnce, None
  <2>4. (\A u, v \in Workers : job[u] = job[v] /\ job[u].kind = "page" => u = v)'
    BY <1>0, <2>1 DEF SweptOnce, None
  <2>5. ASSUME NEW p \in PagePackets' PROVE p \in PagePackets /\ p # job[w]
    <3>1. p.kind = "page"
      BY DEF PagePackets
    <3>2. CASE p \in queue
      BY <1>0, <3>1, <3>2 DEF PagePackets, SweptOnce
    <3>3. CASE p \in mut.todo /\ mut.pc = "submit"
      BY <1>0, <3>1, <3>3 DEF PagePackets, SweptOnce
    <3>4. CASE \E v \in Workers \ {w} : p = job[v]
      BY <1>0, <3>1, <3>4 DEF PagePackets, SweptOnce
    <3>5. QED
      BY <1>1, <2>1, <3>1, <3>2, <3>3, <3>4 DEF PagePackets, None
  <2>6. \A p \in PagePackets : p \in [kind : {"page"}, page : Pages]
    <3>1. mut.pc = "submit" => mut.todo \subseteq Packets
      BY <1>0, MutatorTypes DEF TypeOK
    <3>2. \A p \in PagePackets : p \in Jobs \cup {None} /\ p.kind = "page"
      BY <1>0, <3>1 DEF PagePackets, TypeOK, Jobs
    <3>3. QED
      BY <3>2 DEF Jobs, Packets, None
  <2>7. job[w] \in PagePackets
    BY <1>0 DEF PagePackets
  <2>8. \A p \in PagePackets' : p.page # job[w].page
    BY <2>5, <2>6, <2>7
  <2>9. (\A p \in PagePackets : \A h \in selected : PageOf[h] # p.page)'
    BY <1>0, <1>1, <1>4, <2>5, <2>8 DEF SweptOnce
  <2>10. QED
    BY <2>2, <2>3, <2>4, <2>9 DEF SweptOnce
<1>14. /\ pending["old"] \subseteq pending'["old"]
       /\ oldActive => promoted \subseteq pending'["old"]
  BY <1>0, <1>1 DEF PromotedGrey, TypeOK, Queues
<1>15. HandsAreCurrent'
  <2> SUFFICES ASSUME NEW m \in Markers, hand[m] # None
               PROVE  (LET k == hand[m].handle IN
                       /\ hand[m].queue = "main" =>
                            /\ Live(k) /\ hand[m].gen = entry[k] /\ hand[m].addr = addr[k]
                            /\ hand[m].step = "mark" => Included(k)
                            /\ White(k) => hand[m].step = "mark"
                       /\ hand[m].queue = "old" /\ hand[m].step = "mark" =>
                            entry[k] = "old" /\ hand[m].gen = "old" /\ hand[m].addr = addr[k]
                       /\ hand[m].queue = "old" /\ hand[m].step = "scan" /\ entry[k] = "old" =>
                            \/ Marked(k) \/ k \in pending["old"]
                            \/ \E n \in Markers : /\ hand[n] # None /\ hand[n].queue = "old"
                                                  /\ hand[n].step = "mark" /\ hand[n].handle = k)'
    BY <1>1 DEF HandsAreCurrent
  <2>1. hand[m].handle \in Handles /\ hand[m].queue # "main"
    BY <1>0 DEF TypeOK, Hands, IInv, MarksInTurn, Quiet
  <2>2. hand[m].queue = "old" => oldActive
    BY <1>0 DEF IInv, MarksInTurn, Quiet
  <2>3. hand[m].handle \in promoted /\ hand[m].queue = "old" => hand[m].handle \in pending'["old"]
    BY <1>14, <2>2
  <2>4. hand[m].handle \notin promoted /\ entry[hand[m].handle] = "old" /\ oldActive
          /\ Marked(hand[m].handle) => IsMarked(hand[m].handle, "old")'
    BY <1>1, <1>6 DEF Marked, IsMarked
  <2>5. entry'[hand[m].handle] = "old" => (Marked(hand[m].handle)' <=> IsMarked(hand[m].handle, "old")')
    BY <1>1 DEF Marked, IsMarked
  <2>6. QED
    BY <1>1, <1>2, <1>3, <1>14, <2>1, <2>2, <2>3, <2>4, <2>5 DEF MarkInv, HandsAreCurrent
<1>16. OldCovered'
  <2> SUFFICES ASSUME oldActive, "old" \notin errors
               PROVE  \E B \in SUBSET Handles : Seen(B)'
    BY <1>1 DEF OldCovered
  <2>1. PICK B \in SUBSET Handles : Seen(B)
    BY DEF OldCovered, MarkInv
  <2>2. Recorded \subseteq Handles /\ Recorded' = Recorded
    <3>1. OpenRecords' = OpenRecords
      BY <1>1 DEF OpenRecords, Todo
    <3>2. OpenRecords \subseteq Records
      <4>1. mut.pc \in {"barrier", "assist"} => mut.todo \in Seq(Records)
        BY <1>0, MutatorTypes DEF TypeOK
      <4>2. mut.pc \in {"barrier", "assist"} => Todo \subseteq Records
        BY <4>1 DEF Todo
      <4>3. QED
        BY <1>0, <4>2 DEF OpenRecords, TypeOK
    <3>3. QED
      BY <3>1, <3>2, RecordTypes DEF Recorded
  <2>3. GreyOld \subseteq GreyOld'
    <3>1. {v \in Recorded : entry[v] = "old"} \subseteq {v \in Recorded : entry[v] = "old"}'
      BY <1>5, <2>2
    <3>2. InHand("old")' = InHand("old") /\ pending["old"] \subseteq pending'["old"]
      BY <1>1, <1>14 DEF InHand
    <3>3. QED
      BY <3>1, <3>2 DEF GreyOld
  <2>4. promoted \subseteq GreyOld' /\ Scanning("old")' = Scanning("old") /\ Roots' = Roots
    BY <1>1, <1>14 DEF GreyOld, Scanning, Roots
  <2>5. ASSUME NEW S \in SUBSET Handles, ClosedOld(B, S)'
        PROVE  /\ Roots' \subseteq B \cup S
               /\ \A x \in B : \A y \in Word(x)' : Live(y)' => y \in B \cup S
    <3>1. ClosedOld(B, S)
      BY <1>5, <2>3, <2>5 DEF ClosedOld
    <3>2. /\ Roots \subseteq B \cup S
          /\ \A x \in B : \A y \in Word(x) : Live(y) => y \in B \cup S
      BY <2>1, <3>1 DEF Seen
    <3>3. \A x \in Handles : Word(x) \subseteq Handles
      BY <1>0, WordsAreHandles DEF TypeOK
    <3>4. QED
      BY <1>5, <2>4, <3>2, <3>3
  <2>6. /\ \A bit \in marks'["old"] : Live(bit[1])' => bit[1] \in B \cup Scanning("old")'
        /\ \A h \in bridges'["old"] : Live(h)' => h \in B \cup Scanning("old")'
    <3>1. /\ \A bit \in marks["old"] : bit[1] \in Handles
          /\ bridges["old"] \subseteq Handles
      BY <1>0 DEF TypeOK, Queues
    <3>2. QED
      BY <1>1, <1>5, <1>6, <2>1, <2>4, <3>1 DEF Seen
  <2>7. \A h \in B : entry'[h] = "old" => Marked(h)' \/ h \in GreyOld'
    <3> SUFFICES ASSUME NEW h \in B, entry'[h] = "old", h \notin promoted
                 PROVE  Marked(h)' \/ h \in GreyOld'
      BY <2>4
    <3>1. entry[h] = "old"
      BY <1>3
    <3>2. Marked(h) \/ h \in GreyOld
      BY <2>1, <3>1 DEF Seen
    <3>3. QED
      BY <1>1, <1>6, <2>3, <3>1, <3>2 DEF Marked, IsMarked
  <2>8. (mut.pc \in {"barrier", "assist"} =>
          \A v \in Word(mut.owner) : entry[v] = "old" /\ v \in B \cup GreyOld)'
    <3> SUFFICES ASSUME mut.pc \in {"barrier", "assist"}
                 PROVE  (\A v \in Word(mut.owner) : entry[v] = "old" /\ v \in B \cup GreyOld)'
      BY <1>1
    <3>1. PICK o \in Handles : o = mut.owner
      BY <1>0, MutatorTypes DEF TypeOK
    <3>2. Word(mut.owner)' = Word(o)' /\ Word(o)' = Word(o) /\ Word(o) \subseteq Handles
      BY <1>0, <1>1, <1>5, <3>1, WordsAreHandles DEF TypeOK
    <3>3. \A v \in Word(o) : entry[v] = "old" /\ v \in B \cup GreyOld
      BY <2>1, <3>1 DEF Seen
    <3>4. QED
      BY <1>5, <2>3, <3>2, <3>3
  <2>9. Seen(B)'
    BY <2>5, <2>6, <2>7, <2>8 DEF Seen
  <2>10. QED
    BY <2>9
<1>17. QED
  BY <1>9, <1>10, <1>12, <1>13, <1>15, <1>16 DEF MarkInv

\* A flush leaves the old mark nothing less to do.
LEMMA OldRecordsRouted ==
  ASSUME TypeOK, mut = Ready, oldActive, UNCHANGED hand,
         pending["old"] \cup Routed("old", ring) \subseteq pending'["old"]
  PROVE  GreyOld \subseteq GreyOld'
<1>1. OpenRecords = ring
  BY DEF OpenRecords, Ready
<1>2. \A r \in ring : r.kind \in {"satb", "mark"} => r.handle \in RecordWords(r)
  BY DEF RecordWords
<1>3. Recorded \subseteq UNION {RecordWords(r) : r \in ring}
  BY <1>1, <1>2 DEF Recorded
<1>4. {v \in Recorded : entry[v] = "old"} \subseteq Routed("old", ring)
  BY <1>3 DEF Routed
<1>5. InHand("old")' = InHand("old")
  BY DEF InHand
<1>6. QED
  BY <1>4, <1>5 DEF GreyOld

\* Between two cycles nobody marks from the main queue.
LEMMA NoMainHands ==
  ASSUME IInv, phase # "mark", NEW m \in Markers, hand[m] # None
  PROVE  /\ hand[m].queue = "old" /\ oldActive /\ hand[m].handle \in Handles
         /\ hand[m].step \in {"mark", "scan"}
<1>1. hand[m].queue \in Queues /\ hand[m].handle \in Handles /\ hand[m].step \in {"mark", "scan"}
  BY DEF IInv, TypeOK, Hands
<1>2. hand[m].queue # "main" /\ (~oldActive => hand[m].queue # "old")
  BY DEF IInv, MarksInTurn, Quiet
<1>3. QED
  BY <1>1, <1>2 DEF Queues

\* An old mark begins with the roots.
LEMMA BeginOldMarkMarks ==
  ASSUME IInv, IInv', MarkInv, BeginOldMark, ~failed'
  PROVE  MarkInv'
<1> USE DEF heapVars, ringVars, remVars, sweepVars
<1>0. /\ TypeOK /\ mut = Ready /\ phase = "idle" /\ ~oldActive
      /\ \A m \in Markers : hand[m] = None
  <2>1. mut = Ready /\ phase = "idle" /\ ~oldActive /\ TypeOK
    BY DEF BeginOldMark, Polling, MarkInv, CyclesInTurn, IInv
  <2>2. QED
    BY <2>1, NoMainHands
<1>1. /\ marks' = [marks EXCEPT !["old"] = {}] /\ marking' = marking \cup {"old"}
      /\ oldActive' = TRUE /\ pending' = [pending EXCEPT !["old"] = Roots]
      /\ bridges' = [bridges EXCEPT !["old"] = {}] /\ errors' = errors \ {"old"}
      /\ SubmitDrains({"old"}) /\ phase' = IF Room(1) THEN "idle" ELSE "await"
      /\ UNCHANGED <<heapVars, local, ringVars, remVars, generation, sweepVars, queue, job,
                     hand, mut, ops>>
  BY DEF BeginOldMark
<1>2. phase' = "idle"
  <2>1. {"old"} \in SUBSET Queues /\ {"old"} # {}
    BY DEF Queues
  <2>2. QED
    BY <1>0, <1>1, <2>1, SubmittedWithRoom
<1>3. pending'["old"] = Roots /\ bridges'["old"] = {} /\ marks'["old"] = {} /\ Roots' = Roots
  BY <1>0, <1>1 DEF TypeOK, Queues, Roots
<1>4. HC!Reachable' \subseteq HC!Reachable
  BY <1>0, <1>1, ReachableStays
<1>5. ReachableIsLive'
  BY <1>1, <1>4 DEF MarkInv, ReachableIsLive, HC!NoDanglingReference, HC!Reachable, Live
<1>6. FlagsRaised' /\ CyclesInTurn'
  BY <1>0, <1>1, <1>2 DEF MarkInv, FlagsRaised, CyclesInTurn, Ready
<1>7. StoreShaded' /\ HandsAreCurrent'
  BY <1>0, <1>1 DEF StoreShaded, HandsAreCurrent, Ready
<1>8. SweptOnce'
  BY <1>2, NoPages DEF IInv
<1>9. SweepsAreSafe' /\ MarkComplete' /\ MainCovered'
  BY <1>2 DEF SweepsAreSafe, MarkComplete, MainCovered
<1>10. OldCovered'
  <2>1. \A S \in SUBSET Handles : ClosedOld({}, S)' => Roots' \subseteq {} \cup S
    BY <1>3 DEF ClosedOld, GreyOld
  <2>2. Seen({})'
    BY <1>0, <1>1, <1>3, <2>1 DEF Seen, Ready
  <2>3. QED
    BY <2>2 DEF OldCovered
<1>11. QED
  BY <1>5, <1>6, <1>7, <1>8, <1>9, <1>10 DEF MarkInv

\* A sweep begins: each page gets one packet.
LEMMA SweepBegins ==
  ASSUME IInv, BeginSelection(FALSE), queue = {}, Busy("main") = {}, UNCHANGED <<queue, job>>
  PROVE  /\ phase' = "select" /\ candidates' = {} /\ selected' = {} /\ mut'.pc = "submit"
         /\ SweptOnce'
<1>1. /\ phase' = "select" /\ candidates' = {} /\ selected' = {}
      /\ mut' = [pc |-> "submit", todo |-> {[kind |-> "page", page |-> p] : p \in Pages}]
  BY DEF BeginSelection, SubmitAll
<1>2. \A w \in Workers : job[w] = None \/ job[w].kind = "oldDrain"
  BY DEF Busy
<1>3. \A p \in mut'.todo : p.kind = "page" => \A w \in Workers : job[w] # p
  BY <1>2 DEF None
<1>4. \A w \in Workers : job[w].kind # "page"
  BY <1>2 DEF None
<1>5. QED
  BY <1>1, <1>3, <1>4 DEF SweptOnce

\* The old mark ends: with nothing grey, what it has seen holds all that the
\* program can reach.
LEMMA FinishOldMarkMarks ==
  ASSUME IInv, MarkInv, FinishOldMark, ~failed'
  PROVE  MarkInv'
<1> USE DEF heapVars, markVars, ringVars, remVars, packetVars
<1>0. /\ TypeOK /\ mut = Ready /\ phase = "idle" /\ oldActive /\ ringLen = 0
      /\ pending["old"] = {} /\ InFlight("old") = 0 /\ queue = {} /\ Busy("main") = {}
  BY NoMainPackets DEF IInv, FinishOldMark, Polling
<1>1. /\ oldActive' = FALSE /\ generation' = "old" /\ errors' = {}
      /\ UNCHANGED <<heapVars, local, markVars, ringVars, remVars, moving, packetVars, hand, ops>>
      /\ "old" \notin errors /\ BeginSelection(FALSE)
  BY DEF FinishOldMark, Fail
<1>2. /\ phase' = "select" /\ candidates' = {} /\ selected' = {} /\ mut'.pc = "submit"
      /\ SweptOnce'
  BY <1>0, <1>1, SweepBegins
<1>3. \A m \in Markers : hand[m] = None
  <2>1. \A m \in Markers : hand[m] # None => hand[m].queue # "old"
    BY <1>0, NothingInFlight DEF Queues
  <2>2. QED
    BY <1>0, <2>1, NoMainHands
<1>4. GreyOld = {}
  <2>1. Cardinality(ring) \in Nat /\ IsFiniteSet(ring) /\ ringLen \in Cardinality(ring)..RingCapacity
    BY <1>0, FS_CardinalityType DEF TypeOK
  <2>2. Cardinality(ring) = 0
    BY <1>0, <2>1
  <2>3. ring = {}
    BY <2>1, <2>2, FS_EmptySet
  <2>4. OpenRecords = {}
    BY <1>0, <2>3 DEF OpenRecords, Ready
  <2>5. QED
    BY <1>0, <1>3, <2>4 DEF GreyOld, InHand, Recorded
<1>5. PICK B \in SUBSET Handles : Seen(B)
  BY <1>0, <1>1 DEF MarkInv, OldCovered
<1>6. Roots \subseteq B /\ \A x \in B : \A y \in Word(x) : Live(y) => y \in B
  <2>1. ClosedOld(B, {}) /\ {} \in SUBSET Handles
    BY <1>4 DEF ClosedOld
  <2>2. QED
    BY <1>5, <2>1 DEF Seen
<1>7. HC!Reachable \subseteq B
  <2> DEFINE T == B \cap HC!Reachable
  <2>1. \A h \in HC!Reachable : Live(h)
    BY DEF MarkInv, ReachableIsLive, HC!NoDanglingReference
  <2>2. \A l \in Locals : local[l] \in T \cup {Null}
    BY <1>0, <1>6, ReachableClosed DEF Roots
  <2>3. \A h \in T : field[h] \in T \cup {Null}
    BY <1>0, <1>6, <2>1, ReachableClosed DEF Word
  <2>4. T \in SUBSET Handles /\ HC!Closed(T)
    BY <2>2, <2>3 DEF HC!Closed
  <2> HIDE DEF T
  <2>5. HC!Reachable \subseteq T
    BY <2>4, ReachableInside
  <2>6. QED
    BY <2>5 DEF T
<1>8. HC!Reachable' \subseteq HC!Reachable
  BY <1>0, <1>1, ReachableStays
<1>9. MarkComplete'
  <2>1. \A h \in HC!Reachable : entry[h] = "old" => IsMarked(h, "old")
    BY <1>4, <1>5, <1>7 DEF Seen, Marked
  <2>2. QED
    BY <1>1, <1>8, <2>1 DEF MarkComplete, Includes, IsMarked
<1>10. ReachableIsLive'
  BY <1>1, <1>8 DEF MarkInv, ReachableIsLive, HC!NoDanglingReference, HC!Reachable, Live
<1>11. FlagsRaised' /\ CyclesInTurn'
  BY <1>0, <1>1, <1>2 DEF MarkInv, FlagsRaised, CyclesInTurn, EpochOf
<1>12. StoreShaded' /\ HandsAreCurrent' /\ SweepsAreSafe' /\ MainCovered' /\ OldCovered'
  BY <1>1, <1>2, <1>3 DEF StoreShaded, HandsAreCurrent, SweepsAreSafe, MainCovered, OldCovered
<1>13. QED
  BY <1>2, <1>9, <1>10, <1>11, <1>12 DEF MarkInv

\* The objects a main cycle has not found.
WhiteObjects == {h \in Handles : White(h)}

\* A mark begins: the roots and the remembered objects cover what it collects.
LEMMA BeginMarkMarks ==
  ASSUME IInv, IInv', MarkInv, EdgesRemembered, NEW g \in {"young", "full"}, BeginMark(g)
  PROVE  MarkInv'
<1> USE DEF heapVars, ringVars, cycleVars, sweepVars, packetVars
<1> DEFINE grey == IF g = "young" THEN RememberedGrey ELSE {}
           todo == IF Roots = {} /\ grey # {} THEN {[kind |-> "drain"]}
                   ELSE {[kind |-> "root", handle |-> h] : h \in Roots}
<1>0. /\ TypeOK /\ mut = Ready /\ phase = "idle" /\ (g = "full" => ~oldActive)
  BY DEF IInv, BeginMark, Polling
<1>1. /\ pending' = [pending EXCEPT !["main"] = grey]
      /\ mut' = [pc |-> "submit", todo |-> todo]
      /\ marks' = [k \in {"young", "old"} |-> IF Includes(g, k) THEN {} ELSE marks[k]]
      /\ marking' = marking \cup {EpochOf(g)}
      /\ phase' = "mark" /\ generation' = g
      /\ bridges' = [bridges EXCEPT !["main"] = {}] /\ errors' = errors \ {"main"}
      /\ UNCHANGED <<heapVars, local, ringVars, oldActive, sweepVars, packetVars, hand>>
  BY DEF BeginMark, SubmitAll
<1>2. /\ pending'["main"] = grey /\ pending'["old"] = pending["old"]
      /\ bridges'["old"] = bridges["old"] /\ (oldActive => marks'["old"] = marks["old"])
  BY <1>0, <1>1 DEF TypeOK, Queues, Includes
<1>3. HC!Reachable' \subseteq HC!Reachable
  BY <1>0, <1>1, ReachableStays
<1>4. ReachableIsLive' /\ \A h \in HC!Reachable : Live(h)
  BY <1>1, <1>3 DEF MarkInv, ReachableIsLive, HC!NoDanglingReference, HC!Reachable, Live
<1>5. FlagsRaised' /\ CyclesInTurn'
  BY <1>0, <1>1 DEF MarkInv, FlagsRaised, CyclesInTurn
<1>6. StoreShaded' /\ SweepsAreSafe' /\ MarkComplete'
  BY <1>1 DEF StoreShaded, SweepsAreSafe, MarkComplete
<1>7. SweptOnce'
  BY <1>1, NoPages DEF IInv
<1>8. \A h : entry[h] = "old" /\ oldActive => (Marked(h)' <=> Marked(h))
  BY <1>1, <1>2 DEF Marked, IsMarked
<1>9. HandsAreCurrent'
  <2>1. \A m \in Markers : hand[m] # None =>
          hand[m].queue = "old" /\ oldActive /\ hand[m].handle \in Handles
    BY <1>0, NoMainHands
  <2>2. QED
    BY <1>1, <1>2, <1>8, <2>1 DEF MarkInv, HandsAreCurrent
<1> HIDE DEF grey
<1>10. ring \subseteq OpenRecords' /\ GreyOld \subseteq GreyOld'
  <2>1. OpenRecords = ring /\ OpenRecords' = ring
    BY <1>0, <1>1 DEF OpenRecords, Ready
  <2>2. Recorded' = Recorded /\ InHand("old")' = InHand("old")
    BY <1>1, <2>1 DEF Recorded, InHand
  <2>3. QED
    BY <1>1, <1>2, <2>1, <2>2 DEF GreyOld
<1>11. MainCovered'
  <2> SUFFICES ASSUME NEW S \in SUBSET Handles, ClosedMain(S)',
                      NEW k \in HC!Reachable', White(k)'
               PROVE  k \in S
    BY DEF MainCovered
  <2>1. PICK W \in SUBSET Handles : W = WhiteObjects'
    BY DEF WhiteObjects
  <2>2. \A h \in Handles : h \in W <=> White(h)'
    BY <2>1 DEF WhiteObjects
  <2>3. PICK T \in SUBSET Handles : T = {h \in HC!Reachable : h \in W => h \in S}
    BY <1>0, ReachableClosed
  <2>4. ASSUME NEW l \in Locals, local[l] # Null
        PROVE  local[l] \in T
    <3>1. PICK h \in Handles : h = local[l]
      BY <1>0, <2>4 DEF TypeOK
    <3>2. h \in Roots /\ h \in HC!Reachable
      BY <1>0, <2>4, <3>1, ReachableClosed DEF Roots
    <3>3. [kind |-> "root", handle |-> h] \in RootPackets'
      BY <1>1, <3>2 DEF RootPackets
    <3>4. h \in GreyMain'
      BY <3>3 DEF GreyMain
    <3>5. QED
      BY <2>2, <2>3, <3>1, <3>2, <3>4 DEF ClosedMain
  <2>5. ASSUME NEW h \in T, field[h] # Null
        PROVE  field[h] \in T
    <3>1. PICK y \in HC!Reachable : y = field[h]
      BY <1>0, <2>3, <2>5, ReachableClosed
    <3>2. Live(h) /\ Live(y) /\ y \in Word(h) /\ Word(h)' = Word(h) /\ h \in Handles /\ y \in Handles
      BY <1>0, <1>1, <1>4, <2>3, <2>5, <3>1, ReachableClosed DEF Word, Live
    <3> SUFFICES ASSUME White(y)' PROVE y \in S
      BY <2>2, <2>3, <3>1, <3>2
    <3>3. CASE White(h)'
      BY <2>2, <2>3, <2>5, <3>2, <3>3 DEF ClosedMain
    <3>4. CASE ~White(h)'
      <4>1. ~Includes(g, entry[h])
        <5>1. Included(h)' => ~Marked(h)'
          BY <1>1, <3>2 DEF Included, Marked, IsMarked, Live
        <5>2. ~Included(h)'
          BY <3>4, <5>1 DEF White
        <5>3. QED
          BY <1>1, <3>2, <5>2 DEF Included, Live
      <4>2. g = "young" /\ entry[h] = "old" /\ entry[y] = "young"
        BY <1>1, <3>2, <4>1 DEF White, Included, Includes, Live
      <4>3. PointsToYoung(h)
        BY <3>2, <4>2 DEF PointsToYoung
      <4>4. y \in GreyMain'
        <5>1. CASE h \in owners
          <6>1. h \in KeptOwners
            BY <4>2, <4>3, <5>1 DEF KeptOwners
          <6>2. y \in RememberedGrey
            BY <3>2, <6>1 DEF RememberedGrey
          <6>3. QED
            BY <1>2, <4>2, <6>2 DEF GreyMain, grey
        <5>2. CASE <<h, addr[h]>> \in slots
          <6>1. <<h, addr[h]>> \in KeptSlots
            BY <4>3, <5>2 DEF KeptSlots
          <6>2. h \in {s[1] : s \in KeptSlots}
            BY <6>1
          <6>3. y \in RememberedGrey
            BY <3>2, <6>2 DEF RememberedGrey
          <6>4. QED
            BY <1>2, <4>2, <6>3 DEF GreyMain, grey
        <5>3. CASE \E r \in ring : Names(r, h)
          <6>1. PICK r \in ring : r.handle = h /\
                   (r.kind = "owner" \/ (r.kind = "slot" /\ r.addr = addr[h]))
            BY <5>3 DEF Names
          <6>2. RecordWords(r)' = Word(h)
            BY <1>1, <3>2, <6>1 DEF RecordWords
          <6>3. QED
            BY <1>10, <3>2, <6>1, <6>2 DEF GreyMain, RecordedWords
        <5>4. QED
          BY <2>3, <4>2, <4>3, <5>1, <5>2, <5>3 DEF EdgesRemembered, Remembered
      <4>5. QED
        BY <4>4 DEF ClosedMain
    <3>5. QED
      BY <3>3, <3>4
  <2>6. T \in SUBSET Handles /\ HC!Closed(T)'
    BY <1>0, <1>1, <2>4, <2>5, ReachableClosed DEF HC!Closed
  <2>7. k \in T
    BY <2>6, ReachableWillBeInside
  <2>8. QED
    BY <1>0, <1>3, <2>2, <2>3, <2>7 
<1>12. OldCovered'
  <2>1. CASE oldActive
    <3>1. mut'.pc \notin {"barrier", "assist"} /\ ("old" \in errors => "old" \in errors')
      BY <1>1
    <3>2. Scanning("old")' = Scanning("old")
      BY <1>1 DEF Scanning
    <3>3. QED
      BY <1>1, <1>2, <1>8, <1>10, <2>1, <3>1, <3>2, OldKeeps DEF MarkInv
  <2>2. CASE ~oldActive
    BY <1>1, <2>2 DEF OldCovered
  <2>3. QED
    BY <2>1, <2>2
<1>13. QED
  BY <1>4, <1>5, <1>6, <1>7, <1>9, <1>11, <1>12 DEF MarkInv

\* A poll of the marking phase goes on, or starts the sweep with nothing left
\* to find.
LEMMA PollMarkMarks ==
  ASSUME IInv, MarkInv, PollMark, ~failed'
  PROVE  MarkInv'
<1> USE DEF heapVars, markVars, cycleVars, sweepVars
<1> DEFINE flushed == Routed("main", ring) # {}
           quiet == InFlight("main") = 0 /\ ~flushed
           grey == quiet /\ pending["main"] # {}
           qs == (IF flushed \/ grey THEN {"main"} ELSE {}) \cup
                 (IF NeedsOldPacket THEN {"old"} ELSE {})
<1>0. /\ TypeOK /\ mut = Ready /\ phase = "mark" /\ Flush /\ "main" \notin errors
      /\ UNCHANGED <<heapVars, local, markVars, generation, oldActive, bridges, moving,
                     queue, job, hand, ops>>
  BY DEF IInv, PollMark, Polling, MarkInv, CyclesInTurn
<1>1. CASE quiet /\ ~grey /\ (NeedsOldPacket => Room(1))
  <2>1. BeginSelection(FALSE) /\ errors' = errors \ {"main"}
    <3>1. ("main" \in errors) = FALSE
      BY <1>0
    <3>2. BeginSelection("main" \in errors) /\ errors' = errors \ {"main"}
      BY <1>1 DEF PollMark
    <3>3. QED
      BY <3>1, <3>2
  <2>2. /\ InFlight("main") = 0 /\ Routed("main", ring) = {} /\ pending["main"] = {}
    BY <1>1
  <2>3. /\ queue = {} /\ Busy("main") = {}
        /\ \A m \in Markers : hand[m] # None => hand[m].queue # "main"
    BY <1>0, <2>2, NothingInFlight DEF Queues
  <2>4. /\ phase' = "select" /\ candidates' = {} /\ selected' = {} /\ mut'.pc = "submit"
        /\ SweptOnce'
    BY <1>0, <2>1, <2>3, SweepBegins
  <2>5. /\ pending'["old"] = pending["old"] \cup Routed("old", ring)
    BY <1>0, <2>2 DEF Flush
  <2>6. ClosedMain({})
    <3>1. OpenRecords = ring /\ RootPackets = {}
      BY <1>0, <2>3 DEF OpenRecords, RootPackets, Ready
    <3>2. InHand("main") = {} /\ Scanning("main") = {}
      BY <2>3 DEF InHand, Scanning
    <3>3. \A x \in RecordedWords : ~White(x)
      BY <1>0, <2>2, <3>1 DEF RecordedWords, Routed, White, Included
    <3>4. QED
      BY <2>2, <3>1, <3>2, <3>3 DEF ClosedMain, GreyMain
  <2>7. \A h \in HC!Reachable : ~White(h)
    BY <1>0, <2>6 DEF MarkInv, MainCovered
  <2>8. HC!Reachable' \subseteq HC!Reachable
    BY <1>0, ReachableStays
  <2>9. MarkComplete'
    BY <1>0, <2>7, <2>8 DEF MarkComplete, White, Included, Marked, IsMarked, Live
  <2>10. ReachableIsLive'
    BY <1>0, <2>8 DEF MarkInv, ReachableIsLive, HC!NoDanglingReference, HC!Reachable, Live
  <2>11. FlagsRaised' /\ CyclesInTurn'
    BY <1>0, <2>1, <2>4 DEF MarkInv, FlagsRaised, CyclesInTurn
  <2>12. StoreShaded' /\ SweepsAreSafe' /\ MainCovered'
    BY <2>4 DEF StoreShaded, SweepsAreSafe, MainCovered
  <2>13. HandsAreCurrent'
    BY <1>0, <2>5, HandsStay DEF MarkInv
  <2>14. OldCovered'
    <3>1. CASE oldActive
      <4>1. GreyOld \subseteq GreyOld'
        BY <1>0, <2>5, <3>1, OldRecordsRouted
      <4>2. mut'.pc \notin {"barrier", "assist"} /\ ("old" \in errors => "old" \in errors')
        BY <2>1, <2>4
      <4>3. Scanning("old")' = Scanning("old") /\ \A h : Marked(h)' = Marked(h)
        BY <1>0 DEF Scanning, Marked, IsMarked
      <4>4. QED
        BY <1>0, <4>1, <4>2, <4>3, OldKeeps DEF MarkInv
    <3>2. CASE ~oldActive
      BY <1>0, <3>2 DEF OldCovered
    <3>3. QED
      BY <3>1, <3>2
  <2>15. QED
    BY <2>4, <2>9, <2>10, <2>11, <2>12, <2>13, <2>14 DEF MarkInv
<1>2. CASE ~(quiet /\ ~grey /\ (NeedsOldPacket => Room(1)))
  <2>1. SubmitDrains(qs) /\ UNCHANGED <<phase, candidates, selected, errors, mut>>
    BY <1>2 DEF PollMark
  <2>2. Routed("main", ring) # {} => Room(1)
    <3>1. qs \in SUBSET Queues /\ (Routed("main", ring) # {} => qs # {})
      BY DEF Queues
    <3> HIDE DEF qs
    <3>2. QED
      BY <1>0, <2>1, <3>1, SubmittedWithRoom
  <2>3. QED
    BY <1>0, <2>1, <2>2, FlushAndSubmitMarks
<1>3. QED
  BY <1>1, <1>2

\* What is collected, the program cannot reach; the rest of the heap stays.
LEMMA CollectedKeeps ==
  ASSUME IInv, MarkInv, NEW gone \in SUBSET Handles, gone \cap HC!Reachable = {},
         oldActive => \A h \in gone : entry[h] # "old",
         \A h \in Handles \ gone : /\ entry'[h] = entry[h] /\ addr'[h] = addr[h]
                                   /\ field'[h] = field[h],
         \A h \in gone : entry'[h] \in {"free", "retired"},
         oldActive => /\ marks'["old"] \subseteq marks["old"]
                      /\ \A bit \in marks["old"] : bit[1] \notin gone => bit \in marks'["old"],
         UNCHANGED <<local, generation, oldActive, hand, bridges>>,
         pending["old"] \subseteq pending'["old"], oldActive => GreyOld \subseteq GreyOld',
         phase \notin {"idle", "mark"}, phase' \in {"idle", "relocate"},
         "main" \notin errors', "old" \in errors => "old" \in errors',
         mut'.pc \in {"run", "submit"}, oldActive => "old" \in marking', SweptOnce',
         generation = "young" /\ phase' = "relocate" =>
           \A h \in selected' : entry'[h] # "old"
  PROVE  MarkInv'
<1>0. TypeOK
  BY DEF IInv
<1>1. HC!Reachable \subseteq Handles \ gone
  BY <1>0, ReachableClosed
<1>2. HC!Reachable' \subseteq HC!Reachable
  <2>1. \A h \in HC!Reachable : field'[h] = field[h]
    BY <1>1
  <2>2. QED
    BY <1>0, <2>1, ReachableStays
<1>3. ReachableIsLive'
  <2>1. \A h \in HC!Reachable : Live(h) /\ Live(h)'
    BY <1>1 DEF MarkInv, ReachableIsLive, HC!NoDanglingReference, Live
  <2>2. HC!Reachable' \subseteq {h \in Handles : Live(h)}'
    BY <1>1, <1>2, <2>1
  <2>3. QED
    BY <2>2 DEF ReachableIsLive, HC!NoDanglingReference, HC!Reachable
<1>4. StoreShaded' /\ FlagsRaised' /\ CyclesInTurn'
  BY DEF MarkInv, StoreShaded, FlagsRaised, CyclesInTurn
<1>5. SweepsAreSafe' /\ MarkComplete' /\ MainCovered'
  BY DEF SweepsAreSafe, MarkComplete, MainCovered
<1>6. \A h \in gone : ~Live(h)' /\ Word(h)' = {}
  BY DEF Live, Word
<1>7. \A h \in Handles \ gone : Live(h)' = Live(h) /\ Word(h)' = Word(h)
  BY DEF Live, Word
<1>8. oldActive => \A h \in Handles \ gone : entry[h] = "old" /\ Marked(h) => Marked(h)'
  BY DEF Marked, IsMarked
<1>9. HandsAreCurrent'
  <2> SUFFICES ASSUME NEW m \in Markers, hand[m] # None
               PROVE  (LET k == hand[m].handle IN
                       /\ hand[m].queue = "main" =>
                            /\ Live(k) /\ hand[m].gen = entry[k] /\ hand[m].addr = addr[k]
                            /\ hand[m].step = "mark" => Included(k)
                            /\ White(k) => hand[m].step = "mark"
                       /\ hand[m].queue = "old" /\ hand[m].step = "mark" =>
                            entry[k] = "old" /\ hand[m].gen = "old" /\ hand[m].addr = addr[k]
                       /\ hand[m].queue = "old" /\ hand[m].step = "scan" /\ entry[k] = "old" =>
                            \/ Marked(k) \/ k \in pending["old"]
                            \/ \E n \in Markers : /\ hand[n] # None /\ hand[n].queue = "old"
                                                  /\ hand[n].step = "mark" /\ hand[n].handle = k)'
    BY DEF HandsAreCurrent
  <2>1. hand[m].queue = "old" /\ oldActive /\ hand[m].handle \in Handles
    BY NoMainHands
  <2>2. PICK k \in Handles : k = hand[m].handle
    BY <2>1
  <2>3. hand[m].step = "mark" => entry[k] = "old" /\ hand[m].gen = "old" /\ hand[m].addr = addr[k]
    BY <2>1, <2>2 DEF MarkInv, HandsAreCurrent
  <2>4. hand[m].step = "scan" /\ entry[k] = "old" =>
          \/ Marked(k) \/ k \in pending["old"]
          \/ \E n \in Markers : /\ hand[n] # None /\ hand[n].queue = "old"
                                /\ hand[n].step = "mark" /\ hand[n].handle = k
    BY <2>1, <2>2 DEF MarkInv, HandsAreCurrent
  <2>5. /\ entry[k] = "old" => entry'[k] = "old" /\ addr'[k] = addr[k] /\ (Marked(k) => Marked(k)')
        /\ entry'[k] = "old" => entry[k] = "old"
    BY <1>8, <2>1, <2>2
  <2>6. QED
    BY <2>1, <2>2, <2>3, <2>4, <2>5
<1>10. OldCovered'
  <2> SUFFICES ASSUME oldActive, "old" \notin errors'
               PROVE  \E B \in SUBSET Handles : Seen(B)'
    BY DEF OldCovered
  <2>1. PICK B \in SUBSET Handles : Seen(B)
    BY DEF OldCovered, MarkInv
  <2>2. \A x \in Handles : Word(x) \subseteq Handles
    BY <1>0, WordsAreHandles DEF TypeOK
  <2>3. Scanning("old")' = Scanning("old") /\ Roots' = Roots
    BY DEF Scanning, Roots
  <2>4. \A h \in Handles : Live(h)' => h \notin gone /\ Live(h)
    BY <1>6, <1>7
  <2>5. ASSUME NEW S \in SUBSET Handles, ClosedOld(B, S)'
        PROVE  /\ Roots' \subseteq B \cup S
               /\ \A x \in B : \A y \in Word(x)' : Live(y)' => y \in B \cup S
    <3>1. ASSUME NEW x \in S \ B, entry[x] = "old" PROVE Word(x) \subseteq B \cup S
      <4>1. x \in Handles \ gone /\ entry'[x] = "old"
        BY <3>1
      <4>2. QED
        BY <1>7, <2>5, <3>1, <4>1 DEF ClosedOld
    <3>2. ClosedOld(B, S)
      BY <2>5, <3>1 DEF ClosedOld
    <3>3. /\ Roots \subseteq B \cup S
          /\ \A x \in B : \A y \in Word(x) : Live(y) => y \in B \cup S
      BY <2>1, <3>2 DEF Seen
    <3>4. QED
      BY <1>6, <1>7, <2>2, <2>3, <2>4, <3>3
  <2>6. /\ \A bit \in marks'["old"] : Live(bit[1])' => bit[1] \in B \cup Scanning("old")'
        /\ \A h \in bridges'["old"] : Live(h)' => h \in B \cup Scanning("old")'
    <3>1. /\ \A bit \in marks["old"] : bit[1] \in Handles
          /\ bridges["old"] \subseteq Handles
      BY <1>0 DEF TypeOK, Queues
    <3>2. QED
      BY <2>1, <2>3, <2>4, <3>1 DEF Seen
  <2>7. \A h \in B : entry'[h] = "old" => Marked(h)' \/ h \in GreyOld'
    <3> SUFFICES ASSUME NEW h \in B, entry'[h] = "old"
                 PROVE  Marked(h)' \/ h \in GreyOld'
      OBVIOUS
    <3>1. h \in Handles \ gone /\ entry[h] = "old"
      OBVIOUS
    <3>2. Marked(h) \/ h \in GreyOld
      BY <2>1, <3>1 DEF Seen
    <3>3. QED
      BY <1>8, <3>1, <3>2
  <2>8. Seen(B)'
    BY <2>5, <2>6, <2>7 DEF Seen
  <2>9. QED
    BY <2>8
<1>11. QED
  BY <1>3, <1>4, <1>5, <1>9, <1>10 DEF MarkInv

\* The objects a cycle dooms are out of reach, and not old while an old mark runs.
LEMMA DoomedAreGarbage ==
  ASSUME IInv, MarkInv, phase = "select"
  PROVE  /\ Doomed \subseteq Handles /\ Doomed \cap HC!Reachable = {}
         /\ oldActive => \A h \in Doomed : entry[h] = "young"
         /\ generation = "young" => \A h \in Doomed : entry[h] = "young"
<1>1. Doomed \subseteq Handles
  BY DEF Doomed, IInv, TypeOK
<1>2. \A h \in Doomed : Live(h) /\ ~IsMarked(h, entry[h]) /\ Includes(generation, entry[h])
  BY DEF Doomed, MarkInv, SweepsAreSafe, White, Included, Includes
<1>3. Doomed \cap HC!Reachable = {}
  BY <1>2 DEF MarkInv, MarkComplete
<1>4. generation = "young" => \A h \in Doomed : entry[h] = "young"
  BY <1>2 DEF Includes
<1>5. oldActive => generation = "young"
  BY DEF MarkInv, CyclesInTurn
<1>6. QED
  BY <1>1, <1>3, <1>4, <1>5

\* A cycle ends.
LEMMA FinishCycleMarks ==
  ASSUME IInv, IInv', MarkInv, mut = Ready, mut' = mut, phase \in {"select", "relocate"},
         NEW entries \in [Handles -> {"free", "young", "old", "retired"}],
         NEW old \in SUBSET Handles, FinishCycle(entries, old),
         \A h \in Handles : entries[h] = entry[h] \/ entries[h] = "retired",
         \A h \in HC!Reachable : entries[h] # "retired",
         oldActive => \A h \in Handles : entry[h] = "old" => entries[h] = "old",
         pending["old"] \subseteq old, oldActive => GreyOld \subseteq GreyOld',
         oldActive => "old" \in marking',
         UNCHANGED <<local, generation, oldActive, bridges, hand>>
  PROVE  MarkInv'
<1> DEFINE gone == {h \in Handles : entries[h] = "retired"}
<1>0. TypeOK /\ "main" \notin errors
  BY DEF IInv, MarkInv, CyclesInTurn
<1>1. /\ phase' = "idle" /\ pending' = [main |-> {}, old |-> old]
      /\ errors' = errors \ {"main"} /\ Reclaimed(entries)
  BY <1>0 DEF FinishCycle
<1>2. gone \in SUBSET Handles /\ gone \cap HC!Reachable = {}
  OBVIOUS
<1>3. /\ \A h \in Handles \ gone : entry'[h] = entry[h] /\ addr'[h] = addr[h] /\ field'[h] = field[h]
      /\ \A h \in gone : entry'[h] = "free"
      /\ oldActive => \A h \in gone : entry[h] # "old"
  BY <1>1 DEF Reclaimed
<1>4. marks'["old"] = {m \in marks["old"] : m[1] \in gone => m[2] # addr[m[1]]}
  BY <1>1 DEF Reclaimed
<1> HIDE DEF gone
<1>5. /\ marks'["old"] \subseteq marks["old"]
      /\ \A bit \in marks["old"] : bit[1] \notin gone => bit \in marks'["old"]
  BY <1>4
<1>6. SweptOnce' /\ mut'.pc \in {"run", "submit"}
  BY <1>1, NoPages DEF IInv, Ready
<1>7. phase' \in {"idle", "relocate"} /\ phase \notin {"idle", "mark"} /\ phase' # "relocate"
      /\ "main" \notin errors' /\ ("old" \in errors => "old" \in errors')
      /\ pending["old"] \subseteq pending'["old"]
  BY <1>1
<1>8. QED
  BY <1>2, <1>3, <1>5, <1>6, <1>7, CollectedKeeps

\* The sweep is over: its dead objects are retired, its sparse pages evacuated.
LEMMA PollSelectMarks ==
  ASSUME IInv, IInv', MarkInv, PollSelect, ~failed'
  PROVE  MarkInv'
<1> DEFINE retired == [h \in Handles |-> IF h \in Doomed THEN "retired" ELSE entry[h]]
           old == pending["old"] \cup Routed("old", ring)
<1>0. /\ TypeOK /\ mut = Ready /\ phase = "select" /\ "main" \notin errors
      /\ marking' = marking \ {EpochOf(generation)}
      /\ UNCHANGED <<local, generation, oldActive, bridges, queue, job, hand, ops>>
  BY DEF IInv, PollSelect, Polling, MarkInv, CyclesInTurn
<1>1. /\ Doomed \subseteq Handles /\ Doomed \cap HC!Reachable = {}
      /\ oldActive => \A h \in Doomed : entry[h] = "young"
      /\ generation = "young" => \A h \in Doomed : entry[h] = "young"
  BY <1>0, DoomedAreGarbage
<1>2. oldActive => "old" \in marking'
  <2>1. oldActive => generation = "young" /\ "old" \in marking
    BY <1>0 DEF MarkInv, CyclesInTurn, FlagsRaised
  <2>2. QED
    BY <1>0, <2>1 DEF EpochOf
<1>3. \A h \in HC!Reachable : h \in Handles /\ Live(h)
  BY <1>0, ReachableClosed DEF MarkInv, ReachableIsLive, HC!NoDanglingReference
<1>4. retired \in [Handles -> {"free", "young", "old", "retired"}] /\ old \in SUBSET Handles
  <2>1. Routed("old", ring) \subseteq Handles
    BY <1>0, RoutedAreHandles DEF TypeOK, Queues
  <2>2. QED
    BY <1>0, <2>1 DEF TypeOK, Queues
<1>5. /\ \A h \in Handles : retired[h] = entry[h] \/ retired[h] = "retired"
      /\ \A h \in HC!Reachable : retired[h] # "retired"
      /\ oldActive => \A h \in Handles : entry[h] = "old" => retired[h] = "old"
  BY <1>1, <1>3 DEF Live
<1>6. CASE FinishCycle(retired, old) /\ UNCHANGED mut
  <2>1. pending' = [main |-> {}, old |-> old]
    BY <1>0, <1>6 DEF FinishCycle
  <2>2. oldActive => GreyOld \subseteq GreyOld'
    BY <1>0, <2>1, OldRecordsRouted
  <2> HIDE DEF retired, old
  <2>3. pending["old"] \subseteq old
    BY DEF old
  <2>4. QED
    BY <1>0, <1>2, <1>4, <1>5, <1>6, <2>2, <2>3, FinishCycleMarks
<1>7. CASE /\ entry' = retired /\ candidates' = Doomed /\ pending' = [pending EXCEPT !["old"] = old]
           /\ moving' = selected /\ phase' = "relocate"
           /\ SubmitAll({[kind |-> "move", handle |-> h] : h \in selected})
           /\ UNCHANGED <<age, addr, field, marks, errors, selected, full, failed>>
  <2>1. /\ \A h \in Handles \ Doomed : entry'[h] = entry[h] /\ addr'[h] = addr[h] /\ field'[h] = field[h]
        /\ \A h \in Doomed : entry'[h] \in {"free", "retired"}
        /\ oldActive => \A h \in Doomed : entry[h] # "old"
    BY <1>1, <1>7
  <2>2. pending'["old"] = old
    BY <1>0, <1>7 DEF TypeOK, Queues
  <2>3. oldActive => GreyOld \subseteq GreyOld'
    BY <1>0, <2>2, OldRecordsRouted
  <2>4. SweptOnce' /\ mut'.pc = "submit"
    BY <1>7, NoPages DEF IInv, SubmitAll
  <2>5. generation = "young" => \A h \in selected' : entry'[h] # "old"
    <3>1. generation = "young" => \A h \in selected : entry[h] # "old" /\ h \in Handles
      BY <1>0 DEF MarkInv, SweepsAreSafe, TypeOK
    <3>2. QED
      BY <1>7, <3>1
  <2>6. pending["old"] \subseteq pending'["old"]
    BY <2>2
  <2>7. /\ UNCHANGED marks /\ phase' = "relocate" /\ UNCHANGED errors
    BY <1>7
  <2> HIDE DEF retired, old
  <2>8. QED
    BY <1>0, <1>1, <1>2, <2>1, <2>3, <2>4, <2>5, <2>6, <2>7, CollectedKeeps
<1>8. QED
  BY <1>0, <1>6, <1>7 DEF PollSelect

\* The cycle ends after its relocation.
LEMMA PollRelocateMarks ==
  ASSUME IInv, IInv', MarkInv, PollRelocate
  PROVE  MarkInv'
<1>0. /\ TypeOK /\ mut = Ready /\ phase = "relocate" /\ "main" \notin errors
      /\ FinishCycle(entry, pending["old"])
      /\ UNCHANGED <<local, marking, ringVars, remVars, generation, oldActive, bridges,
                     packetVars, hand, mut, ops>>
  BY DEF IInv, PollRelocate, Polling, MarkInv, CyclesInTurn
<1>1. \A h \in HC!Reachable : entry[h] # "retired"
  BY DEF MarkInv, ReachableIsLive, HC!NoDanglingReference, Live
<1>2. oldActive => "old" \in marking'
  BY <1>0 DEF MarkInv, FlagsRaised
<1>3. /\ entry \in [Handles -> {"free", "young", "old", "retired"}]
      /\ pending["old"] \in SUBSET Handles
  BY <1>0 DEF TypeOK, Queues
<1>4. oldActive => GreyOld \subseteq GreyOld'
  <2>1. pending'["old"] = pending["old"] /\ InHand("old")' = InHand("old")
    BY <1>0 DEF FinishCycle, InHand
  <2>2. OpenRecords' = OpenRecords
    BY <1>0 DEF OpenRecords, Todo, ringVars
  <2>3. OpenRecords \subseteq Records
    BY <1>0 DEF OpenRecords, Ready, TypeOK
  <2>4. Recorded' = Recorded /\ Recorded \subseteq Handles
    BY <2>2, <2>3, RecordTypes DEF Recorded
  <2>5. \A h \in Handles : entry[h] = "old" => entry'[h] = "old"
    BY <1>0 DEF FinishCycle, Reclaimed
  <2>6. QED
    BY <2>1, <2>4, <2>5 DEF GreyOld
<1>5. QED
  BY <1>0, <1>1, <1>2, <1>3, <1>4, FinishCycleMarks

\* No mark runs at first.
LEMMA InitMarks == Init => MarkInv
<1> SUFFICES ASSUME Init PROVE MarkInv
  OBVIOUS
<1>1. ReachableIsLive
  <2>1. PICK heap \in InitialHeaps :
          entry = heap.entry /\ field = heap.field /\ local = heap.local
    BY DEF Init
  <2>2. /\ \A h \in Handles : field[h] # Null => entry[h] # "free" /\ entry[field[h]] # "free"
        /\ \A l \in Locals : local[l] # Null => entry[local[l]] # "free"
        /\ entry \in [Handles -> {"free", "young", "old"}]
        /\ field \in [Handles -> Handles \cup {Null}]
        /\ local \in [Locals -> Handles \cup {Null}]
    BY <2>1, ZgcAssumption
  <2> DEFINE T == {h \in Handles : entry[h] # "free"}
  <2>3. T \in SUBSET Handles /\ HC!Closed(T)
    BY <2>2 DEF HC!Closed
  <2>4. \A h \in T : Live(h)
    BY <2>2 DEF Live
  <2> HIDE DEF T
  <2>5. HC!Reachable \subseteq T
    BY <2>3, ReachableInside
  <2>6. QED
    BY <2>3, <2>4, <2>5 DEF ReachableIsLive, HC!NoDanglingReference
<1>2. StoreShaded /\ FlagsRaised /\ CyclesInTurn /\ HandsAreCurrent /\ SweepsAreSafe
  BY DEF Init, Ready, StoreShaded, FlagsRaised, CyclesInTurn, HandsAreCurrent, SweepsAreSafe
<1>3. SweptOnce
  BY DEF Init, Ready, None, SweptOnce, PagePackets
<1>4. MarkComplete /\ MainCovered /\ OldCovered
  BY DEF Init, MarkComplete, MainCovered, OldCovered
<1>5. QED
  BY <1>1, <1>2, <1>3, <1>4 DEF MarkInv

\* Every step of the collector and the program keeps the invariant.
LEMMA MarkStep ==
  ASSUME IInv, IInv', MarkInv, Restrained, EdgesRemembered, ~failed', [Next]_vars
  PROVE  MarkInv'
<1>1. CASE UNCHANGED vars
  <2> USE DEF vars, heapVars, markVars, ringVars, remVars, cycleVars, sweepVars, packetVars, mutVars
  <2>1. SweptOnce'
    BY <1>1, PagesStay DEF MarkInv
  <2>2. GreyMain' = GreyMain /\ GreyOld' = GreyOld /\ Recorded' = Recorded
    BY <1>1, GreyStays
  <2>3. QED
    BY <1>1, <2>1, <2>2, BookkeepingKeeps DEF IInv, MarkInv, CyclesInTurn
<1>2. CASE MutatorStep
  <2>1. (\/ \E q \in Queues, h \in Handles : Pop(Mutator, q, h)
         \/ TryMark(Mutator) \/ Scan(Mutator)) => MarkInv'
    BY MarkersMark DEF Markers
  <2>2. ASSUME NEW op \in {"slot", "proto"}, NEW h \in Handles, NEW v \in Handles \cup {Null},
               StoreBarrier(op, h, v) PROVE MarkInv'
    BY <2>2, StoreBarrierMarks
  <2>3. QED
    BY <1>2, <2>1, <2>2, LoadMarks, DropMarks, AllocateMarks, PushRecordMarks,
       AssistDoneMarks, StoreMarks, AssistMoveMarks, GrowPublishMarks, GrowFinishMarks
       DEF MutatorStep
<1>3. CASE CollectFull
  BY <1>3, CollectFullMarks
<1>4. CASE Safepoint
  BY <1>4, BeginMarkMarks, BeginOldMarkMarks, PollOldMarkMarks, FinishOldMarkMarks,
     PollMarkMarks, PollSelectWaitMarks, PollSelectMarks, PollRelocateMarks, SubmitMarks
     DEF Safepoint
<1>5. ASSUME NEW w \in Workers, WorkerStep(w) PROVE MarkInv'
  <2>1. (\/ \E q \in Queues, h \in Handles : Pop(w, q, h)
         \/ TryMark(w) \/ Scan(w)) => MarkInv'
    BY MarkersMark DEF Markers
  <2>2. QED
    BY <1>5, <2>1, TakePacketMarks, FinishDrainMarks, ProcessPageMarks, RelocateMarks,
       TakeDrainMarks DEF WorkerStep
<1>6. QED
  BY <1>1, <1>2, <1>3, <1>4, <1>5 DEF Next

-----------------------------------------------------------------------------
(* Old-to-young edges are remembered. *)

\* No old object moves: a remembered slot is an address, and goes out of date
\* when its object does.
OldStay == \A h \in Handles : entry[h] = "old" /\ entry'[h] = "old" => addr'[h] = addr[h]

\* A record whose edge the remembered set knows.
Taken(r) ==
  /\ r.kind = "slot" => <<r.handle, r.addr>> \in slots
  /\ r.kind = "owner" => r.handle \in owners

\* Steps that forget nothing.
LEMMA EdgesKept ==
  ASSUME TypeOK, MarkInv, EdgesInv, OldStay, HC!Reachable' \subseteq HC!Reachable,
         \A h \in HC!Reachable :
           /\ field'[h] = field[h] /\ (entry'[h] = "young" => entry[h] = "young")
           /\ entry'[h] = "old" => entry[h] = "old" \/ h \in owners',
         owners \subseteq owners', slots \subseteq slots',
         \A r \in ring : r \in ring' \/ Taken(r)',
         mut'.pc \in {"barrier", "assist"} =>
           /\ mut.pc \in {"barrier", "assist"} /\ mut'.owner = mut.owner /\ mut'.value = mut.value
           /\ \A r \in OpenRecords : r \in OpenRecords' \/ Taken(r)'
  PROVE  EdgesInv'
<1>1. \A h \in HC!Reachable : h \in Handles /\ Live(h) /\ field[h] \in HC!Reachable \cup {Null}
  BY ReachableClosed DEF MarkInv, ReachableIsLive, HC!NoDanglingReference
<1>2. \A h \in HC!Reachable : PointsToYoung(h)' => PointsToYoung(h)
  <2> SUFFICES ASSUME NEW h \in HC!Reachable, NEW v \in Word(h)', entry'[v] = "young"
               PROVE  PointsToYoung(h)
    BY DEF PointsToYoung
  <2>1. v = field[h] /\ v # Null
    BY DEF Word
  <2>2. v \in Word(h) /\ entry[v] = "young"
    BY <1>1, <2>1 DEF Word
  <2>3. QED
    BY <2>2 DEF PointsToYoung
<1>3. \A h \in Handles : entry[h] = "old" /\ entry'[h] = "old" => \A r : Names(r, h)' = Names(r, h)
  BY DEF Names, OldStay
<1>4. EdgesRemembered'
  <2> SUFFICES ASSUME NEW h \in HC!Reachable', entry'[h] = "old", PointsToYoung(h)', h \notin owners'
               PROVE  Remembered(h, ring)'
    BY DEF EdgesRemembered, Remembered
  <2>1. h \in HC!Reachable /\ h \in Handles /\ entry[h] = "old" /\ addr'[h] = addr[h]
    BY <1>1 DEF OldStay
  <2>2. Remembered(h, ring)
    BY <1>2, <2>1 DEF EdgesInv, EdgesRemembered
  <2>3. CASE <<h, addr[h]>> \in slots
    BY <2>1, <2>3 DEF Remembered
  <2>4. CASE \E r \in ring : Names(r, h)
    <3>1. PICK r \in ring : Names(r, h)
      BY <2>4
    <3>2. Taken(r)' => Remembered(h, ring)'
      BY <2>1, <3>1 DEF Taken, Names, Remembered
    <3>3. QED
      BY <1>3, <2>1, <3>1, <3>2 DEF Remembered
  <2>5. QED
    BY <2>2, <2>3, <2>4 DEF Remembered
<1>5. StoreRemembered'
  <2> SUFFICES ASSUME mut'.pc \in {"barrier", "assist"}, entry'[mut'.owner] = "old",
                      mut'.value # Null, entry'[mut'.value] = "young", mut'.owner \notin owners'
               PROVE  Remembered(mut.owner, OpenRecords)'
    BY DEF StoreRemembered, Remembered
  <2>1. mut.owner \in HC!Reachable /\ mut.value \in HC!Reachable \cup {Null}
    BY ReachableClosed DEF MarkInv, StoreShaded
  <2>2. PICK h \in HC!Reachable, v \in HC!Reachable : h = mut.owner /\ v = mut.value
    BY <2>1
  <2>3. entry[h] = "old" /\ entry[v] = "young" /\ addr'[h] = addr[h] /\ h \in Handles
        /\ entry'[h] = "old"
    BY <1>1, <2>2 DEF OldStay
  <2>4. Remembered(h, OpenRecords)
    BY <2>2, <2>3 DEF EdgesInv, StoreRemembered
  <2>5. Remembered(h, OpenRecords)'
    <3>1. CASE <<h, addr[h]>> \in slots \/ h \in owners
      BY <2>3, <3>1 DEF Remembered
    <3>2. CASE \E r \in OpenRecords : Names(r, h)
      <4>1. PICK r \in OpenRecords : Names(r, h)
        BY <3>2
      <4>2. Taken(r)' => Remembered(h, OpenRecords)'
        BY <2>3, <4>1 DEF Taken, Names, Remembered
      <4>3. QED
        BY <1>3, <2>3, <4>1, <4>2 DEF Remembered
    <3>3. QED
      BY <2>4, <3>1, <3>2 DEF Remembered
  <2>6. QED
    BY <2>2, <2>5 DEF Remembered, Names
<1>6. QED
  BY <1>4, <1>5 DEF EdgesInv

\* Steps that leave edges and records alone.
LEMMA EdgesStay ==
  ASSUME TypeOK, MarkInv, EdgesInv, OldStay, UNCHANGED <<entry, field, ring>>,
         HC!Reachable' \subseteq HC!Reachable, owners \subseteq owners', slots \subseteq slots',
         mut'.pc \in {"barrier", "assist"} =>
           /\ mut.pc \in {"barrier", "assist"} /\ mut'.owner = mut.owner /\ mut'.value = mut.value
           /\ mut'.todo = mut.todo
  PROVE  EdgesInv'
<1>1. mut'.pc \in {"barrier", "assist"} => OpenRecords' = OpenRecords
  BY DEF OpenRecords, Todo
<1>2. QED
  BY <1>1, EdgesKept

\* A flush takes the records into the remembered set.
LEMMA FlushedEdges ==
  ASSUME TypeOK, MarkInv, EdgesInv, OldStay, Remember(ring), UNCHANGED local,
         \A h \in HC!Reachable : field'[h] = field[h] /\ entry'[h] = entry[h],
         mut'.pc \notin {"barrier", "assist"}
  PROVE  EdgesInv'
<1>1. HC!Reachable' \subseteq HC!Reachable
  BY ReachableStays
<1>2. \A r \in ring : Taken(r)'
  BY DEF Remember, Taken
<1>3. owners \subseteq owners' /\ slots \subseteq slots'
  BY DEF Remember
<1>4. QED
  BY <1>1, <1>2, <1>3, EdgesKept

\* Operations that make no edge keep the remembered ones.
LEMMA ProgramKeepsEdges ==
  ASSUME IInv, MarkInv, EdgesInv, OldStay,
         \/ \E l, m \in Locals : Load(l, m)
         \/ \E l \in Locals : Drop(l)
         \/ AssistDone \/ GrowFinish \/ CollectFull \/ Submit \/ BeginOldMark \/ FinishOldMark
         \/ \E h \in Handles : AssistMove(h)
         \/ \E kind \in {"object", "array"}, h \in Handles : GrowPublish(kind, h)
  PROVE  EdgesInv'
<1> USE DEF heapVars, remVars, ringVars, mutVars
<1>0. TypeOK /\ mut \in MutatorStates
  BY DEF IInv, TypeOK
<1>1. ASSUME NEW l \in Locals, NEW v \in HC!Reachable \cup {Null},
             local' = [local EXCEPT ![l] = v], UNCHANGED <<entry, field, ring, owners, slots, mut>>
      PROVE  EdgesInv'
  BY <1>0, <1>1, ReachableLoaded, EdgesStay
<1>2. ASSUME NEW l \in Locals, NEW m \in Locals, Load(l, m) PROVE EdgesInv'
  <2>1. local[m] \in HC!Reachable
    BY <1>0, <1>2, ReachableClosed DEF Load, Roots
  <2>2. field[local[m]] \in HC!Reachable \cup {Null}
    BY <1>0, <2>1, ReachableClosed
  <2>3. /\ local' = [local EXCEPT ![l] = field[local[m]]]
        /\ UNCHANGED <<entry, field, ring, owners, slots, mut>>
    BY <1>2 DEF Load
  <2>4. QED
    BY <1>1, <2>2, <2>3
<1>3. ASSUME NEW l \in Locals, Drop(l) PROVE EdgesInv'
  BY <1>1, <1>3 DEF Drop
<1>4. ASSUME UNCHANGED <<entry, field, local, ring, owners, slots>>,
             \/ mut'.pc \notin {"barrier", "assist"}
             \/ mut.pc \in {"barrier", "assist"} /\ mut'.owner = mut.owner /\ mut'.value = mut.value
                /\ mut'.todo = mut.todo
      PROVE  EdgesInv'
  <2>1. HC!Reachable' \subseteq HC!Reachable
    BY <1>0, <1>4, ReachableStays
  <2>2. QED
    BY <1>0, <1>4, <2>1, EdgesStay
<1>5. ASSUME AssistDone PROVE EdgesInv'
  BY <1>0, <1>4, <1>5, MutatorTypes DEF AssistDone
<1>6. ASSUME GrowFinish \/ CollectFull PROVE EdgesInv'
  BY <1>4, <1>6 DEF GrowFinish, CollectFull, Running, Ready
<1>7. ASSUME Submit PROVE EdgesInv'
  <2>1. mut.pc = "submit" /\ UNCHANGED <<heapVars, local, ringVars, remVars>>
    BY <1>7 DEF Submit
  <2>2. mut \in [pc : {"submit"}, todo : SUBSET Packets]
    BY <1>0, <2>1 DEF MutatorStates, Ready
  <2>3. mut' = Ready \/ mut'.pc = "submit"
    BY <1>7, <2>2 DEF Submit
  <2>4. QED
    BY <1>4, <2>1, <2>3 DEF Ready
<1>8. ASSUME BeginOldMark PROVE EdgesInv'
  BY <1>4, <1>8 DEF BeginOldMark, Polling, Ready
<1>9. ASSUME FinishOldMark PROVE EdgesInv'
  <2>1. UNCHANGED <<heapVars, local, ringVars, remVars>> /\ mut = Ready
    BY <1>9 DEF FinishOldMark, Polling
  <2>2. mut' = mut \/ mut'.pc = "submit"
    BY <1>9 DEF FinishOldMark, BeginSelection, SubmitAll
  <2>3. QED
    BY <1>4, <2>1, <2>2 DEF Ready
<1>10. ASSUME NEW h \in Handles, AssistMove(h) PROVE EdgesInv'
  BY <1>4, <1>10 DEF AssistMove, Running, Ready
<1>11. ASSUME NEW kind \in {"object", "array"}, NEW h \in Handles, GrowPublish(kind, h) PROVE EdgesInv'
  BY <1>4, <1>11 DEF GrowPublish
<1>12. QED
  BY <1>2, <1>3, <1>5, <1>6, <1>7, <1>8, <1>9, <1>10, <1>11

\* A marker leaves the heap and the remembered set alone.
LEMMA MarkersKeepEdges ==
  ASSUME IInv, MarkInv, EdgesInv, OldStay, NEW m \in Markers,
         \/ \E q \in Queues, h \in Handles : Pop(m, q, h)
         \/ TryMark(m) \/ Scan(m)
  PROVE  EdgesInv'
<1> USE DEF heapVars, remVars, ringVars, mutVars
<1>0. TypeOK
  BY DEF IInv
<1>1. UNCHANGED <<entry, field, local, ring, owners, slots>> /\ (mut' = mut \/ mut' = Ready)
  BY DEF Pop, TryMark, Scan, MarkError
<1>2. HC!Reachable' \subseteq HC!Reachable
  BY <1>0, <1>1, ReachableStays
<1>3. QED
  BY <1>0, <1>1, <1>2, EdgesStay DEF Ready

\* A promoted object is remembered whole.
LEMMA PromotedAreOwners ==
  ASSUME NEW w \in Workers, ProcessPage(w)
  PROVE  \E promoted \in SUBSET Handles :
           /\ entry' = [h \in Handles |-> IF h \in promoted THEN "old" ELSE entry[h]]
           /\ owners' = owners \cup promoted
  BY DEF ProcessPage

\* The workers' packets keep the remembered edges.
LEMMA WorkersKeepEdges ==
  ASSUME IInv, MarkInv, EdgesInv, OldStay, NEW w \in Workers,
         \/ TakePacket(w) \/ FinishDrain(w) \/ Relocate(w) \/ ProcessPage(w)
         \/ \E q \in Queues : TakeDrain(w, q)
  PROVE  EdgesInv'
<1> USE DEF heapVars, remVars, ringVars, mutVars
<1>0. TypeOK
  BY DEF IInv
<1>1. UNCHANGED <<field, local, ring, mut, slots>> /\ owners \subseteq owners'
  BY DEF TakePacket, FinishDrain, Relocate, ProcessPage, TakeDrain
<1>2. HC!Reachable' \subseteq HC!Reachable
  BY <1>0, <1>1, ReachableStays
<1>3. CASE UNCHANGED entry
  BY <1>0, <1>1, <1>2, <1>3, EdgesStay
<1>4. CASE ProcessPage(w)
  <2>1. PICK promoted \in SUBSET Handles :
          /\ entry' = [h \in Handles |-> IF h \in promoted THEN "old" ELSE entry[h]]
          /\ owners' = owners \cup promoted
    BY <1>4, PromotedAreOwners
  <2>2. \A h \in HC!Reachable :
          /\ entry'[h] = "young" => entry[h] = "young"
          /\ entry'[h] = "old" => entry[h] = "old" \/ h \in owners'
    BY <1>0, <2>1, ReachableClosed
  <2>3. OpenRecords' = OpenRecords
    BY <1>1 DEF OpenRecords, Todo
  <2>4. QED
    BY <1>0, <1>1, <1>2, <2>2, <2>3, EdgesKept
<1>5. QED
  BY <1>3, <1>4 DEF TakePacket, FinishDrain, Relocate, TakeDrain

\* Safepoints flush the records, and forget only what they collect.
LEMMA SafepointKeepsEdges ==
  ASSUME IInv, MarkInv, EdgesInv, OldStay, ~failed',
         PollOldMark \/ PollMark \/ PollSelectWait \/ PollSelect \/ PollRelocate
  PROVE  EdgesInv'
<1> USE DEF heapVars, remVars, ringVars
<1>0. TypeOK /\ mut = Ready
  BY DEF IInv, PollOldMark, PollMark, PollSelectWait, PollSelect, PollRelocate, Polling
<1>1. CASE PollOldMark \/ PollMark \/ PollSelectWait
  <2>1. Remember(ring) /\ UNCHANGED <<entry, field, local>>
    BY <1>1 DEF PollOldMark, PollMark, PollSelectWait, Flush
  <2>2. mut' = mut \/ mut'.pc = "submit"
    BY <1>1 DEF PollOldMark, PollMark, PollSelectWait, BeginSelection, SubmitAll
  <2>3. QED
    BY <1>0, <2>1, <2>2, FlushedEdges DEF Ready
<1>2. CASE PollSelect
  <2>1. /\ "main" \notin errors /\ phase = "select" /\ Remember(ring) /\ UNCHANGED local
    BY <1>2 DEF PollSelect, MarkInv, CyclesInTurn
  <2>2. Doomed \cap HC!Reachable = {}
    BY <2>1, DoomedAreGarbage
  <2>3. \A h \in HC!Reachable : h \in Handles /\ Live(h)
    BY <1>0, ReachableClosed DEF MarkInv, ReachableIsLive, HC!NoDanglingReference
  <2>4. /\ \A h \in HC!Reachable : field'[h] = field[h] /\ entry'[h] = entry[h]
        /\ mut'.pc \notin {"barrier", "assist"}
    <3> DEFINE retired == [h \in Handles |-> IF h \in Doomed THEN "retired" ELSE entry[h]]
    <3>1. \A h \in HC!Reachable : retired[h] = entry[h] /\ entry[h] # "retired"
      BY <2>2, <2>3 DEF Live
    <3>2. CASE Reclaimed(retired) /\ UNCHANGED mut
      BY <1>0, <2>3, <3>1, <3>2 DEF Reclaimed, Ready
    <3>3. CASE entry' = retired /\ UNCHANGED field /\ mut'.pc = "submit"
      BY <3>1, <3>3
    <3>4. QED
      BY <1>2, <2>1, <3>2, <3>3 DEF PollSelect, FinishCycle, SubmitAll
  <2>5. QED
    BY <1>0, <2>1, <2>4, FlushedEdges
<1>3. CASE PollRelocate
  <2>1. /\ Reclaimed(entry) /\ UNCHANGED <<local, ring, owners, slots, mut>>
    BY <1>3 DEF PollRelocate, FinishCycle
  <2>2. \A h \in HC!Reachable : h \in Handles /\ Live(h)
    BY <1>0, ReachableClosed DEF MarkInv, ReachableIsLive, HC!NoDanglingReference
  <2>3. \A h \in HC!Reachable : field'[h] = field[h] /\ entry'[h] = entry[h]
    BY <2>1, <2>2 DEF Reclaimed, Live
  <2>4. HC!Reachable' \subseteq HC!Reachable
    BY <1>0, <2>1, <2>3, ReachableStays
  <2>5. QED
    BY <1>0, <2>1, <2>3, <2>4, EdgesKept DEF Ready
<1>4. QED
  BY <1>1, <1>2, <1>3

\* A new object has no edges, and no reference the program can follow led to it.
LEMMA AllocateKeepsEdges ==
  ASSUME IInv, MarkInv, EdgesInv, NEW l \in Locals, NEW h \in Handles, Allocate(l, h)
  PROVE  EdgesInv'
<1> USE DEF remVars, ringVars
<1>0. /\ TypeOK /\ mut = Ready /\ mut' = mut /\ entry[h] = "free"
      /\ entry' = [entry EXCEPT ![h] = "young"] /\ field' = [field EXCEPT ![h] = Null]
      /\ local' = [local EXCEPT ![l] = h] /\ UNCHANGED <<addr, ring, owners, slots>>
  BY DEF IInv, Allocate, Operation, Running
<1>1. \A k \in HC!Reachable : k \in Handles /\ Live(k) /\ field[k] \in HC!Reachable \cup {Null}
  BY <1>0, ReachableClosed DEF MarkInv, ReachableIsLive, HC!NoDanglingReference
<1>2. h \notin HC!Reachable
  BY <1>0, <1>1 DEF Live
<1>3. HC!Reachable' \subseteq HC!Reachable \cup {h}
  BY <1>0, ReachableAllocated
<1>4. ASSUME NEW k \in HC!Reachable', entry'[k] = "old", PointsToYoung(k)'
      PROVE  Remembered(k, ring)'
  <2>1. k \in HC!Reachable /\ k # h /\ entry[k] = "old"
    BY <1>0, <1>1, <1>2, <1>3, <1>4 DEF TypeOK
  <2>2. PICK v \in Word(k)' : entry'[v] = "young"
    BY <1>4 DEF PointsToYoung
  <2>3. v = field[k] /\ v \in HC!Reachable /\ v # h /\ v \in Handles
    BY <1>0, <1>1, <1>2, <2>1, <2>2 DEF Word, TypeOK
  <2>4. entry[v] = "young" /\ v \in Word(k)
    BY <1>0, <1>1, <2>1, <2>2, <2>3 DEF Word, TypeOK
  <2>5. PointsToYoung(k)
    BY <2>4 DEF PointsToYoung
  <2>6. Remembered(k, ring)
    BY <2>1, <2>5 DEF EdgesInv, EdgesRemembered
  <2>7. QED
    BY <1>0, <2>6 DEF Remembered, Names
<1>5. StoreRemembered'
  BY <1>0 DEF StoreRemembered, Ready
<1>6. QED
  BY <1>4, <1>5 DEF EdgesInv, EdgesRemembered

\* A barrier remembers the edge its store is about to make.
LEMMA EdgeIsRecorded ==
  ASSUME TypeOK, NEW op \in {"slot", "proto"}, NEW h \in Handles, NEW v \in Handles,
         entry[h] = "old", entry[v] = "young"
  PROVE  \E i \in DOMAIN BarrierRecords(op, h, v) : Names(BarrierRecords(op, h, v)[i], h)
<1> DEFINE satb == IF marking # {} /\ field[h] # Null
                   THEN <<[kind |-> "satb", handle |-> field[h]]>> ELSE <<>>
           mark == IF marking # {} /\ v # Null /\ (op = "slot" => IsMarked(h, entry[h]))
                   THEN <<[kind |-> "mark", handle |-> v]>> ELSE <<>>
           slot == IF op = "slot" /\ entry[h] = "old" /\ v # Null /\ entry[v] = "young"
                   THEN <<[kind |-> "slot", handle |-> h, addr |-> addr[h]]>> ELSE <<>>
           owner == IF op = "proto" /\ entry[h] = "old"
                    THEN <<[kind |-> "owner", handle |-> h]>> ELSE <<>>
<1>0. <<>> \in Seq(Records) /\ \A r \in Records : <<r>> \in Seq(Records)
  OBVIOUS
<1>1. satb \in Seq(Records) /\ mark \in Seq(Records)
  <2>1. field[h] # Null => [kind |-> "satb", handle |-> field[h]] \in Records
    BY DEF TypeOK, Records
  <2>2. [kind |-> "mark", handle |-> v] \in Records
    BY DEF Records
  <2>3. QED
    BY <1>0, <2>1, <2>2
<1>2. slot \in Seq(Records) /\ owner \in Seq(Records)
  <2>1. [kind |-> "slot", handle |-> h, addr |-> addr[h]] \in Records
    BY DEF TypeOK, Records
  <2>2. [kind |-> "owner", handle |-> h] \in Records
    BY DEF Records
  <2>3. QED
    BY <1>0, <2>1, <2>2
<1>3. BarrierRecords(op, h, v) = satb \o mark \o slot \o owner
  BY DEF BarrierRecords
<1>4. v # Null
  BY ZgcAssumption
<1>5. /\ op = "slot" => slot = <<[kind |-> "slot", handle |-> h, addr |-> addr[h]]>>
      /\ op = "proto" => owner = <<[kind |-> "owner", handle |-> h]>>
  BY <1>4
<1> HIDE DEF satb, mark, slot, owner
<1>6. ASSUME NEW s \in Seq(Records), NEW t \in Seq(Records)
      PROVE  /\ s \o t \in Seq(Records)
             /\ \A i \in DOMAIN s : i \in DOMAIN (s \o t) /\ (s \o t)[i] = s[i]
             /\ \A i \in DOMAIN t : Len(s) + i \in DOMAIN (s \o t) /\ (s \o t)[Len(s) + i] = t[i]
  <2>1. Len(s) \in Nat /\ Len(t) \in Nat /\ DOMAIN s = 1..Len(s) /\ DOMAIN t = 1..Len(t)
    OBVIOUS
  <2>2. s \o t \in Seq(Records) /\ Len(s \o t) = Len(s) + Len(t)
    OBVIOUS
  <2>3. DOMAIN (s \o t) = 1..(Len(s) + Len(t))
    BY <2>2
  <2>4. \A i \in 1..Len(s) : (s \o t)[i] = s[i]
    BY <2>1
  <2>5. \A i \in 1..Len(t) : (s \o t)[Len(s) + i] = t[i]
    BY <2>1
  <2>6. QED
    BY <2>1, <2>2, <2>3, <2>4, <2>5
<1>7. ASSUME NEW s \in Seq(Records), NEW t \in Seq(Records),
             \/ \E i \in DOMAIN s : Names(s[i], h)
             \/ \E i \in DOMAIN t : Names(t[i], h)
      PROVE  \E i \in DOMAIN (s \o t) : Names((s \o t)[i], h)
  <2>1. CASE \E i \in DOMAIN s : Names(s[i], h)
    <3>1. PICK i \in DOMAIN s : Names(s[i], h)
      BY <2>1
    <3>2. i \in DOMAIN (s \o t) /\ (s \o t)[i] = s[i]
      BY <1>6
    <3>3. QED
      BY <3>1, <3>2
  <2>2. CASE \E i \in DOMAIN t : Names(t[i], h)
    <3>1. PICK i \in DOMAIN t : Names(t[i], h)
      BY <2>2
    <3>2. Len(s) + i \in DOMAIN (s \o t) /\ (s \o t)[Len(s) + i] = t[i]
      BY <1>6
    <3>3. QED
      BY <3>1, <3>2
  <2>3. QED
    BY <1>7, <2>1, <2>2
<1>8. satb \o mark \in Seq(Records) /\ satb \o mark \o slot \in Seq(Records)
  BY <1>1, <1>2, <1>6
<1>9. CASE op = "slot"
  <2>1. \E i \in DOMAIN slot : Names(slot[i], h)
    <3>1. 1 \in DOMAIN slot /\ Names(slot[1], h)
      BY <1>5, <1>9 DEF Names
    <3>2. QED
      BY <3>1
  <2>2. \E i \in DOMAIN (satb \o mark \o slot) : Names((satb \o mark \o slot)[i], h)
    BY <1>2, <1>7, <1>8, <2>1
  <2>3. QED
    BY <1>2, <1>3, <1>7, <1>8, <2>2
<1>10. CASE op = "proto"
  <2>1. \E i \in DOMAIN owner : Names(owner[i], h)
    <3>1. 1 \in DOMAIN owner /\ Names(owner[1], h)
      BY <1>5, <1>10 DEF Names
    <3>2. QED
      BY <3>1
  <2>2. QED
    BY <1>2, <1>3, <1>7, <1>8, <2>1
<1>11. QED
  BY <1>9, <1>10

\* A barrier has the edge of its store among its records.
LEMMA StoreBarrierKeepsEdges ==
  ASSUME IInv, MarkInv, EdgesInv, NEW op \in {"slot", "proto"}, NEW h \in Handles,
         NEW v \in Handles \cup {Null}, StoreBarrier(op, h, v)
  PROVE  EdgesInv'
<1> USE DEF heapVars, remVars, ringVars
<1>0. /\ TypeOK /\ mut = Ready /\ UNCHANGED <<entry, addr, field, local, ring, owners, slots>>
      /\ mut' = [pc |-> "barrier", todo |-> BarrierRecords(op, h, v), owner |-> h, value |-> v]
  BY DEF IInv, StoreBarrier, Operation, Running
<1>1. HC!Reachable' \subseteq HC!Reachable
  BY <1>0, ReachableStays
<1>2. \A k : Remembered(k, ring)' = Remembered(k, ring) /\ PointsToYoung(k)' = PointsToYoung(k)
  BY <1>0 DEF Remembered, Names, PointsToYoung, Word, Live
<1>3. EdgesRemembered'
  BY <1>0, <1>1, <1>2 DEF EdgesInv, EdgesRemembered
<1>4. StoreRemembered'
  <2> SUFFICES ASSUME entry[h] = "old", v # Null, entry[v] = "young"
               PROVE  Remembered(mut.owner, OpenRecords)'
    BY <1>0 DEF StoreRemembered
  <2>1. PICK i \in DOMAIN BarrierRecords(op, h, v) : Names(BarrierRecords(op, h, v)[i], h)
    BY <1>0, EdgeIsRecorded
  <2>2. PICK r \in OpenRecords' : Names(r, h)
    BY <1>0, <2>1 DEF OpenRecords, Todo
  <2>3. QED
    BY <1>0, <2>2 DEF Remembered, Names
<1>5. QED
  BY <1>3, <1>4 DEF EdgesInv

\* A store makes the edge its barrier remembered.
LEMMA StoreKeepsEdges ==
  ASSUME IInv, MarkInv, EdgesInv, Store
  PROVE  EdgesInv'
<1> USE DEF remVars, ringVars
<1>0. PICK o \in Handles, v \in Handles \cup {Null} :
        /\ o = mut.owner /\ v = mut.value /\ mut.pc = "barrier" /\ mut.todo = <<>>
        /\ field' = [field EXCEPT ![o] = v] /\ mut' = Ready
        /\ UNCHANGED <<entry, addr, local, ring, owners, slots>>
  BY MutatorTypes DEF IInv, TypeOK, Store
<1>1. TypeOK /\ o \in HC!Reachable /\ v \in HC!Reachable \cup {Null}
  BY <1>0, ReachableClosed DEF IInv, MarkInv, StoreShaded
<1>2. HC!Reachable' \subseteq HC!Reachable
  BY <1>0, <1>1, ReachableStored
<1>3. OpenRecords = ring
  BY <1>0 DEF OpenRecords, Todo
<1>4. \A k : Remembered(k, ring)' = Remembered(k, ring)
  BY <1>0 DEF Remembered, Names
<1>5. ASSUME NEW k \in HC!Reachable', entry'[k] = "old", PointsToYoung(k)'
      PROVE  Remembered(k, ring)
  <2>1. CASE k = o
    <3>1. PICK y \in Word(o)' : entry'[y] = "young"
      BY <1>5, <2>1 DEF PointsToYoung
    <3>2. y = v /\ v # Null /\ entry[v] = "young" /\ entry[o] = "old"
      BY <1>0, <1>1, <1>5, <2>1, <3>1 DEF Word, TypeOK
    <3>3. QED
      BY <1>0, <1>3, <2>1, <3>2 DEF EdgesInv, StoreRemembered
  <2>2. CASE k # o
    <3>1. Word(k)' = Word(k) /\ k \in HC!Reachable /\ entry[k] = "old"
      BY <1>0, <1>1, <1>2, <1>5, <2>2, ReachableClosed DEF Word, Live, TypeOK
    <3>2. PointsToYoung(k)
      BY <1>0, <1>5, <3>1 DEF PointsToYoung
    <3>3. QED
      BY <3>1, <3>2 DEF EdgesInv, EdgesRemembered
  <2>3. QED
    BY <2>1, <2>2
<1>6. StoreRemembered'
  BY <1>0 DEF StoreRemembered, Ready
<1>7. QED
  BY <1>4, <1>5, <1>6 DEF EdgesInv, EdgesRemembered

\* A record goes to the ring, or into the remembered set.
LEMMA PushRecordKeepsEdges ==
  ASSUME IInv, MarkInv, EdgesInv, OldStay, PushRecord
  PROVE  EdgesInv'
<1> USE DEF heapVars, remVars, ringVars
<1>0. TypeOK /\ mut \in MutatorStates /\ mut.pc = "barrier"
  BY DEF IInv, TypeOK, PushRecord
<1>1. PICK r \in Records : r = Head(mut.todo)
  BY <1>0, MutatorTypes DEF PushRecord
<1>2. /\ mut'.pc \in {"barrier", "assist"} /\ mut'.todo = Tail(mut.todo)
      /\ mut'.owner = mut.owner /\ mut'.value = mut.value
  BY <1>0, MutatorTypes DEF PushRecord
<1>3. Todo = {r} \cup Todo'
  <2>1. mut.todo \in Seq(Records) /\ mut.todo # <<>>
    BY <1>0, MutatorTypes DEF PushRecord
  <2>2. Todo = {Head(mut.todo)} \cup {Tail(mut.todo)[i] : i \in DOMAIN Tail(mut.todo)}
    BY <2>1, HeadAndTail DEF Todo
  <2>3. Todo' = {Tail(mut.todo)[i] : i \in DOMAIN Tail(mut.todo)}
    BY <1>2 DEF Todo
  <2>4. QED
    BY <1>1, <2>2, <2>3
<1>4. /\ UNCHANGED <<entry, field, local>> /\ ring \subseteq ring'
      /\ owners \subseteq owners' /\ slots \subseteq slots'
      /\ r \in ring' \/ Taken(r)'
  <2>1. UNCHANGED <<entry, field, local>>
    BY DEF PushRecord
  <2>2. CASE ringLen < RingCapacity
    BY <1>1, <2>2 DEF PushRecord
  <2>3. CASE ~(ringLen < RingCapacity)
    <3>1. UNCHANGED ring /\ Remember({r})
      BY <1>1, <2>3 DEF PushRecord
    <3>2. QED
      BY <2>1, <3>1 DEF Remember, Taken
  <2>4. QED
    BY <2>1, <2>2, <2>3
<1>5. \A s \in OpenRecords : s \in OpenRecords' \/ Taken(s)'
  <2>1. OpenRecords = ring \cup {r} \cup Todo' /\ OpenRecords' = ring' \cup Todo'
    BY <1>0, <1>2, <1>3 DEF OpenRecords
  <2>2. QED
    BY <1>4, <2>1
<1>6. HC!Reachable' \subseteq HC!Reachable
  BY <1>0, <1>4, ReachableStays
<1>7. QED
  BY <1>0, <1>2, <1>4, <1>5, <1>6, EdgesKept

\* A young mark forgets the slots and owners that have no young word left.
LEMMA BeginMarkKeepsEdges ==
  ASSUME IInv, MarkInv, EdgesInv, NEW g \in {"young", "full"}, BeginMark(g)
  PROVE  EdgesInv'
<1> USE DEF heapVars, ringVars
<1>0. /\ TypeOK /\ UNCHANGED <<entry, addr, field, local, ring>> /\ mut'.pc = "submit"
      /\ slots' \in {slots, KeptSlots} /\ owners' \in {owners, KeptOwners}
  BY DEF IInv, BeginMark, SubmitAll
<1>1. HC!Reachable' \subseteq HC!Reachable
  BY <1>0, ReachableStays
<1>2. \A k : PointsToYoung(k)' = PointsToYoung(k)
  BY <1>0 DEF PointsToYoung, Word, Live
<1>3. ASSUME NEW k \in HC!Reachable', entry'[k] = "old", PointsToYoung(k)'
      PROVE  Remembered(k, ring)'
  <2>1. Remembered(k, ring) /\ entry[k] = "old" /\ PointsToYoung(k)
    BY <1>0, <1>1, <1>2, <1>3 DEF EdgesInv, EdgesRemembered
  <2>2. /\ k \in owners => k \in owners'
        /\ <<k, addr[k]>> \in slots => <<k, addr[k]>> \in slots'
    BY <1>0, <2>1 DEF KeptSlots, KeptOwners
  <2>3. QED
    BY <1>0, <2>1, <2>2 DEF Remembered, Names
<1>4. StoreRemembered'
  BY <1>0 DEF StoreRemembered
<1>5. QED
  BY <1>3, <1>4 DEF EdgesInv, EdgesRemembered

\* Every step that moves no old object keeps the edges remembered.
LEMMA EdgesStep ==
  ASSUME IInv, MarkInv, EdgesInv, OldStay, ~failed', [Next]_vars
  PROVE  EdgesInv'
<1>1. CASE UNCHANGED vars
  <2> USE DEF vars, heapVars, ringVars, remVars, mutVars
  <2>1. TypeOK /\ HC!Reachable' \subseteq HC!Reachable
    BY <1>1, ReachableStays DEF IInv
  <2>2. QED
    BY <1>1, <2>1, EdgesStay
<1>2. CASE MutatorStep
  <2>1. (\/ \E q \in Queues, h \in Handles : Pop(Mutator, q, h)
         \/ TryMark(Mutator) \/ Scan(Mutator)) => EdgesInv'
    BY MarkersKeepEdges DEF Markers
  <2>2. QED
    BY <1>2, <2>1, ProgramKeepsEdges, AllocateKeepsEdges, StoreBarrierKeepsEdges,
       PushRecordKeepsEdges, StoreKeepsEdges DEF MutatorStep
<1>3. CASE CollectFull
  BY <1>3, ProgramKeepsEdges
<1>4. CASE Safepoint
  BY <1>4, BeginMarkKeepsEdges, ProgramKeepsEdges, SafepointKeepsEdges DEF Safepoint
<1>5. ASSUME NEW w \in Workers, WorkerStep(w) PROVE EdgesInv'
  <2>1. (\/ \E q \in Queues, h \in Handles : Pop(w, q, h)
         \/ TryMark(w) \/ Scan(w)) => EdgesInv'
    BY MarkersKeepEdges DEF Markers
  <2>2. QED
    BY <1>5, <2>1, WorkersKeepEdges DEF WorkerStep
<1>6. QED
  BY <1>1, <1>2, <1>3, <1>4, <1>5 DEF Next

\* The first objects are remembered as owners.
LEMMA InitEdges == Init => EdgesInv
<1> SUFFICES ASSUME Init PROVE EdgesInv
  OBVIOUS
<1>1. owners = {h \in Handles : entry[h] = "old" /\ PointsToYoung(h)} /\ mut = Ready
  BY DEF Init, PointsToYoung
<1>2. QED
  BY <1>1 DEF EdgesInv, EdgesRemembered, Remembered, StoreRemembered, Ready,
              HC!Reachable

-----------------------------------------------------------------------------
(* What the collector promises. *)

\* A behaviour in which the collector reports no error and no old object moves.
Undisturbed == [](~failed) /\ [][OldStay]_vars

\* The collector's inductive invariant.
CInv == IInv /\ MarkInv /\ EdgesInv

\* Together the three invariants are inductive.
LEMMA CollectorInvariance ==
  ASSUME Restrained
  PROVE  Spec /\ Undisturbed => []CInv
<1>1. Init => CInv
  BY InitInv, InitMarks, InitEdges DEF CInv
<1>2. CInv /\ [Next]_vars /\ ~failed' /\ [OldStay]_vars => CInv'
  <2> SUFFICES ASSUME CInv, [Next]_vars, ~failed', [OldStay]_vars
               PROVE  CInv'
    OBVIOUS
  <2>1. OldStay
    BY DEF OldStay, vars, heapVars
  <2>2. IInv'
    BY StepKeeps DEF CInv
  <2>3. MarkInv'
    BY <2>2, MarkStep DEF CInv, EdgesInv
  <2>4. EdgesInv'
    BY <2>1, EdgesStep DEF CInv
  <2>5. QED
    BY <2>2, <2>3, <2>4 DEF CInv
<1>3. QED
  BY <1>1, <1>2, PTL DEF Spec, Undisturbed

\* When the sweep begins, the markers have found every object of the collected
\* generation that the program can still reach.
THEOREM MarkersFindAll ==
  ASSUME Restrained
  PROVE  Spec /\ Undisturbed => []MarkComplete
<1>1. CInv => MarkComplete
  BY DEF CInv, MarkInv
<1>2. QED
  BY <1>1, CollectorInvariance, PTL

\* Every old-to-young edge the program can follow is in the remembered set, or
\* its record is in the ring: a young mark, which does not scan old objects,
\* begins with all it needs of them.
THEOREM EdgesAreRemembered ==
  ASSUME Restrained
  PROVE  Spec /\ Undisturbed => []EdgesRemembered
<1>1. CInv => EdgesRemembered
  BY DEF CInv, EdgesInv
<1>2. QED
  BY <1>1, CollectorInvariance, PTL

\* No reference the program can follow leads to a retired or a free handle.
THEOREM NothingReachableDies ==
  ASSUME Restrained
  PROVE  Spec /\ Undisturbed => []ReachableIsLive
<1>1. CInv => ReachableIsLive
  BY DEF CInv, MarkInv
<1>2. QED
  BY <1>1, CollectorInvariance, PTL

-----------------------------------------------------------------------------
(* Each step of the collector is one of the contract's, or none. *)

\* A step that neither changes references nor lives does nothing to the contract.
LEMMA HeapStays ==
  ASSUME UNCHANGED <<field, local>>, \A h \in Handles : Live(h)' = Live(h)
  PROVE  UNCHANGED HC!vars
<1>1. {h \in Handles : Live(h)}' = {h \in Handles : Live(h)}
  OBVIOUS
<1>2. QED
  BY <1>1 DEF HC!vars

\* What a cycle takes back is out of reach.
LEMMA HeapCollected ==
  ASSUME TypeOK, MarkInv, UNCHANGED local, field' \in [Handles -> Handles \cup {Null}],
         \A h \in HC!Reachable : entry'[h] = entry[h],
         \A h \in Handles : Live(h)' => Live(h) /\ field'[h] = field[h]
  PROVE  HC!Collect
<1>1. HC!Reachable \subseteq {h \in Handles : Live(h)}'
  <2>1. \A h \in HC!Reachable : h \in Handles /\ Live(h)
    BY ReachableClosed DEF MarkInv, ReachableIsLive, HC!NoDanglingReference
  <2>2. QED
    BY <2>1 DEF Live
<1>2. {h \in Handles : Live(h)}' \subseteq {h \in Handles : Live(h)}
  OBVIOUS
<1>3. \A h \in {k \in Handles : Live(k)}' : field'[h] = field[h]
  OBVIOUS
<1>4. QED
  BY <1>1, <1>2, <1>3 DEF HC!Collect

\* The program's operations are those of the contract.
LEMMA ProgramImplements ==
  ASSUME IInv, MarkInv,
         \/ \E l, m \in Locals : Load(l, m)
         \/ \E l \in Locals : Drop(l)
         \/ \E l \in Locals, h \in Handles : Allocate(l, h)
         \/ Store
  PROVE  HC!Next
<1> USE DEF heapVars
<1>0. TypeOK
  BY DEF IInv
<1>1. UNCHANGED entry => {h \in Handles : Live(h)}' = {h \in Handles : Live(h)}
  BY DEF Live
<1>2. ASSUME NEW l \in Locals, NEW m \in Locals, Load(l, m) PROVE HC!Load(l, m)
  BY <1>1, <1>2 DEF Load, HC!Load
<1>3. ASSUME NEW l \in Locals, Drop(l) PROVE HC!Drop(l)
  BY <1>1, <1>3 DEF Drop, HC!Drop
<1>4. ASSUME NEW l \in Locals, NEW h \in Handles, Allocate(l, h) PROVE HC!Allocate(l, h)
  <2>1. /\ entry[h] = "free" /\ entry' = [entry EXCEPT ![h] = "young"]
        /\ field' = [field EXCEPT ![h] = Null] /\ local' = [local EXCEPT ![l] = h]
    BY <1>4 DEF Allocate
  <2>2. ~Live(h) /\ Live(h)' /\ \A k \in Handles \ {h} : Live(k)' = Live(k)
    BY <1>0, <2>1 DEF Live, TypeOK
  <2>3. {k \in Handles : Live(k)}' = {k \in Handles : Live(k)} \cup {h}
    BY <2>2
  <2>4. QED
    BY <2>1, <2>2, <2>3 DEF HC!Allocate
<1>5. ASSUME Store PROVE \E h \in Handles, v \in Handles \cup {Null} : HC!Store(h, v)
  <2>1. PICK o \in Handles, v \in Handles \cup {Null} :
          /\ o = mut.owner /\ v = mut.value /\ mut.pc = "barrier"
          /\ field' = [field EXCEPT ![o] = v] /\ UNCHANGED <<entry, local>>
    BY <1>0, <1>5, MutatorTypes DEF TypeOK, Store
  <2>2. o \in HC!Reachable /\ v \in HC!Reachable \cup {Null}
    BY <1>0, <2>1, ReachableClosed DEF MarkInv, StoreShaded
  <2>3. HC!Store(o, v)
    BY <1>1, <2>1, <2>2 DEF HC!Store
  <2>4. QED
    BY <2>3
<1>6. QED
  BY <1>2, <1>3, <1>4, <1>5 DEF HC!Next

\* The end of a sweep and of a relocation are collections of garbage.
LEMMA CyclesCollect ==
  ASSUME IInv, MarkInv, ~failed', PollSelect \/ PollRelocate
  PROVE  HC!Collect
<1> USE DEF heapVars
<1>0. TypeOK
  BY DEF IInv
<1>1. \A h \in HC!Reachable : h \in Handles /\ Live(h)
  BY <1>0, ReachableClosed DEF MarkInv, ReachableIsLive, HC!NoDanglingReference
<1>2. ASSUME NEW entries \in [Handles -> {"free", "young", "old", "retired"}],
             \A h \in Handles : entries[h] = entry[h] \/ entries[h] = "retired",
             \A h \in HC!Reachable : entries[h] = entry[h],
             UNCHANGED local,
             Reclaimed(entries) \/ (entry' = entries /\ UNCHANGED field)
      PROVE  HC!Collect
  <2>1. field' \in [Handles -> Handles \cup {Null}]
    BY <1>0, <1>2 DEF Reclaimed, TypeOK
  <2>2. \A h \in HC!Reachable : entry'[h] = entry[h]
    BY <1>1, <1>2 DEF Reclaimed, Live
  <2>3. \A h \in Handles : Live(h)' => Live(h) /\ field'[h] = field[h]
    BY <1>2 DEF Reclaimed, Live
  <2>4. QED
    BY <1>0, <1>2, <2>1, <2>2, <2>3, HeapCollected
<1>3. CASE PollSelect
  <2> DEFINE retired == [h \in Handles |-> IF h \in Doomed THEN "retired" ELSE entry[h]]
  <2>1. /\ "main" \notin errors /\ phase = "select" /\ UNCHANGED local
    BY <1>3 DEF PollSelect, MarkInv, CyclesInTurn
  <2>2. Doomed \cap HC!Reachable = {}
    BY <2>1, DoomedAreGarbage
  <2>3. retired \in [Handles -> {"free", "young", "old", "retired"}]
    BY <1>0 DEF TypeOK
  <2>4. /\ \A h \in Handles : retired[h] = entry[h] \/ retired[h] = "retired"
        /\ \A h \in HC!Reachable : retired[h] = entry[h]
    BY <1>1, <2>2
  <2>5. Reclaimed(retired) \/ (entry' = retired /\ UNCHANGED field)
    BY <1>3, <2>1 DEF PollSelect, FinishCycle
  <2> HIDE DEF retired
  <2>6. QED
    BY <1>2, <2>1, <2>3, <2>4, <2>5
<1>4. CASE PollRelocate
  <2>1. Reclaimed(entry) /\ UNCHANGED local
    BY <1>4 DEF PollRelocate, FinishCycle
  <2>2. entry \in [Handles -> {"free", "young", "old", "retired"}]
    BY <1>0 DEF TypeOK
  <2>3. QED
    BY <1>2, <2>1, <2>2
<1>5. QED
  BY <1>3, <1>4

\* Every step is one of the contract's or leaves its objects alone.
LEMMA ImplementsStep ==
  ASSUME IInv, MarkInv, ~failed', [Next]_vars
  PROVE  [HC!Next]_(HC!vars)
<1> USE DEF heapVars
<1>1. ASSUME UNCHANGED <<entry, field, local>> PROVE UNCHANGED HC!vars
  BY <1>1, HeapStays DEF Live
<1>2. CASE UNCHANGED vars
  BY <1>1, <1>2 DEF vars
<1>3. CASE MutatorStep
  <2>1. CASE \/ \E l, m \in Locals : Load(l, m)
             \/ \E l \in Locals : Drop(l)
             \/ \E l \in Locals, h \in Handles : Allocate(l, h)
             \/ Store
    BY <2>1, ProgramImplements
  <2>2. ASSUME NEW q \in Queues, NEW h \in Handles, Pop(Mutator, q, h) PROVE UNCHANGED HC!vars
    BY <1>1, <2>2 DEF Pop
  <2>3. ASSUME NEW op \in {"slot", "proto"}, NEW h \in Handles, NEW v \in Handles \cup {Null},
               StoreBarrier(op, h, v) PROVE UNCHANGED HC!vars
    BY <1>1, <2>3 DEF StoreBarrier
  <2>4. ASSUME PushRecord \/ AssistDone \/ TryMark(Mutator) \/ Scan(Mutator) \/ GrowFinish
        PROVE  UNCHANGED HC!vars
    BY <1>1, <2>4 DEF PushRecord, AssistDone, TryMark, Scan, GrowFinish
  <2>5. ASSUME NEW h \in Handles, AssistMove(h) PROVE UNCHANGED HC!vars
    BY <1>1, <2>5 DEF AssistMove
  <2>6. ASSUME NEW kind \in {"object", "array"}, NEW h \in Handles, GrowPublish(kind, h)
        PROVE  UNCHANGED HC!vars
    BY <1>1, <2>6 DEF GrowPublish
  <2>7. QED
    BY <1>3, <2>1, <2>2, <2>3, <2>4, <2>5, <2>6 DEF MutatorStep
<1>4. CASE CollectFull
  BY <1>1, <1>4 DEF CollectFull
<1>5. CASE Safepoint
  <2>1. CASE PollSelect \/ PollRelocate
    BY <2>1, CyclesCollect DEF HC!Next
  <2>2. ASSUME NEW g \in {"young", "full"}, BeginMark(g) PROVE UNCHANGED HC!vars
    BY <1>1, <2>2 DEF BeginMark
  <2>3. ASSUME BeginOldMark \/ PollOldMark \/ FinishOldMark \/ PollMark \/ PollSelectWait \/ Submit
        PROVE  UNCHANGED HC!vars
    BY <1>1, <2>3 DEF BeginOldMark, PollOldMark, FinishOldMark, PollMark, PollSelectWait, Submit
  <2>4. QED
    BY <1>5, <2>1, <2>2, <2>3 DEF Safepoint
<1>6. ASSUME NEW w \in Workers, WorkerStep(w) PROVE UNCHANGED HC!vars
  <2>1. CASE ProcessPage(w)
    <3>1. /\ UNCHANGED <<field, local>>
          /\ \E promoted \in SUBSET Handles :
               entry' = [h \in Handles |-> IF h \in promoted THEN "old" ELSE entry[h]]
               /\ \A h \in promoted : Live(h)
      BY <2>1 DEF ProcessPage
    <3>2. \A h \in Handles : Live(h)' = Live(h)
      BY <3>1 DEF Live
    <3>3. QED
      BY <3>1, <3>2, HeapStays
  <2>2. ASSUME NEW q \in Queues, NEW h \in Handles, Pop(w, q, h) PROVE UNCHANGED HC!vars
    BY <1>1, <2>2 DEF Pop
  <2>3. ASSUME NEW q \in Queues, TakeDrain(w, q) PROVE UNCHANGED HC!vars
    BY <1>1, <2>3 DEF TakeDrain
  <2>4. ASSUME TakePacket(w) \/ FinishDrain(w) \/ Relocate(w) \/ TryMark(w) \/ Scan(w)
        PROVE  UNCHANGED HC!vars
    BY <1>1, <2>4 DEF TakePacket, FinishDrain, Relocate, TryMark, Scan
  <2>5. QED
    BY <1>6, <2>1, <2>2, <2>3, <2>4 DEF WorkerStep
<1>7. QED
  BY <1>2, <1>3, <1>4, <1>5, <1>6 DEF Next

\* To the program the collector is the contract of HeapContract: whatever its
\* workers do in the meantime, objects die only when they are out of reach.
THEOREM CollectorImplementsHeap ==
  ASSUME Restrained
  PROVE  Spec /\ Undisturbed => ImplementsHeap
<1>1. Init => HC!Init
  <2> SUFFICES ASSUME Init PROVE HC!Init
    OBVIOUS
  <2>1. TypeOK /\ ReachableIsLive
    BY InitInv, InitMarks DEF IInv, MarkInv
  <2>2. {h \in Handles : Live(h)} \subseteq Handles
    OBVIOUS
  <2>3. QED
    BY <2>1, <2>2 DEF HC!Init, TypeOK, ReachableIsLive, HC!NoDanglingReference
<1>2. CInv /\ ~failed' /\ [Next]_vars => [HC!Next]_(HC!vars)
  BY ImplementsStep DEF CInv
<1>3. QED
  BY <1>1, <1>2, CollectorInvariance, PTL DEF Spec, Undisturbed, ImplementsHeap, HC!Spec

-----------------------------------------------------------------------------
(* The contract is the one a program needs: whatever is loaded, stored,    *)
(* allocated and collected under it, every reference that the program can  *)
(* follow leads to an object.  Nothing here is about the collector but the *)
(* name of the objects that are live.                                      *)

Survivors == {h \in Handles : Live(h)}

HeapTypes ==
  /\ Survivors \subseteq Handles
  /\ field \in [Handles -> Handles \cup {Null}]
  /\ local \in [Locals -> Handles \cup {Null}]

HeapInv == HeapTypes /\ HC!NoDanglingReference

\* What the program can reach it can be confined to: HC!Reachable is closed.
LEMMA WithinReach ==
  ASSUME HeapTypes
  PROVE  HC!Closed(HC!Reachable)
<1>1. ASSUME NEW l \in Locals, local[l] # Null
      PROVE  local[l] \in HC!Reachable
  BY <1>1 DEF HC!Reachable, HC!Closed, HeapTypes
<1>2. ASSUME NEW h \in HC!Reachable, field[h] # Null
      PROVE  field[h] \in HC!Reachable
  BY <1>2 DEF HC!Reachable, HC!Closed, HeapTypes
<1> QED BY <1>1, <1>2 DEF HC!Closed

\* S is a set of objects to which the program is confined.
Confines(S) == S \subseteq Survivors /\ HC!Closed(S)

\* One step of the contract cannot make a reference dangle: the objects the
\* program was confined to, and a new one, confine it after the step.
LEMMA StepKeepsReferences ==
  ASSUME HeapInv, [HC!Next]_(HC!vars)
  PROVE  HeapInv'
<1>1. HeapTypes'
  BY DEF Survivors, HeapInv, HC!Next, HC!vars, HC!Load, HC!Drop, HC!Store, HC!Allocate, HC!Collect, HeapTypes, HC!Reachable
<1>2. PICK R \in SUBSET Handles : R = HC!Reachable /\ R \subseteq Survivors /\ HC!Closed(R)
  BY WithinReach DEF Survivors, HC!Reachable, HeapInv, HC!NoDanglingReference
<1>3. \E S \in SUBSET Handles : Confines(S)'
  <2>1. ASSUME NEW l \in Locals, NEW m \in Locals, HC!Load(l, m)
        PROVE  Confines(R)'
    BY <2>1, <1>2 DEF Survivors, HC!Load, Confines, HC!Closed, HeapInv, HeapTypes
  <2>2. ASSUME NEW l \in Locals, HC!Drop(l)
        PROVE  Confines(R)'
    BY <2>2, <1>2 DEF Survivors, HC!Drop, Confines, HC!Closed, HeapInv, HeapTypes
  <2>3. ASSUME NEW h \in Handles, NEW v \in Handles \cup {Null}, HC!Store(h, v)
        PROVE  Confines(R)'
    BY <2>3, <1>2 DEF Survivors, HC!Store, Confines, HC!Closed, HeapInv, HeapTypes
  <2>4. ASSUME NEW l \in Locals, NEW h \in Handles, HC!Allocate(l, h)
        PROVE  \E S \in SUBSET Handles : Confines(S)'
    <3>1. Confines(R \cup {h})'
      BY <2>4, <1>2 DEF Survivors, HC!Allocate, Confines, HC!Closed, HeapInv, HeapTypes
    <3> QED BY <3>1
  <2>5. CASE HC!Collect
    BY <2>5, <1>2 DEF Survivors, HC!Collect, Confines, HC!Closed, HeapInv, HeapTypes
  <2>6. CASE UNCHANGED HC!vars
    BY <2>6, <1>2 DEF Survivors, HC!vars, Confines, HC!Closed
  <2> QED BY <2>1, <2>2, <2>3, <2>4, <2>5, <2>6, <1>2 DEF HC!Next
<1>4. HC!NoDanglingReference'
  BY <1>3 DEF Survivors, HC!NoDanglingReference, HC!Reachable, Confines, HC!Closed
<1> QED BY <1>1, <1>4 DEF HeapInv

\* The object a program follows a reference to is still there, in every
\* behaviour the contract allows, whoever implements it: what the collector of
\* zgc/runtime.rs owes.
THEOREM ContractSafe == HC!Spec => []HC!NoDanglingReference
<1>1. HC!Init => HeapInv
  BY DEF Survivors, HC!Init, HeapInv, HeapTypes, HC!NoDanglingReference
<1>2. HeapInv /\ [HC!Next]_(HC!vars) => HeapInv'
  BY StepKeepsReferences
<1>3. HeapInv => HC!NoDanglingReference
  BY DEF HeapInv
<1> QED BY <1>1, <1>2, <1>3, PTL DEF HC!Spec

=============================================================================
