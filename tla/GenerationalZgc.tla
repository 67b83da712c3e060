--------------------------- MODULE GenerationalZgc ---------------------------
(***************************************************************************)
(* The concurrent generational collector of crates/wjsm-gc: one mutator    *)
(* (the agent's thread, which also drives the cycle at its safepoints) and *)
(* GC workers that mark, sweep pages and relocate between two safepoints.  *)
(* Young and full cycles go through RuntimeState (the "main" queue); an    *)
(* old mark runs beside them through OldMarkState (the "old" queue).       *)
(*                                                                         *)
(* One reference word per object stands for a value slot or the prototype. *)
(* An object's address is a counter: it changes when the object moves, and *)
(* a copy is one step (ConcurrentRelocation has its words).  Mark bitmaps, *)
(* remembered slots and a worker's resolved address are about addresses,   *)
(* everything else about handles.  Colors are left out: store_reference    *)
(* decides from the mark bitmaps and the epoch flags only.  The queues are *)
(* sets (any order).  Host values, host edges and ephemerons are left out. *)
(***************************************************************************)
EXTENDS Integers, FiniteSets, Sequences

CONSTANTS
  Handles,          (* handle table entries                                  *)
  Locals,           (* the mutator's rooted references                       *)
  Workers,          (* GC workers (production: one)                          *)
  Mutator,          (* the agent's thread                                    *)
  Null,             (* a word that is not a handle-backed reference          *)
  Pages,            (* heap pages                                            *)
  PageOf,           (* the page of each object                               *)
  RingCapacity,     (* barrier records before a store must assist            *)
  PacketCapacity,   (* slots of the worker pool's packet slab                *)
  OldBudget,        (* OLD_MARK_PACKET_BUDGET                                *)
  MaxMoves,         (* bound: how often an object moves                      *)
  MaxFlushes,       (* bound: packets of flushes that wait for a worker      *)
  MaxOps,           (* bound: operations of the mutator in a behaviour       *)
  InitialHeaps,     (* heaps a behaviour starts with                         *)
  Cycles,           (* the collections that may be started                   *)
  Excluded          (* mutator behaviours a run leaves out                   *)

ASSUME ZgcAssumption ==
  /\ Null \notin Handles /\ Mutator \notin Workers
  /\ IsFiniteSet(Handles) /\ IsFiniteSet(Locals) /\ IsFiniteSet(Pages)
  /\ IsFiniteSet(Workers)
  /\ PageOf \in [Handles -> Pages]
  /\ RingCapacity \in Nat \ {0} /\ PacketCapacity \in Nat \ {0}
  /\ OldBudget \in Nat \ {0} /\ MaxMoves \in Nat /\ MaxFlushes \in Nat \ {0}
  /\ MaxOps \in Nat
  /\ InitialHeaps \subseteq [entry : [Handles -> {"free", "young", "old"}],
       field : [Handles -> Handles \cup {Null}], local : [Locals -> Handles \cup {Null}]]
  /\ \A heap \in InitialHeaps :
       /\ \A h \in Handles : heap.field[h] # Null =>
            heap.entry[h] # "free" /\ heap.entry[heap.field[h]] # "free"
       /\ \A l \in Locals : heap.local[l] # Null => heap.entry[heap.local[l]] # "free"
  /\ Cycles \subseteq {"young", "old", "full"}
  /\ Excluded \subseteq {"arrayGrowth", "objectGrowth", "youngPaths"}

Queues == {"main", "old"}
Markers == Workers \cup {Mutator}
Addresses == 0..MaxMoves

VARIABLES
  (* the heap *)
  entry,            (* handle table state of each handle                     *)
  age,              (* survived young cycles, in the object header           *)
  addr,             (* current address of each object                        *)
  field,            (* the reference word of each object                     *)
  local,            (* the mutator's roots                                   *)
  (* barrier and mark state *)
  marks,            (* young and old mark bitmaps: sets of <<handle, addr>>  *)
  marking,          (* BarrierEpoch.young_marking / old_marking              *)
  ring,             (* the barrier records not yet drained                   *)
  ringLen,          (* how many pushes those are                             *)
  slots,            (* remembered_slots                                      *)
  owners,           (* remembered_owners                                     *)
  (* RuntimeState and OldMarkState *)
  phase, generation,
  pending,          (* grey objects of each queue                            *)
  bridges,          (* bridge_handles of each queue                          *)
  oldActive,        (* OldMarkState.active                                   *)
  errors,           (* queues with a worker_error                            *)
  candidates,       (* retired_handles: unmarked objects the sweep found     *)
  selected,         (* relocation_handles                                    *)
  moving,           (* objects with an undone relocation descriptor          *)
  (* worker pool *)
  queue,            (* root, page and relocation packets in the pool         *)
  drains,           (* BitmapWordRange packets in the pool, per queue        *)
  job,              (* the packet each worker runs                           *)
  hand,             (* the object each marker works on                       *)
  (* the mutator *)
  mut,              (* where the mutator is in a multi-step operation        *)
  full,             (* is it inside collect_full?                            *)
  failed,           (* history: has the collector reported an error?         *)
  ops               (* history: operations of the mutator                    *)

heapVars == <<entry, age, addr, field>>
markVars == <<marks, marking>>
ringVars == <<ring, ringLen>>
remVars == <<slots, owners>>
cycleVars == <<phase, generation, oldActive>>
sweepVars == <<candidates, selected, moving>>
packetVars == <<queue, drains, job>>
mutVars == <<mut, full, failed, ops>>
vars == <<heapVars, local, markVars, ringVars, remVars, cycleVars, pending, bridges,
          errors, sweepVars, packetVars, hand, mutVars>>

None == [kind |-> "none"]
Ready == [pc |-> "run"]

Live(h) == entry[h] \in {"young", "old"}
Word(h) == IF Live(h) THEN {field[h]} \ {Null} ELSE {}
IsMarked(h, g) == <<h, addr[h]>> \in marks[g]
Includes(collection, g) == collection = "full" \/ collection = g

Roots == {local[l] : l \in Locals} \ {Null}

\* The epoch flag a collection raises: flip_young or flip_old.
EpochOf(collection) == IF collection = "young" THEN "young" ELSE "old"

-----------------------------------------------------------------------------
(* The worker pool, seen from the collector: WorkerPool models its inside. *)

Busy(q) == {w \in Workers : job[w] # None /\ (job[w].kind = "oldDrain") = (q = "old")}

\* Mutant: a packet that failed is never counted down.
InFlight_Leaks(q) ==
  drains[q] + Cardinality(Busy(q)) +
  (IF q = "main" THEN Cardinality(queue \cup {w \in Workers : job[w] = None}) ELSE 0)

InFlight(q) ==
  drains[q] + Cardinality(Busy(q)) + (IF q = "main" THEN Cardinality(queue) ELSE 0)
Room(n) == InFlight("main") + InFlight("old") + n <= PacketCapacity

\* The collector's `?`: an error ends the safepoint, and collect_full with it.
Fail == failed' = TRUE /\ full' = FALSE

\* submit_pending_packet, then submit_old_mark_packet, for the queues in qs.
SubmitDrains(qs) ==
  /\ drains' = [q \in Queues |-> drains[q] +
       IF q \in qs /\ Room(IF q = "old" THEN Cardinality(qs) ELSE 1) THEN 1 ELSE 0]
  /\ IF Room(Cardinality(qs)) THEN UNCHANGED <<full, failed>> ELSE Fail

\* One of the packets a safepoint hands to the pool; the rest is lost on an error.
Submit ==
  /\ mut.pc = "submit"
  /\ IF mut.todo = {} THEN mut' = Ready /\ UNCHANGED <<queue, drains, full, failed>>
     ELSE \E p \in mut.todo :
       IF ~Room(1) THEN mut' = Ready /\ Fail /\ UNCHANGED <<queue, drains>>
       ELSE /\ mut' = [mut EXCEPT !.todo = @ \ {p}]
            /\ IF p.kind = "drain"
               THEN drains' = [drains EXCEPT !["main"] = @ + 1] /\ UNCHANGED queue
               ELSE queue' = queue \cup {p} /\ UNCHANGED drains
            /\ UNCHANGED <<full, failed>>
  /\ UNCHANGED <<heapVars, local, markVars, ringVars, remVars, cycleVars, pending,
                 bridges, errors, sweepVars, job, hand, ops>>

-----------------------------------------------------------------------------
(* Barrier records and where they are routed *)

RecordWords(r) ==
  CASE r.kind \in {"satb", "mark"} -> {r.handle}
    [] r.kind = "slot" -> IF r.addr = addr[r.handle] THEN Word(r.handle) ELSE {}
    [] r.kind = "owner" -> Word(r.handle)

\* route_assist_value and the closure `route` of flush_barriers.
Routed(q, records) ==
  LET words == UNION {RecordWords(r) : r \in records}
  IN {v \in words : CASE q = "main" -> /\ phase = "mark" /\ Live(v)
                                      /\ Includes(generation, entry[v])
                      [] q = "old" -> oldActive /\ entry[v] = "old"}

Remember(records) ==
  /\ slots' = slots \cup {<<r.handle, r.addr>> : r \in {s \in records : s.kind = "slot"}}
  /\ owners' = owners \cup {r.handle : r \in {s \in records : s.kind = "owner"}}

\* Mutant: the flush drops the records instead of routing them.
Flush_Unrouted ==
  /\ Remember(ring) /\ ring' = {} /\ ringLen' = 0 /\ UNCHANGED pending

\* flush_barriers: a failing submit_pending_packet loses the old half.
Flush ==
  /\ Remember(ring)
  /\ ring' = {} /\ ringLen' = 0
  /\ LET main == Routed("main", ring)
     IN pending' = [main |-> pending["main"] \cup main,
                    old |-> IF main # {} /\ ~Room(1) THEN pending["old"]
                            ELSE pending["old"] \cup Routed("old", ring)]

\* Mutant: safepoints submit no packet for the old mark.
NeedsOldPacket_Never == FALSE

\* continue_old_mark, after the flush.
NeedsOldPacket ==
  oldActive /\ InFlight("old") = 0 /\ (pending["old"] \cup Routed("old", ring)) # {}

-----------------------------------------------------------------------------
(* Initial states: between two collections, with the owners of old-to-young *)
(* edges remembered, as their promotion leaves them.                        *)

Init ==
  /\ \E heap \in InitialHeaps :
       entry = heap.entry /\ field = heap.field /\ local = heap.local
  /\ age = [h \in Handles |-> 0] /\ addr = [h \in Handles |-> 0]
  /\ marks = [g \in {"young", "old"} |-> {}] /\ marking = {}
  /\ ring = {} /\ ringLen = 0 /\ slots = {}
  /\ owners = {h \in Handles : entry[h] = "old" /\ \E v \in Word(h) : entry[v] = "young"}
  /\ phase = "idle" /\ generation = "young" /\ oldActive = FALSE
  /\ pending = [q \in Queues |-> {}] /\ bridges = [q \in Queues |-> {}] /\ errors = {}
  /\ candidates = {} /\ selected = {} /\ moving = {}
  /\ queue = {} /\ drains = [q \in Queues |-> 0]
  /\ job = [w \in Workers |-> None] /\ hand = [m \in Markers |-> None]
  /\ mut = Ready /\ full = FALSE /\ failed = FALSE /\ ops = 0

-----------------------------------------------------------------------------
(* Markers: a worker in a marking packet, or the mutator assisting *)

Marking(m, q) ==
  /\ hand[m] = None
  /\ IF m = Mutator THEN mut.pc = "assist" /\ (q = "old" => pending["main"] = {})
     ELSE CASE job[m].kind = "drain" -> q = "main"
            [] job[m].kind = "oldDrain" -> q = "old" /\ job[m].budget > 0
            [] OTHER -> FALSE

\* A dead handle is dropped, an object of the other generation is only
\* scanned (once), an object to mark is resolved.
Pop(m, q, h) ==
  /\ Marking(m, q) /\ h \in pending[q]
  /\ pending' = [pending EXCEPT ![q] = @ \ {h}]
  /\ LET mine == IF q = "old" THEN entry[h] = "old" ELSE Includes(generation, entry[h])
         bridge == Live(h) /\ ~mine /\ h \notin bridges[q]
     IN /\ bridges' = [bridges EXCEPT ![q] = IF bridge THEN @ \cup {h} ELSE @]
        /\ hand' = [hand EXCEPT ![m] =
             IF Live(h) /\ (mine \/ bridge)
             THEN [queue |-> q, handle |-> h, addr |-> addr[h], gen |-> entry[h],
                   step |-> IF mine THEN "mark" ELSE "scan"]
             ELSE None]
  /\ IF m \in Workers /\ q = "old"
     THEN job' = [job EXCEPT ![m].budget = @ - 1] ELSE UNCHANGED job
  /\ UNCHANGED <<heapVars, local, markVars, ringVars, remVars, cycleVars, errors,
                 sweepVars, queue, drains, mutVars>>

\* UnresolvedHandle: a worker drops its packet, the mutator its store.
MarkError(m) ==
  /\ hand' = [hand EXCEPT ![m] = None]
  /\ IF m = Mutator
     THEN mut' = Ready /\ Fail /\ UNCHANGED ops /\ errors' = errors \cup {"main"} /\ UNCHANGED job
     ELSE /\ job' = [job EXCEPT ![m] = None]
          /\ errors' = errors \cup {hand[m].queue}
          /\ UNCHANGED mutVars
  /\ UNCHANGED <<marks, pending>>

TryMark(m) ==
  /\ hand[m] # None /\ hand[m].step = "mark"
  /\ LET bit == <<hand[m].handle, hand[m].addr>> IN
     IF ~Live(hand[m].handle) THEN MarkError(m)
     ELSE /\ marks' = [marks EXCEPT ![hand[m].gen] = @ \cup {bit}]
          /\ hand' = [hand EXCEPT ![m] =
               IF bit \in marks[hand[m].gen] THEN None ELSE [@ EXCEPT !.step = "scan"]]
          /\ UNCHANGED <<errors, job, mutVars, pending>>
  /\ UNCHANGED <<heapVars, local, marking, ringVars, remVars, cycleVars, bridges,
                 sweepVars, queue, drains>>

Scan(m) ==
  /\ hand[m] # None /\ hand[m].step = "scan"
  /\ IF ~Live(hand[m].handle) THEN MarkError(m)
     ELSE /\ pending' = [pending EXCEPT ![hand[m].queue] = @ \cup Word(hand[m].handle)]
          /\ hand' = [hand EXCEPT ![m] = None]
          /\ UNCHANGED <<marks, errors, job, mutVars>>
  /\ UNCHANGED <<heapVars, local, marking, ringVars, remVars, cycleVars, bridges,
                 sweepVars, queue, drains>>

-----------------------------------------------------------------------------
(* Workers *)

\* A RootRange packet extends pending and goes on as a BitmapWordRange packet.
TakePacket(w) ==
  /\ job[w] = None
  /\ \E p \in queue :
       /\ queue' = queue \ {p}
       /\ job' = [job EXCEPT ![w] = IF p.kind = "root" THEN [kind |-> "drain"] ELSE p]
       /\ pending' = IF p.kind = "root" THEN [pending EXCEPT !["main"] = @ \cup {p.handle}]
                     ELSE pending
  /\ UNCHANGED <<heapVars, local, markVars, ringVars, remVars, cycleVars, bridges,
                 errors, sweepVars, drains, hand, mutVars>>

TakeDrain(w, q) ==
  /\ job[w] = None /\ drains[q] > 0
  /\ drains' = [drains EXCEPT ![q] = @ - 1]
  /\ job' = [job EXCEPT ![w] = IF q = "main" THEN [kind |-> "drain"]
                               ELSE [kind |-> "oldDrain", budget |-> OldBudget]]
  /\ UNCHANGED <<heapVars, local, markVars, ringVars, remVars, cycleVars, pending,
                 bridges, errors, sweepVars, queue, hand, mutVars>>

\* drain_mark_queue and drain_old_mark_queue return, and in-flight drops.
FinishDrain(w) ==
  /\ hand[w] = None
  /\ \/ job[w].kind = "drain" /\ pending["main"] = {}
     \/ job[w].kind = "oldDrain" /\ (pending["old"] = {} \/ job[w].budget = 0)
  /\ job' = [job EXCEPT ![w] = None]
  /\ UNCHANGED <<heapVars, local, markVars, ringVars, remVars, cycleVars, pending,
                 bridges, errors, sweepVars, queue, drains, hand, mutVars>>

\* Mutant: a full sweep promotes without keeping the mark.
PromotedMarks_YoungOnly(promoted) == marks

\* Mutant: a promoted object is not handed to the old mark.
PromotedGrey_Lost(promoted) == pending

\* What a promotion does to the marks (a full sweep is still to consult the old
\* bitmap) and to a running old mark, which takes over the promoted objects.
PromotedMarks(promoted) ==
  IF generation = "full"
  THEN [marks EXCEPT !["old"] = @ \cup {<<h, addr[h]>> : h \in promoted}]
  ELSE marks

PromotedGrey(promoted) ==
  IF oldActive THEN [pending EXCEPT !["old"] = @ \cup promoted] ELSE pending

\* process_page: age and promote or select the survivors, collect the dead.
\* Sizes are left out: a page with garbage may or may not be sparse.
ProcessPage(w) ==
  /\ job[w].kind = "page"
  /\ LET here == {h \in Handles : Live(h) /\ PageOf[h] = job[w].page}
         mine == {h \in here : Includes(generation, entry[h])}
         kept == {h \in mine : IsMarked(h, entry[h])}
         young == {h \in kept : entry[h] = "young"}
         movable == \A h \in kept : addr[h] < MaxMoves
     IN \E sparse \in {FALSE} \cup (IF mine = here /\ mine # kept /\ movable
                                    THEN {TRUE} ELSE {}) :
          LET promoted == {h \in young : age[h] + 1 >= 2 \/ ~sparse}
          IN /\ age' = [h \in Handles |-> IF h \in young THEN age[h] + 1 ELSE age[h]]
             /\ entry' = [h \in Handles |-> IF h \in promoted THEN "old" ELSE entry[h]]
             /\ marks' = PromotedMarks(promoted) /\ pending' = PromotedGrey(promoted)
             /\ owners' = owners \cup promoted
             /\ selected' = IF sparse THEN selected \cup (kept \ promoted) ELSE selected
             /\ candidates' = candidates \cup (mine \ kept)
  /\ job' = [job EXCEPT ![w] = None]
  /\ UNCHANGED <<addr, field, local, marking, ringVars, slots, cycleVars, bridges,
                 errors, moving, queue, drains, hand, mutVars>>

\* The old address of h leaves the object map (forget clears both its bits).
MovedMarks(h, transferred) ==
  [g \in {"young", "old"} |->
     (marks[g] \ {<<h, addr[h]>>}) \cup
     (IF g \in transferred /\ IsMarked(h, g) THEN {<<h, addr[h] + 1>>} ELSE {})]

\* relocate_descriptor; a copy the mutator has made already is no work.
Relocate(w) ==
  /\ job[w].kind = "move"
  /\ LET h == job[w].handle IN
     IF h \in moving
     THEN /\ addr' = [addr EXCEPT ![h] = @ + 1]
          /\ marks' = MovedMarks(h, {entry[h]})
          /\ moving' = moving \ {h}
     ELSE UNCHANGED <<addr, marks, moving>>
  /\ job' = [job EXCEPT ![w] = None]
  /\ UNCHANGED <<entry, age, field, local, marking, ringVars, remVars, cycleVars, pending,
                 bridges, errors, candidates, selected, queue, drains, hand, mutVars>>

WorkerStep(w) ==
  \/ TakePacket(w) \/ FinishDrain(w) \/ ProcessPage(w) \/ Relocate(w)
  \/ \E q \in Queues : TakeDrain(w, q)
  \/ \E q \in Queues, h \in Handles : Pop(w, q, h)
  \/ TryMark(w) \/ Scan(w)

-----------------------------------------------------------------------------
(* The mutator's operations *)

Running == mut = Ready /\ ~full
Operation == Running /\ ops < MaxOps /\ ops' = ops + 1

\* Paths from old objects through young ones, which an old mark may lose: a run
\* can keep the program from following or cutting them during an old mark.
MayFollow(h) ==
  "youngPaths" \in Excluded /\ "old" \in marking => entry[h] # "young"
MayOverwrite(h) == field[h] # Null => MayFollow(field[h])

Load(l, m) ==
  /\ Operation /\ local[m] # Null /\ Live(local[m]) /\ MayFollow(local[m])
  /\ local' = [local EXCEPT ![l] = field[local[m]]]
  /\ UNCHANGED <<heapVars, markVars, ringVars, remVars, cycleVars, pending, bridges,
                 errors, sweepVars, packetVars, hand, mut, full, failed>>

Drop(l) ==
  /\ Operation /\ local[l] # Null
  /\ local' = [local EXCEPT ![l] = Null]
  /\ UNCHANGED <<heapVars, markVars, ringVars, remVars, cycleVars, pending, bridges,
                 errors, sweepVars, packetVars, hand, mut, full, failed>>

\* publish_object marks the object in one bitmap, mark_black_allocation in the young one.
BlackIn ==
  (IF "young" \in marking THEN {"young"} ELSE marking) \cup
  (IF phase \in {"mark", "select"} /\ Includes(generation, "young") THEN {"young"} ELSE {})

Allocate(l, h) ==
  /\ Operation /\ entry[h] = "free"
  /\ entry' = [entry EXCEPT ![h] = "young"] /\ age' = [age EXCEPT ![h] = 0]
  /\ field' = [field EXCEPT ![h] = Null]
  /\ local' = [local EXCEPT ![l] = h]
  /\ marks' = [g \in {"young", "old"} |->
       IF g \in BlackIn THEN marks[g] \cup {<<h, addr[h]>>} ELSE marks[g]]
  /\ UNCHANGED <<addr, marking, ringVars, remVars, cycleVars, pending, bridges, errors,
                 sweepVars, packetVars, hand, mut, full, failed>>

\* Mutant: slots are remembered only while a mark runs.
BarrierRecords_SlotWhileMarking(op, h, v) ==
  LET mark == marking # {} /\ v # Null /\ (op = "slot" => IsMarked(h, entry[h]))
      slot == mark /\ op = "slot" /\ entry[h] = "old" /\ entry[v] = "young"
  IN (IF marking # {} /\ field[h] # Null
      THEN <<[kind |-> "satb", handle |-> field[h]]>> ELSE <<>>) \o
     (IF mark THEN <<[kind |-> "mark", handle |-> v]>> ELSE <<>>) \o
     (IF slot THEN <<[kind |-> "slot", handle |-> h, addr |-> addr[h]]>> ELSE <<>>) \o
     (IF op = "proto" /\ entry[h] = "old"
      THEN <<[kind |-> "owner", handle |-> h]>> ELSE <<>>)

\* The records of store_reference ("slot") and of set_prototype ("proto").
BarrierRecords(op, h, v) ==
  LET satb == marking # {} /\ field[h] # Null
      mark == marking # {} /\ v # Null /\ (op = "slot" => IsMarked(h, entry[h]))
      slot == op = "slot" /\ entry[h] = "old" /\ v # Null /\ entry[v] = "young"
  IN (IF satb THEN <<[kind |-> "satb", handle |-> field[h]]>> ELSE <<>>) \o
     (IF mark THEN <<[kind |-> "mark", handle |-> v]>> ELSE <<>>) \o
     (IF slot THEN <<[kind |-> "slot", handle |-> h, addr |-> addr[h]]>> ELSE <<>>) \o
     (IF op = "proto" /\ entry[h] = "old"
      THEN <<[kind |-> "owner", handle |-> h]>> ELSE <<>>)

StoreBarrier(op, h, v) ==
  /\ Operation /\ h \in Roots /\ v \in Roots \cup {Null} /\ Live(h) /\ field[h] # v
  /\ MayOverwrite(h)
  /\ mut' = [pc |-> "barrier", todo |-> BarrierRecords(op, h, v), owner |-> h, value |-> v]
  /\ UNCHANGED <<heapVars, local, markVars, ringVars, remVars, cycleVars, pending,
                 bridges, errors, sweepVars, packetVars, hand, full, failed>>

\* ZgcBarrier.record: a full ring makes the mutator ingest the record and mark.
PushRecord ==
  /\ mut.pc = "barrier" /\ mut.todo # <<>>
  /\ LET r == Head(mut.todo) IN
     IF ringLen < RingCapacity
     THEN /\ ring' = ring \cup {r} /\ ringLen' = ringLen + 1
          /\ mut' = [mut EXCEPT !.todo = Tail(@)]
          /\ UNCHANGED <<remVars, pending>>
     ELSE /\ Remember({r})
          /\ pending' = [q \in Queues |-> pending[q] \cup Routed(q, {r})]
          /\ mut' = [mut EXCEPT !.todo = Tail(@), !.pc = "assist"]
          /\ UNCHANGED ringVars
  /\ UNCHANGED <<heapVars, local, markVars, cycleVars, bridges, errors, sweepVars,
                 packetVars, hand, full, failed, ops>>

AssistDone ==
  /\ mut.pc = "assist" /\ hand[Mutator] = None
  /\ \A q \in Queues : pending[q] = {}
  /\ mut' = [mut EXCEPT !.pc = "barrier"]
  /\ UNCHANGED <<heapVars, local, markVars, ringVars, remVars, cycleVars, pending,
                 bridges, errors, sweepVars, packetVars, hand, full, failed, ops>>

Store ==
  /\ mut.pc = "barrier" /\ mut.todo = <<>>
  /\ field' = [field EXCEPT ![mut.owner] = mut.value]
  /\ mut' = Ready
  /\ UNCHANGED <<entry, age, addr, local, markVars, ringVars, remVars, cycleVars, pending,
                 bridges, errors, sweepVars, packetVars, hand, full, failed, ops>>

\* acquire_mutator_relocation: the mutator makes a pending copy itself, and
\* neither transfers the mark nor forgets the source.
AssistMove(h) ==
  /\ Running /\ h \in Roots \cap moving
  /\ addr' = [addr EXCEPT ![h] = @ + 1]
  /\ moving' = moving \ {h}
  /\ UNCHANGED <<entry, age, field, local, markVars, ringVars, remVars, cycleVars, pending,
                 bridges, errors, candidates, selected, packetVars, hand, mutVars>>

\* What a run may leave out while a flag is raised.
Growth == [object |-> "objectGrowth", array |-> "arrayGrowth"]

\* grow_value_capacity ("object"), relocate_array and relocate_string ("array").
Growable(kind, h) ==
  /\ h \in Roots \ moving /\ Live(h)
  /\ addr[h] + (IF phase = "select" /\ h \in selected THEN 1 ELSE 0) < MaxMoves
  /\ marking # {} => Growth[kind] \notin Excluded

\* The new address is published before the mark follows.
GrowPublish(kind, h) ==
  /\ Operation /\ Growable(kind, h)
  /\ addr' = [addr EXCEPT ![h] = @ + 1]
  /\ mut' = [pc |-> "grow", kind |-> kind, handle |-> h, gen |-> entry[h]]
  /\ UNCHANGED <<entry, age, field, local, markVars, ringVars, remVars, cycleVars, pending,
                 bridges, errors, sweepVars, packetVars, hand, full, failed>>

GrowFinish ==
  /\ mut.pc = "grow"
  /\ LET source == <<mut.handle, addr[mut.handle] - 1>>
         target == <<mut.handle, addr[mut.handle]>>
         painted == IF mut.kind = "object" THEN {}
                    ELSE IF "young" \in marking THEN {"young"} ELSE marking
     IN marks' = [g \in {"young", "old"} |->
          (marks[g] \ {source}) \cup
          (IF (g = mut.gen /\ source \in marks[g]) \/ g \in painted THEN {target} ELSE {})]
  /\ mut' = Ready
  /\ UNCHANGED <<heapVars, local, marking, ringVars, remVars, cycleVars, pending, bridges,
                 errors, sweepVars, packetVars, hand, full, failed, ops>>

MutatorStep ==
  \/ \E l, m \in Locals : Load(l, m)
  \/ \E l \in Locals : Drop(l)
  \/ \E l \in Locals, h \in Handles : Allocate(l, h)
  \/ \E op \in {"slot", "proto"}, h \in Handles, v \in Handles \cup {Null} :
       StoreBarrier(op, h, v)
  \/ PushRecord \/ AssistDone \/ Store
  \/ \E q \in Queues, h \in Handles : Pop(Mutator, q, h)
  \/ TryMark(Mutator) \/ Scan(Mutator)
  \/ \E h \in Handles : AssistMove(h)
  \/ \E kind \in {"object", "array"}, h \in Handles : GrowPublish(kind, h)
  \/ GrowFinish

-----------------------------------------------------------------------------
(* The cycle, driven by the mutator at its safepoints (safepoint_action and  *)
(* at_safepoint in one poll) and by collect_full.                            *)

\* collect_full waits for an idle pool before every step of its own cycle.
Polling ==
  /\ mut = Ready
  /\ full /\ generation = "full" /\ phase # "idle" =>
       InFlight("main") + InFlight("old") = 0

SubmitAll(packets) == mut' = [pc |-> "submit", todo |-> packets]

\* begin_mark: a young mark also starts from the remembered set, which it prunes.
\* A slot of an object that moved names the source: the model takes that to be
\* reclaimed, and drops the slot.
PointsToYoung(h) == \E v \in Word(h) : entry[v] = "young"
KeptSlots == {s \in slots : s[2] = addr[s[1]] /\ PointsToYoung(s[1])}
KeptOwners == {h \in owners : entry[h] = "old" /\ PointsToYoung(h)}
RememberedGrey == UNION {Word(h) : h \in KeptOwners \cup {s[1] : s \in KeptSlots}}

BeginMark(g) ==
  /\ Polling /\ phase = "idle" /\ g \in Cycles
  /\ IF g = "full" THEN full /\ ~oldActive
     ELSE g = "young" /\ (IF oldActive THEN ringLen = 0 /\ InFlight("old") # 0 ELSE ~full)
  /\ slots' = IF g = "young" THEN KeptSlots ELSE slots
  /\ owners' = IF g = "young" THEN KeptOwners ELSE owners
  /\ LET grey == IF g = "young" THEN RememberedGrey ELSE {}
     IN /\ pending' = [pending EXCEPT !["main"] = grey]
        /\ SubmitAll(IF Roots = {} /\ grey # {} THEN {[kind |-> "drain"]}
                     ELSE {[kind |-> "root", handle |-> h] : h \in Roots})
  /\ marks' = [k \in {"young", "old"} |-> IF Includes(g, k) THEN {} ELSE marks[k]]
  /\ marking' = marking \cup {EpochOf(g)}
  /\ phase' = "mark" /\ generation' = g
  /\ bridges' = [bridges EXCEPT !["main"] = {}] /\ errors' = errors \ {"main"}
  /\ UNCHANGED <<heapVars, local, ringVars, oldActive, sweepVars, packetVars, hand,
                 full, failed, ops>>

\* begin_old_mark: on an error the phase stays AwaitRoots and the next poll retries.
BeginOldMark ==
  /\ Polling /\ "old" \in Cycles
  /\ phase = "await" \/ (phase = "idle" /\ ~oldActive /\ ~full)
  /\ marks' = [marks EXCEPT !["old"] = {}] /\ marking' = marking \cup {"old"}
  /\ oldActive' = TRUE /\ pending' = [pending EXCEPT !["old"] = Roots]
  /\ bridges' = [bridges EXCEPT !["old"] = {}] /\ errors' = errors \ {"old"}
  /\ SubmitDrains({"old"})
  /\ phase' = IF Room(1) THEN "idle" ELSE "await"
  /\ UNCHANGED <<heapVars, local, ringVars, remVars, generation, sweepVars, queue, job,
                 hand, mut, ops>>

\* begin_relocation_selection: sweep every page, unless a marker has failed.
BeginSelection(error) ==
  IF error
  THEN Fail /\ UNCHANGED <<phase, candidates, selected, mut>>
  ELSE /\ phase' = "select" /\ candidates' = {} /\ selected' = {}
       /\ SubmitAll({[kind |-> "page", page |-> p] : p \in Pages})
       /\ UNCHANGED <<full, failed>>

\* The poll while only an old mark runs: flush_barriers and continue_old_mark.
PollOldMark ==
  /\ Polling /\ phase = "idle" /\ oldActive
  /\ ringLen > 0 \/ NeedsOldPacket
  /\ Flush
  /\ SubmitDrains(IF NeedsOldPacket THEN {"old"} ELSE {})
  /\ errors' = IF NeedsOldPacket /\ ~Room(1) /\ ringLen = 0 THEN errors \cup {"old"}
               ELSE errors
  /\ UNCHANGED <<heapVars, local, markVars, cycleVars, bridges, sweepVars, queue, job,
                 hand, mut, ops>>

\* Mutant: the old mark ends with packets in flight.
FinishOldMark_NoWait ==
  /\ Polling /\ phase = "idle" /\ oldActive
  /\ ringLen = 0 /\ pending["old"] = {}
  /\ oldActive' = FALSE /\ generation' = "old"
  /\ pending' = [pending EXCEPT !["main"] = {}]
  /\ bridges' = [bridges EXCEPT !["main"] = {}]
  /\ errors' = {} /\ BeginSelection(FALSE)
  /\ UNCHANGED <<heapVars, local, markVars, ringVars, remVars, moving, packetVars, hand, ops>>

\* finish_old_mark_to_selection, when old_mark_ready.
FinishOldMark ==
  /\ Polling /\ phase = "idle" /\ oldActive
  /\ ringLen = 0 /\ pending["old"] = {} /\ InFlight("old") = 0
  /\ oldActive' = FALSE /\ generation' = "old"
  /\ pending' = [pending EXCEPT !["main"] = {}]
  /\ bridges' = [bridges EXCEPT !["main"] = {}]
  /\ errors' = {}
  /\ IF "old" \in errors
     THEN phase' = "mark" /\ Fail /\ UNCHANGED <<candidates, selected, mut>>
     ELSE BeginSelection(FALSE)
  /\ UNCHANGED <<heapVars, local, markVars, ringVars, remVars, moving, packetVars, hand, ops>>

\* ConcurrentMark: flush, then wait, submit what is grey, or go on to the sweep.
PollMark ==
  /\ Polling /\ phase = "mark"
  /\ Routed("main", ring) # {} => drains["main"] < MaxFlushes
  /\ Flush
  /\ LET flushed == Routed("main", ring) # {}
         quiet == InFlight("main") = 0 /\ ~flushed
         grey == quiet /\ pending["main"] # {}
     IN IF quiet /\ ~grey /\ (NeedsOldPacket => Room(1))
        THEN /\ BeginSelection("main" \in errors) /\ errors' = errors \ {"main"}
             /\ drains' = [drains EXCEPT !["old"] = @ + IF NeedsOldPacket THEN 1 ELSE 0]
        ELSE /\ SubmitDrains((IF flushed \/ grey THEN {"main"} ELSE {}) \cup
                             (IF NeedsOldPacket THEN {"old"} ELSE {}))
             /\ UNCHANGED <<phase, candidates, selected, errors, mut>>
  /\ UNCHANGED <<heapVars, local, markVars, generation, oldActive, bridges, moving,
                 queue, job, hand, ops>>

\* finish_cycle: quarantined handles and addresses become free, state is cleared.
Reclaimed(entries) ==
  LET gone == {h \in Handles : entries[h] = "retired"}
  IN /\ entry' = [h \in Handles |-> IF h \in gone THEN "free" ELSE entries[h]]
     /\ age' = [h \in Handles |-> IF h \in gone THEN 0 ELSE age[h]]
     /\ addr' = [h \in Handles |-> IF h \in gone THEN 0 ELSE addr[h]]
     /\ field' = [h \in Handles |-> IF h \in gone THEN Null ELSE field[h]]
     /\ marks' = [g \in {"young", "old"} |->
                   {m \in marks[g] : m[1] \in gone => m[2] # addr[m[1]]}]

FinishCycle(entries, old) ==
  /\ Reclaimed(entries)
  /\ moving' = {} /\ errors' = errors \ {"main"}
  /\ IF "main" \in errors
     THEN phase' = "reclaim" /\ Fail /\ UNCHANGED <<pending, candidates, selected>>
     ELSE /\ phase' = "idle" /\ pending' = [main |-> {}, old |-> old]
          /\ candidates' = {} /\ selected' = {}
          /\ full' = (full /\ generation # "full") /\ UNCHANGED failed

\* finalize_dead_candidates: marks set since the sweep are honoured.
Doomed ==
  LET swept == IF generation = "full" THEN Handles ELSE candidates
  IN {h \in swept : Live(h) /\ ~IsMarked(h, entry[h])}

\* ConcurrentSelectRelocationSet: flush, then wait, submit, or retire and relocate.
PollSelectWait ==
  /\ Polling /\ phase = "select"
  /\ InFlight("main") # 0 \/ pending["main"] # {} \/ (NeedsOldPacket /\ ~Room(1))
  /\ Flush
  /\ SubmitDrains((IF InFlight("main") = 0 /\ pending["main"] # {} THEN {"main"} ELSE {}) \cup
                  (IF NeedsOldPacket THEN {"old"} ELSE {}))
  /\ UNCHANGED <<heapVars, local, markVars, cycleVars, bridges, errors, sweepVars, queue,
                 job, hand, mut, ops>>

PollSelect ==
  /\ Polling /\ phase = "select"
  /\ InFlight("main") = 0 /\ pending["main"] = {} /\ (NeedsOldPacket => Room(1))
  /\ Remember(ring) /\ ring' = {} /\ ringLen' = 0
  /\ drains' = [drains EXCEPT !["old"] = @ + IF NeedsOldPacket THEN 1 ELSE 0]
  /\ marking' = marking \ {EpochOf(generation)}
  /\ LET retired == [h \in Handles |-> IF h \in Doomed THEN "retired" ELSE entry[h]]
         old == pending["old"] \cup Routed("old", ring)
         grey == [pending EXCEPT !["old"] = old]
     IN \/ /\ "main" \in errors
           /\ errors' = errors \ {"main"} /\ Fail
           /\ entry' = retired /\ candidates' = Doomed /\ pending' = grey
           /\ UNCHANGED <<age, addr, field, marks, phase, selected, moving, mut>>
        \/ /\ "main" \notin errors
           /\ FinishCycle(retired, old)
           /\ UNCHANGED mut
        \/ /\ "main" \notin errors /\ selected # {}
           /\ entry' = retired /\ candidates' = Doomed /\ pending' = grey
           /\ moving' = selected /\ phase' = "relocate"
           /\ SubmitAll({[kind |-> "move", handle |-> h] : h \in selected})
           /\ UNCHANGED <<age, addr, field, marks, errors, selected, full, failed>>
  /\ UNCHANGED <<local, generation, oldActive, bridges, queue, job, hand, ops>>

PollRelocate ==
  /\ Polling
  /\ phase = "reclaim" \/ (phase = "relocate" /\ InFlight("main") = 0)
  /\ FinishCycle(entry, pending["old"])
  /\ UNCHANGED <<local, marking, ringVars, remVars, generation, oldActive, bridges,
                 packetVars, hand, mut, ops>>

\* The program, or a failed allocation, asks for a synchronous collection.
CollectFull ==
  /\ Running /\ "full" \in Cycles
  /\ full' = TRUE
  /\ UNCHANGED <<heapVars, local, markVars, ringVars, remVars, cycleVars, pending,
                 bridges, errors, sweepVars, packetVars, hand, mut, failed, ops>>

Safepoint ==
  \/ BeginMark("young") \/ BeginMark("full") \/ BeginOldMark
  \/ PollOldMark \/ FinishOldMark \/ PollMark \/ PollSelectWait \/ PollSelect
  \/ PollRelocate \/ Submit

Next == MutatorStep \/ CollectFull \/ Safepoint \/ \E w \in Workers : WorkerStep(w)

Spec == Init /\ [][Next]_vars

\* A running program polls again and again, and the pool's workers run; the pool
\* is a FIFO, so a packet of the old mark is taken whatever follows it.
FairSpec ==
  /\ Spec /\ SF_vars(Safepoint)
  /\ WF_vars(PushRecord \/ AssistDone \/ Store \/ GrowFinish)
  /\ WF_vars(TryMark(Mutator) \/ Scan(Mutator) \/
             \E q \in Queues, h \in Handles : Pop(Mutator, q, h))
  /\ \A w \in Workers : WF_vars(WorkerStep(w)) /\ SF_vars(TakeDrain(w, "old"))

-----------------------------------------------------------------------------
(* Properties *)

HC == INSTANCE HeapContract WITH live <- {h \in Handles : Live(h)}

\* The program's heap behaves as if objects only died once unreachable:
\* publish, load, store and collect implement HeapContract.
ImplementsHeap == HC!Spec

Packets ==
  [kind : {"root", "move"}, handle : Handles] \cup [kind : {"page"}, page : Pages]
  \cup {[kind |-> "drain"]}
Records ==
  [kind : {"satb", "mark", "owner"}, handle : Handles]
  \cup [kind : {"slot"}, handle : Handles, addr : Addresses]

Jobs == Packets \cup [kind : {"oldDrain"}, budget : 0..OldBudget]
Hands ==
  [queue : Queues, handle : Handles, addr : Addresses, gen : {"young", "old"},
   step : {"mark", "scan"}]
MutatorStates ==
  {Ready} \cup [pc : {"submit"}, todo : SUBSET Packets]
  \cup [pc : {"barrier", "assist"}, todo : Seq(Records), owner : Handles,
        value : Handles \cup {Null}]
  \cup [pc : {"grow"}, kind : {"object", "array"}, handle : Handles,
        gen : {"young", "old"}]

\* Every variable has its type; a ring holds no more records than it has slots.
TypeOK ==
  /\ entry \in [Handles -> {"free", "young", "old", "retired"}]
  /\ age \in [Handles -> 0..2] /\ addr \in [Handles -> Addresses]
  /\ field \in [Handles -> Handles \cup {Null}]
  /\ local \in [Locals -> Handles \cup {Null}]
  /\ marks \in [{"young", "old"} -> SUBSET (Handles \X Addresses)]
  /\ marking \subseteq {"young", "old"}
  /\ ring \subseteq Records /\ IsFiniteSet(ring) /\ ringLen \in Cardinality(ring)..RingCapacity
  /\ slots \subseteq Handles \X Addresses /\ owners \subseteq Handles
  /\ phase \in {"idle", "await", "mark", "select", "relocate", "reclaim"}
  /\ generation \in {"young", "old", "full"} /\ oldActive \in BOOLEAN
  /\ pending \in [Queues -> SUBSET Handles] /\ bridges \in [Queues -> SUBSET Handles]
  /\ errors \subseteq Queues
  /\ candidates \subseteq Handles /\ selected \subseteq Handles /\ moving \subseteq selected
  /\ queue \subseteq Packets /\ IsFiniteSet(queue) /\ drains \in [Queues -> 0..PacketCapacity]
  /\ job \in [Workers -> Jobs \cup {None}]
  /\ hand \in [Markers -> Hands \cup {None}] /\ mut \in MutatorStates
  /\ full \in BOOLEAN /\ failed \in BOOLEAN

\* No reference the program can follow leads to a retired or free handle.
ReachableIsLive == HC!NoDanglingReference

\* When the sweep runs, the markers have found every object of the collected
\* generation that the program can still reach, whatever it stored and
\* loaded while the workers marked.
MarkComplete ==
  phase = "select" =>
    \A h \in HC!Reachable :
      Live(h) /\ Includes(generation, entry[h]) => IsMarked(h, entry[h])

\* The remembered set, or a record, names h at its present address.
Names(r, h) == r.handle = h /\ (r.kind = "owner" \/ (r.kind = "slot" /\ r.addr = addr[h]))
Remembered(h, records) ==
  h \in owners \/ <<h, addr[h]>> \in slots \/ \E r \in records : Names(r, h)

\* Every old-to-young edge the program can follow is in the remembered set, or
\* its record is still in the ring. It has to be one the program can follow: a
\* slot outlives its object, the next young mark keeps what another object has
\* there, and an unreachable object that is promoted so may name a free handle,
\* whose next object is young (README section 6).
EdgesRemembered ==
  \A h \in HC!Reachable : entry[h] = "old" /\ PointsToYoung(h) => Remembered(h, ring)

\* A phase starts only when the one before has no packet, no grey object and
\* no marker left: sweeping never races with marking of the same queue.
PhasesDoNotOverlap ==
  LET quiet(q) == pending[q] = {} /\ drains[q] = 0 /\ \A m \in Markers :
        hand[m] # None => hand[m].queue # q
  IN /\ phase \in {"idle", "select", "relocate", "reclaim"} => quiet("main")
     /\ ~oldActive => quiet("old") /\ Busy("old") = {}
     /\ phase \in {"idle", "reclaim"} => InFlight("main") = 0

\* The collector reports no error to a program that did nothing wrong.
NoCollectorError == ~failed

\* A synchronous collection returns.
FullReturns == full ~> ~full

\* An old mark, however many packets it takes and young cycles it spans, ends.
OldMarkEnds == oldActive ~> ~oldActive

=============================================================================
