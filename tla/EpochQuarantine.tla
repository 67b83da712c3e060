-------------------------- MODULE EpochQuarantine --------------------------
(***************************************************************************)
(* Epoch-based reclamation of handles and allocations: HeapEpoch and its   *)
(* participants (heap/epoch.rs), the part of the handle table and of the   *)
(* allocator that retires through it, and the two passes that reclaim.     *)
(*                                                                         *)
(* A reader announces the current epoch before it resolves a handle; what  *)
(* is retired carries the epoch current at that moment; a pass frees what  *)
(* is older than every announced epoch.  Announcing, retiring and scanning *)
(* are several atomic accesses each, so they are several actions here.     *)
(*                                                                         *)
(* Readers register and announce.  Markers are the collector's workers:    *)
(* they resolve and scan without announcing anything.  Retirers are the    *)
(* threads that retire: the owner thread (sweep, capacity growth) and the  *)
(* workers that relocate.  The pass itself is the owner thread's: it runs  *)
(* only when no sweep or relocation is under way.                          *)
(***************************************************************************)
EXTENDS Integers, FiniteSets

CONSTANTS Handles, Addresses, Readers, Markers, Retirers,
          None,          \* no handle, no address
          MaxEpoch       \* bound of the model: the last epoch reached

ASSUME QuarantineAssumption ==
  /\ None \notin Handles \cup Addresses
  /\ MaxEpoch \in Nat \ {0}
  /\ Readers \cap Markers = {}

VARIABLES
  current,      \* HeapEpoch::current
  registered,   \* readers in the participants map
  read,         \* epoch a reader has loaded in enter and not yet stored, or 0
  active,       \* the participant's own epoch; Inactive stands for u64::MAX
  held,         \* the handles and addresses an actor has resolved and still uses
  entry,        \* the handle table
  unused,       \* handles not yet given out: next_handle and above
  reusable,     \* HeapEpoch::reusable
  claimed,      \* handles given out and not yet published
  free,         \* addresses the allocator may give out
  quarantine,   \* retired_handles and retired_allocations: <<item, epoch>>
  retirer,      \* what a retirer has still to put into the quarantine
  pass          \* the reclaiming pass

readerVars == <<registered, read, active, held>>
tableVars == <<entry, unused, reusable, claimed>>
vars == <<current, readerVars, tableVars, free, quarantine, retirer, pass>>

Lists == {"handles", "allocations"}
Epochs == 1..MaxEpoch
Inactive == 0
Entry(state, address) == [state |-> state, address |-> address]
NothingDue == [handle |-> None, start |-> None, epoch |-> 0]
NoPass == [pc |-> "idle", list |-> "handles", then |-> {}, limit |-> 0,
           todo |-> {}, batch |-> {}, freed |-> None]

Init ==
  /\ current = 1
  /\ registered = {} /\ read = [t \in Readers |-> 0]
  /\ active = [t \in Readers |-> Inactive]
  /\ held = [t \in Readers \cup Markers |-> {}]
  /\ entry = [h \in Handles |-> Entry("free", None)]
  /\ unused = Handles /\ reusable = {} /\ claimed = {}
  /\ free = Addresses
  /\ quarantine = [l \in Lists |-> {}]
  /\ retirer = [r \in Retirers |-> NothingDue]
  /\ pass = NoPass

-----------------------------------------------------------------------------
(* Readers.  register and drop take the participants lock, which the pass  *)
(* holds while it scans.                                                   *)
ParticipantsFree == pass.pc # "scan"

Register(t) ==
  /\ t \notin registered /\ ParticipantsFree
  /\ registered' = registered \cup {t}
  /\ UNCHANGED <<current, read, active, held, tableVars, free, quarantine, retirer, pass>>

\* enter loads the current epoch and then stores it: two accesses.
EnterRead(t) ==
  /\ t \in registered /\ active[t] = Inactive /\ read[t] = 0
  /\ read' = [read EXCEPT ![t] = current]
  /\ UNCHANGED <<current, registered, active, held, tableVars, free, quarantine, retirer, pass>>

EnterStore(t) ==
  /\ read[t] # 0
  /\ active' = [active EXCEPT ![t] = read[t]]
  /\ read' = [read EXCEPT ![t] = 0]
  /\ UNCHANGED <<current, registered, held, tableVars, free, quarantine, retirer, pass>>

\* resolve loads the entry: nothing for a free or retired handle.
Resolve(t, h) ==
  /\ entry[h].state = "stable"
  /\ held' = [held EXCEPT ![t] = @ \cup {<<h, entry[h].address>>}]
  /\ UNCHANGED <<current, registered, read, active, tableVars, free, quarantine, retirer, pass>>

Exit(t) ==
  /\ active[t] # Inactive
  /\ active' = [active EXCEPT ![t] = Inactive]
  /\ held' = [held EXCEPT ![t] = {}]
  /\ UNCHANGED <<current, registered, read, tableVars, free, quarantine, retirer, pass>>

\* drop exits first; the removal waits for the lock.
Unregister(t) ==
  /\ t \in registered /\ active[t] = Inactive /\ read[t] = 0 /\ ParticipantsFree
  /\ registered' = registered \ {t}
  /\ UNCHANGED <<current, read, active, held, tableVars, free, quarantine, retirer, pass>>

ReaderStep(t) ==
  \/ Register(t) \/ EnterRead(t) \/ EnterStore(t) \/ Exit(t) \/ Unregister(t)
  \/ active[t] # Inactive /\ \E h \in Handles : Resolve(t, h)

\* A worker of the old mark resolves a handle, reads the object and goes on.
MarkerStep(t) ==
  \/ held[t] = {} /\ \E h \in Handles : Resolve(t, h)
  \/ /\ held[t] # {}
     /\ held' = [held EXCEPT ![t] = {}]
     /\ UNCHANGED <<current, registered, read, active, tableVars, free, quarantine, retirer, pass>>

-----------------------------------------------------------------------------
(* Allocation, by any thread.                                              *)
AllocateHandle ==
  \E h \in IF reusable # {} THEN reusable ELSE unused :
    /\ reusable' = reusable \ {h} /\ unused' = unused \ {h}
    /\ claimed' = claimed \cup {h}
    /\ UNCHANGED <<current, readerVars, entry, free, quarantine, retirer, pass>>

Publish(h, a) ==
  /\ h \in claimed /\ a \in free /\ entry[h].state = "free"
  /\ entry' = [entry EXCEPT ![h] = Entry("stable", a)]
  /\ claimed' = claimed \ {h} /\ free' = free \ {a}
  /\ UNCHANGED <<current, readerVars, unused, reusable, quarantine, retirer, pass>>

-----------------------------------------------------------------------------
(* Retiring.  The entry changes first, the epoch is loaded after it, and   *)
(* the item is pushed last.                                                *)
MayRetire_Any(r) == retirer[r] = NothingDue      \* mutant: beside a pass
MayRetire(r) == retirer[r] = NothingDue /\ pass.pc = "idle"

\* HandleTableV2::retire and quarantine_allocation for an object that died.
RetireHandle(r, h) ==
  /\ MayRetire(r) /\ entry[h].state = "stable"
  /\ entry' = [entry EXCEPT ![h].state = "retired"]
  /\ retirer' = [retirer EXCEPT ![r] = [handle |-> h, start |-> entry[h].address, epoch |-> 0]]
  /\ UNCHANGED <<current, readerVars, unused, reusable, claimed, free, quarantine, pass>>

\* Relocation or growth: the handle gets a new address, the old one is retired.
Relocate(r, h, a) ==
  /\ MayRetire(r) /\ entry[h].state = "stable" /\ a \in free
  /\ entry' = [entry EXCEPT ![h].address = a]
  /\ free' = free \ {a}
  /\ retirer' = [retirer EXCEPT ![r] = [NothingDue EXCEPT !.start = entry[h].address]]
  /\ UNCHANGED <<current, readerVars, unused, reusable, claimed, quarantine, pass>>

LoadEpoch(r) ==
  /\ retirer[r] # NothingDue /\ retirer[r].epoch = 0
  /\ retirer' = [retirer EXCEPT ![r].epoch = current]
  /\ UNCHANGED <<current, readerVars, tableVars, free, quarantine, pass>>

PushHandle(r) ==
  /\ retirer[r].epoch # 0 /\ retirer[r].handle # None
  /\ quarantine' = [quarantine EXCEPT !["handles"] =
                      @ \cup {<<retirer[r].handle, retirer[r].epoch>>}]
  /\ retirer' = [retirer EXCEPT ![r] = [NothingDue EXCEPT !.start = retirer[r].start]]
  /\ UNCHANGED <<current, readerVars, tableVars, free, pass>>

PushAllocation(r) ==
  /\ retirer[r].epoch # 0 /\ retirer[r].handle = None
  /\ quarantine' = [quarantine EXCEPT !["allocations"] =
                      @ \cup {<<retirer[r].start, retirer[r].epoch>>}]
  /\ retirer' = [retirer EXCEPT ![r] = NothingDue]
  /\ UNCHANGED <<current, readerVars, tableVars, free, pass>>

RetirerStep(r) ==
  \/ \E h \in Handles : RetireHandle(r, h) \/ \E a \in Addresses : Relocate(r, h, a)
  \/ LoadEpoch(r) \/ PushHandle(r) \/ PushAllocation(r)

-----------------------------------------------------------------------------
(* Reclaiming: advance the epoch, then one pass per list.                  *)

\* finish_relocation_epoch takes handles, allocations, handles;
\* advance_epoch_and_reclaim takes allocations, handles.
BeginReclaim ==
  /\ pass.pc = "idle" /\ current < MaxEpoch
  /\ \A r \in Retirers : retirer[r] = NothingDue
  /\ current' = current + 1
  /\ \/ pass' = [pass EXCEPT !.pc = "limit", !.list = "handles", !.then = {"allocations", "handles"}]
     \/ pass' = [pass EXCEPT !.pc = "limit", !.list = "allocations", !.then = {"handles"}]
  /\ UNCHANGED <<readerVars, tableVars, free, quarantine, retirer>>

\* safe_epoch: the epoch that counts if nobody is active, then the lock.
ReadLimit ==
  /\ pass.pc = "limit"
  /\ pass' = [pass EXCEPT !.pc = "lock", !.limit = current + 1]
  /\ UNCHANGED <<current, readerVars, tableVars, free, quarantine, retirer>>

LockParticipants ==
  /\ pass.pc = "lock"
  /\ pass' = [pass EXCEPT !.pc = "scan", !.todo = registered]
  /\ UNCHANGED <<current, readerVars, tableVars, free, quarantine, retirer>>

ScanParticipant(t) ==
  /\ pass.pc = "scan" /\ t \in pass.todo
  /\ pass' = [pass EXCEPT !.todo = @ \ {t},
                          !.limit = IF active[t] # Inactive /\ active[t] < @ THEN active[t] ELSE @]
  /\ UNCHANGED <<current, readerVars, tableVars, free, quarantine, retirer>>

ScanDone ==
  /\ pass.pc = "scan" /\ pass.todo = {}
  /\ pass' = [pass EXCEPT !.pc = "take"]
  /\ UNCHANGED <<current, readerVars, tableVars, free, quarantine, retirer>>

Expired(limit) == {q \in quarantine[pass.list] : q[2] < limit}

\* Mutant: the list is copied instead of drained.
Take_Keeps ==
  /\ pass.pc = "take"
  /\ pass' = [pass EXCEPT !.pc = "free", !.batch = {q[1] : q \in Expired(pass.limit)}]
  /\ UNCHANGED <<current, readerVars, tableVars, free, quarantine, retirer>>

Take ==
  /\ pass.pc = "take"
  /\ quarantine' = [quarantine EXCEPT ![pass.list] = @ \ Expired(pass.limit)]
  /\ pass' = [pass EXCEPT !.pc = "free", !.batch = {q[1] : q \in Expired(pass.limit)}]
  /\ UNCHANGED <<current, readerVars, tableVars, free, retirer>>

\* free_retired, which the caller expects to find the entry still Retired.
FreeHandle(h) ==
  /\ pass.pc = "free" /\ pass.list = "handles" /\ h \in pass.batch /\ pass.freed = None
  /\ entry[h].state = "retired"
  /\ entry' = [entry EXCEPT ![h] = Entry("free", None)]
  /\ pass' = [pass EXCEPT !.batch = @ \ {h}, !.freed = h]
  /\ UNCHANGED <<current, readerVars, unused, reusable, claimed, free, quarantine, retirer>>

MakeReusable ==
  /\ pass.freed # None
  /\ reusable' = reusable \cup {pass.freed}
  /\ pass' = [pass EXCEPT !.freed = None]
  /\ UNCHANGED <<current, readerVars, entry, unused, claimed, free, quarantine, retirer>>

ReclaimObject(a) ==
  /\ pass.pc = "free" /\ pass.list = "allocations" /\ a \in pass.batch
  /\ free' = free \cup {a}
  /\ pass' = [pass EXCEPT !.batch = @ \ {a}]
  /\ UNCHANGED <<current, readerVars, tableVars, quarantine, retirer>>

NextList ==
  /\ pass.pc = "free" /\ pass.batch = {} /\ pass.freed = None
  /\ pass' = IF pass.then = {} THEN NoPass
             ELSE LET l == IF "allocations" \in pass.then THEN "allocations" ELSE "handles"
                  IN  [NoPass EXCEPT !.pc = "limit", !.list = l, !.then = pass.then \ {l}]
  /\ UNCHANGED <<current, readerVars, tableVars, free, quarantine, retirer>>

Reclaim ==
  \/ BeginReclaim \/ ReadLimit \/ LockParticipants \/ ScanDone \/ Take \/ MakeReusable \/ NextList
  \/ \E t \in Readers : ScanParticipant(t)
  \/ \E h \in Handles : FreeHandle(h)
  \/ \E a \in Addresses : ReclaimObject(a)

Next ==
  \/ \E t \in Readers : ReaderStep(t)
  \/ \E t \in Markers : MarkerStep(t)
  \/ AllocateHandle
  \/ \E h \in Handles, a \in Addresses : Publish(h, a)
  \/ \E r \in Retirers : RetirerStep(r)
  \/ Reclaim

Spec == Init /\ [][Next]_vars

-----------------------------------------------------------------------------
Due == [handle : Handles \cup {None}, start : Addresses \cup {None}, epoch : 0..MaxEpoch]

TypeOK ==
  /\ current \in Epochs
  /\ registered \subseteq Readers
  /\ read \in [Readers -> 0..MaxEpoch] /\ active \in [Readers -> 0..MaxEpoch]
  /\ held \in [Readers \cup Markers -> SUBSET (Handles \X Addresses)]
  /\ entry \in [Handles -> [state : {"free", "stable", "retired"},
                            address : Addresses \cup {None}]]
  /\ unused \subseteq Handles /\ reusable \subseteq Handles /\ claimed \subseteq Handles
  /\ free \subseteq Addresses
  /\ quarantine["handles"] \subseteq Handles \X Epochs
  /\ quarantine["allocations"] \subseteq Addresses \X Epochs
  /\ retirer \in [Retirers -> Due]
  /\ pass.pc \in {"idle", "limit", "lock", "scan", "take", "free"}
  /\ pass.list \in Lists /\ pass.then \subseteq Lists
  /\ pass.limit \in 0..(MaxEpoch + 1) /\ pass.todo \subseteq Readers
  /\ pass.batch \subseteq IF pass.list = "handles" THEN Handles ELSE Addresses
  /\ pass.freed \in Handles \cup {None}

(* What an actor has resolved and still uses has not been given back: its  *)
(* entry is not free, hence not reused, and nobody may allocate over it.   *)
Protected(t) == \A u \in held[t] : entry[u[1]].state # "free" /\ u[2] \notin free

(* A reader that announced its epoch before it resolved keeps what it      *)
(* resolved, whatever is retired, moved and reclaimed until it exits       *)
(* (heap/epoch.rs: enter, the two retire and the two take functions).       *)
NoReuseWhileHeld == \A t \in Readers : Protected(t)

\* Every place an address, and a handle, can be in.
AddressPlaces(a) ==
  {<<"free", x>> : x \in free \cap {a}}
    \cup {<<"entry", h>> : h \in {x \in Handles : entry[x] = Entry("stable", a)}}
    \cup {<<"due", r>> : r \in {x \in Retirers : retirer[x].start = a}}
    \cup {<<"quarantine", q[2]>> : q \in {x \in quarantine["allocations"] : x[1] = a}}
    \cup {<<"batch", x>> : x \in IF pass.list = "allocations" THEN pass.batch \cap {a} ELSE {}}

HandlePlaces(h) ==
  {<<"due", r>> : r \in {x \in Retirers : retirer[x].handle = h}}
    \cup {<<"quarantine", q[2]>> : q \in {x \in quarantine["handles"] : x[1] = h}}
    \cup {<<"batch", x>> : x \in IF pass.list = "handles" THEN pass.batch \cap {h} ELSE {}}

(* Nothing is lost and nothing is given out twice: an address is free, in  *)
(* use, or on its way through the quarantine, in one place only; a retired *)
(* handle is on its way exactly once, so the expect of reclaim_quarantine  *)
(* holds; a free handle can be taken from one place only.                  *)
OnePlace ==
  /\ \A a \in Addresses : Cardinality(AddressPlaces(a)) = 1
  /\ \A h \in Handles :
       /\ Cardinality(HandlePlaces(h)) = (IF entry[h].state = "retired" THEN 1 ELSE 0)
       /\ Cardinality({p \in {1, 2, 3, 4} :
            h \in CASE p = 1 -> unused [] p = 2 -> reusable [] p = 3 -> claimed [] p = 4 -> {pass.freed}})
              = (IF entry[h].state = "free" THEN 1 ELSE 0)
=============================================================================
