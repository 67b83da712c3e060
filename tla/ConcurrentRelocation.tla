------------------------ MODULE ConcurrentRelocation -----------------------
(***************************************************************************)
(* One object while it is relocated: the descriptor, the copy a worker or  *)
(* an assisting thread makes word by word (zgc/concurrent_relocate.rs),    *)
(* the accesses of the program that run beside it, and the growth that     *)
(* copies the object itself (heap_access.rs).                              *)
(*                                                                         *)
(* The object is a few words at an address; the handle entry holds the     *)
(* address and says whether the object is on the move.  The mutator is the *)
(* owner thread: it also prepares and finishes a relocation, between two   *)
(* accesses.  Workers run the relocation packet, or scan the object for a  *)
(* mark that is still under way.  Addresses are never reused here:         *)
(* EpochQuarantine is about that.                                          *)
(***************************************************************************)
EXTENDS Integers, FiniteSets

CONSTANTS Size,         \* the words of the object
          Workers, Mutator,
          None,         \* no thread, no descriptor, no value
          MaxAddress,   \* bound: addresses 1..MaxAddress are given out in order
          MaxOps        \* bound: accesses of the mutator that write or grow

ASSUME RelocationAssumption ==
  /\ Mutator \notin Workers /\ None \notin Workers \cup {Mutator}
  /\ Size \in Nat \ {0} /\ MaxAddress \in Nat \ {0} /\ MaxOps \in Nat
  /\ None \notin 0..MaxOps
  /\ None \notin [source : 1..MaxAddress, claimed : BOOLEAN, done : BOOLEAN]

Threads == Workers \cup {Mutator}
Addresses == 1..MaxAddress
Words == 1..Size
Descriptors == [source : Addresses, claimed : BOOLEAN, done : BOOLEAN]

VARIABLES
  memory,       \* the words at every address; None before the first store
  entry,        \* the handle entry: address, and whether it is Relocating*
  next,         \* the first address not given out
  descriptors,  \* the RelocationDescriptor for every destination, or None
  installed,    \* destination of the one in the map, or 0
  packet,       \* the RelocationRange packet: "none", "queued" or "taken"
  lock,         \* the thread in relocation_lock, or None
  th,           \* what every thread is doing
  quarantined,  \* sources given to quarantine_allocation
  ops,          \* accesses so far; also the value the next one writes
  written,      \* history: the last value the program stored in a word
  exposed       \* history: words whose last store used the source of a
                \* descriptor without store_reference's second look at it

objectVars == <<memory, entry, next>>
relocationVars == <<descriptors, installed, packet, lock, quarantined>>
historyVars == <<ops, written, exposed>>
vars == <<objectVars, relocationVars, th, historyVars>>

\* access: what the thread is doing; got: the last address it resolved, and
\* then: what it does with it; word, slot, owner: of a store; arc: destination
\* of the descriptor it works with; index, value: the next word and what it held.
Idle == [pc |-> "idle", access |-> "none", then |-> "none", got |-> 0,
         word |-> 0, slot |-> 0, owner |-> 0, arc |-> 0, index |-> 0, value |-> None]

Init ==
  /\ memory = [a \in Addresses |-> [w \in Words |-> IF a = 1 THEN 0 ELSE None]]
  /\ entry = [address |-> 1, moving |-> FALSE] /\ next = 2
  /\ descriptors = [a \in Addresses |-> None] /\ installed = 0 /\ packet = "none" /\ lock = None
  /\ th = [t \in Threads |-> Idle]
  /\ quarantined = {}
  /\ ops = 0 /\ written = [w \in Words |-> 0] /\ exposed = {}

At(t, pc) == th[t].pc = pc
Goto(t, pc) == th' = [th EXCEPT ![t].pc = pc]
Undone == installed # 0 /\ ~descriptors[installed].done
Mine(t) == descriptors[th[t].arc]

-----------------------------------------------------------------------------
(* resolve_handle: the load barrier, and the assist if the entry moves.    *)
Return(t) == th' = [th EXCEPT ![t].pc = th[t].then, ![t].got = entry.address, ![t].arc = 0]

Resolve(t) ==
  /\ At(t, "resolve")
  /\ IF entry.moving THEN Goto(t, "assist") ELSE Return(t)
  /\ UNCHANGED <<objectVars, relocationVars, historyVars>>

Assist(t) ==
  /\ At(t, "assist")
  /\ th' = [th EXCEPT ![t].pc = IF Undone THEN "lock" ELSE "reread",
                      ![t].arc = installed]
  /\ UNCHANGED <<objectVars, relocationVars, historyVars>>

AssistReturn(t) ==
  /\ At(t, "reread")
  /\ Return(t)
  /\ UNCHANGED <<objectVars, relocationVars, historyVars>>

-----------------------------------------------------------------------------
(* copy_with_ownership.  The lock is held until the function returns.      *)
LockRelocation(t) ==
  /\ At(t, "lock") /\ lock = None
  /\ lock' = t /\ Goto(t, "claim")
  /\ UNCHANGED <<objectVars, descriptors, installed, packet, quarantined, historyVars>>

\* Mutant: the lock protects the claim only.
Claim_Unlocks(t) ==
  /\ At(t, "claim") /\ lock' = None
  /\ IF Mine(t).claimed THEN Goto(t, "wait") /\ UNCHANGED descriptors
     ELSE /\ descriptors' = [descriptors EXCEPT ![th[t].arc].claimed = TRUE]
          /\ Goto(t, "begin")
  /\ UNCHANGED <<objectVars, installed, packet, quarantined, historyVars>>

Claim(t) ==
  /\ At(t, "claim")
  /\ IF Mine(t).claimed
     THEN lock' = None /\ Goto(t, "wait") /\ UNCHANGED descriptors
     ELSE /\ descriptors' = [descriptors EXCEPT ![th[t].arc].claimed = TRUE]
          /\ Goto(t, "begin") /\ UNCHANGED lock
  /\ UNCHANGED <<objectVars, installed, packet, quarantined, historyVars>>

\* wait_until_done: on to the assist's second look, or to the packet's end.
WaitUntilDone(t) ==
  /\ At(t, "wait") /\ Mine(t).done
  /\ Goto(t, IF th[t].access = "relocate" THEN "release" ELSE "reread")
  /\ UNCHANGED <<objectVars, relocationVars, historyVars>>

BeginRelocation(t) ==
  /\ At(t, "begin")
  /\ entry' = [entry EXCEPT !.moving = TRUE]
  /\ th' = [th EXCEPT ![t].pc = "load", ![t].index = 1]
  /\ UNCHANGED <<memory, next, relocationVars, historyVars>>

LoadWord(t) ==
  /\ At(t, "load")
  /\ th' = [th EXCEPT ![t].pc = "store",
                      ![t].value = memory[Mine(t).source][th[t].index]]
  /\ UNCHANGED <<objectVars, relocationVars, historyVars>>

\* Mutant: the copy stops one word short.
StoreWord_Short(t) ==
  /\ At(t, "store")
  /\ memory' = [memory EXCEPT ![th[t].arc][th[t].index] = th[t].value]
  /\ th' = [th EXCEPT ![t].pc = IF th[t].index + 1 = Size THEN "complete" ELSE "load",
                      ![t].index = @ + 1, ![t].value = None]
  /\ UNCHANGED <<entry, next, relocationVars, historyVars>>

StoreWord(t) ==
  /\ At(t, "store")
  /\ memory' = [memory EXCEPT ![th[t].arc][th[t].index] = th[t].value]
  /\ th' = [th EXCEPT ![t].pc = IF th[t].index = Size THEN "complete" ELSE "load",
                      ![t].index = IF @ = Size THEN 0 ELSE @ + 1, ![t].value = None]
  /\ UNCHANGED <<entry, next, relocationVars, historyVars>>

CompleteRelocation(t) ==
  /\ At(t, "complete")
  /\ entry' = [address |-> th[t].arc, moving |-> FALSE]
  /\ Goto(t, "done")
  /\ UNCHANGED <<memory, next, relocationVars, historyVars>>

MarkDone(t) ==
  /\ At(t, "done")
  /\ descriptors' = [descriptors EXCEPT ![th[t].arc].done = TRUE]
  /\ Goto(t, "unlock")
  /\ UNCHANGED <<objectVars, installed, packet, lock, quarantined, historyVars>>

UnlockRelocation(t) ==
  /\ At(t, "unlock")
  /\ lock' = None
  /\ Goto(t, IF th[t].access = "relocate" THEN "forget" ELSE "reread")
  /\ UNCHANGED <<objectVars, descriptors, installed, packet, quarantined, historyVars>>

CopyStep(t) ==
  \/ LockRelocation(t) \/ Claim(t) \/ WaitUntilDone(t) \/ BeginRelocation(t)
  \/ LoadWord(t) \/ StoreWord(t) \/ CompleteRelocation(t) \/ MarkDone(t) \/ UnlockRelocation(t)

-----------------------------------------------------------------------------
(* Workers: the relocation packet, or a scan of the object.                *)
TakePacket(t) ==
  /\ At(t, "idle") /\ packet = "queued"
  /\ packet' = "taken"
  /\ th' = [th EXCEPT ![t] = [Idle EXCEPT !.pc = "lock", !.access = "relocate",
                                               !.arc = installed]]
  /\ UNCHANGED <<objectVars, descriptors, installed, lock, quarantined, historyVars>>

\* relocate_descriptor goes on only if this thread made the copy.
ForgetSource(t) ==
  /\ At(t, "forget")
  /\ quarantined' = quarantined \cup {Mine(t).source}
  /\ Goto(t, "release")
  /\ UNCHANGED <<objectVars, descriptors, installed, packet, lock, historyVars>>

ReleasePacket(t) ==
  /\ At(t, "release")
  /\ packet' = "none" /\ th' = [th EXCEPT ![t] = Idle]
  /\ UNCHANGED <<objectVars, descriptors, installed, lock, quarantined, historyVars>>

ScanBegin(t) ==
  /\ At(t, "idle")
  /\ th' = [th EXCEPT ![t] = [Idle EXCEPT !.pc = "resolve", !.access = "scan", !.then = "scan"]]
  /\ UNCHANGED <<objectVars, relocationVars, historyVars>>

ScanEnd(t) ==
  /\ At(t, "scan")
  /\ th' = [th EXCEPT ![t] = Idle]
  /\ UNCHANGED <<objectVars, relocationVars, historyVars>>

WorkerStep(t) ==
  \/ Resolve(t) \/ Assist(t) \/ AssistReturn(t) \/ CopyStep(t)
  \/ TakePacket(t) \/ ForgetSource(t) \/ ReleasePacket(t) \/ ScanBegin(t) \/ ScanEnd(t)

-----------------------------------------------------------------------------
(* The mutator.  A caller of store_reference resolves the owner for the    *)
(* slot's address, and store_reference resolves it again.                  *)
Me == th[Mutator]

Begin(access, w, pc, then) ==
  /\ At(Mutator, "idle") /\ ops < MaxOps /\ ops' = ops + 1
  /\ th' = [th EXCEPT ![Mutator] = [Idle EXCEPT !.pc = pc, !.access = access, !.word = w, !.then = then]]
  /\ UNCHANGED <<objectVars, relocationVars, written, exposed>>

BeginStore == \E w \in Words : Begin("store", w, "resolve", "owner")
BeginPlainStore == \E w \in Words : Begin("plain", w, "resolve", "slot")
BeginGrow == Begin("grow", 0, "growLock", "growLock")

\* The slot's address is computed; store_reference resolves the owner itself.
ResolveOwner ==
  /\ At(Mutator, "owner")
  /\ th' = [th EXCEPT ![Mutator].slot = Me.got, ![Mutator].pc = "resolve", ![Mutator].then = "slot"]
  /\ UNCHANGED <<objectVars, relocationVars, historyVars>>

\* The store itself.  set_element's length and the headers stop here.
Target == IF Me.access = "plain" THEN Me.got ELSE Me.slot

StoreSlot ==
  /\ At(Mutator, "slot")
  /\ memory' = [memory EXCEPT ![Target][Me.word] = ops]
  /\ written' = [written EXCEPT ![Me.word] = ops]
  /\ exposed' = IF /\ installed # 0 /\ Target = descriptors[installed].source
                   /\ Me.access = "plain" \/ Me.got # Target
                THEN exposed \cup {Me.word} ELSE exposed \ {Me.word}
  /\ th' = [th EXCEPT ![Mutator] = IF Me.access = "plain" THEN Idle
                                   ELSE [Me EXCEPT !.pc = "mirror", !.owner = Me.got]]
  /\ UNCHANGED <<entry, next, relocationVars, ops>>

\* A descriptor whose source is the owner: the destination is written, too.
MirrorStore ==
  /\ At(Mutator, "mirror")
  /\ memory' = IF installed # 0 /\ descriptors[installed].source = Me.owner
               THEN [memory EXCEPT ![installed][Me.word] = ops] ELSE memory
  /\ th' = [th EXCEPT ![Mutator].pc = "resolve", ![Mutator].then = "final"]
  /\ UNCHANGED <<entry, next, relocationVars, historyVars>>

\* Mutant: no second look at the owner.
FinalStore_Skipped ==
  /\ At(Mutator, "final")
  /\ th' = [th EXCEPT ![Mutator] = Idle]
  /\ UNCHANGED <<objectVars, relocationVars, historyVars>>

FinalStore ==
  /\ At(Mutator, "final")
  /\ memory' = IF Me.got # Me.owner THEN [memory EXCEPT ![Me.got][Me.word] = ops] ELSE memory
  /\ th' = [th EXCEPT ![Mutator] = Idle]
  /\ UNCHANGED <<entry, next, relocationVars, historyVars>>

\* Mutants: growth does not wait for the copy; growth waits with the lock held.
GrowLock_NoWait ==
  /\ At(Mutator, "growLock") /\ lock = None
  /\ lock' = Mutator
  /\ th' = [th EXCEPT ![Mutator].pc = "resolve", ![Mutator].then = "growCopy"]
  /\ UNCHANGED <<objectVars, descriptors, installed, packet, quarantined, historyVars>>

GrowLock_Holds ==
  /\ At(Mutator, "growLock") /\ lock = None
  /\ lock' = Mutator
  /\ IF Undone THEN Goto(Mutator, "assist")
     ELSE th' = [th EXCEPT ![Mutator].pc = "resolve", ![Mutator].then = "growCopy"]
  /\ UNCHANGED <<objectVars, descriptors, installed, packet, quarantined, historyVars>>

\* acquire_mutator_relocation: an undone copy is finished first.
GrowLock ==
  /\ At(Mutator, "growLock") /\ lock = None
  /\ IF Undone THEN Goto(Mutator, "assist") /\ UNCHANGED lock
     ELSE /\ lock' = Mutator
          /\ th' = [th EXCEPT ![Mutator].pc = "resolve", ![Mutator].then = "growCopy"]
  /\ UNCHANGED <<objectVars, descriptors, installed, packet, quarantined, historyVars>>

\* No address left: the error returns and drops the lock.
GrowCopy ==
  /\ At(Mutator, "growCopy")
  /\ IF next > MaxAddress
     THEN lock' = None /\ th' = [th EXCEPT ![Mutator] = Idle] /\ UNCHANGED objectVars
     ELSE /\ memory' = [memory EXCEPT ![next] = memory[Me.got]]
          /\ entry' = [entry EXCEPT !.moving = TRUE]
          /\ th' = [th EXCEPT ![Mutator].pc = "growPublish", ![Mutator].slot = next]
          /\ next' = next + 1 /\ UNCHANGED lock
  /\ UNCHANGED <<descriptors, installed, packet, quarantined, historyVars>>

GrowPublish ==
  /\ At(Mutator, "growPublish")
  /\ entry' = [address |-> Me.slot, moving |-> FALSE]
  /\ quarantined' = quarantined \cup {Me.got}
  /\ lock' = None /\ th' = [th EXCEPT ![Mutator] = Idle]
  /\ UNCHANGED <<memory, next, descriptors, installed, packet, historyVars>>

MutatorStep ==
  \/ Resolve(Mutator) \/ Assist(Mutator) \/ AssistReturn(Mutator) \/ CopyStep(Mutator)
  \/ ResolveOwner \/ StoreSlot \/ MirrorStore \/ FinalStore
  \/ GrowLock \/ GrowCopy \/ GrowPublish

-----------------------------------------------------------------------------
(* The owner thread between two accesses: prepare_relocation installs the  *)
(* descriptor and the packet is submitted; when the packet has been        *)
(* processed the descriptors are cleared (epoch_reclaim).                  *)
Prepare ==
  /\ At(Mutator, "idle") /\ installed = 0 /\ next <= MaxAddress
  /\ descriptors' = [descriptors EXCEPT ![next] =
                       [source |-> entry.address, claimed |-> FALSE, done |-> FALSE]]
  /\ installed' = next /\ packet' = "queued" /\ next' = next + 1
  /\ UNCHANGED <<memory, entry, lock, quarantined, th, historyVars>>

EpochReclaim ==
  /\ At(Mutator, "idle") /\ installed # 0 /\ packet = "none"
  /\ installed' = 0
  /\ UNCHANGED <<objectVars, descriptors, packet, lock, quarantined, th, historyVars>>

Next ==
  \/ \E t \in Workers : WorkerStep(t)
  \/ BeginStore \/ BeginPlainStore \/ BeginGrow \/ MutatorStep
  \/ Prepare \/ EpochReclaim

Spec == Init /\ [][Next]_vars

\* Threads are scheduled, the pool serves its packets, the owner polls.
FairSpec ==
  /\ Spec /\ WF_vars(MutatorStep) /\ WF_vars(EpochReclaim)
  /\ \A t \in Workers : WF_vars(WorkerStep(t)) /\ SF_vars(TakePacket(t))

-----------------------------------------------------------------------------
Pcs == {"idle", "resolve", "assist", "reread", "lock", "claim", "begin", "load", "store",
        "complete", "done", "unlock", "wait", "forget", "release", "scan", "owner", "slot",
        "mirror", "final", "growLock", "growCopy", "growPublish"}
Values == 0..MaxOps \cup {None}
ThreadStates ==
  [pc : Pcs, access : {"none", "scan", "relocate", "store", "plain", "grow"},
   then : {"none", "scan", "owner", "slot", "final", "growLock", "growCopy"},
   got : Addresses \cup {0}, word : Words \cup {0}, slot : Addresses \cup {0},
   owner : Addresses \cup {0}, arc : Addresses \cup {0}, index : 0..Size, value : Values]

TypeOK ==
  /\ memory \in [Addresses -> [Words -> Values]]
  /\ entry \in [address : Addresses, moving : BOOLEAN] /\ next \in 1..(MaxAddress + 1)
  /\ descriptors \in [Addresses -> Descriptors \cup {None}]
  /\ installed \in Addresses \cup {0}
  /\ packet \in {"none", "queued", "taken"} /\ lock \in Threads \cup {None}
  /\ th \in [Threads -> ThreadStates]
  /\ quarantined \subseteq Addresses
  /\ ops \in 0..MaxOps /\ written \in [Words -> 0..MaxOps] /\ exposed \subseteq Words

MutatorIdle == At(Mutator, "idle")
Kept(words) == \A w \in words : memory[entry.address][w] = written[w]

(* A store_reference whose slot and whose owner were resolved to the same  *)
(* address survives: whatever a worker or an assist copies meanwhile, the  *)
(* object has the value when the store returns (heap_access.rs:2145-2227). *)
StoresSurvive == MutatorIdle => Kept(Words \ exposed)

(* An address that resolve_handle has returned is that of a whole object:  *)
(* the copy to it is over.                                                 *)
NoPartialObject ==
  \A t \in Threads : th[t].got # 0 => \A w \in Words : memory[th[t].got][w] # None

(* A thread that fails to claim a copy finds it done.  wait_until_done     *)
(* must not have to sleep: mark_done's notify_all is not under its mutex,  *)
(* so a sleeper could miss it.                                             *)
NobodySleeps == \A t \in Threads : At(t, "wait") => Mine(t).done

(* An address in the quarantine is no object's address and no copy reads   *)
(* it any more.                                                            *)
QuarantinedIsAbandoned ==
  /\ entry.address \notin quarantined
  /\ Undone => descriptors[installed].source \notin quarantined

(* Every relocation ends: its copy, the packet and the access the mutator  *)
(* is in all return, whoever waits for whom.                               *)
RelocationEnds == installed # 0 ~> installed = 0
=============================================================================
