---------------------- MODULE ConcurrentRelocationProofs ----------------------
(***************************************************************************)
(* For any number of workers, words, addresses and stores: a copy that     *)
(* races with the program loses no store, shows nobody half an object and  *)
(* lets nobody sleep.                                                      *)
(*                                                                         *)
(* One thread copies at a time, the one that holds the lock (Locked), from *)
(* the address the entry names until the copy is over (Arcs, Described):   *)
(* while the mutator is in an access nobody installs another descriptor,   *)
(* so the entry moves at most once, from the source of the installed       *)
(* descriptor to its destination (Resolved).  A word whose store is not    *)
(* exposed is then either equal in the object and in what has been copied  *)
(* so far, or the store is still to look at the owner again (Busy): it     *)
(* waits there for a copy under way and writes the word once more.         *)
(***************************************************************************)
EXTENDS ConcurrentRelocation, TLAPS

HoldPcs == {"claim", "begin", "load", "store", "complete", "done", "unlock"}
ArcPcs == HoldPcs \cup {"lock", "wait", "forget"}
WorkerPcs == ArcPcs \cup {"idle", "resolve", "assist", "reread", "release", "scan"}
MutatorPcs == (ArcPcs \ {"forget"}) \cup
  {"idle", "resolve", "assist", "reread", "owner", "slot", "mirror", "final", "growLock",
   "growCopy", "growPublish"}
WayPcs == (ArcPcs \ {"forget"}) \cup {"resolve", "assist", "reread"}
\* Which access a thread is in at each label, and where it is to go on.
WorkersControlled ==
  \A t \in Workers :
    \/ th[t] = Idle
    \/ th[t].access = "scan" /\ th[t].then = "scan" /\ th[t].pc \in WayPcs \cup {"scan"}
    \/ th[t].access = "relocate" /\ th[t].pc \in ArcPcs \cup {"release"}

MutatorControlled ==
  \/ Me = Idle
  \/ /\ Me.access = "store" /\ Me.word \in Words
     /\ \/ Me.then = "owner" /\ Me.pc \in WayPcs \cup {"owner"}
        \/ Me.then = "slot" /\ Me.pc \in WayPcs \cup {"slot", "mirror"}
        \/ Me.then = "final" /\ Me.pc \in WayPcs \cup {"final"}
  \/ Me.access = "plain" /\ Me.word \in Words /\ Me.then = "slot" /\ Me.pc \in WayPcs \cup {"slot"}
  \/ /\ Me.access = "grow"
     /\ \/ Me.then = "growLock" /\ Me.pc \in WayPcs \cup {"growLock"}
        \/ Me.then = "growCopy" /\ Me.pc \in {"resolve", "growCopy", "growPublish"}

\* The lock: who copies or grows holds it, and no copy is undone while the
\* mutator grows the object.
Growing == Me.then = "growCopy"
Locked ==
  /\ \A t \in Threads : th[t].pc \in HoldPcs => lock = t
  /\ Growing => lock = Mutator /\ ~Undone
  /\ Me.pc = "reread" => ~Undone

\* The entry moves exactly while somebody copies.
Copying(t) == th[t].pc \in {"load", "store", "complete"}
Moving ==
  /\ \A t \in Threads : Copying(t) => entry.moving
  /\ entry.moving => lock \in Threads /\ (Copying(lock) \/ th[lock].pc = "growPublish")

\* The descriptor a thread works with, and the one that has the packet.
ArcKnown(t) ==
  th[t].pc \in ArcPcs =>
    /\ th[t].arc \in Addresses /\ Mine(t) \in Descriptors
    /\ th[t].arc = installed \/ Mine(t).done
    /\ t = Mutator => th[t].arc = installed
    /\ th[t].pc \in {"begin", "load", "store", "complete", "done"} => Mine(t).claimed /\ ~Mine(t).done
    /\ th[t].pc \in {"begin", "load", "store", "complete"} => entry.address = Mine(t).source
    /\ th[t].pc = "done" => entry.address = th[t].arc
    /\ th[t].pc \in {"unlock", "wait", "forget"} => Mine(t).done
PacketTaken(t) ==
  th[t].access = "relocate" =>
    /\ packet = "taken" /\ installed # 0 /\ th[t].arc = installed
    /\ th[t].pc = "release" => Mine(t).done
    /\ \A u \in Threads : th[u].access = "relocate" => u = t
Arcs == \A t \in Threads : ArcKnown(t) /\ PacketTaken(t)

Whole(a) == \A w \in Words : memory[a][w] # None

\* Descriptors, who makes their copies, and the packet of the installed one.
DescriptorKnown(a) ==
  descriptors[a] \in Descriptors =>
    /\ a < next /\ descriptors[a].source < a /\ Whole(descriptors[a].source)
    /\ descriptors[a].done => descriptors[a].claimed /\ a <= entry.address
    /\ ~descriptors[a].done => a = installed /\ entry.address \in {a, descriptors[a].source}
    /\ ~descriptors[a].claimed => entry.address = descriptors[a].source
HasCopier(a) ==
  descriptors[a] \in Descriptors /\ descriptors[a].claimed /\ ~descriptors[a].done =>
    \E t \in Threads : th[t].pc \in {"begin", "load", "store", "complete", "done"} /\ th[t].arc = a
PacketKnown ==
  /\ installed # 0 => descriptors[installed] \in Descriptors
  /\ packet # "none" => installed # 0
  /\ Undone => packet # "none"
Described ==
  /\ entry.address < next /\ Whole(entry.address)
  /\ \A a \in Addresses : DescriptorKnown(a) /\ HasCopier(a)
  /\ PacketKnown

\* What has been copied so far has no hole, nor has an object being grown.
Copied(t, w) == th[t].pc = "complete" \/ (th[t].pc \in {"load", "store"} /\ w < th[t].index)
GotWhole(t) == th[t].got # 0 => Whole(th[t].got) /\ th[t].got <= entry.address
CopiedWhole(t) == \A w \in Words : Copied(t, w) => memory[th[t].arc][w] # None
LoadedWhole(t) ==
  /\ th[t].pc \in {"load", "store"} => th[t].index \in Words
  /\ th[t].pc = "store" => th[t].value # None
CopyWhole(t) == GotWhole(t) /\ CopiedWhole(t) /\ LoadedWhole(t)
GrownWhole ==
  /\ Me.pc \in {"growCopy", "growPublish"} => Me.got = entry.address
  /\ Me.pc = "growPublish" =>
       /\ Me.slot \in Addresses /\ entry.address < Me.slot /\ Me.slot < next
       /\ memory[Me.slot] = memory[entry.address]
       /\ \A a \in Addresses : descriptors[a] \in Descriptors => a < Me.slot
CopiesWhole == (\A t \in Threads : CopyWhole(t)) /\ GrownWhole

\* The quarantine holds addresses the entry has left.
Abandoned ==
  \A a \in quarantined : a < entry.address /\ (Undone => a < descriptors[installed].source)

\* What the mutator resolved is the entry's address, or its last one.
KnownAddress(a) == a = entry.address \/ (installed # 0 /\ a = descriptors[installed].source)
Stores == Me.access \in {"store", "plain"}
Pending == Me.access = "store" /\ (Me.pc = "mirror" \/ Me.then = "final")
Resolved ==
  /\ Me.pc \in {"owner", "slot", "mirror", "final"} => Me.got # 0
  /\ Stores /\ Me.got # 0 => KnownAddress(Me.got)
  /\ Me.access = "store" /\ Me.then \in {"slot", "final"} => KnownAddress(Me.slot) /\ Me.slot <= Me.got
  /\ Pending => KnownAddress(Me.owner) /\ Me.owner <= Me.got

\* The store that may still have to be repeated.
Busy(w) == Pending /\ Me.word = w /\ ~(Me.pc = "final" /\ Me.got = Me.owner)
EntryCurrent == \A w \in Words \ exposed : memory[entry.address][w] = written[w] \/ Busy(w)
CopyCurrent(t) ==
  \A w \in Words \ exposed : Copied(t, w) => memory[th[t].arc][w] = written[w] \/ Busy(w)
LoadCurrent(t) ==
  \A w \in Words \ exposed : th[t].pc = "store" /\ th[t].index = w => th[t].value = written[w] \/ Busy(w)
PendingCurrent ==
  Pending => /\ written[Me.word] = ops
             /\ Me.word \notin exposed => memory[Me.owner][Me.word] = ops
StoresKept ==
  /\ EntryCurrent /\ PendingCurrent
  /\ \A t \in Threads : CopyCurrent(t) /\ LoadCurrent(t)

IInv ==
  /\ TypeOK /\ WorkersControlled /\ MutatorControlled /\ Locked /\ Moving /\ Arcs
  /\ Described /\ CopiesWhole /\ Abandoned /\ Resolved /\ StoresKept

-----------------------------------------------------------------------------
\* Every step keeps the types of the threads.
LEMMA ThreadsStep ==
  ASSUME IInv, [Next]_vars
  PROVE  th' \in [Threads -> ThreadStates]
<1>0. TypeOK /\ WorkersControlled /\ MutatorControlled /\ Arcs /\ CopiesWhole
  BY DEF IInv
<1>a. th \in [Threads -> ThreadStates] /\ Mutator \in Threads /\ Workers \subseteq Threads
  BY <1>0 DEF TypeOK, Threads
<1>b. Idle \in ThreadStates
  BY RelocationAssumption DEF Idle, ThreadStates, Pcs, Values
<1>c. entry.address \in Addresses /\ installed \in Addresses \cup {0} /\ None \in Values
  BY <1>0 DEF TypeOK, Values
<1>d. \A t \in Threads : th[t].pc \in {"resolve", "reread"} => th[t].then \in Pcs
  BY <1>0, <1>a
     DEF WorkersControlled, MutatorControlled, Pcs, Threads, Idle, Me, WayPcs, ArcPcs, HoldPcs
<1>e. \A t \in Threads :
        /\ th[t].pc \in {"load", "store"} => th[t].index \in Words
        /\ th[t].pc = "load" => Mine(t) \in Descriptors
  BY <1>0, <1>a DEF CopiesWhole, CopyWhole, LoadedWhole, Arcs, ArcKnown, ArcPcs, HoldPcs
<1>f. \A t \in Threads : th[t].pc = "load" => memory[Mine(t).source][th[t].index] \in Values
  BY <1>0, <1>e DEF TypeOK, Descriptors
<1>g. 1 \in Words /\ \A w \in Words : w \in 0..Size /\ (w # Size => w + 1 \in 0..Size)
  BY RelocationAssumption DEF Words
<1>h. next <= MaxAddress => next \in Addresses
  BY <1>0, RelocationAssumption DEF TypeOK, Addresses
<1>1. CASE UNCHANGED vars
  BY <1>1, <1>a DEF vars
<1>2. ASSUME NEW t \in Threads, Assist(t) PROVE th' \in [Threads -> ThreadStates]
  <2>1. th[t] \in ThreadStates
    BY <1>a
  <2>2. th'[t] \in ThreadStates
    BY <2>1, <1>a, <1>c, <1>2 DEF Assist, ThreadStates, Pcs, At, Goto, Me
  <2>3. th' = [th EXCEPT ![t] = th'[t]]
    BY <1>a, <1>2 DEF Assist, Goto, Me
  <2> QED
    BY <1>a, <2>2, <2>3
<1>3. ASSUME NEW t \in Threads, AssistReturn(t) PROVE th' \in [Threads -> ThreadStates]
  <2>1. th[t] \in ThreadStates
    BY <1>a
  <2>2. th'[t] \in ThreadStates
    <3>1. th[t].then \in Pcs /\ entry.address \in Addresses
      BY <1>c, <1>d, <1>3 DEF AssistReturn, At
    <3>2. th'[t] = [th[t] EXCEPT !.pc = th[t].then, !.got = entry.address, !.arc = 0]
      BY <1>a, <1>3 DEF AssistReturn, Return
    <3> QED
      BY <2>1, <3>1, <3>2 DEF ThreadStates
  <2>3. th' = [th EXCEPT ![t] = th'[t]]
    BY <1>a, <1>3 DEF AssistReturn, Return, Goto, Me
  <2> QED
    BY <1>a, <2>2, <2>3
<1>4. ASSUME NEW t \in Threads, BeginRelocation(t) PROVE th' \in [Threads -> ThreadStates]
  <2>1. th[t] \in ThreadStates
    BY <1>a
  <2>2. th'[t] \in ThreadStates
    BY <2>1, <1>a, <1>g, <1>4 DEF BeginRelocation, ThreadStates, Pcs, At, Goto, Me
  <2>3. th' = [th EXCEPT ![t] = th'[t]]
    BY <1>a, <1>4 DEF BeginRelocation, Goto, Me
  <2> QED
    BY <1>a, <2>2, <2>3
<1>5. ASSUME NEW t \in Threads, LoadWord(t) PROVE th' \in [Threads -> ThreadStates]
  <2>1. th[t] \in ThreadStates
    BY <1>a
  <2>2. th'[t] \in ThreadStates
    BY <2>1, <1>a, <1>f, <1>5 DEF LoadWord, ThreadStates, Pcs, At, Goto, Me
  <2>3. th' = [th EXCEPT ![t] = th'[t]]
    BY <1>a, <1>5 DEF LoadWord, Goto, Me
  <2> QED
    BY <1>a, <2>2, <2>3
<1>6. CASE BeginStore
  <2>0. PICK w \in Words : Begin("store", w, "resolve", "owner")
    BY <1>6 DEF BeginStore, Begin
  <2>1. th'[Mutator] = [Idle EXCEPT !.pc = "resolve", !.access = "store", !.word = w, !.then =  "owner"]
    BY <2>0, <1>a DEF Begin
  <2>2. th'[Mutator] \in ThreadStates
    BY <2>1 , <1>b DEF ThreadStates, Pcs, Idle
  <2>3. th' = [th EXCEPT ![Mutator] = th'[Mutator]]
    BY <1>a, <2>0 DEF Begin
  <2> QED
    BY <1>a, <2>2, <2>3
<1>7. CASE BeginPlainStore
  <2>0. PICK w \in Words : Begin("plain", w, "resolve", "slot")
    BY <1>7 DEF BeginPlainStore, Begin
  <2>1. th'[Mutator] = [Idle EXCEPT !.pc = "resolve", !.access = "plain", !.word = w, !.then =  "slot"]
    BY <2>0, <1>a DEF Begin
  <2>2. th'[Mutator] \in ThreadStates
    BY <2>1 , <1>b DEF ThreadStates, Pcs, Idle
  <2>3. th' = [th EXCEPT ![Mutator] = th'[Mutator]]
    BY <1>a, <2>0 DEF Begin
  <2> QED
    BY <1>a, <2>2, <2>3
<1>8. CASE StoreSlot
  <2>1. th[Mutator] \in ThreadStates
    BY <1>a
  <2>2. th'[Mutator] \in ThreadStates
    <3>1. CASE Me.access = "plain"
      BY <1>a, <1>b, <3>1, <1>8 DEF StoreSlot
    <3>2. CASE Me.access # "plain"
      <4>1. th'[Mutator] = [th[Mutator] EXCEPT !.pc = "mirror", !.owner = th[Mutator].got]
        BY <1>a, <3>2, <1>8 DEF StoreSlot, Me
      <4>2. "mirror" \in Pcs /\ th[Mutator].got \in Addresses \cup {0}
        BY <2>1 DEF ThreadStates, Pcs
      <4> QED
        BY <2>1, <4>1, <4>2 DEF ThreadStates
    <3> QED
      BY <3>1, <3>2
  <2>3. th' = [th EXCEPT ![Mutator] = th'[Mutator]]
    BY <1>a, <1>8 DEF StoreSlot, Goto, Me
  <2> QED
    BY <1>a, <2>2, <2>3
<1>9. CASE MirrorStore
  <2>1. th[Mutator] \in ThreadStates
    BY <1>a
  <2>2. th'[Mutator] \in ThreadStates
    BY <2>1, <1>a, <1>9 DEF MirrorStore, ThreadStates, Pcs, At, Goto, Me
  <2>3. th' = [th EXCEPT ![Mutator] = th'[Mutator]]
    BY <1>a, <1>9 DEF MirrorStore, Goto, Me
  <2> QED
    BY <1>a, <2>2, <2>3
<1> USE <1>a DEF ThreadStates, Pcs, At, Goto, Me
<1>10. ASSUME NEW t \in Threads, Resolve(t) PROVE th' \in [Threads -> ThreadStates]
  BY <1>c, <1>d, <1>10 DEF Resolve, Return
<1>11. ASSUME NEW t \in Threads, LockRelocation(t) PROVE th' \in [Threads -> ThreadStates]
  BY <1>11 DEF LockRelocation
<1>12. ASSUME NEW t \in Threads, Claim(t) PROVE th' \in [Threads -> ThreadStates]
  BY <1>12 DEF Claim
<1>13. ASSUME NEW t \in Threads, WaitUntilDone(t) PROVE th' \in [Threads -> ThreadStates]
  BY <1>13 DEF WaitUntilDone
<1>14. ASSUME NEW t \in Threads, StoreWord(t) PROVE th' \in [Threads -> ThreadStates]
  BY <1>c, <1>e, <1>g, <1>14 DEF StoreWord
<1>15. ASSUME NEW t \in Threads, CompleteRelocation(t) PROVE th' \in [Threads -> ThreadStates]
  BY <1>15 DEF CompleteRelocation
<1>16. ASSUME NEW t \in Threads, MarkDone(t) PROVE th' \in [Threads -> ThreadStates]
  BY <1>16 DEF MarkDone
<1>17. ASSUME NEW t \in Threads, UnlockRelocation(t) PROVE th' \in [Threads -> ThreadStates]
  BY <1>17 DEF UnlockRelocation
<1>18. ASSUME NEW t \in Workers, TakePacket(t) PROVE th' \in [Threads -> ThreadStates]
  BY <1>b, <1>c, <1>18 DEF TakePacket, Idle
<1>19. ASSUME NEW t \in Workers, ForgetSource(t) PROVE th' \in [Threads -> ThreadStates]
  BY <1>19 DEF ForgetSource
<1>20. ASSUME NEW t \in Workers, ReleasePacket(t) PROVE th' \in [Threads -> ThreadStates]
  BY <1>b, <1>20 DEF ReleasePacket
<1>21. ASSUME NEW t \in Workers, ScanBegin(t) PROVE th' \in [Threads -> ThreadStates]
  BY <1>b, <1>21 DEF ScanBegin, Idle
<1>22. ASSUME NEW t \in Workers, ScanEnd(t) PROVE th' \in [Threads -> ThreadStates]
  BY <1>b, <1>22 DEF ScanEnd
<1>23. CASE BeginGrow
  BY <1>b, <1>23 DEF BeginGrow, Begin, Idle
<1>24. CASE ResolveOwner
  BY <1>24 DEF ResolveOwner
<1>25. CASE FinalStore
  BY <1>b, <1>25 DEF FinalStore
<1>26. CASE GrowLock
  BY <1>26 DEF GrowLock
<1>27. CASE GrowCopy
  BY <1>b, <1>h, <1>27 DEF GrowCopy
<1>28. CASE GrowPublish
  BY <1>b, <1>28 DEF GrowPublish
<1>29. CASE Prepare
  BY <1>29 DEF Prepare
<1>30. CASE EpochReclaim
  BY <1>30 DEF EpochReclaim
<1> QED
  BY ONLY [Next]_vars, <1>1, <1>2, <1>3, <1>4, <1>5, <1>6, <1>7, <1>8, <1>9, <1>10, <1>11,
     <1>12, <1>13, <1>14, <1>15, <1>16, <1>17, <1>18, <1>19, <1>20, <1>21, <1>22, <1>23,
     <1>24, <1>25, <1>26, <1>27, <1>28, <1>29, <1>30
     DEF Next, WorkerStep, MutatorStep, CopyStep, Threads

\* Every step keeps the types.
LEMMA TypesStep ==
  ASSUME IInv, [Next]_vars
  PROVE  TypeOK'
<1>0. TypeOK /\ MutatorControlled /\ Arcs /\ CopiesWhole
  BY DEF IInv
<1>a. th \in [Threads -> ThreadStates] /\ Mutator \in Threads /\ Workers \subseteq Threads
  BY <1>0 DEF TypeOK, Threads
<1>b. th' \in [Threads -> ThreadStates]
  BY ThreadsStep
<1>c. ops \in Values /\ None \in Values /\ \A t \in Threads : th[t].value \in Values
  BY <1>0, <1>a DEF TypeOK, Values, ThreadStates
<1>d. \A t \in Threads : th[t].pc \in ArcPcs =>
        th[t].arc \in Addresses /\ Mine(t) \in Descriptors /\ Mine(t).source \in Addresses
  BY <1>0, <1>a DEF Arcs, ArcKnown, Descriptors
<1>e. /\ Me.pc \in {"growCopy", "growPublish"} => Me.got \in Addresses
      /\ Me.pc = "growPublish" => Me.slot \in Addresses
  BY <1>0 DEF CopiesWhole, GrownWhole, TypeOK, Addresses
<1>f. next <= MaxAddress => next \in Addresses /\ next + 1 \in 1..(MaxAddress + 1)
  BY <1>0, RelocationAssumption DEF TypeOK, Addresses
<1>1. CASE UNCHANGED vars
  BY <1>0, <1>b, <1>1 DEF TypeOK, vars, objectVars, relocationVars, historyVars
<1>2. ASSUME NEW t \in Threads, Claim(t) PROVE TypeOK'
  <2>1. Mine(t) \in Descriptors /\ th[t].arc \in Addresses
    BY <1>d, <1>2 DEF Claim, At, ArcPcs, HoldPcs
  <2>2. [Mine(t) EXCEPT !.claimed = TRUE] \in Descriptors /\ [Mine(t) EXCEPT !.done = TRUE] \in Descriptors
    BY <2>1 DEF Descriptors
  <2> QED
    BY <1>0, <1>a, <1>b, <2>1, <2>2, <1>2
       DEF Claim, TypeOK, Mine, objectVars, relocationVars, historyVars
<1>3. CASE StoreSlot
  <2>1. Me.word \in Words
    BY <1>0, <1>3 DEF StoreSlot, At, Me, MutatorControlled, Idle, WayPcs, ArcPcs, HoldPcs
  <2>2. memory' \in [Addresses -> [Words -> Values]] /\ written' \in [Words -> 0..MaxOps]
    BY <1>0, <1>c, <1>3 DEF StoreSlot, TypeOK
  <2>3. exposed' \subseteq Words
    BY <1>0, <2>1, <1>3 DEF StoreSlot, TypeOK
  <2> QED
    BY <1>0, <1>b, <2>2, <2>3, <1>3 DEF StoreSlot, TypeOK, relocationVars
<1>4. CASE GrowCopy
  <2>1. Me.got \in Addresses
    BY <1>e, <1>4 DEF GrowCopy, At, Me
  <2>2. CASE next > MaxAddress
    BY <1>0, <1>b, <2>2, <1>4 DEF GrowCopy, TypeOK, objectVars, historyVars
  <2>3. CASE ~(next > MaxAddress)
    <3>1. next <= MaxAddress
      BY <1>0, <2>3, RelocationAssumption DEF TypeOK
    <3>2. memory' \in [Addresses -> [Words -> Values]]
      BY <1>0, <2>1, <2>3, <1>4 DEF GrowCopy, TypeOK
    <3>3. entry' \in [address : Addresses, moving : BOOLEAN]
      BY <1>0, <2>3, <1>4 DEF GrowCopy, TypeOK
    <3> QED
      BY <1>0, <1>b, <1>f, <2>3, <3>1, <3>2, <3>3, <1>4 DEF GrowCopy, TypeOK, historyVars
  <2> QED
    BY <2>2, <2>3
<1> USE <1>0, <1>b DEF TypeOK, objectVars, relocationVars, historyVars
<1>5. ASSUME NEW t \in Threads, Resolve(t) PROVE TypeOK'
  BY <1>5 DEF Resolve, Return
<1>6. ASSUME NEW t \in Threads, Assist(t) PROVE TypeOK'
  BY <1>6 DEF Assist
<1>7. ASSUME NEW t \in Threads, AssistReturn(t) PROVE TypeOK'
  BY <1>7 DEF AssistReturn, Return
<1>8. ASSUME NEW t \in Threads, LockRelocation(t) PROVE TypeOK'
  BY <1>a, <1>c, <1>8 DEF LockRelocation, At
<1>9. ASSUME NEW t \in Threads, WaitUntilDone(t) PROVE TypeOK'
  BY <1>9 DEF WaitUntilDone
<1>10. ASSUME NEW t \in Threads, BeginRelocation(t) PROVE TypeOK'
  BY <1>10 DEF BeginRelocation
<1>11. ASSUME NEW t \in Threads, LoadWord(t) PROVE TypeOK'
  BY <1>11 DEF LoadWord
<1>12. ASSUME NEW t \in Threads, StoreWord(t) PROVE TypeOK'
  BY <1>a, <1>c, <1>12 DEF StoreWord, At
<1>13. ASSUME NEW t \in Threads, CompleteRelocation(t) PROVE TypeOK'
  BY <1>a, <1>d, <1>13 DEF CompleteRelocation, At, ArcPcs, HoldPcs
<1>14. ASSUME NEW t \in Threads, MarkDone(t) PROVE TypeOK'
  BY ZenonT(90), <1>d, <1>14, <1>a DEF MarkDone, At, ArcPcs, HoldPcs, Descriptors, Mine
<1>15. ASSUME NEW t \in Threads, UnlockRelocation(t) PROVE TypeOK'
  BY <1>a, <1>c, <1>15 DEF UnlockRelocation, At
<1>16. ASSUME NEW t \in Workers, TakePacket(t) PROVE TypeOK'
  BY <1>a, <1>c, <1>16 DEF TakePacket, At
<1>17. ASSUME NEW t \in Workers, ForgetSource(t) PROVE TypeOK'
  BY <1>a, <1>d, <1>17 DEF ForgetSource, At, ArcPcs, HoldPcs
<1>18. ASSUME NEW t \in Workers, ReleasePacket(t) PROVE TypeOK'
  BY <1>18 DEF ReleasePacket
<1>19. ASSUME NEW t \in Workers, ScanBegin(t) PROVE TypeOK'
  BY <1>19 DEF ScanBegin
<1>20. ASSUME NEW t \in Workers, ScanEnd(t) PROVE TypeOK'
  BY <1>20 DEF ScanEnd
<1>21. CASE BeginStore
  BY RelocationAssumption, <1>21 DEF BeginStore, BeginPlainStore, BeginGrow, Begin
<1>22. CASE BeginPlainStore
  BY RelocationAssumption, <1>22 DEF BeginStore, BeginPlainStore, BeginGrow, Begin
<1>23. CASE BeginGrow
  BY RelocationAssumption, <1>23 DEF BeginStore, BeginPlainStore, BeginGrow, Begin
<1>24. CASE ResolveOwner
  BY <1>24 DEF ResolveOwner
<1>25. CASE MirrorStore
  BY <1>a, <1>c, <1>25 DEF MirrorStore, At
<1>26. CASE FinalStore
  BY <1>a, <1>c, <1>26 DEF FinalStore, At
<1>27. CASE GrowLock
  BY <1>a, <1>e, <1>f, <1>27 DEF GrowLock, At, Me
<1>28. CASE GrowPublish
  BY <1>a, <1>e, <1>f, <1>28 DEF GrowPublish, At, Me
<1>29. CASE Prepare
  BY <1>a, <1>f, <1>29 DEF Descriptors, Prepare
<1>30. CASE EpochReclaim
  BY <1>30 DEF EpochReclaim
<1> QED
  BY ONLY [Next]_vars, <1>1, <1>2, <1>3, <1>4, <1>5, <1>6, <1>7, <1>8, <1>9, <1>10, <1>11,
     <1>12, <1>13, <1>14, <1>15, <1>16, <1>17, <1>18, <1>19, <1>20, <1>21, <1>22, <1>23,
     <1>24, <1>25, <1>26, <1>27, <1>28, <1>29, <1>30
     DEF Next, WorkerStep, MutatorStep, CopyStep, Threads

\* Every step leads a thread on within its access.
LEMMA ControlStep ==
  ASSUME IInv, [Next]_vars
  PROVE  WorkersControlled' /\ MutatorControlled'
<1>0. TypeOK /\ WorkersControlled /\ MutatorControlled /\ Locked /\ Moving
  BY DEF IInv
<1>a. th \in [Threads -> ThreadStates] /\ Mutator \in Threads /\ Mutator \notin Workers /\ Threads = Workers \cup {Mutator}
  BY <1>0, RelocationAssumption DEF TypeOK, Threads
<1>b. Me.then = "growCopy" /\ Me.pc = "resolve" => ~entry.moving
  BY <1>0, <1>a DEF Locked, Growing, Moving, Copying, Me
<1>c. \A t \in Threads : th[t] \in ThreadStates
  BY <1>a
<1>1. CASE UNCHANGED vars
  BY <1>0, <1>1 DEF vars, WorkersControlled, MutatorControlled, Me
<1>2. ASSUME NEW t \in Threads, Resolve(t) PROVE WorkersControlled' /\ MutatorControlled'
  <2>1. CASE entry.moving
    <3>0. At(t, "resolve") /\ Goto(t, "assist")
      BY <2>1, <1>2 DEF Resolve, Return
    <3>1. WorkersControlled'
      BY <1>0, <1>a, <3>0 DEF WorkersControlled, At, Goto, Me, WayPcs, ArcPcs, HoldPcs, Idle
    <3>2. MutatorControlled'
      BY <1>0, <1>a, <1>b, <2>1, <3>0
         DEF MutatorControlled, At, Goto, Me, WayPcs, ArcPcs, HoldPcs, Idle
    <3> QED
      BY <3>1, <3>2
  <2>2. CASE ~entry.moving
    <3>0. At(t, "resolve") /\ th' = [th EXCEPT ![t].pc = th[t].then, ![t].got = entry.address, ![t].arc = 0]
      BY <2>2, <1>2 DEF Resolve, Return
    <3>1. WorkersControlled'
      BY <1>0, <1>a, <3>0 DEF WorkersControlled, At, Goto, Me, WayPcs, ArcPcs, HoldPcs, Idle
    <3>2. MutatorControlled'
      BY <1>0, <1>a, <1>b, <2>2, <3>0
         DEF MutatorControlled, At, Goto, Me, WayPcs, ArcPcs, HoldPcs, Idle
    <3> QED
      BY <3>1, <3>2
  <2> QED
    BY <2>1, <2>2
<1>3. ASSUME NEW t \in Threads, AssistReturn(t) PROVE WorkersControlled' /\ MutatorControlled'
  <2>1. WorkersControlled'
    BY <1>0, <1>a, <1>3
       DEF AssistReturn, Return, WorkersControlled, At, Goto, Me, WayPcs, ArcPcs, HoldPcs,
           Idle
  <2>2. MutatorControlled'
    BY <1>0, <1>a, <1>b, <1>3
       DEF AssistReturn, Return, MutatorControlled, At, Goto, Me, WayPcs, ArcPcs, HoldPcs,
           Idle
  <2> QED
    BY <2>1, <2>2
<1>4. ASSUME NEW t \in Threads, Claim(t) PROVE WorkersControlled' /\ MutatorControlled'
  <2>1. CASE Mine(t).claimed
    <3>0. At(t, "claim") /\ Goto(t, "wait")
      BY <2>1, <1>4 DEF Claim
    <3>1. WorkersControlled'
      BY <1>0, <1>a, <3>0 DEF WorkersControlled, At, Goto, Me, WayPcs, ArcPcs, HoldPcs, Idle
    <3>2. MutatorControlled'
      BY <1>0, <1>a, <1>b, <2>1, <3>0
         DEF MutatorControlled, At, Goto, Me, WayPcs, ArcPcs, HoldPcs, Idle
    <3> QED
      BY <3>1, <3>2
  <2>2. CASE ~Mine(t).claimed
    <3>0. At(t, "claim") /\ Goto(t, "begin")
      BY <2>2, <1>4 DEF Claim
    <3>1. WorkersControlled'
      BY <1>0, <1>a, <3>0 DEF WorkersControlled, At, Goto, Me, WayPcs, ArcPcs, HoldPcs, Idle
    <3>2. MutatorControlled'
      BY <1>0, <1>a, <1>b, <2>2, <3>0
         DEF MutatorControlled, At, Goto, Me, WayPcs, ArcPcs, HoldPcs, Idle
    <3> QED
      BY <3>1, <3>2
  <2> QED
    BY <2>1, <2>2
<1>5. ASSUME NEW t \in Threads, StoreWord(t) PROVE WorkersControlled' /\ MutatorControlled'
  <2>1. WorkersControlled'
    BY <1>0, <1>a, <1>5
       DEF StoreWord, WorkersControlled, At, Goto, Me, WayPcs, ArcPcs, HoldPcs, Idle
  <2>2. MutatorControlled'
    <3>1. CASE t = Mutator
      <4>1. /\ Me.pc = "store" /\ Me'.pc \in {"load", "complete"} /\ Me # Idle
            /\ Me'.access = Me.access /\ Me'.then = Me.then /\ Me'.word = Me.word
        BY <1>a, <3>1, <1>5 DEF StoreWord, At, Me, Idle
      <4> QED
        BY <1>0, <4>1 DEF MutatorControlled, WayPcs, ArcPcs, HoldPcs
    <3>2. CASE t # Mutator
      <4>1. Me' = Me
        BY <1>a, <3>2, <1>5 DEF StoreWord, Me
      <4> QED
        BY <1>0, <4>1 DEF MutatorControlled
    <3> QED
      BY <3>1, <3>2
  <2> QED
    BY <2>1, <2>2
<1>6. CASE GrowLock
  <2>1. CASE Undone
    <3>0. At(Mutator, "growLock") /\ Goto(Mutator, "assist")
      BY <2>1, <1>6 DEF GrowLock
    <3>1. WorkersControlled'
      BY <1>0, <1>a, <3>0 DEF WorkersControlled, At, Goto, Me, WayPcs, ArcPcs, HoldPcs, Idle
    <3>2. MutatorControlled'
      BY <1>0, <1>a, <1>b, <2>1, <3>0
         DEF MutatorControlled, At, Goto, Me, WayPcs, ArcPcs, HoldPcs, Idle
    <3> QED
      BY <3>1, <3>2
  <2>2. CASE ~Undone
    <3>0. At(Mutator, "growLock") /\ th' = [th EXCEPT ![Mutator].pc = "resolve", ![Mutator].then = "growCopy"]
      BY <2>2, <1>6 DEF GrowLock
    <3>1. WorkersControlled'
      BY <1>0, <1>a, <3>0 DEF WorkersControlled, At, Goto, Me, WayPcs, ArcPcs, HoldPcs, Idle
    <3>2. MutatorControlled'
      BY <1>0, <1>a, <1>b, <2>2, <3>0
         DEF MutatorControlled, At, Goto, Me, WayPcs, ArcPcs, HoldPcs, Idle
    <3> QED
      BY <3>1, <3>2
  <2> QED
    BY <2>1, <2>2
<1>7. CASE GrowCopy
  <2>1. CASE next > MaxAddress
    <3>0. At(Mutator, "growCopy") /\ th' = [th EXCEPT ![Mutator] = Idle]
      BY <2>1, <1>7 DEF GrowCopy
    <3>1. WorkersControlled'
      BY <1>0, <1>a, <3>0 DEF WorkersControlled, At, Goto, Me, WayPcs, ArcPcs, HoldPcs, Idle
    <3>2. MutatorControlled'
      BY <1>0, <1>a, <1>b, <2>1, <3>0
         DEF MutatorControlled, At, Goto, Me, WayPcs, ArcPcs, HoldPcs, Idle
    <3> QED
      BY <3>1, <3>2
  <2>2. CASE ~(next > MaxAddress)
    <3>0. At(Mutator, "growCopy") /\ th' = [th EXCEPT ![Mutator].pc = "growPublish", ![Mutator].slot = next]
      BY <2>2, <1>7 DEF GrowCopy
    <3>1. WorkersControlled'
      BY <1>0, <1>a, <3>0 DEF WorkersControlled, At, Goto, Me, WayPcs, ArcPcs, HoldPcs, Idle
    <3>2. MutatorControlled'
      BY <1>0, <1>a, <1>b, <2>2, <3>0
         DEF MutatorControlled, At, Goto, Me, WayPcs, ArcPcs, HoldPcs, Idle
    <3> QED
      BY <3>1, <3>2
  <2> QED
    BY <2>1, <2>2
<1> USE <1>0, <1>a, <1>b
   DEF WorkersControlled, At, Goto, Me, WayPcs, ArcPcs, HoldPcs, Idle, MutatorControlled
<1>8. ASSUME NEW t \in Threads, Assist(t) PROVE WorkersControlled' /\ MutatorControlled'
  BY <1>8 DEF Assist
<1>9. ASSUME NEW t \in Threads, LockRelocation(t) PROVE WorkersControlled' /\ MutatorControlled'
  BY <1>9 DEF LockRelocation
<1>10. ASSUME NEW t \in Threads, WaitUntilDone(t) PROVE WorkersControlled' /\ MutatorControlled'
  BY <1>10 DEF WaitUntilDone
<1>11. ASSUME NEW t \in Threads, BeginRelocation(t) PROVE WorkersControlled' /\ MutatorControlled'
  BY <1>11 DEF BeginRelocation
<1>12. ASSUME NEW t \in Threads, LoadWord(t) PROVE WorkersControlled' /\ MutatorControlled'
  BY <1>12 DEF LoadWord
<1>13. ASSUME NEW t \in Threads, CompleteRelocation(t) PROVE WorkersControlled' /\ MutatorControlled'
  BY <1>13 DEF CompleteRelocation
<1>14. ASSUME NEW t \in Threads, MarkDone(t) PROVE WorkersControlled' /\ MutatorControlled'
  BY <1>14 DEF MarkDone
<1>15. ASSUME NEW t \in Threads, UnlockRelocation(t) PROVE WorkersControlled' /\ MutatorControlled'
  BY <1>15 DEF UnlockRelocation
<1>16. ASSUME NEW t \in Workers, TakePacket(t) PROVE WorkersControlled' /\ MutatorControlled'
  BY <1>16 DEF TakePacket
<1>17. ASSUME NEW t \in Workers, ForgetSource(t) PROVE WorkersControlled' /\ MutatorControlled'
  BY <1>17 DEF ForgetSource
<1>18. ASSUME NEW t \in Workers, ReleasePacket(t) PROVE WorkersControlled' /\ MutatorControlled'
  BY <1>18 DEF ReleasePacket
<1>19. ASSUME NEW t \in Workers, ScanBegin(t) PROVE WorkersControlled' /\ MutatorControlled'
  BY <1>19 DEF ScanBegin
<1>20. ASSUME NEW t \in Workers, ScanEnd(t) PROVE WorkersControlled' /\ MutatorControlled'
  BY <1>20 DEF ScanEnd
<1>21. CASE BeginStore
  BY <1>21 DEF BeginStore, Begin
<1>22. CASE BeginPlainStore
  BY <1>22 DEF BeginPlainStore, Begin
<1>23. CASE BeginGrow
  BY <1>23 DEF BeginGrow, Begin
<1>24. CASE ResolveOwner
  BY <1>24 DEF ResolveOwner
<1>25. CASE StoreSlot
  BY <1>25 DEF StoreSlot
<1>26. CASE MirrorStore
  BY <1>26 DEF MirrorStore
<1>27. CASE FinalStore
  BY <1>27 DEF FinalStore
<1>28. CASE GrowPublish
  BY <1>28 DEF GrowPublish
<1>29. CASE Prepare
  BY <1>29 DEF Prepare
<1>30. CASE EpochReclaim
  BY <1>30 DEF EpochReclaim
<1> QED
  BY ONLY [Next]_vars, <1>1, <1>2, <1>3, <1>4, <1>5, <1>6, <1>7, <1>8, <1>9, <1>10, <1>11,
     <1>12, <1>13, <1>14, <1>15, <1>16, <1>17, <1>18, <1>19, <1>20, <1>21, <1>22, <1>23,
     <1>24, <1>25, <1>26, <1>27, <1>28, <1>29, <1>30
     DEF Next, WorkerStep, MutatorStep, CopyStep, Threads

\* Every step leaves the lock with the one thread that copies or grows.
LEMMA LockedStep ==
  ASSUME IInv, [Next]_vars
  PROVE  Locked'
<1>0. TypeOK /\ WorkersControlled /\ MutatorControlled /\ Locked /\ Arcs
  BY DEF IInv
<1>a. th \in [Threads -> ThreadStates] /\ Mutator \in Threads /\ None \notin Threads /\ Threads = Workers \cup {Mutator} /\ Mutator \notin Workers
  BY <1>0, RelocationAssumption DEF TypeOK, Threads
<1>b. WorkersControlled' /\ MutatorControlled'
  BY ControlStep
<1>c. Growing => Me.pc \in {"resolve", "growCopy", "growPublish"}
  BY <1>0 DEF Growing, MutatorControlled, Me, Idle
<1>d. \A t \in Threads : th[t].pc \in {"claim", "done"} => th[t].arc \in Addresses /\ Mine(t) \in Descriptors
  BY <1>0 DEF Arcs, ArcKnown, ArcPcs, HoldPcs
<1>e. /\ Me.pc \in {"wait", "unlock"} => Me.arc = installed
      /\ Me.pc = "unlock" => Mine(Mutator).done
  BY <1>0, <1>a DEF Arcs, ArcKnown, ArcPcs, HoldPcs, Me
<1>f. \A t \in Threads : th[t].then \notin HoldPcs \cup {"reread"}
  BY <1>0 DEF TypeOK, ThreadStates, HoldPcs
<1>g. Me.pc \in {"growCopy", "growPublish"} => lock = Mutator
  BY <1>0 DEF Locked, Growing, MutatorControlled, WayPcs, ArcPcs, HoldPcs, Idle
<1>1. CASE UNCHANGED vars
  BY <1>0, <1>1 DEF vars, Locked, Growing, Undone, Me, relocationVars
<1>2. ASSUME NEW t \in Threads, Resolve(t) PROVE Locked'
  <2>1. CASE entry.moving
    <3>0. /\ At(t, "resolve") /\ Goto(t, "assist")
          /\ UNCHANGED <<objectVars, relocationVars, historyVars>>
      BY <2>1, <1>2 DEF Resolve, Return
    <3>1. \A u \in Threads : th'[u].pc \in HoldPcs => lock' = u
      BY <1>0, <1>a, <1>f, <1>g, <2>1, <3>0
         DEF Locked, At, Goto, Me, HoldPcs, relocationVars, Idle
    <3>2. (Growing => lock = Mutator /\ ~Undone)'
      BY <1>0, <1>a, <1>c, <1>d, <1>e, <2>1, <3>0
         DEF Locked, Growing, Undone, Mine, At, Goto, Me, HoldPcs, relocationVars, Idle
    <3>3. (Me.pc = "reread" => ~Undone)'
      BY <1>0, <1>a, <1>d, <1>e, <1>f, <2>1, <3>0
         DEF Locked, Undone, Mine, At, Goto, Me, HoldPcs, relocationVars, Idle
    <3> QED
      BY <3>1, <3>2, <3>3 DEF Locked
  <2>2. CASE ~entry.moving
    <3>0. /\ At(t, "resolve") /\ th' = [th EXCEPT ![t].pc = th[t].then, ![t].got = entry.address, ![t].arc = 0]
          /\ UNCHANGED <<objectVars, relocationVars, historyVars>>
      BY <2>2, <1>2 DEF Resolve, Return
    <3>1. \A u \in Threads : th'[u].pc \in HoldPcs => lock' = u
      BY <1>0, <1>a, <1>f, <1>g, <2>2, <3>0
         DEF Locked, At, Goto, Me, HoldPcs, relocationVars, Idle
    <3>2. (Growing => lock = Mutator /\ ~Undone)'
      BY <1>0, <1>a, <1>c, <1>d, <1>e, <2>2, <3>0
         DEF Locked, Growing, Undone, Mine, At, Goto, Me, HoldPcs, relocationVars, Idle
    <3>3. (Me.pc = "reread" => ~Undone)'
      BY <1>0, <1>a, <1>d, <1>e, <1>f, <2>2, <3>0
         DEF Locked, Undone, Mine, At, Goto, Me, HoldPcs, relocationVars, Idle
    <3> QED
      BY <3>1, <3>2, <3>3 DEF Locked
  <2> QED
    BY <2>1, <2>2
<1>3. ASSUME NEW t \in Threads, Claim(t) PROVE Locked'
  <2>1. CASE Mine(t).claimed
    <3>0. /\ At(t, "claim") /\ Goto(t, "wait") /\ lock' = None /\ UNCHANGED descriptors
          /\ UNCHANGED <<objectVars, installed, packet, quarantined, historyVars>>
      BY <2>1, <1>3 DEF Claim
    <3>1. \A u \in Threads : th'[u].pc \in HoldPcs => lock' = u
      BY <1>0, <1>a, <1>f, <1>g, <2>1, <3>0
         DEF Locked, At, Goto, Me, HoldPcs, relocationVars, Idle
    <3>2. (Growing => lock = Mutator /\ ~Undone)'
      BY <1>0, <1>a, <1>c, <1>d, <1>e, <2>1, <3>0
         DEF Locked, Growing, Undone, Mine, At, Goto, Me, HoldPcs, relocationVars, Idle
    <3>3. (Me.pc = "reread" => ~Undone)'
      BY <1>0, <1>a, <1>d, <1>e, <1>f, <2>1, <3>0
         DEF Locked, Undone, Mine, At, Goto, Me, HoldPcs, relocationVars, Idle
    <3> QED
      BY <3>1, <3>2, <3>3 DEF Locked
  <2>2. CASE ~Mine(t).claimed
    <3>0. /\ At(t, "claim") /\ Goto(t, "begin") /\ lock' = lock
           /\ descriptors' = [descriptors EXCEPT ![th[t].arc].claimed = TRUE]
          /\ UNCHANGED <<objectVars, installed, packet, quarantined, historyVars>>
      BY <2>2, <1>3 DEF Claim
    <3>1. \A u \in Threads : th'[u].pc \in HoldPcs => lock' = u
      BY <1>0, <1>a, <1>f, <1>g, <2>2, <3>0
         DEF Locked, At, Goto, Me, HoldPcs, relocationVars, Idle
    <3>2. (Growing => lock = Mutator /\ ~Undone)'
      BY <1>0, <1>a, <1>c, <1>d, <1>e, <2>2, <3>0
         DEF Locked, Growing, Undone, Mine, At, Goto, Me, HoldPcs, relocationVars, Idle
    <3>3. (Me.pc = "reread" => ~Undone)'
      BY <1>0, <1>a, <1>d, <1>e, <1>f, <2>2, <3>0
         DEF Locked, Undone, Mine, At, Goto, Me, HoldPcs, relocationVars, Idle
    <3> QED
      BY <3>1, <3>2, <3>3 DEF Locked
  <2> QED
    BY <2>1, <2>2
<1>4. CASE GrowLock
  <2>1. CASE Undone
    <3>0. /\ At(Mutator, "growLock") /\ Goto(Mutator, "assist") /\ UNCHANGED lock
          /\ UNCHANGED <<objectVars, descriptors, installed, packet, quarantined, historyVars>>
      BY <2>1, <1>4 DEF GrowLock
    <3>1. \A u \in Threads : th'[u].pc \in HoldPcs => lock' = u
      BY <1>0, <1>a, <1>f, <1>g, <2>1, <3>0
         DEF Locked, At, Goto, Me, HoldPcs, relocationVars, Idle
    <3>2. (Growing => lock = Mutator /\ ~Undone)'
      BY <1>0, <1>a, <1>c, <1>d, <1>e, <2>1, <3>0
         DEF Locked, Growing, Undone, Mine, At, Goto, Me, HoldPcs, relocationVars, Idle
    <3>3. (Me.pc = "reread" => ~Undone)'
      BY <1>0, <1>a, <1>d, <1>e, <1>f, <2>1, <3>0
         DEF Locked, Undone, Mine, At, Goto, Me, HoldPcs, relocationVars, Idle
    <3> QED
      BY <3>1, <3>2, <3>3 DEF Locked
  <2>2. CASE ~Undone
    <3>0. /\ At(Mutator, "growLock") /\ lock = None /\ lock' = Mutator
           /\ th' = [th EXCEPT ![Mutator].pc = "resolve", ![Mutator].then = "growCopy"]
          /\ UNCHANGED <<objectVars, descriptors, installed, packet, quarantined, historyVars>>
      BY <2>2, <1>4 DEF GrowLock
    <3>1. \A u \in Threads : th'[u].pc \in HoldPcs => lock' = u
      BY <1>0, <1>a, <1>f, <1>g, <2>2, <3>0
         DEF Locked, At, Goto, Me, HoldPcs, relocationVars, Idle
    <3>2. (Growing => lock = Mutator /\ ~Undone)'
      BY <1>0, <1>a, <1>c, <1>d, <1>e, <2>2, <3>0
         DEF Locked, Growing, Undone, Mine, At, Goto, Me, HoldPcs, relocationVars, Idle
    <3>3. (Me.pc = "reread" => ~Undone)'
      BY <1>0, <1>a, <1>d, <1>e, <1>f, <2>2, <3>0
         DEF Locked, Undone, Mine, At, Goto, Me, HoldPcs, relocationVars, Idle
    <3> QED
      BY <3>1, <3>2, <3>3 DEF Locked
  <2> QED
    BY <2>1, <2>2
<1>5. CASE GrowCopy
  <2>1. CASE next > MaxAddress
    <3>0. /\ At(Mutator, "growCopy") /\ th' = [th EXCEPT ![Mutator] = Idle] /\ lock' = None /\ UNCHANGED objectVars
          /\ UNCHANGED <<descriptors, installed, packet, quarantined, historyVars>>
      BY <2>1, <1>5 DEF GrowCopy
    <3>1. \A u \in Threads : th'[u].pc \in HoldPcs => lock' = u
      BY <1>0, <1>a, <1>f, <1>g, <2>1, <3>0
         DEF Locked, At, Goto, Me, HoldPcs, relocationVars, Idle
    <3>2. (Growing => lock = Mutator /\ ~Undone)'
      BY <1>0, <1>a, <1>c, <1>d, <1>e, <2>1, <3>0
         DEF Locked, Growing, Undone, Mine, At, Goto, Me, HoldPcs, relocationVars, Idle
    <3>3. (Me.pc = "reread" => ~Undone)'
      BY <1>0, <1>a, <1>d, <1>e, <1>f, <2>1, <3>0
         DEF Locked, Undone, Mine, At, Goto, Me, HoldPcs, relocationVars, Idle
    <3> QED
      BY <3>1, <3>2, <3>3 DEF Locked
  <2>2. CASE ~(next > MaxAddress)
    <3>0. /\ At(Mutator, "growCopy") /\ th' = [th EXCEPT ![Mutator].pc = "growPublish", ![Mutator].slot = next]
           /\ memory' = [memory EXCEPT ![next] = memory[Me.got]] /\ next' = next + 1
           /\ entry' = [entry EXCEPT !.moving = TRUE] /\ UNCHANGED lock
          /\ UNCHANGED <<descriptors, installed, packet, quarantined, historyVars>>
      BY <2>2, <1>5 DEF GrowCopy
    <3>1. \A u \in Threads : th'[u].pc \in HoldPcs => lock' = u
      BY <1>0, <1>a, <1>f, <1>g, <2>2, <3>0
         DEF Locked, At, Goto, Me, HoldPcs, relocationVars, Idle
    <3>2. (Growing => lock = Mutator /\ ~Undone)'
      BY <1>0, <1>a, <1>c, <1>d, <1>e, <2>2, <3>0
         DEF Locked, Growing, Undone, Mine, At, Goto, Me, HoldPcs, relocationVars, Idle
    <3>3. (Me.pc = "reread" => ~Undone)'
      BY <1>0, <1>a, <1>d, <1>e, <1>f, <2>2, <3>0
         DEF Locked, Undone, Mine, At, Goto, Me, HoldPcs, relocationVars, Idle
    <3> QED
      BY <3>1, <3>2, <3>3 DEF Locked
  <2> QED
    BY <2>1, <2>2
<1> USE <1>0, <1>a, <1>f, <1>g, <1>c, <1>d, <1>e
   DEF Locked, At, Goto, Me, HoldPcs, relocationVars, Idle, Growing, Undone, Mine
<1>6. ASSUME NEW t \in Threads, Assist(t) PROVE Locked'
  BY <1>6 DEF Assist
<1>7. ASSUME NEW t \in Threads, AssistReturn(t) PROVE Locked'
  BY <1>7 DEF AssistReturn, Return
<1>8. ASSUME NEW t \in Threads, LockRelocation(t) PROVE Locked'
  BY <1>8 DEF LockRelocation
<1>9. ASSUME NEW t \in Threads, WaitUntilDone(t) PROVE Locked'
  BY <1>9 DEF WaitUntilDone
<1>10. ASSUME NEW t \in Threads, BeginRelocation(t) PROVE Locked'
  BY <1>10 DEF BeginRelocation
<1>11. ASSUME NEW t \in Threads, LoadWord(t) PROVE Locked'
  BY <1>11 DEF LoadWord
<1>12. ASSUME NEW t \in Threads, StoreWord(t) PROVE Locked'
  BY <1>12 DEF StoreWord
<1>13. ASSUME NEW t \in Threads, CompleteRelocation(t) PROVE Locked'
  BY <1>13 DEF CompleteRelocation
<1>14. ASSUME NEW t \in Threads, MarkDone(t) PROVE Locked'
  BY <1>14 DEF MarkDone
<1>15. ASSUME NEW t \in Threads, UnlockRelocation(t) PROVE Locked'
  BY <1>15 DEF UnlockRelocation
<1>16. ASSUME NEW t \in Workers, TakePacket(t) PROVE Locked'
  BY <1>16 DEF TakePacket
<1>17. ASSUME NEW t \in Workers, ForgetSource(t) PROVE Locked'
  BY <1>17 DEF ForgetSource
<1>18. ASSUME NEW t \in Workers, ReleasePacket(t) PROVE Locked'
  BY <1>18 DEF ReleasePacket
<1>19. ASSUME NEW t \in Workers, ScanBegin(t) PROVE Locked'
  BY <1>19 DEF ScanBegin
<1>20. ASSUME NEW t \in Workers, ScanEnd(t) PROVE Locked'
  BY <1>20 DEF ScanEnd
<1>21. CASE BeginStore
  BY <1>21 DEF BeginStore, Begin
<1>22. CASE BeginPlainStore
  BY <1>22 DEF BeginPlainStore, Begin
<1>23. CASE BeginGrow
  BY <1>23 DEF BeginGrow, Begin
<1>24. CASE ResolveOwner
  BY <1>24 DEF ResolveOwner
<1>25. CASE StoreSlot
  BY <1>25 DEF StoreSlot
<1>26. CASE MirrorStore
  BY <1>26 DEF MirrorStore
<1>27. CASE FinalStore
  BY <1>27 DEF FinalStore
<1>28. CASE GrowPublish
  BY <1>28 DEF GrowPublish
<1>29. CASE Prepare
  BY <1>29 DEF Prepare
<1>30. CASE EpochReclaim
  BY <1>30 DEF EpochReclaim
<1> QED
  BY ONLY [Next]_vars, <1>1, <1>2, <1>3, <1>4, <1>5, <1>6, <1>7, <1>8, <1>9, <1>10, <1>11,
     <1>12, <1>13, <1>14, <1>15, <1>16, <1>17, <1>18, <1>19, <1>20, <1>21, <1>22, <1>23,
     <1>24, <1>25, <1>26, <1>27, <1>28, <1>29, <1>30
     DEF Next, WorkerStep, MutatorStep, CopyStep, Threads

\* Every step leaves the entry on the move exactly while somebody copies.
LEMMA MovingStep ==
  ASSUME IInv, [Next]_vars
  PROVE  Moving'
<1>0. TypeOK /\ MutatorControlled /\ Locked /\ Moving
  BY DEF IInv
<1>a. th \in [Threads -> ThreadStates] /\ Mutator \in Threads /\ None \notin Threads /\ Threads = Workers \cup {Mutator}
  BY <1>0, RelocationAssumption DEF TypeOK, Threads
<1>b. \A t \in Threads : th[t].pc \in HoldPcs => lock = t
  BY <1>0 DEF Locked
<1>c. Me.pc \in {"growCopy", "growPublish"} => lock = Mutator
  BY <1>0 DEF Locked, Growing, MutatorControlled, WayPcs, ArcPcs, HoldPcs, Idle
<1>d. \A t \in Threads : th[t].then \notin HoldPcs \cup {"growPublish"}
  BY <1>0 DEF TypeOK, ThreadStates, HoldPcs
<1>e. entry \in [address : Addresses, moving : BOOLEAN]
  BY <1>0 DEF TypeOK
<1>1. CASE UNCHANGED vars
  BY <1>0, <1>1 DEF vars, Moving, Copying, objectVars, relocationVars
<1>2. ASSUME NEW t \in Threads, Resolve(t) PROVE Moving'
  <2>1. CASE entry.moving
    <3>0. /\ At(t, "resolve") /\ Goto(t, "assist")
          /\ UNCHANGED <<objectVars, relocationVars, historyVars>>
      BY <2>1, <1>2 DEF Resolve, Return
    <3>1. (\A u \in Threads : Copying(u) => entry.moving)'
      BY <1>0, <1>a, <1>b, <1>c, <1>d, <1>e, <2>1, <3>0
         DEF Moving, Copying, At, Goto, Me, HoldPcs, objectVars, relocationVars, Idle
    <3>2. (entry.moving => lock \in Threads /\ (Copying(lock) \/ th[lock].pc = "growPublish"))'
      BY <1>0, <1>a, <1>b, <1>c, <1>d, <1>e, <2>1, <3>0
         DEF Moving, Copying, At, Goto, Me, HoldPcs, objectVars, relocationVars, Idle
    <3> QED
      BY <3>1, <3>2 DEF Moving
  <2>2. CASE ~entry.moving
    <3>0. /\ At(t, "resolve") /\ th' = [th EXCEPT ![t].pc = th[t].then, ![t].got = entry.address, ![t].arc = 0]
          /\ UNCHANGED <<objectVars, relocationVars, historyVars>>
      BY <2>2, <1>2 DEF Resolve, Return
    <3>1. (\A u \in Threads : Copying(u) => entry.moving)'
      BY <1>0, <1>a, <1>b, <1>c, <1>d, <1>e, <2>2, <3>0
         DEF Moving, Copying, At, Goto, Me, HoldPcs, objectVars, relocationVars, Idle
    <3>2. (entry.moving => lock \in Threads /\ (Copying(lock) \/ th[lock].pc = "growPublish"))'
      BY <1>0, <1>a, <1>b, <1>c, <1>d, <1>e, <2>2, <3>0
         DEF Moving, Copying, At, Goto, Me, HoldPcs, objectVars, relocationVars, Idle
    <3> QED
      BY <3>1, <3>2 DEF Moving
  <2> QED
    BY <2>1, <2>2
<1>3. ASSUME NEW t \in Threads, Claim(t) PROVE Moving'
  <2>1. CASE Mine(t).claimed
    <3>0. /\ At(t, "claim") /\ Goto(t, "wait") /\ lock' = None /\ UNCHANGED descriptors
          /\ UNCHANGED <<objectVars, installed, packet, quarantined, historyVars>>
      BY <2>1, <1>3 DEF Claim
    <3>1. (\A u \in Threads : Copying(u) => entry.moving)'
      BY <1>0, <1>a, <1>b, <1>c, <1>d, <1>e, <2>1, <3>0
         DEF Moving, Copying, At, Goto, Me, HoldPcs, objectVars, relocationVars, Idle
    <3>2. (entry.moving => lock \in Threads /\ (Copying(lock) \/ th[lock].pc = "growPublish"))'
      BY <1>0, <1>a, <1>b, <1>c, <1>d, <1>e, <2>1, <3>0
         DEF Moving, Copying, At, Goto, Me, HoldPcs, objectVars, relocationVars, Idle
    <3> QED
      BY <3>1, <3>2 DEF Moving
  <2>2. CASE ~Mine(t).claimed
    <3>0. /\ At(t, "claim") /\ Goto(t, "begin") /\ lock' = lock
           /\ descriptors' = [descriptors EXCEPT ![th[t].arc].claimed = TRUE]
          /\ UNCHANGED <<objectVars, installed, packet, quarantined, historyVars>>
      BY <2>2, <1>3 DEF Claim
    <3>1. (\A u \in Threads : Copying(u) => entry.moving)'
      BY <1>0, <1>a, <1>b, <1>c, <1>d, <1>e, <2>2, <3>0
         DEF Moving, Copying, At, Goto, Me, HoldPcs, objectVars, relocationVars, Idle
    <3>2. (entry.moving => lock \in Threads /\ (Copying(lock) \/ th[lock].pc = "growPublish"))'
      BY <1>0, <1>a, <1>b, <1>c, <1>d, <1>e, <2>2, <3>0
         DEF Moving, Copying, At, Goto, Me, HoldPcs, objectVars, relocationVars, Idle
    <3> QED
      BY <3>1, <3>2 DEF Moving
  <2> QED
    BY <2>1, <2>2
<1>4. CASE GrowLock
  <2>1. CASE Undone
    <3>0. /\ At(Mutator, "growLock") /\ Goto(Mutator, "assist") /\ UNCHANGED lock
          /\ UNCHANGED <<objectVars, descriptors, installed, packet, quarantined, historyVars>>
      BY <2>1, <1>4 DEF GrowLock
    <3>1. (\A u \in Threads : Copying(u) => entry.moving)'
      BY <1>0, <1>a, <1>b, <1>c, <1>d, <1>e, <2>1, <3>0
         DEF Moving, Copying, At, Goto, Me, HoldPcs, objectVars, relocationVars, Idle
    <3>2. (entry.moving => lock \in Threads /\ (Copying(lock) \/ th[lock].pc = "growPublish"))'
      BY <1>0, <1>a, <1>b, <1>c, <1>d, <1>e, <2>1, <3>0
         DEF Moving, Copying, At, Goto, Me, HoldPcs, objectVars, relocationVars, Idle
    <3> QED
      BY <3>1, <3>2 DEF Moving
  <2>2. CASE ~Undone
    <3>0. /\ At(Mutator, "growLock") /\ lock = None /\ lock' = Mutator
           /\ th' = [th EXCEPT ![Mutator].pc = "resolve", ![Mutator].then = "growCopy"]
          /\ UNCHANGED <<objectVars, descriptors, installed, packet, quarantined, historyVars>>
      BY <2>2, <1>4 DEF GrowLock
    <3>1. (\A u \in Threads : Copying(u) => entry.moving)'
      BY <1>0, <1>a, <1>b, <1>c, <1>d, <1>e, <2>2, <3>0
         DEF Moving, Copying, At, Goto, Me, HoldPcs, objectVars, relocationVars, Idle
    <3>2. (entry.moving => lock \in Threads /\ (Copying(lock) \/ th[lock].pc = "growPublish"))'
      BY <1>0, <1>a, <1>b, <1>c, <1>d, <1>e, <2>2, <3>0
         DEF Moving, Copying, At, Goto, Me, HoldPcs, objectVars, relocationVars, Idle
    <3> QED
      BY <3>1, <3>2 DEF Moving
  <2> QED
    BY <2>1, <2>2
<1>5. CASE GrowCopy
  <2>1. CASE next > MaxAddress
    <3>0. /\ At(Mutator, "growCopy") /\ th' = [th EXCEPT ![Mutator] = Idle] /\ lock' = None /\ UNCHANGED objectVars
          /\ UNCHANGED <<descriptors, installed, packet, quarantined, historyVars>>
      BY <2>1, <1>5 DEF GrowCopy
    <3>1. (\A u \in Threads : Copying(u) => entry.moving)'
      BY <1>0, <1>a, <1>b, <1>c, <1>d, <1>e, <2>1, <3>0
         DEF Moving, Copying, At, Goto, Me, HoldPcs, objectVars, relocationVars, Idle
    <3>2. (entry.moving => lock \in Threads /\ (Copying(lock) \/ th[lock].pc = "growPublish"))'
      BY <1>0, <1>a, <1>b, <1>c, <1>d, <1>e, <2>1, <3>0
         DEF Moving, Copying, At, Goto, Me, HoldPcs, objectVars, relocationVars, Idle
    <3> QED
      BY <3>1, <3>2 DEF Moving
  <2>2. CASE ~(next > MaxAddress)
    <3>0. /\ At(Mutator, "growCopy") /\ th' = [th EXCEPT ![Mutator].pc = "growPublish", ![Mutator].slot = next]
           /\ memory' = [memory EXCEPT ![next] = memory[Me.got]] /\ next' = next + 1
           /\ entry' = [entry EXCEPT !.moving = TRUE] /\ UNCHANGED lock
          /\ UNCHANGED <<descriptors, installed, packet, quarantined, historyVars>>
      BY <2>2, <1>5 DEF GrowCopy
    <3>1. (\A u \in Threads : Copying(u) => entry.moving)'
      BY <1>0, <1>a, <1>b, <1>c, <1>d, <1>e, <2>2, <3>0
         DEF Moving, Copying, At, Goto, Me, HoldPcs, objectVars, relocationVars, Idle
    <3>2. (entry.moving => lock \in Threads /\ (Copying(lock) \/ th[lock].pc = "growPublish"))'
      BY <1>0, <1>a, <1>b, <1>c, <1>d, <1>e, <2>2, <3>0
         DEF Moving, Copying, At, Goto, Me, HoldPcs, objectVars, relocationVars, Idle
    <3> QED
      BY <3>1, <3>2 DEF Moving
  <2> QED
    BY <2>1, <2>2
<1> USE <1>0, <1>a, <1>b, <1>c, <1>d, <1>e
   DEF Moving, Copying, At, Goto, Me, HoldPcs, objectVars, relocationVars, Idle
<1>6. ASSUME NEW t \in Threads, Assist(t) PROVE Moving'
  BY <1>6 DEF Assist
<1>7. ASSUME NEW t \in Threads, AssistReturn(t) PROVE Moving'
  BY <1>7 DEF AssistReturn, Return
<1>8. ASSUME NEW t \in Threads, LockRelocation(t) PROVE Moving'
  BY <1>8 DEF LockRelocation
<1>9. ASSUME NEW t \in Threads, WaitUntilDone(t) PROVE Moving'
  BY <1>9 DEF WaitUntilDone
<1>10. ASSUME NEW t \in Threads, BeginRelocation(t) PROVE Moving'
  BY <1>10 DEF BeginRelocation
<1>11. ASSUME NEW t \in Threads, LoadWord(t) PROVE Moving'
  BY <1>11 DEF LoadWord
<1>12. ASSUME NEW t \in Threads, StoreWord(t) PROVE Moving'
  BY <1>12 DEF StoreWord
<1>13. ASSUME NEW t \in Threads, CompleteRelocation(t) PROVE Moving'
  BY <1>13 DEF CompleteRelocation
<1>14. ASSUME NEW t \in Threads, MarkDone(t) PROVE Moving'
  BY <1>14 DEF MarkDone
<1>15. ASSUME NEW t \in Threads, UnlockRelocation(t) PROVE Moving'
  BY <1>15 DEF UnlockRelocation
<1>16. ASSUME NEW t \in Workers, TakePacket(t) PROVE Moving'
  BY <1>16 DEF TakePacket
<1>17. ASSUME NEW t \in Workers, ForgetSource(t) PROVE Moving'
  BY <1>17 DEF ForgetSource
<1>18. ASSUME NEW t \in Workers, ReleasePacket(t) PROVE Moving'
  BY <1>18 DEF ReleasePacket
<1>19. ASSUME NEW t \in Workers, ScanBegin(t) PROVE Moving'
  BY <1>19 DEF ScanBegin
<1>20. ASSUME NEW t \in Workers, ScanEnd(t) PROVE Moving'
  BY <1>20 DEF ScanEnd
<1>21. CASE BeginStore
  BY <1>21 DEF BeginStore, Begin
<1>22. CASE BeginPlainStore
  BY <1>22 DEF BeginPlainStore, Begin
<1>23. CASE BeginGrow
  BY <1>23 DEF BeginGrow, Begin
<1>24. CASE ResolveOwner
  BY <1>24 DEF ResolveOwner
<1>25. CASE StoreSlot
  BY <1>25 DEF StoreSlot
<1>26. CASE MirrorStore
  BY <1>26 DEF MirrorStore
<1>27. CASE FinalStore
  BY <1>27 DEF FinalStore
<1>28. CASE GrowPublish
  BY <1>28 DEF GrowPublish
<1>29. CASE Prepare
  BY <1>29 DEF Prepare
<1>30. CASE EpochReclaim
  BY <1>30 DEF EpochReclaim
<1> QED
  BY ONLY [Next]_vars, <1>1, <1>2, <1>3, <1>4, <1>5, <1>6, <1>7, <1>8, <1>9, <1>10, <1>11,
     <1>12, <1>13, <1>14, <1>15, <1>16, <1>17, <1>18, <1>19, <1>20, <1>21, <1>22, <1>23,
     <1>24, <1>25, <1>26, <1>27, <1>28, <1>29, <1>30
     DEF Next, WorkerStep, MutatorStep, CopyStep, Threads

\* Every step leaves every thread with its descriptor.
LEMMA ArcsStep ==
  ASSUME IInv, [Next]_vars
  PROVE  Arcs'
<1>0. TypeOK /\ WorkersControlled /\ MutatorControlled /\ Locked /\ Arcs /\ Described
  BY DEF IInv
<1>a. th \in [Threads -> ThreadStates] /\ Mutator \in Threads /\ None \notin Threads /\ Threads = Workers \cup {Mutator}
  BY <1>0, RelocationAssumption DEF TypeOK, Threads
<1>b. \A t \in Threads : th[t].pc \in HoldPcs => lock = t
  BY <1>0 DEF Locked
<1>c. Me.pc \in {"growCopy", "growPublish"} => lock = Mutator
  BY <1>0 DEF Locked, Growing, MutatorControlled, WayPcs, ArcPcs, HoldPcs, Idle
<1>d. /\ \A t \in Threads : th[t].then \notin ArcPcs \cup {"release"}
      /\ \A t \in Threads : th[t].pc = "release" => th[t].access = "relocate"
      /\ \A t \in Threads : th[t].pc \in {"resolve", "assist", "reread"} => th[t].access # "relocate"
      /\ Me.access # "relocate"
  <2>1. Me.access # "relocate" /\ Me.pc # "release"
    BY <1>0 DEF MutatorControlled, WayPcs, ArcPcs, HoldPcs, Idle
  <2>2. \A t \in Threads : th[t].then \notin ArcPcs \cup {"release"}
    BY <1>0 DEF TypeOK, ThreadStates, ArcPcs, HoldPcs
  <2>3. ASSUME NEW t \in Threads
        PROVE  /\ th[t].pc = "release" => th[t].access = "relocate"
               /\ th[t].pc \in {"resolve", "assist", "reread"} => th[t].access # "relocate"
    <3>1. CASE t = Mutator
      BY <2>1, <3>1 DEF Me
    <3>2. CASE t \in Workers
      BY <1>0, <3>2 DEF WorkersControlled, WayPcs, ArcPcs, HoldPcs, Idle
    <3> QED
      BY <3>1, <3>2 DEF Threads
  <2> QED
    BY <2>1, <2>2, <2>3
<1>e. descriptors \in [Addresses -> Descriptors \cup {None}] /\ entry \in [address : Addresses, moving : BOOLEAN] /\ 0 \notin Addresses
  BY <1>0 DEF TypeOK, Addresses
<1>f. /\ \A a \in Addresses : descriptors[a] \in Descriptors =>
           /\ a # next
           /\ descriptors[a].done => descriptors[a].claimed
           /\ ~descriptors[a].claimed => entry.address = descriptors[a].source
      /\ installed # 0 => installed \in Addresses /\ descriptors[installed] \in Descriptors
      /\ packet # "none" => installed # 0
      /\ packet = "none" => ~Undone
  BY <1>0, <1>e DEF Described, DescriptorKnown, PacketKnown, TypeOK, Addresses
<1>g. \A t \in Threads : ArcKnown(t) /\ PacketTaken(t)
  BY <1>0 DEF Arcs
<1>1. CASE UNCHANGED vars
  BY <1>0, <1>1 DEF vars, Arcs, ArcKnown, PacketTaken, Mine, objectVars, relocationVars
<1>2. ASSUME NEW t \in Threads, Resolve(t) PROVE Arcs'
  <2>1. CASE entry.moving
    <3>0. /\ At(t, "resolve") /\ Goto(t, "assist")
          /\ UNCHANGED <<objectVars, relocationVars, historyVars>>
      BY <2>1, <1>2 DEF Resolve, Return
    <3>1. (\A u \in Threads : ArcKnown(u))'
      BY <1>a, <1>b, <1>c, <1>d, <1>e, <1>f, <1>g, <2>1, <3>0
         DEF ArcKnown, PacketTaken, ArcPcs, HoldPcs, Mine, Undone, Descriptors, At, Goto,
             Me, objectVars, relocationVars, Idle
    <3>2. (\A u \in Threads : PacketTaken(u))'
      BY <1>a, <1>b, <1>c, <1>d, <1>e, <1>f, <1>g, <2>1, <3>0
         DEF PacketTaken, ArcKnown, ArcPcs, HoldPcs, Mine, Undone, Descriptors, At, Goto,
             Me, objectVars, relocationVars, Idle
    <3> QED
      BY <3>1, <3>2 DEF Arcs
  <2>2. CASE ~entry.moving
    <3>0. /\ At(t, "resolve") /\ th' = [th EXCEPT ![t].pc = th[t].then, ![t].got = entry.address, ![t].arc = 0]
          /\ UNCHANGED <<objectVars, relocationVars, historyVars>>
      BY <2>2, <1>2 DEF Resolve, Return
    <3>1. (\A u \in Threads : ArcKnown(u))'
      BY <1>a, <1>b, <1>c, <1>d, <1>e, <1>f, <1>g, <2>2, <3>0
         DEF ArcKnown, PacketTaken, ArcPcs, HoldPcs, Mine, Undone, Descriptors, At, Goto,
             Me, objectVars, relocationVars, Idle
    <3>2. (\A u \in Threads : PacketTaken(u))'
      BY <1>a, <1>b, <1>c, <1>d, <1>e, <1>f, <1>g, <2>2, <3>0
         DEF PacketTaken, ArcKnown, ArcPcs, HoldPcs, Mine, Undone, Descriptors, At, Goto,
             Me, objectVars, relocationVars, Idle
    <3> QED
      BY <3>1, <3>2 DEF Arcs
  <2> QED
    BY <2>1, <2>2
<1>3. ASSUME NEW t \in Threads, AssistReturn(t) PROVE Arcs'
  <2>1. (\A u \in Threads : ArcKnown(u))'
    BY <1>a, <1>b, <1>c, <1>d, <1>e, <1>f, <1>g, <1>3
       DEF AssistReturn, Return, ArcKnown, PacketTaken, ArcPcs, HoldPcs, Mine, Undone,
           Descriptors, At, Goto, Me, objectVars, relocationVars, Idle
  <2>2. (\A u \in Threads : PacketTaken(u))'
    BY <1>a, <1>b, <1>c, <1>d, <1>e, <1>f, <1>g, <1>3
       DEF AssistReturn, Return, PacketTaken, ArcKnown, ArcPcs, HoldPcs, Mine, Undone,
           Descriptors, At, Goto, Me, objectVars, relocationVars, Idle
  <2> QED
    BY <2>1, <2>2 DEF Arcs
<1>4. ASSUME NEW t \in Threads, Claim(t) PROVE Arcs'
  <2>0. At(t, "claim") /\ th[t].arc \in Addresses /\ Mine(t) \in Descriptors
    BY <1>g, <1>4 DEF Claim, ArcKnown, At, ArcPcs, HoldPcs
  <2>1. CASE Mine(t).claimed
    <3>0. /\ Goto(t, "wait") /\ lock' = None /\ UNCHANGED descriptors
          /\ UNCHANGED <<objectVars, installed, packet, quarantined, historyVars>>
      BY <2>1, <1>4 DEF Claim
    <3>1. Mine(t).done
      <4>1. ASSUME ~Mine(t).done
            PROVE  FALSE
        <5>1. PICK u \in Threads : th[u].pc \in {"begin", "load", "store", "complete", "done"}
          BY <1>0, <2>0, <2>1, <4>1 DEF Described, HasCopier, Mine
        <5>2. lock = u /\ lock = t
          BY <1>b, <2>0, <5>1 DEF HoldPcs, At
        <5> QED
          BY <2>0, <5>1, <5>2 DEF At
      <4> QED
        BY <4>1
    <3>2. (\A u \in Threads : ArcKnown(u))'
      BY <1>a, <1>g, <2>0, <3>0, <3>1 DEF ArcKnown, Mine, At, Goto, ArcPcs, HoldPcs, objectVars
    <3>3. (\A u \in Threads : PacketTaken(u))'
      BY <1>a, <1>g, <2>0, <3>0 DEF PacketTaken, Mine, At, Goto
    <3> QED
      BY <3>2, <3>3 DEF Arcs
  <2>2. CASE ~Mine(t).claimed
    <3>0. /\ Goto(t, "begin") /\ descriptors' = [descriptors EXCEPT ![th[t].arc].claimed = TRUE]
          /\ UNCHANGED <<objectVars, installed, packet, quarantined, historyVars>>
      BY <2>2, <1>4 DEF Claim
    <3>a. ~Mine(t).done /\ entry.address = Mine(t).source /\ th[t].arc = installed
      BY <1>f, <1>g, <2>0, <2>2 DEF ArcKnown, ArcPcs, HoldPcs, At, Mine
    <3>b. descriptors'[th[t].arc] = [Mine(t) EXCEPT !.claimed = TRUE]
      BY <1>e, <2>0, <3>0 DEF Mine
    <3>1. /\ descriptors'[th[t].arc] \in Descriptors
          /\ descriptors'[th[t].arc].claimed /\ ~descriptors'[th[t].arc].done
          /\ descriptors'[th[t].arc].source = entry.address
      BY <2>0, <3>a, <3>b DEF Descriptors
    <3>2. \A a \in Addresses : a # th[t].arc => descriptors'[a] = descriptors[a]
      BY <1>e, <2>0, <3>0
    <3>3. \A u \in Threads \ {t} : th'[u] = th[u] /\ th[u].pc \notin HoldPcs
      BY <1>a, <1>b, <2>0, <3>0 DEF Goto, At, HoldPcs
    <3>4. /\ th'[t].pc = "begin" /\ th'[t].arc = th[t].arc /\ th'[t].access = th[t].access
      BY <1>a, <3>0 DEF Goto
    <3>5. \A u \in Threads \ {t} : Mine(u).done => th[u].arc # th[t].arc
      BY <1>f, <2>0, <2>2 DEF Mine
    <3>6. (\A u \in Threads : ArcKnown(u))'
      <4>1. ArcKnown(t)'
        BY <1>g, <2>0, <3>0, <3>a, <3>1, <3>4
           DEF ArcKnown, Mine, ArcPcs, HoldPcs, At, objectVars
      <4>2. ASSUME NEW u \in Threads \ {t}
            PROVE  ArcKnown(u)'
        <5>1. CASE th[u].arc = th[t].arc
          BY <1>g, <2>0, <3>0, <3>a, <3>1, <3>3, <5>1 DEF ArcKnown, ArcPcs, HoldPcs, Mine
        <5>2. CASE th[u].arc # th[t].arc
          BY <1>g, <3>0, <3>2, <3>3, <5>2 DEF ArcKnown, ArcPcs, HoldPcs, Mine
        <5> QED
          BY <5>1, <5>2
      <4> QED
        BY <4>1, <4>2
    <3>7. (\A u \in Threads : PacketTaken(u))'
      BY <1>g, <2>0, <3>0, <3>2, <3>3, <3>4, <3>5 DEF PacketTaken, Mine, At
    <3> QED
      BY <3>6, <3>7 DEF Arcs
  <2> QED
    BY <2>1, <2>2
<1>5. ASSUME NEW t \in Threads, StoreWord(t) PROVE Arcs'
  <2>1. (\A u \in Threads : ArcKnown(u))'
    <3>1. /\ th[t].pc = "store" /\ th'[t].pc \in {"load", "complete"} /\ th'[t].arc = th[t].arc
          /\ \A u \in Threads \ {t} : th'[u] = th[u]
      BY <1>a, <1>5 DEF StoreWord, At
    <3>2. /\ descriptors' = descriptors /\ installed' = installed
          /\ entry' = entry
      BY <1>5 DEF StoreWord, relocationVars
    <3>3. ArcKnown(t)
      BY <1>g
    <3>4. ArcKnown(t)'
      BY <3>1, <3>2, <3>3 DEF ArcKnown, ArcPcs, HoldPcs, Mine
    <3>5. ASSUME NEW u \in Threads \ {t}
          PROVE  ArcKnown(u)'
      BY <1>g, <3>1, <3>2, <3>5 DEF ArcKnown, Mine
    <3> QED
      BY <3>4, <3>5
  <2>2. (\A u \in Threads : PacketTaken(u))'
    BY <1>a, <1>b, <1>c, <1>d, <1>e, <1>f, <1>g, <1>5
       DEF StoreWord, PacketTaken, ArcKnown, ArcPcs, HoldPcs, Mine, Undone, Descriptors, At,
           Goto, Me, objectVars, relocationVars, Idle
  <2> QED
    BY <2>1, <2>2 DEF Arcs
<1>6. ASSUME NEW t \in Threads, MarkDone(t) PROVE Arcs'
  <2>0. At(t, "done") /\ th[t].arc \in Addresses /\ Mine(t) \in Descriptors /\ entry.address = th[t].arc
    BY <1>g, <1>6 DEF MarkDone, ArcKnown, At, ArcPcs, HoldPcs
  <2>a. descriptors'[th[t].arc] = [Mine(t) EXCEPT !.done = TRUE]
    BY <1>e, <2>0, <1>6 DEF MarkDone, Mine
  <2>1. descriptors'[th[t].arc] \in Descriptors /\ descriptors'[th[t].arc].done
    BY <2>0, <2>a DEF Descriptors
  <2>2. \A a \in Addresses : a # th[t].arc => descriptors'[a] = descriptors[a]
    BY <1>e, <2>0, <1>6 DEF MarkDone
  <2>3. \A u \in Threads \ {t} : th'[u] = th[u] /\ th[u].pc \notin HoldPcs
    BY <1>a, <1>b, <2>0, <1>6 DEF MarkDone, Goto, At, HoldPcs
  <2>4. th'[t].pc = "unlock" /\ th'[t].arc = th[t].arc /\ th'[t].access = th[t].access
    BY <1>a, <1>6 DEF MarkDone, Goto
  <2>5. (\A u \in Threads : ArcKnown(u))'
    <3>1. ArcKnown(t)'
      BY <1>g, <2>0, <2>1, <2>4, <1>6
         DEF MarkDone, ArcKnown, ArcPcs, HoldPcs, At, Mine, objectVars
    <3>2. ASSUME NEW u \in Threads \ {t}
          PROVE  ArcKnown(u)'
      <4>1. CASE th[u].arc = th[t].arc
        BY <1>g, <2>0, <2>1, <2>3, <4>1, <1>6 DEF MarkDone, ArcKnown, ArcPcs, HoldPcs, Mine
      <4>2. CASE th[u].arc # th[t].arc
        BY <1>g, <2>2, <2>3, <4>2, <1>6 DEF MarkDone, ArcKnown, ArcPcs, HoldPcs, Mine
      <4> QED
        BY <4>1, <4>2
    <3> QED
      BY <3>1, <3>2
  <2>6. (\A u \in Threads : PacketTaken(u))'
    BY <1>g, <2>0, <2>1, <2>2, <2>3, <2>4, <1>6 DEF MarkDone, PacketTaken, Mine, At
  <2> QED
    BY <2>5, <2>6 DEF Arcs
<1>7. CASE ResolveOwner
  <2>1. (\A u \in Threads : ArcKnown(u))'
    BY <1>a, <1>b, <1>c, <1>d, <1>e, <1>f, <1>g, <1>7
       DEF ResolveOwner, ArcKnown, PacketTaken, ArcPcs, HoldPcs, Mine, Undone, Descriptors,
           At, Goto, Me, objectVars, relocationVars, Idle
  <2>2. (\A u \in Threads : PacketTaken(u))'
    BY <1>a, <1>b, <1>c, <1>d, <1>e, <1>f, <1>g, <1>7
       DEF ResolveOwner, PacketTaken, ArcKnown, ArcPcs, HoldPcs, Mine, Undone, Descriptors,
           At, Goto, Me, objectVars, relocationVars, Idle
  <2> QED
    BY <2>1, <2>2 DEF Arcs
<1>8. CASE GrowLock
  <2>1. CASE Undone
    <3>0. /\ At(Mutator, "growLock") /\ Goto(Mutator, "assist") /\ UNCHANGED lock
          /\ UNCHANGED <<objectVars, descriptors, installed, packet, quarantined, historyVars>>
      BY <2>1, <1>8 DEF GrowLock
    <3>1. (\A u \in Threads : ArcKnown(u))'
      BY <1>a, <1>b, <1>c, <1>d, <1>e, <1>f, <1>g, <2>1, <3>0
         DEF ArcKnown, PacketTaken, ArcPcs, HoldPcs, Mine, Undone, Descriptors, At, Goto,
             Me, objectVars, relocationVars, Idle
    <3>2. (\A u \in Threads : PacketTaken(u))'
      BY <1>a, <1>b, <1>c, <1>d, <1>e, <1>f, <1>g, <2>1, <3>0
         DEF PacketTaken, ArcKnown, ArcPcs, HoldPcs, Mine, Undone, Descriptors, At, Goto,
             Me, objectVars, relocationVars, Idle
    <3> QED
      BY <3>1, <3>2 DEF Arcs
  <2>2. CASE ~Undone
    <3>0. /\ At(Mutator, "growLock") /\ lock = None /\ lock' = Mutator
           /\ th' = [th EXCEPT ![Mutator].pc = "resolve", ![Mutator].then = "growCopy"]
          /\ UNCHANGED <<objectVars, descriptors, installed, packet, quarantined, historyVars>>
      BY <2>2, <1>8 DEF GrowLock
    <3>1. (\A u \in Threads : ArcKnown(u))'
      BY <1>a, <1>b, <1>c, <1>d, <1>e, <1>f, <1>g, <2>2, <3>0
         DEF ArcKnown, PacketTaken, ArcPcs, HoldPcs, Mine, Undone, Descriptors, At, Goto,
             Me, objectVars, relocationVars, Idle
    <3>2. (\A u \in Threads : PacketTaken(u))'
      BY <1>a, <1>b, <1>c, <1>d, <1>e, <1>f, <1>g, <2>2, <3>0
         DEF PacketTaken, ArcKnown, ArcPcs, HoldPcs, Mine, Undone, Descriptors, At, Goto,
             Me, objectVars, relocationVars, Idle
    <3> QED
      BY <3>1, <3>2 DEF Arcs
  <2> QED
    BY <2>1, <2>2
<1>9. CASE GrowCopy
  <2>1. CASE next > MaxAddress
    <3>0. /\ At(Mutator, "growCopy") /\ th' = [th EXCEPT ![Mutator] = Idle] /\ lock' = None /\ UNCHANGED objectVars
          /\ UNCHANGED <<descriptors, installed, packet, quarantined, historyVars>>
      BY <2>1, <1>9 DEF GrowCopy
    <3>1. (\A u \in Threads : ArcKnown(u))'
      BY <1>a, <1>b, <1>c, <1>d, <1>e, <1>f, <1>g, <2>1, <3>0
         DEF ArcKnown, PacketTaken, ArcPcs, HoldPcs, Mine, Undone, Descriptors, At, Goto,
             Me, objectVars, relocationVars, Idle
    <3>2. (\A u \in Threads : PacketTaken(u))'
      BY <1>a, <1>b, <1>c, <1>d, <1>e, <1>f, <1>g, <2>1, <3>0
         DEF PacketTaken, ArcKnown, ArcPcs, HoldPcs, Mine, Undone, Descriptors, At, Goto,
             Me, objectVars, relocationVars, Idle
    <3> QED
      BY <3>1, <3>2 DEF Arcs
  <2>2. CASE ~(next > MaxAddress)
    <3>0. /\ At(Mutator, "growCopy") /\ th' = [th EXCEPT ![Mutator].pc = "growPublish", ![Mutator].slot = next]
           /\ memory' = [memory EXCEPT ![next] = memory[Me.got]] /\ next' = next + 1
           /\ entry' = [entry EXCEPT !.moving = TRUE] /\ UNCHANGED lock
          /\ UNCHANGED <<descriptors, installed, packet, quarantined, historyVars>>
      BY <2>2, <1>9 DEF GrowCopy
    <3>1. (\A u \in Threads : ArcKnown(u))'
      BY <1>a, <1>b, <1>c, <1>d, <1>e, <1>f, <1>g, <2>2, <3>0
         DEF ArcKnown, PacketTaken, ArcPcs, HoldPcs, Mine, Undone, Descriptors, At, Goto,
             Me, objectVars, relocationVars, Idle
    <3>2. (\A u \in Threads : PacketTaken(u))'
      BY <1>a, <1>b, <1>c, <1>d, <1>e, <1>f, <1>g, <2>2, <3>0
         DEF PacketTaken, ArcKnown, ArcPcs, HoldPcs, Mine, Undone, Descriptors, At, Goto,
             Me, objectVars, relocationVars, Idle
    <3> QED
      BY <3>1, <3>2 DEF Arcs
  <2> QED
    BY <2>1, <2>2
<1> USE <1>a, <1>b, <1>c, <1>d, <1>e, <1>f, <1>g
   DEF ArcKnown, PacketTaken, ArcPcs, HoldPcs, Mine, Undone, Descriptors, At, Goto, Me,
       objectVars, relocationVars, Idle, Arcs
<1>10. ASSUME NEW t \in Threads, Assist(t) PROVE Arcs'
  BY <1>10 DEF Assist
<1>11. ASSUME NEW t \in Threads, LockRelocation(t) PROVE Arcs'
  BY <1>11 DEF LockRelocation
<1>12. ASSUME NEW t \in Threads, WaitUntilDone(t) PROVE Arcs'
  BY <1>12 DEF WaitUntilDone
<1>13. ASSUME NEW t \in Threads, BeginRelocation(t) PROVE Arcs'
  BY <1>13 DEF BeginRelocation
<1>14. ASSUME NEW t \in Threads, LoadWord(t) PROVE Arcs'
  BY <1>14 DEF LoadWord
<1>15. ASSUME NEW t \in Threads, CompleteRelocation(t) PROVE Arcs'
  BY <1>15 DEF CompleteRelocation
<1>16. ASSUME NEW t \in Threads, UnlockRelocation(t) PROVE Arcs'
  BY <1>16 DEF UnlockRelocation
<1>17. ASSUME NEW t \in Workers, TakePacket(t) PROVE Arcs'
  BY <1>17 DEF TakePacket
<1>18. ASSUME NEW t \in Workers, ForgetSource(t) PROVE Arcs'
  BY <1>18 DEF ForgetSource
<1>19. ASSUME NEW t \in Workers, ReleasePacket(t) PROVE Arcs'
  BY <1>19 DEF ReleasePacket
<1>20. ASSUME NEW t \in Workers, ScanBegin(t) PROVE Arcs'
  BY <1>20 DEF ScanBegin
<1>21. ASSUME NEW t \in Workers, ScanEnd(t) PROVE Arcs'
  BY <1>21 DEF ScanEnd
<1>22. CASE BeginStore
  BY <1>22 DEF BeginStore, Begin
<1>23. CASE BeginPlainStore
  BY <1>23 DEF BeginPlainStore, Begin
<1>24. CASE BeginGrow
  BY <1>24 DEF BeginGrow, Begin
<1>25. CASE StoreSlot
  BY <1>25 DEF StoreSlot
<1>26. CASE MirrorStore
  BY <1>26 DEF MirrorStore
<1>27. CASE FinalStore
  BY <1>27 DEF FinalStore
<1>28. CASE GrowPublish
  BY <1>28 DEF GrowPublish
<1>29. CASE Prepare
  BY <1>29 DEF Prepare
<1>30. CASE EpochReclaim
  BY <1>30 DEF EpochReclaim
<1> QED
  BY ONLY [Next]_vars, <1>1, <1>2, <1>3, <1>4, <1>5, <1>6, <1>7, <1>8, <1>9, <1>10, <1>11,
     <1>12, <1>13, <1>14, <1>15, <1>16, <1>17, <1>18, <1>19, <1>20, <1>21, <1>22, <1>23,
     <1>24, <1>25, <1>26, <1>27, <1>28, <1>29, <1>30
     DEF Next, WorkerStep, MutatorStep, CopyStep, Threads

\* No step makes a hole in an object.
LEMMA NoHoleMade ==
  ASSUME IInv, [Next]_vars, NEW a \in Addresses, NEW w \in Words, memory[a][w] # None
  PROVE  memory'[a][w] # None
<1>0. TypeOK /\ Described /\ CopiesWhole
  BY DEF IInv
<1>a. \A v \in 0..MaxOps : v # None
  BY RelocationAssumption
<1>1. CASE UNCHANGED vars
  BY <1>1 DEF vars, objectVars
<1> USE DEF objectVars
<1>2. ASSUME NEW t \in Threads, Resolve(t) PROVE memory'[a][w] # None
  BY <1>2 DEF Resolve, Return
<1>3. ASSUME NEW t \in Threads, Assist(t) PROVE memory'[a][w] # None
  BY <1>3 DEF Assist
<1>4. ASSUME NEW t \in Threads, AssistReturn(t) PROVE memory'[a][w] # None
  BY <1>4 DEF AssistReturn, Return
<1>5. ASSUME NEW t \in Threads, LockRelocation(t) PROVE memory'[a][w] # None
  BY <1>5 DEF LockRelocation
<1>6. ASSUME NEW t \in Threads, Claim(t) PROVE memory'[a][w] # None
  BY <1>6 DEF Claim
<1>7. ASSUME NEW t \in Threads, WaitUntilDone(t) PROVE memory'[a][w] # None
  BY <1>7 DEF WaitUntilDone
<1>8. ASSUME NEW t \in Threads, BeginRelocation(t) PROVE memory'[a][w] # None
  BY <1>8 DEF BeginRelocation
<1>9. ASSUME NEW t \in Threads, LoadWord(t) PROVE memory'[a][w] # None
  BY <1>9 DEF LoadWord
<1>10. ASSUME NEW t \in Threads, StoreWord(t) PROVE memory'[a][w] # None
  BY <1>0, <1>a, <1>10 DEF StoreWord, At, CopiesWhole, CopyWhole, LoadedWhole, TypeOK
<1>11. ASSUME NEW t \in Threads, CompleteRelocation(t) PROVE memory'[a][w] # None
  BY <1>11 DEF CompleteRelocation
<1>12. ASSUME NEW t \in Threads, MarkDone(t) PROVE memory'[a][w] # None
  BY <1>12 DEF MarkDone
<1>13. ASSUME NEW t \in Threads, UnlockRelocation(t) PROVE memory'[a][w] # None
  BY <1>13 DEF UnlockRelocation
<1>14. ASSUME NEW t \in Workers, TakePacket(t) PROVE memory'[a][w] # None
  BY <1>14 DEF TakePacket
<1>15. ASSUME NEW t \in Workers, ForgetSource(t) PROVE memory'[a][w] # None
  BY <1>15 DEF ForgetSource
<1>16. ASSUME NEW t \in Workers, ReleasePacket(t) PROVE memory'[a][w] # None
  BY <1>16 DEF ReleasePacket
<1>17. ASSUME NEW t \in Workers, ScanBegin(t) PROVE memory'[a][w] # None
  BY <1>17 DEF ScanBegin
<1>18. ASSUME NEW t \in Workers, ScanEnd(t) PROVE memory'[a][w] # None
  BY <1>18 DEF ScanEnd
<1>19. CASE BeginStore
  BY <1>19 DEF BeginStore, Begin
<1>20. CASE BeginPlainStore
  BY <1>20 DEF BeginPlainStore, Begin
<1>21. CASE BeginGrow
  BY <1>21 DEF BeginGrow, Begin
<1>22. CASE ResolveOwner
  BY <1>22 DEF ResolveOwner
<1>23. CASE StoreSlot
  BY <1>0, <1>a, <1>23 DEF StoreSlot, TypeOK
<1>24. CASE MirrorStore
  BY <1>0, <1>a, <1>24 DEF MirrorStore, TypeOK
<1>25. CASE FinalStore
  BY <1>0, <1>a, <1>25 DEF FinalStore, TypeOK
<1>26. CASE GrowLock
  BY <1>26 DEF GrowLock
<1>27. CASE GrowCopy
  BY <1>0, <1>27 DEF GrowCopy, At, Me, CopiesWhole, GrownWhole, Described, Whole, TypeOK
<1>28. CASE GrowPublish
  BY <1>28 DEF GrowPublish
<1>29. CASE Prepare
  BY <1>29 DEF Prepare
<1>30. CASE EpochReclaim
  BY <1>30 DEF EpochReclaim
<1> QED
  BY ONLY [Next]_vars, <1>1, <1>2, <1>3, <1>4, <1>5, <1>6, <1>7, <1>8, <1>9, <1>10, <1>11,
     <1>12, <1>13, <1>14, <1>15, <1>16, <1>17, <1>18, <1>19, <1>20, <1>21, <1>22, <1>23,
     <1>24, <1>25, <1>26, <1>27, <1>28, <1>29, <1>30
     DEF Next, WorkerStep, MutatorStep, CopyStep, Threads

\* Every step leaves the descriptors in order.
LEMMA DescribedStep ==
  ASSUME IInv, [Next]_vars
  PROVE  Described'
<1>0. TypeOK /\ WorkersControlled /\ MutatorControlled /\ Locked /\ Arcs /\ Described /\ CopiesWhole
  BY DEF IInv
<1>a. th \in [Threads -> ThreadStates] /\ Mutator \in Threads /\ installed \in Addresses \cup {0} /\ 0 \notin Addresses
  BY <1>0 DEF TypeOK, Threads, Addresses
<1>b. \A a \in Addresses : Whole(a) => Whole(a)'
  BY NoHoleMade DEF Whole
<1>c. /\ descriptors \in [Addresses -> Descriptors \cup {None}] /\ entry \in [address : Addresses, moving : BOOLEAN]
      /\ next \in 1..(MaxAddress + 1) /\ Addresses = 1..MaxAddress /\ MaxAddress \in Nat
  BY <1>0, RelocationAssumption DEF TypeOK, Addresses
<1>d. \A a \in Addresses : descriptors[a] \in Descriptors =>
        /\ descriptors[a].source \in Addresses
        /\ descriptors[a].done \in BOOLEAN /\ descriptors[a].claimed \in BOOLEAN
  BY DEF Descriptors
<1>e. \A a \in Addresses : DescriptorKnown(a) /\ HasCopier(a)
  BY <1>0 DEF Described
<1>f. PacketKnown /\ entry.address < next /\ Whole(entry.address)
  BY <1>0 DEF Described
<1>g. \A t \in Threads : ArcKnown(t) /\ PacketTaken(t)
  BY <1>0 DEF Arcs
<1>h. \A t \in Threads : th[t].pc = "complete" => Whole(th[t].arc)
  BY <1>0 DEF CopiesWhole, CopyWhole, CopiedWhole, Copied, Whole
<1>i. Me.pc = "growPublish" =>
        /\ Me.slot \in Addresses /\ entry.address < Me.slot /\ Me.slot < next /\ Whole(Me.slot) /\ ~Undone
  BY <1>0
     DEF CopiesWhole, GrownWhole, Described, Whole, Locked, Growing, MutatorControlled, Idle,
         WayPcs, ArcPcs, HoldPcs
<1>j. ASSUME NEW t \in Threads, th[t].pc \in {"claim", "done"}
      PROVE  /\ th[t].arc \in Addresses
             /\ [Mine(t) EXCEPT !.claimed = TRUE] \in Descriptors /\ [Mine(t) EXCEPT !.done = TRUE] \in Descriptors
             /\ [Mine(t) EXCEPT !.claimed = TRUE].done = Mine(t).done
             /\ [Mine(t) EXCEPT !.done = TRUE].done
  BY <1>g, <1>j DEF ArcKnown, ArcPcs, HoldPcs, Descriptors
<1>k. \A t \in Workers : th[t].pc = "release" => th[t].access = "relocate"
  BY <1>0 DEF WorkersControlled, WayPcs, ArcPcs, HoldPcs, Idle
<1>l. [source |-> entry.address, claimed |-> FALSE, done |-> FALSE] \in Descriptors
  BY <1>c DEF Descriptors
<1>1. CASE UNCHANGED vars
  BY <1>0, <1>1
     DEF vars, Described, DescriptorKnown, HasCopier, PacketKnown, Undone, Whole, objectVars,
         relocationVars
<1>2. ASSUME NEW t \in Threads, Resolve(t) PROVE Described'
  <2>1. CASE entry.moving
    <3>0. /\ At(t, "resolve") /\ Goto(t, "assist")
          /\ UNCHANGED <<objectVars, relocationVars, historyVars>>
      BY <2>1, <1>2 DEF Resolve, Return
    <3>1. (entry.address < next /\ Whole(entry.address))'
      BY <1>a, <1>b, <1>c, <1>e, <1>f, <1>g, <1>h, <1>i, <2>1, <3>0
         DEF ArcKnown, ArcPcs, HoldPcs, DescriptorKnown, Mine, At, Goto, Me, objectVars,
             relocationVars, Undone
    <3>2. (\A a \in Addresses : DescriptorKnown(a))'
      BY <1>a, <1>b, <1>c, <1>d, <1>e, <1>f, <1>g, <1>i, <2>1, <3>0
         DEF DescriptorKnown, PacketKnown, ArcKnown, Mine, ArcPcs, HoldPcs, At, Goto, Me,
             objectVars, relocationVars, Undone
    <3>3. (\A a \in Addresses : HasCopier(a))'
      BY <1>a, <1>c, <1>d, <1>e, <1>g, <2>1, <3>0
         DEF HasCopier, At, Goto, Me, objectVars, relocationVars, Undone
    <3>4. PacketKnown'
      BY <1>a, <1>c, <1>e, <1>f, <1>g, <1>j, <1>k, <1>l, <2>1, <3>0
         DEF PacketKnown, PacketTaken, Mine, Threads, At, Goto, Me, objectVars,
             relocationVars, Undone
    <3> QED
      BY <3>1, <3>2, <3>3, <3>4 DEF Described
  <2>2. CASE ~entry.moving
    <3>0. /\ At(t, "resolve") /\ th' = [th EXCEPT ![t].pc = th[t].then, ![t].got = entry.address, ![t].arc = 0]
          /\ UNCHANGED <<objectVars, relocationVars, historyVars>>
      BY <2>2, <1>2 DEF Resolve, Return
    <3>1. (entry.address < next /\ Whole(entry.address))'
      BY <1>a, <1>b, <1>c, <1>e, <1>f, <1>g, <1>h, <1>i, <2>2, <3>0
         DEF ArcKnown, ArcPcs, HoldPcs, DescriptorKnown, Mine, At, Goto, Me, objectVars,
             relocationVars, Undone
    <3>2. (\A a \in Addresses : DescriptorKnown(a))'
      BY <1>a, <1>b, <1>c, <1>d, <1>e, <1>f, <1>g, <1>i, <2>2, <3>0
         DEF DescriptorKnown, PacketKnown, ArcKnown, Mine, ArcPcs, HoldPcs, At, Goto, Me,
             objectVars, relocationVars, Undone
    <3>3. (\A a \in Addresses : HasCopier(a))'
      BY <1>a, <1>c, <1>d, <1>e, <1>g, <2>2, <3>0
         DEF HasCopier, At, Goto, Me, objectVars, relocationVars, Undone
    <3>4. PacketKnown'
      BY <1>a, <1>c, <1>e, <1>f, <1>g, <1>j, <1>k, <1>l, <2>2, <3>0
         DEF PacketKnown, PacketTaken, Mine, Threads, At, Goto, Me, objectVars,
             relocationVars, Undone
    <3> QED
      BY <3>1, <3>2, <3>3, <3>4 DEF Described
  <2> QED
    BY <2>1, <2>2
<1>3. ASSUME NEW t \in Threads, Claim(t) PROVE Described'
  <2>1. CASE Mine(t).claimed
    <3>0. /\ At(t, "claim") /\ Goto(t, "wait") /\ lock' = None /\ UNCHANGED descriptors
          /\ UNCHANGED <<objectVars, installed, packet, quarantined, historyVars>>
      BY <2>1, <1>3 DEF Claim
    <3>1. (entry.address < next /\ Whole(entry.address))'
      BY <1>a, <1>b, <1>c, <1>e, <1>f, <1>g, <1>h, <1>i, <2>1, <3>0
         DEF ArcKnown, ArcPcs, HoldPcs, DescriptorKnown, Mine, At, Goto, Me, objectVars,
             relocationVars, Undone
    <3>2. (\A a \in Addresses : DescriptorKnown(a))'
      BY <1>a, <1>b, <1>c, <1>d, <1>e, <1>f, <1>g, <1>i, <2>1, <3>0
         DEF DescriptorKnown, PacketKnown, ArcKnown, Mine, ArcPcs, HoldPcs, At, Goto, Me,
             objectVars, relocationVars, Undone
    <3>3. (\A a \in Addresses : HasCopier(a))'
      BY <1>a, <1>c, <1>d, <1>e, <1>g, <2>1, <3>0
         DEF HasCopier, At, Goto, Me, objectVars, relocationVars, Undone
    <3>4. PacketKnown'
      BY <1>a, <1>c, <1>e, <1>f, <1>g, <1>j, <1>k, <1>l, <2>1, <3>0
         DEF PacketKnown, PacketTaken, Mine, Threads, At, Goto, Me, objectVars,
             relocationVars, Undone
    <3> QED
      BY <3>1, <3>2, <3>3, <3>4 DEF Described
  <2>2. CASE ~Mine(t).claimed
    <3>0. /\ At(t, "claim") /\ Goto(t, "begin") /\ lock' = lock
           /\ descriptors' = [descriptors EXCEPT ![th[t].arc].claimed = TRUE]
          /\ UNCHANGED <<objectVars, installed, packet, quarantined, historyVars>>
      BY <2>2, <1>3 DEF Claim
    <3>1. (entry.address < next /\ Whole(entry.address))'
      BY <1>a, <1>b, <1>c, <1>e, <1>f, <1>g, <1>h, <1>i, <2>2, <3>0
         DEF ArcKnown, ArcPcs, HoldPcs, DescriptorKnown, Mine, At, Goto, Me, objectVars,
             relocationVars, Undone
    <3>2. (\A a \in Addresses : DescriptorKnown(a))'
      BY <1>a, <1>b, <1>c, <1>d, <1>e, <1>f, <1>g, <1>i, <2>2, <3>0
         DEF DescriptorKnown, PacketKnown, ArcKnown, Mine, ArcPcs, HoldPcs, At, Goto, Me,
             objectVars, relocationVars, Undone
    <3>3. (\A a \in Addresses : HasCopier(a))'
      BY <1>a, <1>c, <1>d, <1>e, <1>g, <2>2, <3>0
         DEF HasCopier, At, Goto, Me, objectVars, relocationVars, Undone
    <3>4. PacketKnown'
      BY <1>a, <1>c, <1>e, <1>f, <1>g, <1>j, <1>k, <1>l, <2>2, <3>0
         DEF PacketKnown, PacketTaken, Mine, Threads, At, Goto, Me, objectVars,
             relocationVars, Undone
    <3> QED
      BY <3>1, <3>2, <3>3, <3>4 DEF Described
  <2> QED
    BY <2>1, <2>2
<1>4. ASSUME NEW t \in Threads, CompleteRelocation(t) PROVE Described'
  <2>1. (entry.address < next /\ Whole(entry.address))'
    BY <1>a, <1>b, <1>c, <1>e, <1>f, <1>g, <1>h, <1>i, <1>4
       DEF CompleteRelocation, ArcKnown, ArcPcs, HoldPcs, DescriptorKnown, Mine, At, Goto,
           Me, objectVars, relocationVars, Undone
  <2>2. (\A a \in Addresses : DescriptorKnown(a))'
    BY <1>a, <1>b, <1>c, <1>d, <1>e, <1>f, <1>g, <1>i, <1>4
       DEF CompleteRelocation, DescriptorKnown, PacketKnown, ArcKnown, Mine, ArcPcs,
           HoldPcs, At, Goto, Me, objectVars, relocationVars, Undone
  <2>3. (\A a \in Addresses : HasCopier(a))'
    BY <1>a, <1>c, <1>d, <1>e, <1>g, <1>4
       DEF CompleteRelocation, HasCopier, At, Goto, Me, objectVars, relocationVars, Undone
  <2>4. PacketKnown'
    BY <1>a, <1>c, <1>e, <1>f, <1>g, <1>j, <1>k, <1>l, <1>4
       DEF CompleteRelocation, PacketKnown, PacketTaken, Mine, Threads, At, Goto, Me,
           objectVars, relocationVars, Undone
  <2> QED
    BY <2>1, <2>2, <2>3, <2>4 DEF Described
<1>5. ASSUME NEW t \in Threads, MarkDone(t) PROVE Described'
  <2>1. (entry.address < next /\ Whole(entry.address))'
    BY <1>a, <1>b, <1>c, <1>e, <1>f, <1>g, <1>h, <1>i, <1>5
       DEF MarkDone, ArcKnown, ArcPcs, HoldPcs, DescriptorKnown, Mine, At, Goto, Me,
           objectVars, relocationVars, Undone
  <2>2. (\A a \in Addresses : DescriptorKnown(a))'
    BY <1>a, <1>b, <1>c, <1>d, <1>e, <1>f, <1>g, <1>i, <1>5
       DEF MarkDone, DescriptorKnown, PacketKnown, ArcKnown, Mine, ArcPcs, HoldPcs, At,
           Goto, Me, objectVars, relocationVars, Undone
  <2>3. (\A a \in Addresses : HasCopier(a))'
    BY <1>a, <1>c, <1>d, <1>e, <1>g, <1>5
       DEF MarkDone, HasCopier, At, Goto, Me, objectVars, relocationVars, Undone
  <2>4. PacketKnown'
    BY <1>a, <1>c, <1>e, <1>f, <1>g, <1>j, <1>k, <1>l, <1>5
       DEF MarkDone, PacketKnown, PacketTaken, Mine, Threads, At, Goto, Me, objectVars,
           relocationVars, Undone
  <2> QED
    BY <2>1, <2>2, <2>3, <2>4 DEF Described
<1>6. CASE GrowLock
  <2>1. CASE Undone
    <3>0. /\ At(Mutator, "growLock") /\ Goto(Mutator, "assist") /\ UNCHANGED lock
          /\ UNCHANGED <<objectVars, descriptors, installed, packet, quarantined, historyVars>>
      BY <2>1, <1>6 DEF GrowLock
    <3>1. (entry.address < next /\ Whole(entry.address))'
      BY <1>a, <1>b, <1>c, <1>e, <1>f, <1>g, <1>h, <1>i, <2>1, <3>0
         DEF ArcKnown, ArcPcs, HoldPcs, DescriptorKnown, Mine, At, Goto, Me, objectVars,
             relocationVars, Undone
    <3>2. (\A a \in Addresses : DescriptorKnown(a))'
      BY <1>a, <1>b, <1>c, <1>d, <1>e, <1>f, <1>g, <1>i, <2>1, <3>0
         DEF DescriptorKnown, PacketKnown, ArcKnown, Mine, ArcPcs, HoldPcs, At, Goto, Me,
             objectVars, relocationVars, Undone
    <3>3. (\A a \in Addresses : HasCopier(a))'
      BY <1>a, <1>c, <1>d, <1>e, <1>g, <2>1, <3>0
         DEF HasCopier, At, Goto, Me, objectVars, relocationVars, Undone
    <3>4. PacketKnown'
      BY <1>a, <1>c, <1>e, <1>f, <1>g, <1>j, <1>k, <1>l, <2>1, <3>0
         DEF PacketKnown, PacketTaken, Mine, Threads, At, Goto, Me, objectVars,
             relocationVars, Undone
    <3> QED
      BY <3>1, <3>2, <3>3, <3>4 DEF Described
  <2>2. CASE ~Undone
    <3>0. /\ At(Mutator, "growLock") /\ lock = None /\ lock' = Mutator
           /\ th' = [th EXCEPT ![Mutator].pc = "resolve", ![Mutator].then = "growCopy"]
          /\ UNCHANGED <<objectVars, descriptors, installed, packet, quarantined, historyVars>>
      BY <2>2, <1>6 DEF GrowLock
    <3>1. (entry.address < next /\ Whole(entry.address))'
      BY <1>a, <1>b, <1>c, <1>e, <1>f, <1>g, <1>h, <1>i, <2>2, <3>0
         DEF ArcKnown, ArcPcs, HoldPcs, DescriptorKnown, Mine, At, Goto, Me, objectVars,
             relocationVars, Undone
    <3>2. (\A a \in Addresses : DescriptorKnown(a))'
      BY <1>a, <1>b, <1>c, <1>d, <1>e, <1>f, <1>g, <1>i, <2>2, <3>0
         DEF DescriptorKnown, PacketKnown, ArcKnown, Mine, ArcPcs, HoldPcs, At, Goto, Me,
             objectVars, relocationVars, Undone
    <3>3. (\A a \in Addresses : HasCopier(a))'
      BY <1>a, <1>c, <1>d, <1>e, <1>g, <2>2, <3>0
         DEF HasCopier, At, Goto, Me, objectVars, relocationVars, Undone
    <3>4. PacketKnown'
      BY <1>a, <1>c, <1>e, <1>f, <1>g, <1>j, <1>k, <1>l, <2>2, <3>0
         DEF PacketKnown, PacketTaken, Mine, Threads, At, Goto, Me, objectVars,
             relocationVars, Undone
    <3> QED
      BY <3>1, <3>2, <3>3, <3>4 DEF Described
  <2> QED
    BY <2>1, <2>2
<1>7. CASE GrowCopy
  <2>1. CASE next > MaxAddress
    <3>0. /\ At(Mutator, "growCopy") /\ th' = [th EXCEPT ![Mutator] = Idle] /\ lock' = None /\ UNCHANGED objectVars
          /\ UNCHANGED <<descriptors, installed, packet, quarantined, historyVars>>
      BY <2>1, <1>7 DEF GrowCopy
    <3>1. (entry.address < next /\ Whole(entry.address))'
      BY <1>a, <1>b, <1>c, <1>e, <1>f, <1>g, <1>h, <1>i, <2>1, <3>0
         DEF ArcKnown, ArcPcs, HoldPcs, DescriptorKnown, Mine, At, Goto, Me, objectVars,
             relocationVars, Undone
    <3>2. (\A a \in Addresses : DescriptorKnown(a))'
      BY <1>a, <1>b, <1>c, <1>d, <1>e, <1>f, <1>g, <1>i, <2>1, <3>0
         DEF DescriptorKnown, PacketKnown, ArcKnown, Mine, ArcPcs, HoldPcs, At, Goto, Me,
             objectVars, relocationVars, Undone
    <3>3. (\A a \in Addresses : HasCopier(a))'
      BY <1>a, <1>c, <1>d, <1>e, <1>g, <2>1, <3>0
         DEF HasCopier, At, Goto, Me, objectVars, relocationVars, Undone
    <3>4. PacketKnown'
      BY <1>a, <1>c, <1>e, <1>f, <1>g, <1>j, <1>k, <1>l, <2>1, <3>0
         DEF PacketKnown, PacketTaken, Mine, Threads, At, Goto, Me, objectVars,
             relocationVars, Undone
    <3> QED
      BY <3>1, <3>2, <3>3, <3>4 DEF Described
  <2>2. CASE ~(next > MaxAddress)
    <3>0. /\ At(Mutator, "growCopy") /\ th' = [th EXCEPT ![Mutator].pc = "growPublish", ![Mutator].slot = next]
           /\ memory' = [memory EXCEPT ![next] = memory[Me.got]] /\ next' = next + 1
           /\ entry' = [entry EXCEPT !.moving = TRUE] /\ UNCHANGED lock
          /\ UNCHANGED <<descriptors, installed, packet, quarantined, historyVars>>
      BY <2>2, <1>7 DEF GrowCopy
    <3>1. (entry.address < next /\ Whole(entry.address))'
      BY <1>a, <1>b, <1>c, <1>e, <1>f, <1>g, <1>h, <1>i, <2>2, <3>0
         DEF ArcKnown, ArcPcs, HoldPcs, DescriptorKnown, Mine, At, Goto, Me, objectVars,
             relocationVars, Undone
    <3>2. (\A a \in Addresses : DescriptorKnown(a))'
      BY <1>a, <1>b, <1>c, <1>d, <1>e, <1>f, <1>g, <1>i, <2>2, <3>0
         DEF DescriptorKnown, PacketKnown, ArcKnown, Mine, ArcPcs, HoldPcs, At, Goto, Me,
             objectVars, relocationVars, Undone
    <3>3. (\A a \in Addresses : HasCopier(a))'
      BY <1>a, <1>c, <1>d, <1>e, <1>g, <2>2, <3>0
         DEF HasCopier, At, Goto, Me, objectVars, relocationVars, Undone
    <3>4. PacketKnown'
      BY <1>a, <1>c, <1>e, <1>f, <1>g, <1>j, <1>k, <1>l, <2>2, <3>0
         DEF PacketKnown, PacketTaken, Mine, Threads, At, Goto, Me, objectVars,
             relocationVars, Undone
    <3> QED
      BY <3>1, <3>2, <3>3, <3>4 DEF Described
  <2> QED
    BY <2>1, <2>2
<1> USE <1>a, <1>b, <1>c, <1>e, <1>f, <1>g, <1>h, <1>i, <1>d, <1>j, <1>k, <1>l
   DEF ArcKnown, ArcPcs, HoldPcs, DescriptorKnown, Mine, At, Goto, Me, objectVars,
       relocationVars, Undone, PacketKnown, HasCopier, PacketTaken, Threads, Described
<1>8. ASSUME NEW t \in Threads, Assist(t) PROVE Described'
  BY <1>8 DEF Assist
<1>9. ASSUME NEW t \in Threads, AssistReturn(t) PROVE Described'
  BY <1>9 DEF AssistReturn, Return
<1>10. ASSUME NEW t \in Threads, LockRelocation(t) PROVE Described'
  BY <1>10 DEF LockRelocation
<1>11. ASSUME NEW t \in Threads, WaitUntilDone(t) PROVE Described'
  BY <1>11 DEF WaitUntilDone
<1>12. ASSUME NEW t \in Threads, BeginRelocation(t) PROVE Described'
  BY <1>12 DEF BeginRelocation
<1>13. ASSUME NEW t \in Threads, LoadWord(t) PROVE Described'
  BY <1>13 DEF LoadWord
<1>14. ASSUME NEW t \in Threads, StoreWord(t) PROVE Described'
  BY SMTT(60), <1>14 DEF StoreWord
<1>15. ASSUME NEW t \in Threads, UnlockRelocation(t) PROVE Described'
  BY <1>15 DEF UnlockRelocation
<1>16. ASSUME NEW t \in Workers, TakePacket(t) PROVE Described'
  BY <1>16 DEF TakePacket
<1>17. ASSUME NEW t \in Workers, ForgetSource(t) PROVE Described'
  BY <1>17 DEF ForgetSource
<1>18. ASSUME NEW t \in Workers, ReleasePacket(t) PROVE Described'
  BY <1>18 DEF ReleasePacket
<1>19. ASSUME NEW t \in Workers, ScanBegin(t) PROVE Described'
  BY <1>19 DEF ScanBegin
<1>20. ASSUME NEW t \in Workers, ScanEnd(t) PROVE Described'
  BY <1>20 DEF ScanEnd
<1>21. CASE BeginStore
  BY <1>21 DEF BeginStore, Begin
<1>22. CASE BeginPlainStore
  BY <1>22 DEF BeginPlainStore, Begin
<1>23. CASE BeginGrow
  BY <1>23 DEF BeginGrow, Begin
<1>24. CASE ResolveOwner
  BY <1>24 DEF ResolveOwner
<1>25. CASE StoreSlot
  BY ZenonT(90), <1>25 DEF StoreSlot
<1>26. CASE MirrorStore
  BY <1>26 DEF MirrorStore
<1>27. CASE FinalStore
  BY <1>27 DEF FinalStore
<1>28. CASE GrowPublish
  BY <1>28 DEF GrowPublish
<1>29. CASE Prepare
  BY <1>29 DEF Prepare
<1>30. CASE EpochReclaim
  BY <1>30 DEF EpochReclaim
<1> QED
  BY ONLY [Next]_vars, <1>1, <1>2, <1>3, <1>4, <1>5, <1>6, <1>7, <1>8, <1>9, <1>10, <1>11,
     <1>12, <1>13, <1>14, <1>15, <1>16, <1>17, <1>18, <1>19, <1>20, <1>21, <1>22, <1>23,
     <1>24, <1>25, <1>26, <1>27, <1>28, <1>29, <1>30
     DEF Next, WorkerStep, MutatorStep, CopyStep, Threads

\* Every step leaves what is copied without a hole.
LEMMA CopiesWholeStep ==
  ASSUME IInv, [Next]_vars
  PROVE  CopiesWhole'
<1>0. TypeOK /\ WorkersControlled /\ MutatorControlled /\ Locked /\ Arcs /\ Described /\ CopiesWhole
  BY DEF IInv
<1>a. th \in [Threads -> ThreadStates] /\ Mutator \in Threads /\ Threads = Workers \cup {Mutator} /\ Mutator \notin Workers
  BY <1>0, RelocationAssumption DEF TypeOK, Threads
<1>b. \A a \in Addresses : \A w \in Words : memory[a][w] # None => memory'[a][w] # None
  BY NoHoleMade
<1>c. /\ memory \in [Addresses -> [Words -> Values]] /\ descriptors \in [Addresses -> Descriptors \cup {None}]
      /\ entry \in [address : Addresses, moving : BOOLEAN]
      /\ next \in 1..(MaxAddress + 1) /\ Addresses = 1..MaxAddress /\ MaxAddress \in Nat /\ Words = 1..Size /\ Size \in Nat \ {0}
  BY <1>0, RelocationAssumption DEF TypeOK, Addresses, Words
<1>d. \A t \in Threads : th[t].got \in Addresses \cup {0} /\ th[t].index \in 0..Size /\ 0 \notin Addresses
  BY <1>0 DEF TypeOK, ThreadStates, Addresses
<1>e. \A t \in Threads : th[t].then \notin {"load", "store", "complete", "growPublish"}
  BY <1>0 DEF TypeOK, ThreadStates
<1>f. \A t \in Threads : CopyWhole(t) /\ ArcKnown(t)
  BY <1>0 DEF CopiesWhole, Arcs
<1>g. GrownWhole /\ \A a \in Addresses : DescriptorKnown(a)
  BY <1>0 DEF CopiesWhole, Described
<1>h. /\ \A t \in Threads : th[t].pc \in HoldPcs => lock = t
      /\ Me.pc \in {"growCopy", "growPublish"} => lock = Mutator
  BY <1>0 DEF Locked, Growing, MutatorControlled, WayPcs, ArcPcs, HoldPcs, Idle
<1>i. \A t \in Threads : th[t].pc = "load" => \A w \in Words : memory[Mine(t).source][w] # None
  BY <1>f, <1>g DEF ArcKnown, ArcPcs, HoldPcs, DescriptorKnown, Mine, Whole
<1>j. entry.address < next /\ Whole(entry.address)
  BY <1>0 DEF Described
<1>1. CASE UNCHANGED vars
  BY <1>0, <1>1
     DEF vars, CopiesWhole, CopyWhole, GotWhole, CopiedWhole, LoadedWhole, GrownWhole, Copied,
         Whole, Me, objectVars, relocationVars
<1>2. ASSUME NEW t \in Threads, Resolve(t) PROVE CopiesWhole'
  <2>1. CASE entry.moving
    <3>0. /\ At(t, "resolve") /\ Goto(t, "assist")
          /\ UNCHANGED <<objectVars, relocationVars, historyVars>>
      BY <2>1, <1>2 DEF Resolve, Return
    <3>1. (\A u \in Threads : GotWhole(u))'
      BY <1>a, <1>b, <1>c, <1>d, <1>f, <1>g, <1>j, <2>1, <3>0
         DEF CopyWhole, GotWhole, Whole, GrownWhole, ArcKnown, DescriptorKnown, Mine, At,
             Goto, Me, objectVars, relocationVars, Idle, Copied, HoldPcs, ArcPcs
    <3>2. (\A u \in Threads : CopiedWhole(u))'
      BY <1>a, <1>b, <1>c, <1>d, <1>e, <1>f, <2>1, <3>0
         DEF CopyWhole, CopiedWhole, LoadedWhole, ArcKnown, At, Goto, Me, objectVars,
             relocationVars, Idle, Copied, HoldPcs, ArcPcs
    <3>3. (\A u \in Threads : LoadedWhole(u))'
      BY <1>a, <1>c, <1>e, <1>f, <1>i, <2>1, <3>0
         DEF CopyWhole, LoadedWhole, At, Goto, Me, objectVars, relocationVars, Idle,
             Copied, HoldPcs, ArcPcs
    <3>4. GrownWhole'
      BY <1>a, <1>c, <1>e, <1>f, <1>g, <1>h, <1>j, <2>1, <3>0
         DEF GrownWhole, DescriptorKnown, At, Goto, Me, objectVars, relocationVars, Idle,
             Copied, HoldPcs, ArcPcs
    <3> QED
      BY <3>1, <3>2, <3>3, <3>4 DEF CopiesWhole, CopyWhole
  <2>2. CASE ~entry.moving
    <3>0. /\ At(t, "resolve") /\ th' = [th EXCEPT ![t].pc = th[t].then, ![t].got = entry.address, ![t].arc = 0]
          /\ UNCHANGED <<objectVars, relocationVars, historyVars>>
      BY <2>2, <1>2 DEF Resolve, Return
    <3>1. (\A u \in Threads : GotWhole(u))'
      BY <1>a, <1>b, <1>c, <1>d, <1>f, <1>g, <1>j, <2>2, <3>0
         DEF CopyWhole, GotWhole, Whole, GrownWhole, ArcKnown, DescriptorKnown, Mine, At,
             Goto, Me, objectVars, relocationVars, Idle, Copied, HoldPcs, ArcPcs
    <3>2. (\A u \in Threads : CopiedWhole(u))'
      BY <1>a, <1>b, <1>c, <1>d, <1>e, <1>f, <2>2, <3>0
         DEF CopyWhole, CopiedWhole, LoadedWhole, ArcKnown, At, Goto, Me, objectVars,
             relocationVars, Idle, Copied, HoldPcs, ArcPcs
    <3>3. (\A u \in Threads : LoadedWhole(u))'
      BY <1>a, <1>c, <1>e, <1>f, <1>i, <2>2, <3>0
         DEF CopyWhole, LoadedWhole, At, Goto, Me, objectVars, relocationVars, Idle,
             Copied, HoldPcs, ArcPcs
    <3>4. GrownWhole'
      BY <1>a, <1>c, <1>e, <1>f, <1>g, <1>h, <1>j, <2>2, <3>0
         DEF GrownWhole, DescriptorKnown, At, Goto, Me, objectVars, relocationVars, Idle,
             Copied, HoldPcs, ArcPcs
    <3> QED
      BY <3>1, <3>2, <3>3, <3>4 DEF CopiesWhole, CopyWhole
  <2> QED
    BY <2>1, <2>2
<1>3. ASSUME NEW t \in Threads, AssistReturn(t) PROVE CopiesWhole'
  <2>1. (\A u \in Threads : GotWhole(u))'
    BY <1>a, <1>b, <1>c, <1>d, <1>f, <1>g, <1>j, <1>3
       DEF AssistReturn, Return, CopyWhole, GotWhole, Whole, GrownWhole, ArcKnown,
           DescriptorKnown, Mine, At, Goto, Me, objectVars, relocationVars, Idle, Copied,
           HoldPcs, ArcPcs
  <2>2. (\A u \in Threads : CopiedWhole(u))'
    BY <1>a, <1>b, <1>c, <1>d, <1>e, <1>f, <1>3
       DEF AssistReturn, Return, CopyWhole, CopiedWhole, LoadedWhole, ArcKnown, At, Goto,
           Me, objectVars, relocationVars, Idle, Copied, HoldPcs, ArcPcs
  <2>3. (\A u \in Threads : LoadedWhole(u))'
    BY <1>a, <1>c, <1>e, <1>f, <1>i, <1>3
       DEF AssistReturn, Return, CopyWhole, LoadedWhole, At, Goto, Me, objectVars,
           relocationVars, Idle, Copied, HoldPcs, ArcPcs
  <2>4. GrownWhole'
    BY <1>a, <1>c, <1>e, <1>f, <1>g, <1>h, <1>j, <1>3
       DEF AssistReturn, Return, GrownWhole, DescriptorKnown, At, Goto, Me, objectVars,
           relocationVars, Idle, Copied, HoldPcs, ArcPcs
  <2> QED
    BY <2>1, <2>2, <2>3, <2>4 DEF CopiesWhole, CopyWhole
<1>4. ASSUME NEW t \in Threads, Claim(t) PROVE CopiesWhole'
  <2>1. CASE Mine(t).claimed
    <3>0. /\ At(t, "claim") /\ Goto(t, "wait") /\ lock' = None /\ UNCHANGED descriptors
          /\ UNCHANGED <<objectVars, installed, packet, quarantined, historyVars>>
      BY <2>1, <1>4 DEF Claim
    <3>1. (\A u \in Threads : GotWhole(u))'
      BY <1>a, <1>b, <1>c, <1>d, <1>f, <1>g, <1>j, <2>1, <3>0
         DEF CopyWhole, GotWhole, Whole, GrownWhole, ArcKnown, DescriptorKnown, Mine, At,
             Goto, Me, objectVars, relocationVars, Idle, Copied, HoldPcs, ArcPcs
    <3>2. (\A u \in Threads : CopiedWhole(u))'
      BY <1>a, <1>b, <1>c, <1>d, <1>e, <1>f, <2>1, <3>0
         DEF CopyWhole, CopiedWhole, LoadedWhole, ArcKnown, At, Goto, Me, objectVars,
             relocationVars, Idle, Copied, HoldPcs, ArcPcs
    <3>3. (\A u \in Threads : LoadedWhole(u))'
      BY <1>a, <1>c, <1>e, <1>f, <1>i, <2>1, <3>0
         DEF CopyWhole, LoadedWhole, At, Goto, Me, objectVars, relocationVars, Idle,
             Copied, HoldPcs, ArcPcs
    <3>4. GrownWhole'
      BY <1>a, <1>c, <1>e, <1>f, <1>g, <1>h, <1>j, <2>1, <3>0
         DEF GrownWhole, DescriptorKnown, At, Goto, Me, objectVars, relocationVars, Idle,
             Copied, HoldPcs, ArcPcs
    <3> QED
      BY <3>1, <3>2, <3>3, <3>4 DEF CopiesWhole, CopyWhole
  <2>2. CASE ~Mine(t).claimed
    <3>0. /\ At(t, "claim") /\ Goto(t, "begin") /\ lock' = lock
           /\ descriptors' = [descriptors EXCEPT ![th[t].arc].claimed = TRUE]
          /\ UNCHANGED <<objectVars, installed, packet, quarantined, historyVars>>
      BY <2>2, <1>4 DEF Claim
    <3>1. (\A u \in Threads : GotWhole(u))'
      BY <1>a, <1>b, <1>c, <1>d, <1>f, <1>g, <1>j, <2>2, <3>0
         DEF CopyWhole, GotWhole, Whole, GrownWhole, ArcKnown, DescriptorKnown, Mine, At,
             Goto, Me, objectVars, relocationVars, Idle, Copied, HoldPcs, ArcPcs
    <3>2. (\A u \in Threads : CopiedWhole(u))'
      BY <1>a, <1>b, <1>c, <1>d, <1>e, <1>f, <2>2, <3>0
         DEF CopyWhole, CopiedWhole, LoadedWhole, ArcKnown, At, Goto, Me, objectVars,
             relocationVars, Idle, Copied, HoldPcs, ArcPcs
    <3>3. (\A u \in Threads : LoadedWhole(u))'
      BY <1>a, <1>c, <1>e, <1>f, <1>i, <2>2, <3>0
         DEF CopyWhole, LoadedWhole, At, Goto, Me, objectVars, relocationVars, Idle,
             Copied, HoldPcs, ArcPcs
    <3>4. GrownWhole'
      BY <1>a, <1>c, <1>e, <1>f, <1>g, <1>h, <1>j, <2>2, <3>0
         DEF GrownWhole, DescriptorKnown, At, Goto, Me, objectVars, relocationVars, Idle,
             Copied, HoldPcs, ArcPcs
    <3> QED
      BY <3>1, <3>2, <3>3, <3>4 DEF CopiesWhole, CopyWhole
  <2> QED
    BY <2>1, <2>2
<1>5. ASSUME NEW t \in Threads, LoadWord(t) PROVE CopiesWhole'
  <2>1. (\A u \in Threads : GotWhole(u))'
    BY <1>a, <1>b, <1>c, <1>d, <1>f, <1>g, <1>j, <1>5
       DEF LoadWord, CopyWhole, GotWhole, Whole, GrownWhole, ArcKnown, DescriptorKnown,
           Mine, At, Goto, Me, objectVars, relocationVars, Idle, Copied, HoldPcs, ArcPcs
  <2>2. (\A u \in Threads : CopiedWhole(u))'
    BY <1>a, <1>b, <1>c, <1>d, <1>e, <1>f, <1>5
       DEF LoadWord, CopyWhole, CopiedWhole, LoadedWhole, ArcKnown, At, Goto, Me,
           objectVars, relocationVars, Idle, Copied, HoldPcs, ArcPcs
  <2>3. (\A u \in Threads : LoadedWhole(u))'
    BY <1>a, <1>c, <1>e, <1>f, <1>i, <1>5
       DEF LoadWord, CopyWhole, LoadedWhole, At, Goto, Me, objectVars, relocationVars, Idle,
           Copied, HoldPcs, ArcPcs
  <2>4. GrownWhole'
    BY <1>a, <1>c, <1>e, <1>f, <1>g, <1>h, <1>j, <1>5
       DEF LoadWord, GrownWhole, DescriptorKnown, At, Goto, Me, objectVars, relocationVars,
           Idle, Copied, HoldPcs, ArcPcs
  <2> QED
    BY <2>1, <2>2, <2>3, <2>4 DEF CopiesWhole, CopyWhole
<1>6. ASSUME NEW t \in Threads, StoreWord(t) PROVE CopiesWhole'
  <2>1. (\A u \in Threads : GotWhole(u))'
    <3>1. \A u \in Threads : th'[u].got = th[u].got
      BY <1>a, <1>6 DEF StoreWord
    <3>2. \A a \in Addresses : Whole(a) => Whole(a)'
      BY <1>b DEF Whole
    <3>3. entry' = entry /\ \A u \in Threads : GotWhole(u)
      BY <1>f, <1>6 DEF StoreWord, CopyWhole
    <3> QED
      BY <1>d, <3>1, <3>2, <3>3 DEF GotWhole
  <2>2. (\A u \in Threads : CopiedWhole(u))'
    BY <1>a, <1>b, <1>c, <1>d, <1>e, <1>f, <1>6
       DEF StoreWord, CopyWhole, CopiedWhole, LoadedWhole, ArcKnown, At, Goto, Me,
           objectVars, relocationVars, Idle, Copied, HoldPcs, ArcPcs
  <2>3. (\A u \in Threads : LoadedWhole(u))'
    BY <1>a, <1>c, <1>e, <1>f, <1>i, <1>6
       DEF StoreWord, CopyWhole, LoadedWhole, At, Goto, Me, objectVars, relocationVars,
           Idle, Copied, HoldPcs, ArcPcs
  <2>4. GrownWhole'
    BY <1>a, <1>c, <1>e, <1>f, <1>g, <1>h, <1>j, <1>6
       DEF StoreWord, GrownWhole, DescriptorKnown, At, Goto, Me, objectVars, relocationVars,
           Idle, Copied, HoldPcs, ArcPcs
  <2> QED
    BY <2>1, <2>2, <2>3, <2>4 DEF CopiesWhole, CopyWhole
<1>7. ASSUME NEW t \in Threads, CompleteRelocation(t) PROVE CopiesWhole'
  <2>0. entry.address < th[t].arc
    BY <1>c, <1>f, <1>g, <1>7
       DEF CompleteRelocation, At, ArcKnown, ArcPcs, HoldPcs, DescriptorKnown, Mine
  <2>1. (\A u \in Threads : GotWhole(u))'
    BY <1>a, <1>b, <1>c, <1>d, <1>f, <2>0, <1>7
       DEF CompleteRelocation, CopyWhole, GotWhole, Whole, GrownWhole, ArcKnown,
           DescriptorKnown, Mine, At, Goto, Me, objectVars, relocationVars, Idle, Copied,
           HoldPcs, ArcPcs
  <2>2. (\A u \in Threads : CopiedWhole(u))'
    BY <1>a, <1>b, <1>c, <1>d, <1>e, <1>f, <1>7
       DEF CompleteRelocation, CopyWhole, CopiedWhole, LoadedWhole, ArcKnown, At, Goto, Me,
           objectVars, relocationVars, Idle, Copied, HoldPcs, ArcPcs
  <2>3. (\A u \in Threads : LoadedWhole(u))'
    BY <1>a, <1>c, <1>e, <1>f, <1>i, <1>7
       DEF CompleteRelocation, CopyWhole, LoadedWhole, At, Goto, Me, objectVars,
           relocationVars, Idle, Copied, HoldPcs, ArcPcs
  <2>4. GrownWhole'
    BY <1>a, <1>c, <1>e, <1>f, <1>g, <1>h, <1>j, <1>7
       DEF CompleteRelocation, GrownWhole, DescriptorKnown, At, Goto, Me, objectVars,
           relocationVars, Idle, Copied, HoldPcs, ArcPcs
  <2> QED
    BY <2>1, <2>2, <2>3, <2>4 DEF CopiesWhole, CopyWhole
<1>8. ASSUME NEW t \in Workers, ReleasePacket(t) PROVE CopiesWhole'
  <2>1. (\A u \in Threads : GotWhole(u))'
    BY <1>a, <1>b, <1>c, <1>d, <1>f, <1>g, <1>j, <1>8
       DEF ReleasePacket, CopyWhole, GotWhole, Whole, GrownWhole, ArcKnown, DescriptorKnown,
           Mine, At, Goto, Me, objectVars, relocationVars, Idle, Copied, HoldPcs, ArcPcs
  <2>2. (\A u \in Threads : CopiedWhole(u))'
    BY <1>a, <1>b, <1>c, <1>d, <1>e, <1>f, <1>8
       DEF ReleasePacket, CopyWhole, CopiedWhole, LoadedWhole, ArcKnown, At, Goto, Me,
           objectVars, relocationVars, Idle, Copied, HoldPcs, ArcPcs
  <2>3. (\A u \in Threads : LoadedWhole(u))'
    BY <1>a, <1>c, <1>e, <1>f, <1>i, <1>8
       DEF ReleasePacket, CopyWhole, LoadedWhole, At, Goto, Me, objectVars, relocationVars,
           Idle, Copied, HoldPcs, ArcPcs
  <2>4. GrownWhole'
    BY <1>a, <1>c, <1>e, <1>f, <1>g, <1>h, <1>j, <1>8
       DEF ReleasePacket, GrownWhole, DescriptorKnown, At, Goto, Me, objectVars,
           relocationVars, Idle, Copied, HoldPcs, ArcPcs
  <2> QED
    BY <2>1, <2>2, <2>3, <2>4 DEF CopiesWhole, CopyWhole
<1>9. CASE GrowLock
  <2>1. CASE Undone
    <3>0. /\ At(Mutator, "growLock") /\ Goto(Mutator, "assist") /\ UNCHANGED lock
          /\ UNCHANGED <<objectVars, descriptors, installed, packet, quarantined, historyVars>>
      BY <2>1, <1>9 DEF GrowLock
    <3>1. (\A u \in Threads : GotWhole(u))'
      BY <1>a, <1>b, <1>c, <1>d, <1>f, <1>g, <1>j, <2>1, <3>0
         DEF CopyWhole, GotWhole, Whole, GrownWhole, ArcKnown, DescriptorKnown, Mine, At,
             Goto, Me, objectVars, relocationVars, Idle, Copied, HoldPcs, ArcPcs
    <3>2. (\A u \in Threads : CopiedWhole(u))'
      BY <1>a, <1>b, <1>c, <1>d, <1>e, <1>f, <2>1, <3>0
         DEF CopyWhole, CopiedWhole, LoadedWhole, ArcKnown, At, Goto, Me, objectVars,
             relocationVars, Idle, Copied, HoldPcs, ArcPcs
    <3>3. (\A u \in Threads : LoadedWhole(u))'
      BY <1>a, <1>c, <1>e, <1>f, <1>i, <2>1, <3>0
         DEF CopyWhole, LoadedWhole, At, Goto, Me, objectVars, relocationVars, Idle,
             Copied, HoldPcs, ArcPcs
    <3>4. GrownWhole'
      BY <1>a, <1>c, <1>e, <1>f, <1>g, <1>h, <1>j, <2>1, <3>0
         DEF GrownWhole, DescriptorKnown, At, Goto, Me, objectVars, relocationVars, Idle,
             Copied, HoldPcs, ArcPcs
    <3> QED
      BY <3>1, <3>2, <3>3, <3>4 DEF CopiesWhole, CopyWhole
  <2>2. CASE ~Undone
    <3>0. /\ At(Mutator, "growLock") /\ lock = None /\ lock' = Mutator
           /\ th' = [th EXCEPT ![Mutator].pc = "resolve", ![Mutator].then = "growCopy"]
          /\ UNCHANGED <<objectVars, descriptors, installed, packet, quarantined, historyVars>>
      BY <2>2, <1>9 DEF GrowLock
    <3>1. (\A u \in Threads : GotWhole(u))'
      BY <1>a, <1>b, <1>c, <1>d, <1>f, <1>g, <1>j, <2>2, <3>0
         DEF CopyWhole, GotWhole, Whole, GrownWhole, ArcKnown, DescriptorKnown, Mine, At,
             Goto, Me, objectVars, relocationVars, Idle, Copied, HoldPcs, ArcPcs
    <3>2. (\A u \in Threads : CopiedWhole(u))'
      BY <1>a, <1>b, <1>c, <1>d, <1>e, <1>f, <2>2, <3>0
         DEF CopyWhole, CopiedWhole, LoadedWhole, ArcKnown, At, Goto, Me, objectVars,
             relocationVars, Idle, Copied, HoldPcs, ArcPcs
    <3>3. (\A u \in Threads : LoadedWhole(u))'
      BY <1>a, <1>c, <1>e, <1>f, <1>i, <2>2, <3>0
         DEF CopyWhole, LoadedWhole, At, Goto, Me, objectVars, relocationVars, Idle,
             Copied, HoldPcs, ArcPcs
    <3>4. GrownWhole'
      BY <1>a, <1>c, <1>e, <1>f, <1>g, <1>h, <1>j, <2>2, <3>0
         DEF GrownWhole, DescriptorKnown, At, Goto, Me, objectVars, relocationVars, Idle,
             Copied, HoldPcs, ArcPcs
    <3> QED
      BY <3>1, <3>2, <3>3, <3>4 DEF CopiesWhole, CopyWhole
  <2> QED
    BY <2>1, <2>2
<1>10. CASE GrowCopy
  <2>1. CASE next > MaxAddress
    <3>0. /\ At(Mutator, "growCopy") /\ th' = [th EXCEPT ![Mutator] = Idle] /\ lock' = None /\ UNCHANGED objectVars
          /\ UNCHANGED <<descriptors, installed, packet, quarantined, historyVars>>
      BY <2>1, <1>10 DEF GrowCopy
    <3>1. (\A u \in Threads : GotWhole(u))'
      BY <1>a, <1>b, <1>c, <1>d, <1>f, <1>g, <1>j, <2>1, <3>0
         DEF CopyWhole, GotWhole, Whole, GrownWhole, ArcKnown, DescriptorKnown, Mine, At,
             Goto, Me, objectVars, relocationVars, Idle, Copied, HoldPcs, ArcPcs
    <3>2. (\A u \in Threads : CopiedWhole(u))'
      BY <1>a, <1>b, <1>c, <1>d, <1>e, <1>f, <2>1, <3>0
         DEF CopyWhole, CopiedWhole, LoadedWhole, ArcKnown, At, Goto, Me, objectVars,
             relocationVars, Idle, Copied, HoldPcs, ArcPcs
    <3>3. (\A u \in Threads : LoadedWhole(u))'
      BY <1>a, <1>c, <1>e, <1>f, <1>i, <2>1, <3>0
         DEF CopyWhole, LoadedWhole, At, Goto, Me, objectVars, relocationVars, Idle,
             Copied, HoldPcs, ArcPcs
    <3>4. GrownWhole'
      BY <1>a, <1>c, <1>e, <1>f, <1>g, <1>h, <1>j, <2>1, <3>0
         DEF GrownWhole, DescriptorKnown, At, Goto, Me, objectVars, relocationVars, Idle,
             Copied, HoldPcs, ArcPcs
    <3> QED
      BY <3>1, <3>2, <3>3, <3>4 DEF CopiesWhole, CopyWhole
  <2>2. CASE ~(next > MaxAddress)
    <3>0. /\ At(Mutator, "growCopy") /\ th' = [th EXCEPT ![Mutator].pc = "growPublish", ![Mutator].slot = next]
           /\ memory' = [memory EXCEPT ![next] = memory[Me.got]] /\ next' = next + 1
           /\ entry' = [entry EXCEPT !.moving = TRUE] /\ UNCHANGED lock
          /\ UNCHANGED <<descriptors, installed, packet, quarantined, historyVars>>
      BY <2>2, <1>10 DEF GrowCopy
    <3>1. (\A u \in Threads : GotWhole(u))'
      BY <1>a, <1>b, <1>c, <1>d, <1>f, <1>g, <1>j, <2>2, <3>0
         DEF CopyWhole, GotWhole, Whole, GrownWhole, ArcKnown, DescriptorKnown, Mine, At,
             Goto, Me, objectVars, relocationVars, Idle, Copied, HoldPcs, ArcPcs
    <3>2. (\A u \in Threads : CopiedWhole(u))'
      BY <1>a, <1>b, <1>c, <1>d, <1>e, <1>f, <2>2, <3>0
         DEF CopyWhole, CopiedWhole, LoadedWhole, ArcKnown, At, Goto, Me, objectVars,
             relocationVars, Idle, Copied, HoldPcs, ArcPcs
    <3>3. (\A u \in Threads : LoadedWhole(u))'
      BY <1>a, <1>c, <1>e, <1>f, <1>i, <2>2, <3>0
         DEF CopyWhole, LoadedWhole, At, Goto, Me, objectVars, relocationVars, Idle,
             Copied, HoldPcs, ArcPcs
    <3>4. GrownWhole'
      BY <1>a, <1>c, <1>e, <1>f, <1>g, <1>h, <1>j, <2>2, <3>0
         DEF GrownWhole, DescriptorKnown, At, Goto, Me, objectVars, relocationVars, Idle,
             Copied, HoldPcs, ArcPcs
    <3> QED
      BY <3>1, <3>2, <3>3, <3>4 DEF CopiesWhole, CopyWhole
  <2> QED
    BY <2>1, <2>2
<1> USE <1>a, <1>b, <1>c, <1>d, <1>f, <1>g, <1>j, <1>e, <1>i, <1>h
   DEF CopyWhole, GotWhole, Whole, GrownWhole, ArcKnown, DescriptorKnown, Mine, At, Goto, Me,
       objectVars, relocationVars, Idle, Copied, HoldPcs, ArcPcs, CopiedWhole, LoadedWhole,
       CopiesWhole
<1>11. ASSUME NEW t \in Threads, Assist(t) PROVE CopiesWhole'
  BY <1>11 DEF Assist
<1>12. ASSUME NEW t \in Threads, LockRelocation(t) PROVE CopiesWhole'
  BY <1>12 DEF LockRelocation
<1>13. ASSUME NEW t \in Threads, WaitUntilDone(t) PROVE CopiesWhole'
  BY <1>13 DEF WaitUntilDone
<1>14. ASSUME NEW t \in Threads, BeginRelocation(t) PROVE CopiesWhole'
  BY <1>14 DEF BeginRelocation
<1>15. ASSUME NEW t \in Threads, MarkDone(t) PROVE CopiesWhole'
  BY <1>15 DEF MarkDone
<1>16. ASSUME NEW t \in Threads, UnlockRelocation(t) PROVE CopiesWhole'
  BY <1>16 DEF UnlockRelocation
<1>17. ASSUME NEW t \in Workers, TakePacket(t) PROVE CopiesWhole'
  BY <1>17 DEF TakePacket
<1>18. ASSUME NEW t \in Workers, ForgetSource(t) PROVE CopiesWhole'
  BY <1>18 DEF ForgetSource
<1>19. ASSUME NEW t \in Workers, ScanBegin(t) PROVE CopiesWhole'
  BY <1>19 DEF ScanBegin
<1>20. ASSUME NEW t \in Workers, ScanEnd(t) PROVE CopiesWhole'
  BY <1>20 DEF ScanEnd
<1>21. CASE BeginStore
  BY <1>21 DEF BeginStore, Begin
<1>22. CASE BeginPlainStore
  BY <1>22 DEF BeginPlainStore, Begin
<1>23. CASE BeginGrow
  BY SMTT(60), <1>23 DEF BeginGrow, Begin
<1>24. CASE ResolveOwner
  BY <1>24 DEF ResolveOwner
<1>25. CASE StoreSlot
  BY <1>25 DEF StoreSlot
<1>26. CASE MirrorStore
  BY <1>26 DEF MirrorStore
<1>27. CASE FinalStore
  BY <1>27 DEF FinalStore
<1>28. CASE GrowPublish
  BY <1>28 DEF GrowPublish
<1>29. CASE Prepare
  BY <1>29 DEF Prepare
<1>30. CASE EpochReclaim
  BY <1>30 DEF EpochReclaim
<1> QED
  BY ONLY [Next]_vars, <1>1, <1>2, <1>3, <1>4, <1>5, <1>6, <1>7, <1>8, <1>9, <1>10, <1>11,
     <1>12, <1>13, <1>14, <1>15, <1>16, <1>17, <1>18, <1>19, <1>20, <1>21, <1>22, <1>23,
     <1>24, <1>25, <1>26, <1>27, <1>28, <1>29, <1>30
     DEF Next, WorkerStep, MutatorStep, CopyStep, Threads

\* Every step puts into the quarantine only what the entry has left.
LEMMA AbandonedStep ==
  ASSUME IInv, [Next]_vars
  PROVE  Abandoned'
<1>0. TypeOK /\ WorkersControlled /\ MutatorControlled /\ Locked /\ Arcs /\ Described /\ CopiesWhole /\ Abandoned
  BY DEF IInv
<1>a. /\ descriptors \in [Addresses -> Descriptors \cup {None}] /\ entry \in [address : Addresses, moving : BOOLEAN]
      /\ Addresses = 1..MaxAddress /\ MaxAddress \in Nat /\ quarantined \subseteq Addresses
      /\ next \in 1..(MaxAddress + 1) /\ installed \in Addresses \cup {0} /\ Mutator \in Threads /\ Workers \subseteq Threads
  BY <1>0, RelocationAssumption DEF TypeOK, Addresses, Threads
<1>b. \A a \in quarantined : a < entry.address /\ (Undone => a < descriptors[installed].source)
  BY <1>0 DEF Abandoned
<1>c. \A a \in Addresses : DescriptorKnown(a)
  BY <1>0 DEF Described
<1>d. \A a \in Addresses : descriptors[a] \in Descriptors => descriptors[a].source \in Addresses
  BY <1>a DEF Descriptors
<1>e. \A t \in Threads : ArcKnown(t) /\ PacketTaken(t)
  BY <1>0 DEF Arcs
<1>f. /\ \A t \in Workers : th[t].pc = "forget" => th[t].access = "relocate"
      /\ Me.pc = "growPublish" => ~Undone /\ Me.got = entry.address /\ Me.slot \in Addresses /\ entry.address < Me.slot
  BY <1>0
     DEF WorkersControlled, WayPcs, ArcPcs, HoldPcs, Idle, Locked, Growing, MutatorControlled,
         CopiesWhole, GrownWhole
<1>g. installed # 0 => descriptors[installed] \in Descriptors
  BY <1>0 DEF Described, PacketKnown
<1>1. CASE UNCHANGED vars
  BY <1>b, <1>1 DEF vars, Abandoned, Undone, objectVars, relocationVars
<1>2. ASSUME NEW t \in Threads, Claim(t) PROVE Abandoned'
  BY <1>a, <1>2, <1>b, <1>g DEF Claim, Descriptors, Undone, objectVars, Abandoned
<1> USE <1>a, <1>b, <1>c, <1>d, <1>e, <1>f, <1>g
   DEF Abandoned, Undone, objectVars, relocationVars, At, Me, Mine, ArcPcs, HoldPcs, ArcKnown,
       PacketTaken, DescriptorKnown
<1>3. ASSUME NEW t \in Threads, Resolve(t) PROVE Abandoned'
  BY <1>3 DEF Resolve, Return
<1>4. ASSUME NEW t \in Threads, Assist(t) PROVE Abandoned'
  BY <1>4 DEF Assist
<1>5. ASSUME NEW t \in Threads, AssistReturn(t) PROVE Abandoned'
  BY <1>5 DEF AssistReturn, Return
<1>6. ASSUME NEW t \in Threads, LockRelocation(t) PROVE Abandoned'
  BY <1>6 DEF LockRelocation
<1>7. ASSUME NEW t \in Threads, WaitUntilDone(t) PROVE Abandoned'
  BY <1>7 DEF WaitUntilDone
<1>8. ASSUME NEW t \in Threads, BeginRelocation(t) PROVE Abandoned'
  BY <1>8 DEF BeginRelocation
<1>9. ASSUME NEW t \in Threads, LoadWord(t) PROVE Abandoned'
  BY <1>9 DEF LoadWord
<1>10. ASSUME NEW t \in Threads, StoreWord(t) PROVE Abandoned'
  BY <1>10 DEF StoreWord
<1>11. ASSUME NEW t \in Threads, CompleteRelocation(t) PROVE Abandoned'
  BY <1>11 DEF CompleteRelocation
<1>12. ASSUME NEW t \in Threads, MarkDone(t) PROVE Abandoned'
  BY <1>12 DEF MarkDone, Descriptors
<1>13. ASSUME NEW t \in Threads, UnlockRelocation(t) PROVE Abandoned'
  BY <1>13 DEF UnlockRelocation
<1>14. ASSUME NEW t \in Workers, TakePacket(t) PROVE Abandoned'
  BY <1>14 DEF TakePacket
<1>15. ASSUME NEW t \in Workers, ForgetSource(t) PROVE Abandoned'
  BY <1>15 DEF ForgetSource
<1>16. ASSUME NEW t \in Workers, ReleasePacket(t) PROVE Abandoned'
  BY <1>16 DEF ReleasePacket
<1>17. ASSUME NEW t \in Workers, ScanBegin(t) PROVE Abandoned'
  BY <1>17 DEF ScanBegin
<1>18. ASSUME NEW t \in Workers, ScanEnd(t) PROVE Abandoned'
  BY <1>18 DEF ScanEnd
<1>19. CASE BeginStore
  BY <1>19 DEF BeginStore, Begin
<1>20. CASE BeginPlainStore
  BY <1>20 DEF BeginPlainStore, Begin
<1>21. CASE BeginGrow
  BY <1>21 DEF BeginGrow, Begin
<1>22. CASE ResolveOwner
  BY <1>22 DEF ResolveOwner
<1>23. CASE StoreSlot
  BY <1>23 DEF StoreSlot
<1>24. CASE MirrorStore
  BY <1>24 DEF MirrorStore
<1>25. CASE FinalStore
  BY <1>25 DEF FinalStore
<1>26. CASE GrowLock
  BY <1>26 DEF GrowLock
<1>27. CASE GrowCopy
  BY <1>27 DEF GrowCopy
<1>28. CASE GrowPublish
  BY <1>28 DEF GrowPublish
<1>29. CASE Prepare
  BY <1>29 DEF Prepare
<1>30. CASE EpochReclaim
  BY <1>30 DEF EpochReclaim
<1> QED
  BY ONLY [Next]_vars, <1>1, <1>2, <1>3, <1>4, <1>5, <1>6, <1>7, <1>8, <1>9, <1>10, <1>11,
     <1>12, <1>13, <1>14, <1>15, <1>16, <1>17, <1>18, <1>19, <1>20, <1>21, <1>22, <1>23,
     <1>24, <1>25, <1>26, <1>27, <1>28, <1>29, <1>30
     DEF Next, WorkerStep, MutatorStep, CopyStep, Threads

\* Every step leaves the mutator with addresses it may use.
LEMMA ResolvedStep ==
  ASSUME IInv, [Next]_vars
  PROVE  Resolved'
<1>0. TypeOK /\ MutatorControlled /\ Arcs /\ Described /\ Resolved
  BY DEF IInv
<1>a. /\ th \in [Threads -> ThreadStates] /\ Mutator \in Threads /\ Mutator \notin Workers /\ Threads = Workers \cup {Mutator}
      /\ descriptors \in [Addresses -> Descriptors \cup {None}] /\ entry \in [address : Addresses, moving : BOOLEAN]
      /\ Addresses = 1..MaxAddress /\ MaxAddress \in Nat /\ installed \in Addresses \cup {0}
  BY <1>0, RelocationAssumption DEF TypeOK, Addresses, Threads
<1>b. \A t \in Threads : ArcKnown(t)
  BY <1>0 DEF Arcs
<1>c. installed # 0 => descriptors[installed] \in Descriptors /\ descriptors[installed].source \in Addresses
  BY <1>0 DEF Described, PacketKnown, Descriptors
<1>d. \A a : KnownAddress(a) => a \in Addresses /\ a <= entry.address
  BY <1>0, <1>a, <1>c DEF KnownAddress, Described, DescriptorKnown
<1>e. Me \in ThreadStates
  BY <1>a DEF Me
<1>f. Me.pc = "idle" => Me = Idle
  BY <1>0 DEF MutatorControlled, WayPcs, ArcPcs, HoldPcs
<1>g. /\ Me.pc \in {"resolve", "reread"} =>
           /\ Me.then \in {"owner", "slot", "final", "growLock", "growCopy"}
           /\ Me.then = "owner" => Me.access = "store"
      /\ Me.pc \in {"owner", "mirror", "final"} => Me.access = "store"
      /\ Me.pc = "owner" => Me.then = "owner"
      /\ Me.pc = "mirror" => Me.then = "slot"
      /\ Me.pc = "final" => Me.then = "final"
      /\ Me.pc = "slot" => Me.then = "slot" /\ Me.access \in {"store", "plain"}
      /\ Me.access = "plain" => Me.then = "slot" /\ Me.pc \in WayPcs \cup {"slot"}
      /\ Me.pc = "growCopy" => Me.access = "grow"
  BY <1>0 DEF MutatorControlled, WayPcs, ArcPcs, HoldPcs, Idle
<1>h. Resolved
  BY <1>0
<1>i. KnownAddress(entry.address) /\ entry.address # 0
  BY <1>a DEF KnownAddress
<1>1. CASE UNCHANGED vars
  BY <1>h, <1>1
     DEF vars, Resolved, Stores, Pending, KnownAddress, Me, objectVars, relocationVars
<1>2. ASSUME NEW t \in Threads, Resolve(t) PROVE Resolved'
  <2>1. CASE entry.moving
    <3>0. /\ At(t, "resolve") /\ Goto(t, "assist")
          /\ UNCHANGED <<objectVars, relocationVars, historyVars>>
      BY <2>1, <1>2 DEF Resolve, Return
    <3>1. \A a : KnownAddress(a) => KnownAddress(a)'
      BY <1>a, <2>1, <3>0 DEF KnownAddress, objectVars, relocationVars
    <3>2. Resolved'
      BY <1>a, <1>d, <1>e, <1>f, <1>g, <1>h, <3>1, <2>1, <3>0
         DEF Resolved, Stores, Pending, At, Goto, Me, ArcPcs, HoldPcs, WayPcs, Idle
    <3> QED
      BY <3>1, <3>2
  <2>2. CASE ~entry.moving
    <3>0. /\ At(t, "resolve") /\ th' = [th EXCEPT ![t].pc = th[t].then, ![t].got = entry.address, ![t].arc = 0]
          /\ UNCHANGED <<objectVars, relocationVars, historyVars>>
      BY <2>2, <1>2 DEF Resolve, Return
    <3>1. \A a : KnownAddress(a) => KnownAddress(a)'
      BY <1>a, <2>2, <3>0 DEF KnownAddress, objectVars, relocationVars
    <3>2. Resolved'
      <4>1. CASE t = Mutator
        BY <1>a, <1>d, <1>g, <1>h, <1>i, <3>1, <4>1, <2>2, <3>0
           DEF Resolved, Stores, Pending, At, Goto, Me, ArcPcs, HoldPcs, WayPcs, Idle
      <4>2. CASE t # Mutator
        <5>1. Me' = Me
          BY <1>a, <4>2, <2>2, <3>0 DEF  Me
        <5> QED
          BY <1>h, <3>1, <5>1 DEF Resolved, Stores, Pending
      <4> QED
        BY <4>1, <4>2
    <3> QED
      BY <3>1, <3>2
  <2> QED
    BY <2>1, <2>2
<1>3. ASSUME NEW t \in Threads, AssistReturn(t) PROVE Resolved'
  <2>1. \A a : KnownAddress(a) => KnownAddress(a)'
    BY <1>3 DEF AssistReturn, KnownAddress, objectVars, relocationVars
  <2>2. Resolved'
    <3>1. CASE t = Mutator
      BY <1>a, <1>d, <1>g, <1>h, <1>i, <2>1, <3>1, <1>3
         DEF AssistReturn, Return, Resolved, Stores, Pending, At, Goto, Me, ArcPcs,
             HoldPcs, WayPcs, Idle
    <3>2. CASE t # Mutator
      <4>1. Me' = Me
        BY <1>a, <3>2, <1>3 DEF AssistReturn, Return, Me
      <4> QED
        BY <1>h, <2>1, <4>1 DEF Resolved, Stores, Pending
    <3> QED
      BY <3>1, <3>2
  <2> QED
    BY <2>2
<1>4. ASSUME NEW t \in Threads, Claim(t) PROVE Resolved'
  <2>1. \A a : KnownAddress(a) => KnownAddress(a)'
    <3>1. \A a \in Addresses : descriptors[a] \in Descriptors => descriptors'[a].source = descriptors[a].source
      BY <1>a, <1>4 DEF Claim, Descriptors
    <3> QED
      BY <1>a, <1>c, <3>1, <1>4 DEF Claim, KnownAddress, objectVars
  <2>2. Resolved'
    <3>1. /\ Me'.access = Me.access /\ Me'.then = Me.then /\ Me'.got = Me.got
          /\ Me'.slot = Me.slot /\ Me'.owner = Me.owner
          /\ Me'.pc = Me.pc \/ Me'.pc \in {"wait", "begin", "unlock"}
      <4>1. \E pc \in {"wait", "begin", "unlock"} : Goto(t, pc)
        BY <1>4 DEF Claim
      <4> QED
        BY <1>a, <1>e, <4>1 DEF Goto, Me
    <3> QED
      BY <1>h, <2>1, <3>1 DEF Resolved, Stores, Pending
  <2> QED
    BY <2>2
<1>5. ASSUME NEW t \in Threads, MarkDone(t) PROVE Resolved'
  <2>1. \A a : KnownAddress(a) => KnownAddress(a)'
    <3>1. \A a \in Addresses : descriptors[a] \in Descriptors => descriptors'[a].source = descriptors[a].source
      BY <1>a, <1>5 DEF MarkDone, Descriptors
    <3> QED
      BY <1>a, <1>c, <3>1, <1>5 DEF MarkDone, KnownAddress, objectVars
  <2>2. Resolved'
    <3>1. /\ Me'.access = Me.access /\ Me'.then = Me.then /\ Me'.got = Me.got
          /\ Me'.slot = Me.slot /\ Me'.owner = Me.owner
          /\ Me'.pc = Me.pc \/ Me'.pc \in {"wait", "begin", "unlock"}
      <4>1. \E pc \in {"wait", "begin", "unlock"} : Goto(t, pc)
        BY <1>5 DEF MarkDone
      <4> QED
        BY <1>a, <1>e, <4>1 DEF Goto, Me
    <3> QED
      BY <1>h, <2>1, <3>1 DEF Resolved, Stores, Pending
  <2> QED
    BY <2>2
<1>6. CASE GrowLock
  <2>1. CASE Undone
    <3>0. /\ At(Mutator, "growLock") /\ Goto(Mutator, "assist") /\ UNCHANGED lock
          /\ UNCHANGED <<objectVars, descriptors, installed, packet, quarantined, historyVars>>
      BY <2>1, <1>6 DEF GrowLock
    <3>1. \A a : KnownAddress(a) => KnownAddress(a)'
      BY <1>a, <2>1, <3>0 DEF KnownAddress, objectVars, relocationVars
    <3>2. Resolved'
      BY <1>a, <1>d, <1>e, <1>f, <1>g, <1>h, <3>1, <2>1, <3>0
         DEF Resolved, Stores, Pending, At, Goto, Me, ArcPcs, HoldPcs, WayPcs, Idle
    <3> QED
      BY <3>1, <3>2
  <2>2. CASE ~Undone
    <3>0. /\ At(Mutator, "growLock") /\ lock = None /\ lock' = Mutator
           /\ th' = [th EXCEPT ![Mutator].pc = "resolve", ![Mutator].then = "growCopy"]
          /\ UNCHANGED <<objectVars, descriptors, installed, packet, quarantined, historyVars>>
      BY <2>2, <1>6 DEF GrowLock
    <3>1. \A a : KnownAddress(a) => KnownAddress(a)'
      BY <1>a, <2>2, <3>0 DEF KnownAddress, objectVars, relocationVars
    <3>2. Resolved'
      BY <1>a, <1>d, <1>e, <1>f, <1>g, <1>h, <3>1, <2>2, <3>0
         DEF Resolved, Stores, Pending, At, Goto, Me, ArcPcs, HoldPcs, WayPcs, Idle
    <3> QED
      BY <3>1, <3>2
  <2> QED
    BY <2>1, <2>2
<1>7. CASE GrowCopy
  <2>1. CASE next > MaxAddress
    <3>0. /\ At(Mutator, "growCopy") /\ th' = [th EXCEPT ![Mutator] = Idle] /\ lock' = None /\ UNCHANGED objectVars
          /\ UNCHANGED <<descriptors, installed, packet, quarantined, historyVars>>
      BY <2>1, <1>7 DEF GrowCopy
    <3>1. \A a : KnownAddress(a) => KnownAddress(a)'
      BY <1>a, <2>1, <3>0 DEF KnownAddress, objectVars, relocationVars
    <3>2. Resolved'
      BY <1>a, <1>d, <1>e, <1>f, <1>g, <1>h, <3>1, <2>1, <3>0
         DEF Resolved, Stores, Pending, At, Goto, Me, ArcPcs, HoldPcs, WayPcs, Idle
    <3> QED
      BY <3>1, <3>2
  <2>2. CASE ~(next > MaxAddress)
    <3>0. /\ At(Mutator, "growCopy") /\ th' = [th EXCEPT ![Mutator].pc = "growPublish", ![Mutator].slot = next]
           /\ memory' = [memory EXCEPT ![next] = memory[Me.got]] /\ next' = next + 1
           /\ entry' = [entry EXCEPT !.moving = TRUE] /\ UNCHANGED lock
          /\ UNCHANGED <<descriptors, installed, packet, quarantined, historyVars>>
      BY <2>2, <1>7 DEF GrowCopy
    <3>1. \A a : KnownAddress(a) => KnownAddress(a)'
      BY <1>a, <2>2, <3>0 DEF KnownAddress, objectVars, relocationVars
    <3>2. Resolved'
      BY <1>a, <1>d, <1>e, <1>f, <1>g, <1>h, <3>1, <2>2, <3>0
         DEF Resolved, Stores, Pending, At, Goto, Me, ArcPcs, HoldPcs, WayPcs, Idle
    <3> QED
      BY <3>1, <3>2
  <2> QED
    BY <2>1, <2>2
<1> USE <1>a, <1>d, <1>e, <1>f, <1>g, <1>h
   DEF KnownAddress, objectVars, relocationVars, Resolved, Stores, Pending, At, Goto, Me,
       ArcPcs, HoldPcs, WayPcs, Idle
<1>8. ASSUME NEW t \in Threads, Assist(t) PROVE Resolved'
  BY <1>8 DEF Assist
<1>9. ASSUME NEW t \in Threads, LockRelocation(t) PROVE Resolved'
  BY <1>9 DEF LockRelocation
<1>10. ASSUME NEW t \in Threads, WaitUntilDone(t) PROVE Resolved'
  BY <1>10 DEF WaitUntilDone
<1>11. ASSUME NEW t \in Threads, BeginRelocation(t) PROVE Resolved'
  BY <1>11 DEF BeginRelocation
<1>12. ASSUME NEW t \in Threads, LoadWord(t) PROVE Resolved'
  BY <1>12 DEF LoadWord
<1>13. ASSUME NEW t \in Threads, StoreWord(t) PROVE Resolved'
  BY <1>13 DEF StoreWord
<1>14. ASSUME NEW t \in Threads, CompleteRelocation(t) PROVE Resolved'
  BY <1>b, <1>c, <1>14 DEF CompleteRelocation, Mine, ArcKnown
<1>15. ASSUME NEW t \in Threads, UnlockRelocation(t) PROVE Resolved'
  BY <1>15 DEF UnlockRelocation
<1>16. ASSUME NEW t \in Workers, TakePacket(t) PROVE Resolved'
  BY <1>16 DEF TakePacket
<1>17. ASSUME NEW t \in Workers, ForgetSource(t) PROVE Resolved'
  BY <1>17 DEF ForgetSource
<1>18. ASSUME NEW t \in Workers, ReleasePacket(t) PROVE Resolved'
  BY <1>18 DEF ReleasePacket
<1>19. ASSUME NEW t \in Workers, ScanBegin(t) PROVE Resolved'
  BY <1>19 DEF ScanBegin
<1>20. ASSUME NEW t \in Workers, ScanEnd(t) PROVE Resolved'
  BY <1>20 DEF ScanEnd
<1>21. CASE BeginStore
  BY <1>21 DEF BeginStore, Begin
<1>22. CASE BeginPlainStore
  BY <1>22 DEF BeginPlainStore, Begin
<1>23. CASE BeginGrow
  BY <1>23 DEF BeginGrow, Begin
<1>24. CASE ResolveOwner
  BY <1>24 DEF ResolveOwner
<1>25. CASE StoreSlot
  BY <1>25 DEF StoreSlot
<1>26. CASE MirrorStore
  BY <1>26 DEF MirrorStore
<1>27. CASE FinalStore
  BY <1>27 DEF FinalStore
<1>28. CASE GrowPublish
  BY <1>28 DEF GrowPublish
<1>29. CASE Prepare
  BY <1>29 DEF Prepare
<1>30. CASE EpochReclaim
  BY <1>30 DEF EpochReclaim
<1> QED
  BY ONLY [Next]_vars, <1>1, <1>2, <1>3, <1>4, <1>5, <1>6, <1>7, <1>8, <1>9, <1>10, <1>11,
     <1>12, <1>13, <1>14, <1>15, <1>16, <1>17, <1>18, <1>19, <1>20, <1>21, <1>22, <1>23,
     <1>24, <1>25, <1>26, <1>27, <1>28, <1>29, <1>30
     DEF Next, WorkerStep, MutatorStep, CopyStep, Threads

\* A copy under way is made from the one address that anybody resolves to.
LEMMA CopierFacts ==
  ASSUME IInv, NEW t \in Threads, Copying(t)
  PROVE  /\ th[t].arc = installed /\ installed # 0 /\ Undone /\ entry.moving
         /\ Mine(t) = descriptors[installed] /\ entry.address = Mine(t).source
         /\ entry.address < th[t].arc /\ th[t].arc \in Addresses /\ lock = t
         /\ \A a : KnownAddress(a) => a = entry.address
         /\ \A u \in Threads : Copying(u) => u = t
         /\ Me.pc # "reread" /\ ~Growing
<1>0. TypeOK /\ Arcs /\ Described /\ Locked /\ Moving /\ th[t].pc \in HoldPcs /\ HoldPcs \subseteq ArcPcs
  BY DEF IInv, Copying, HoldPcs, ArcPcs
<1>1. /\ th[t].arc \in Addresses /\ Mine(t) \in Descriptors /\ ~Mine(t).done /\ th[t].arc = installed
      /\ entry.address = Mine(t).source
  BY <1>0 DEF Arcs, ArcKnown, Copying
<1>2. installed # 0 /\ Undone /\ Mine(t) = descriptors[installed]
  BY <1>1 DEF Addresses, Undone, Mine
<1>3. entry.address < th[t].arc
  BY <1>0, <1>1 DEF Described, DescriptorKnown, Mine
<1>4. \A a : KnownAddress(a) => a = entry.address
  BY <1>1, <1>2 DEF KnownAddress
<1>5. lock = t /\ entry.moving /\ \A u \in Threads : Copying(u) => u = t
  BY <1>0 DEF Locked, Moving, Copying, HoldPcs
<1>6. Me.pc # "reread" /\ ~Growing
  BY <1>0, <1>2 DEF Locked
<1> QED
  BY <1>1, <1>2, <1>3, <1>4, <1>5, <1>6

\* An address returned to the mutator is the entry's, and no copy is under way.
LEMMA ReturnKeepsStores ==
  ASSUME IInv, NEW t \in Threads, th[t].pc \in {"resolve", "reread"},
         th' = [th EXCEPT ![t].pc = th[t].then, ![t].got = entry.address, ![t].arc = 0],
         t = Mutator => \A u \in Threads : ~Copying(u),
         UNCHANGED <<objectVars, historyVars>>
  PROVE  StoresKept'
<1>0. TypeOK /\ MutatorControlled /\ StoresKept
  BY DEF IInv
<1>a. /\ th \in [Threads -> ThreadStates] /\ Mutator \in Threads
      /\ \A u \in Threads \ {t} : th'[u] = th[u]
  BY <1>0 DEF TypeOK, Threads
<1>b. \A u \in Threads : th[u].then \notin {"load", "store", "complete", "mirror"}
  BY <1>0 DEF TypeOK, ThreadStates
<1>c. th'[t].pc = th[t].then
  BY <1>a
<1>1. \A u \in Threads : Copying(u)' => Copying(u) /\ u # t /\ th'[u] = th[u]
  BY <1>a, <1>b, <1>c DEF Copying
<1>2. \A u \in Threads : \A w : Copied(u, w)' => Copying(u)'
  BY DEF Copied, Copying
<1>3. CASE t = Mutator
  <2>1. \A u \in Threads : ~Copying(u)'
    BY <1>1, <1>3
  <2>2. (\A u \in Threads : CopyCurrent(u) /\ LoadCurrent(u))'
    BY <1>2, <2>1 DEF CopyCurrent, LoadCurrent, Copying
  <2>3. /\ Me'.access = Me.access /\ Me'.then = Me.then /\ Me'.word = Me.word /\ Me'.owner = Me.owner
        /\ Me'.pc = Me.then /\ Me'.got = entry.address
    BY <1>a, <1>3 DEF Me
  <2>4. \A w : Busy(w) /\ ~Busy(w)' => Pending /\ Me.word = w /\ Me.owner = entry.address
    BY <1>3, <2>3 DEF Busy, Pending, Me
  <2>5. EntryCurrent'
    BY <1>0, <2>4 DEF StoresKept, EntryCurrent, PendingCurrent, objectVars, historyVars
  <2>6. Pending' => Pending
    BY <1>b, <1>a, <2>3, <1>0, <1>3 DEF Pending, Me
  <2>7. PendingCurrent'
    BY <1>0, <2>3, <2>6 DEF StoresKept, PendingCurrent, objectVars, historyVars
  <2> QED
    BY <2>2, <2>5, <2>7 DEF StoresKept
<1>4. CASE t # Mutator
  <2>1. Me' = Me /\ \A w : Busy(w) => Busy(w)'
    BY <1>a, <1>4 DEF Me, Busy, Pending
  <2>2. EntryCurrent' /\ PendingCurrent'
    BY <1>0, <2>1 DEF StoresKept, EntryCurrent, PendingCurrent, Pending, objectVars, historyVars
  <2>3. (\A u \in Threads : CopyCurrent(u))'
    <3>1. \A u \in Threads : \A w : Copied(u, w)' => Copied(u, w) /\ th'[u].arc = th[u].arc
      BY <1>1, <1>2 DEF Copied
    <3> QED
      BY <1>0, <2>1, <3>1 DEF StoresKept, CopyCurrent, objectVars, historyVars
  <2>4. (\A u \in Threads : LoadCurrent(u))'
    BY <1>0, <1>1, <2>1 DEF StoresKept, LoadCurrent, Copying, objectVars, historyVars
  <2> QED
    BY <2>2, <2>3, <2>4 DEF StoresKept
<1> QED
  BY <1>3, <1>4

\* Every step keeps the stores.
LEMMA StoresKeptStep ==
  ASSUME IInv, [Next]_vars
  PROVE  StoresKept'
<1>0. TypeOK /\ MutatorControlled /\ Locked /\ Moving /\ Arcs /\ Described /\ CopiesWhole /\ Resolved /\ StoresKept
  BY DEF IInv
<1>a. /\ th \in [Threads -> ThreadStates] /\ Mutator \in Threads /\ Mutator \notin Workers /\ Threads = Workers \cup {Mutator}
      /\ memory \in [Addresses -> [Words -> Values]] /\ entry \in [address : Addresses, moving : BOOLEAN]
      /\ written \in [Words -> 0..MaxOps] /\ Words = 1..Size /\ Size \in Nat \ {0} /\ exposed \subseteq Words
  BY <1>0, RelocationAssumption DEF TypeOK, Addresses, Threads, Words
<1>b. EntryCurrent /\ PendingCurrent /\ \A t \in Threads : CopyCurrent(t) /\ LoadCurrent(t)
  BY <1>0 DEF StoresKept
<1>c. \A t \in Threads : Copying(t) =>
        /\ th[t].arc \in Addresses /\ entry.address # th[t].arc /\ entry.address = Mine(t).source /\ entry.moving
        /\ \A a : KnownAddress(a) => a = entry.address
        /\ \A u \in Threads : Copying(u) => u = t
        /\ Me.pc # "reread"
  BY <1>a, CopierFacts DEF Addresses
<1>d. /\ \A t \in Threads : LoadedWhole(t) /\ th[t].index \in 0..Size
      /\ \A t \in Threads : th[t].then \notin {"load", "store", "complete", "mirror"}
  BY <1>0 DEF CopiesWhole, CopyWhole, TypeOK, ThreadStates
<1>e. /\ Me.pc = "idle" => Me = Idle
      /\ Me.access = "store" /\ Me.then = "final" => Me.pc \in WayPcs \cup {"final"} /\ Me.word \in Words
      /\ Me.pc \in {"slot", "mirror", "owner"} => Me.then # "final"
  BY <1>0 DEF MutatorControlled, WayPcs, ArcPcs, HoldPcs, Idle
<1>f. \A t \in Threads : \A w : Copied(t, w) => Copying(t)
  BY DEF Copied, Copying
<1>g. Pending => KnownAddress(Me.owner)
  BY <1>0 DEF Resolved
<1>h. /\ Me.pc \in {"growCopy", "growPublish"} => lock = Mutator
      /\ \A u \in Threads : Copying(u) => lock = u /\ Copying(u)
      /\ \A u \in Threads : Copying(u) => u # Mutator \/ Me.pc \notin {"slot", "mirror", "final", "growCopy", "growPublish"}
  BY <1>0 DEF Locked, Growing, MutatorControlled, WayPcs, ArcPcs, HoldPcs, Idle, Copying, Me
<1>i. \A a : KnownAddress(a) => a \in Addresses /\ a <= entry.address /\ (a = entry.address \/ a = descriptors[installed].source)
  BY <1>0
     DEF KnownAddress, Described, DescriptorKnown, PacketKnown, Descriptors, TypeOK, Addresses
<1>j. /\ Me.pc = "slot" => /\ Me.word \in Words /\ Me.then = "slot" /\ Me.access \in {"store", "plain"}
                           /\ Me.got # 0 /\ KnownAddress(Me.got)
                           /\ Me.access = "store" => KnownAddress(Me.slot) /\ Me.slot <= Me.got
      /\ Me.pc \in {"mirror", "final"} => Pending /\ Me.word \in Words /\ KnownAddress(Me.got) /\ KnownAddress(Me.owner) /\ Me.owner <= Me.got
  BY <1>0 DEF MutatorControlled, Resolved, Stores, Pending, Idle, WayPcs, ArcPcs, HoldPcs
<1>k. \A u \in Threads : Copying(u) => installed # 0 /\ entry.address = descriptors[installed].source
  BY CopierFacts
<1>1. CASE UNCHANGED vars
  BY <1>b, <1>1
     DEF vars, StoresKept, EntryCurrent, CopyCurrent, LoadCurrent, PendingCurrent, Copied,
         Busy, Pending, Me, objectVars, historyVars
<1>2. ASSUME NEW t \in Threads, Resolve(t) PROVE StoresKept'
  <2>1. CASE entry.moving
    <3>0. /\ At(t, "resolve") /\ Goto(t, "assist")
          /\ UNCHANGED <<objectVars, relocationVars, historyVars>>
      BY <2>1, <1>2 DEF Resolve
    <3>1. \A w : Busy(w) => Busy(w)'
      BY <1>a, <1>e, <2>1, <3>0 DEF Busy, Pending, At, Goto, Me, Idle, WayPcs, ArcPcs, HoldPcs
    <3>2. EntryCurrent'
      BY <1>a, <1>b, <3>1, <2>1, <3>0 DEF EntryCurrent, objectVars, historyVars
    <3>3. (\A u \in Threads : CopyCurrent(u))'
      BY <1>a, <1>b, <1>d, <3>1, <2>1, <3>0
         DEF CopyCurrent, At, Goto, Me, Idle, Copied, Copying, objectVars, historyVars
    <3>4. (\A u \in Threads : LoadCurrent(u))'
      BY <1>a, <1>b, <1>d, <3>1, <2>1, <3>0
         DEF LoadCurrent, At, Goto, Me, Idle, Copied, Copying, objectVars, historyVars
    <3>5. PendingCurrent'
      BY <1>a, <1>b, <1>e, <3>1, <2>1, <3>0
         DEF PendingCurrent, Pending, WayPcs, ArcPcs, HoldPcs, At, Goto, Me, Idle, Copied,
             Copying, objectVars, historyVars
    <3> QED
      BY <3>1, <3>2, <3>3, <3>4, <3>5 DEF StoresKept
  <2>2. CASE ~entry.moving
    BY <1>c, <2>2, <1>2, ReturnKeepsStores DEF Resolve, Return, At
  <2> QED
    BY <2>1, <2>2
<1>3. ASSUME NEW t \in Threads, Assist(t) PROVE StoresKept'
  <2>1. \A w : Busy(w) => Busy(w)'
    BY <1>a, <1>e, <1>3 DEF Assist, Busy, Pending, At, Goto, Me, Idle, WayPcs, ArcPcs, HoldPcs
  <2>2. EntryCurrent'
    BY <1>a, <1>b, <2>1, <1>3 DEF Assist, EntryCurrent, objectVars, historyVars
  <2>3. (\A u \in Threads : CopyCurrent(u))'
    BY <1>a, <1>b, <1>d, <2>1, <1>3
       DEF Assist, CopyCurrent, At, Goto, Me, Idle, Copied, Copying, objectVars, historyVars
  <2>4. (\A u \in Threads : LoadCurrent(u))'
    <3>1. \A u \in Threads : th'[u].pc = "store" => th'[u] = th[u]
      BY <1>a, <1>3 DEF Assist, At, Goto
    <3> QED
      BY <1>b, <2>1, <3>1, <1>3 DEF Assist, LoadCurrent, historyVars
  <2>5. PendingCurrent'
    BY <1>a, <1>b, <1>e, <2>1, <1>3
       DEF Assist, PendingCurrent, Pending, WayPcs, ArcPcs, HoldPcs, At, Goto, Me, Idle,
           Copied, Copying, objectVars, historyVars
  <2> QED
    BY <2>1, <2>2, <2>3, <2>4, <2>5 DEF StoresKept
<1>4. ASSUME NEW t \in Threads, AssistReturn(t) PROVE StoresKept'
  BY <1>c, <1>4, ReturnKeepsStores DEF AssistReturn, Return, At, Me
<1>5. ASSUME NEW t \in Threads, LockRelocation(t) PROVE StoresKept'
  <2>1. \A w : Busy(w) => Busy(w)'
    BY <1>a, <1>e, <1>5
       DEF LockRelocation, Busy, Pending, At, Goto, Me, Idle, WayPcs, ArcPcs, HoldPcs
  <2>2. EntryCurrent'
    BY <1>a, <1>b, <2>1, <1>5 DEF LockRelocation, EntryCurrent, objectVars, historyVars
  <2>3. (\A u \in Threads : CopyCurrent(u))'
    BY <1>a, <1>b, <1>d, <2>1, <1>5
       DEF LockRelocation, CopyCurrent, At, Goto, Me, Idle, Copied, Copying, objectVars,
           historyVars
  <2>4. (\A u \in Threads : LoadCurrent(u))'
    BY <1>a, <1>b, <1>d, <2>1, <1>5
       DEF LockRelocation, LoadCurrent, At, Goto, Me, Idle, Copied, Copying, objectVars,
           historyVars
  <2>5. PendingCurrent'
    BY <1>a, <1>b, <1>e, <2>1, <1>5
       DEF LockRelocation, PendingCurrent, Pending, WayPcs, ArcPcs, HoldPcs, At, Goto, Me,
           Idle, Copied, Copying, objectVars, historyVars
  <2> QED
    BY <2>1, <2>2, <2>3, <2>4, <2>5 DEF StoresKept
<1>6. ASSUME NEW t \in Threads, Claim(t) PROVE StoresKept'
  <2>1. CASE Mine(t).claimed
    <3>0. /\ At(t, "claim") /\ Goto(t, "wait") /\ lock' = None /\ UNCHANGED descriptors
          /\ UNCHANGED <<objectVars, installed, packet, quarantined, historyVars>>
      BY <2>1, <1>6 DEF Claim
    <3>1. \A w : Busy(w) => Busy(w)'
      BY <1>a, <1>e, <2>1, <3>0 DEF Busy, Pending, At, Goto, Me, Idle, WayPcs, ArcPcs, HoldPcs
    <3>2. EntryCurrent'
      BY <1>a, <1>b, <3>1, <2>1, <3>0 DEF EntryCurrent, objectVars, historyVars
    <3>3. (\A u \in Threads : CopyCurrent(u))'
      BY <1>a, <1>b, <1>d, <3>1, <2>1, <3>0
         DEF CopyCurrent, At, Goto, Me, Idle, Copied, Copying, objectVars, historyVars
    <3>4. (\A u \in Threads : LoadCurrent(u))'
      BY SMTT(60), <1>a, <1>b, <1>d, <3>1, <2>1, <3>0
         DEF LoadCurrent, At, Goto, Me, Idle, Copied, Copying, objectVars, historyVars
    <3>5. PendingCurrent'
      BY <1>a, <1>b, <1>e, <3>1, <2>1, <3>0
         DEF PendingCurrent, Pending, WayPcs, ArcPcs, HoldPcs, At, Goto, Me, Idle, Copied,
             Copying, objectVars, historyVars
    <3> QED
      BY <3>1, <3>2, <3>3, <3>4, <3>5 DEF StoresKept
  <2>2. CASE ~Mine(t).claimed
    <3>0. /\ At(t, "claim") /\ Goto(t, "begin") /\ lock' = lock
           /\ descriptors' = [descriptors EXCEPT ![th[t].arc].claimed = TRUE]
          /\ UNCHANGED <<objectVars, installed, packet, quarantined, historyVars>>
      BY <2>2, <1>6 DEF Claim
    <3>1. \A w : Busy(w) => Busy(w)'
      BY <1>a, <1>e, <2>2, <3>0 DEF Busy, Pending, At, Goto, Me, Idle, WayPcs, ArcPcs, HoldPcs
    <3>2. EntryCurrent'
      BY <1>a, <1>b, <3>1, <2>2, <3>0 DEF EntryCurrent, objectVars, historyVars
    <3>3. (\A u \in Threads : CopyCurrent(u))'
      BY <1>a, <1>b, <1>d, <3>1, <2>2, <3>0
         DEF CopyCurrent, At, Goto, Me, Idle, Copied, Copying, objectVars, historyVars
    <3>4. (\A u \in Threads : LoadCurrent(u))'
      BY <1>a, <1>b, <1>d, <3>1, <2>2, <3>0
         DEF LoadCurrent, At, Goto, Me, Idle, Copied, Copying, objectVars, historyVars
    <3>5. PendingCurrent'
      BY <1>a, <1>b, <1>e, <3>1, <2>2, <3>0
         DEF PendingCurrent, Pending, WayPcs, ArcPcs, HoldPcs, At, Goto, Me, Idle, Copied,
             Copying, objectVars, historyVars
    <3> QED
      BY <3>1, <3>2, <3>3, <3>4, <3>5 DEF StoresKept
  <2> QED
    BY <2>1, <2>2
<1>7. ASSUME NEW t \in Threads, WaitUntilDone(t) PROVE StoresKept'
  <2>1. \A w : Busy(w) => Busy(w)'
    BY <1>a, <1>e, <1>7
       DEF WaitUntilDone, Busy, Pending, At, Goto, Me, Idle, WayPcs, ArcPcs, HoldPcs
  <2>2. EntryCurrent'
    BY <1>a, <1>b, <2>1, <1>7 DEF WaitUntilDone, EntryCurrent, objectVars, historyVars
  <2>3. (\A u \in Threads : CopyCurrent(u))'
    BY <1>a, <1>b, <1>d, <2>1, <1>7
       DEF WaitUntilDone, CopyCurrent, At, Goto, Me, Idle, Copied, Copying, objectVars,
           historyVars
  <2>4. (\A u \in Threads : LoadCurrent(u))'
    BY SMTT(60), <1>a, <1>b, <1>d, <2>1, <1>7
       DEF WaitUntilDone, LoadCurrent, At, Goto, Me, Idle, Copied, Copying, objectVars,
           historyVars
  <2>5. PendingCurrent'
    BY <1>a, <1>b, <1>e, <2>1, <1>7
       DEF WaitUntilDone, PendingCurrent, Pending, WayPcs, ArcPcs, HoldPcs, At, Goto, Me,
           Idle, Copied, Copying, objectVars, historyVars
  <2> QED
    BY <2>1, <2>2, <2>3, <2>4, <2>5 DEF StoresKept
<1>8. ASSUME NEW t \in Threads, BeginRelocation(t) PROVE StoresKept'
  <2>1. \A w : Busy(w) => Busy(w)'
    BY <1>a, <1>e, <1>8
       DEF BeginRelocation, Busy, Pending, At, Goto, Me, Idle, WayPcs, ArcPcs, HoldPcs
  <2>2. EntryCurrent'
    BY <1>a, <1>b, <2>1, <1>8 DEF BeginRelocation, EntryCurrent, objectVars, historyVars
  <2>3. (\A u \in Threads : CopyCurrent(u))'
    BY <1>a, <1>b, <1>d, <2>1, <1>8
       DEF BeginRelocation, CopyCurrent, At, Goto, Me, Idle, Copied, Copying, objectVars,
           historyVars
  <2>4. (\A u \in Threads : LoadCurrent(u))'
    <3>1. \A u \in Threads : th'[u].pc = "store" => th'[u] = th[u]
      BY <1>a, <1>8 DEF BeginRelocation, At, Goto
    <3> QED
      BY <1>b, <2>1, <3>1, <1>8 DEF BeginRelocation, LoadCurrent, historyVars
  <2>5. PendingCurrent'
    BY <1>a, <1>b, <1>e, <2>1, <1>8
       DEF BeginRelocation, PendingCurrent, Pending, WayPcs, ArcPcs, HoldPcs, At, Goto, Me,
           Idle, Copied, Copying, objectVars, historyVars
  <2> QED
    BY <2>1, <2>2, <2>3, <2>4, <2>5 DEF StoresKept
<1>9. ASSUME NEW t \in Threads, LoadWord(t) PROVE StoresKept'
  <2>1. \A w : Busy(w) => Busy(w)'
    BY <1>a, <1>e, <1>9 DEF LoadWord, Busy, Pending, At, Goto, Me, Idle, WayPcs, ArcPcs, HoldPcs
  <2>2. EntryCurrent'
    BY <1>a, <1>b, <2>1, <1>9 DEF LoadWord, EntryCurrent, objectVars, historyVars
  <2>3. (\A u \in Threads : CopyCurrent(u))'
    BY <1>a, <1>b, <1>d, <2>1, <1>9
       DEF LoadWord, CopyCurrent, At, Goto, Me, Idle, Copied, Copying, objectVars,
           historyVars
  <2>4. (\A u \in Threads : LoadCurrent(u))'
    <3>1. \A u \in Threads \ {t} : th'[u] = th[u] /\ th[u].pc # "store"
      BY <1>a, <1>c, <1>9 DEF LoadWord, At, Copying
    <3>2. /\ th[t].index \in Words /\ th'[t].index = th[t].index
          /\ th'[t].value = memory[entry.address][th[t].index]
      <4>1. th[t].index \in Words
        BY <1>d, <1>9 DEF LoadWord, At, LoadedWhole
      <4>2. Mine(t).source = entry.address
        BY <1>c, <1>9 DEF LoadWord, At, Copying
      <4>3. th[t] \in ThreadStates
        BY <1>a
      <4>4. th'[t] = [th[t] EXCEPT !.pc = "store", !.value = memory[Mine(t).source][th[t].index]]
        BY <1>a, <1>9 DEF LoadWord
      <4>5. th'[t].index = th[t].index /\ th'[t].value = memory[Mine(t).source][th[t].index]
        BY <4>3, <4>4 DEF ThreadStates
      <4> QED
        BY <4>1, <4>2, <4>5
    <3> QED
      BY ZenonT(90), <1>b, <2>1, <3>1, <3>2, <1>9 DEF LoadWord, LoadCurrent, EntryCurrent, historyVars
  <2>5. PendingCurrent'
    BY <1>a, <1>b, <1>e, <2>1, <1>9
       DEF LoadWord, PendingCurrent, Pending, WayPcs, ArcPcs, HoldPcs, At, Goto, Me, Idle,
           Copied, Copying, objectVars, historyVars
  <2> QED
    BY <2>1, <2>2, <2>3, <2>4, <2>5 DEF StoresKept
<1>10. ASSUME NEW t \in Threads, StoreWord(t) PROVE StoresKept'
  <2>1. \A w : Busy(w) => Busy(w)'
    BY <1>a, <1>e, <1>10
       DEF StoreWord, Busy, Pending, At, Goto, Me, Idle, WayPcs, ArcPcs, HoldPcs
  <2>2. EntryCurrent'
    <3>1. memory'[entry.address] = memory[entry.address]
      BY <1>a, <1>c, <1>10 DEF StoreWord, At, Copying
    <3> QED
      BY <1>b, <2>1, <3>1, <1>10 DEF StoreWord, EntryCurrent, historyVars
  <2>3. (\A u \in Threads : CopyCurrent(u))'
    <3>1. \A u \in Threads \ {t} : \A w : ~Copied(u, w)'
      BY <1>a, <1>c, <1>10 DEF StoreWord, At, Copying, Copied
    <3>2. th'[t].arc = th[t].arc /\ th[t].arc \in Addresses /\ th[t].index \in Words /\ th[t].pc = "store"
      BY <1>a, <1>c, <1>d, <1>10 DEF StoreWord, At, Copying, LoadedWhole
    <3>3. \A w \in Words : Copied(t, w)' => w = th[t].index \/ Copied(t, w)
      BY <1>a, <1>d, <3>2, <1>10 DEF StoreWord, Copied
    <3>4. \A w \in Words : memory'[th[t].arc][w] = IF w = th[t].index THEN th[t].value ELSE memory[th[t].arc][w]
      BY <1>a, <3>2, <1>10 DEF StoreWord
    <3>5. CopyCurrent(t)'
      BY <1>b, <2>1, <3>2, <3>3, <3>4, <1>10
         DEF StoreWord, CopyCurrent, LoadCurrent, historyVars
    <3> QED
      BY <3>1, <3>5 DEF CopyCurrent
  <2>4. (\A u \in Threads : LoadCurrent(u))'
    BY <1>a, <1>c, <1>10 DEF StoreWord, At, Copying, LoadCurrent
  <2>5. PendingCurrent'
    <3>1. Pending' => Pending /\ Me'.word = Me.word /\ Me'.owner = Me.owner
      BY <1>a, <1>10 DEF StoreWord, Pending, Me
    <3>2. Pending => Me.owner # th[t].arc /\ th[t].arc \in Addresses
      BY <1>a, <1>c, <1>g, <1>10 DEF StoreWord, At, Copying
    <3> QED
      BY <1>a, <1>b, <3>1, <3>2, <1>10 DEF StoreWord, PendingCurrent, historyVars
  <2> QED
    BY <2>1, <2>2, <2>3, <2>4, <2>5 DEF StoresKept
<1>11. ASSUME NEW t \in Threads, CompleteRelocation(t) PROVE StoresKept'
  <2>1. \A w : Busy(w) => Busy(w)'
    BY <1>a, <1>e, <1>11
       DEF CompleteRelocation, Busy, Pending, At, Goto, Me, Idle, WayPcs, ArcPcs, HoldPcs
  <2>2. EntryCurrent'
    <3>1. \A w \in Words : Copied(t, w)
      BY <1>11 DEF CompleteRelocation, At, Copied
    <3> QED
      BY <1>a, <1>b, <2>1, <3>1, <1>11
         DEF CompleteRelocation, CopyCurrent, EntryCurrent, historyVars
  <2>3. (\A u \in Threads : CopyCurrent(u))'
    BY <1>a, <1>b, <1>d, <2>1, <1>11
       DEF CompleteRelocation, CopyCurrent, At, Goto, Me, Idle, Copied, Copying, objectVars,
           historyVars
  <2>4. (\A u \in Threads : LoadCurrent(u))'
    BY <1>a, <1>b, <1>d, <2>1, <1>11
       DEF CompleteRelocation, LoadCurrent, At, Goto, Me, Idle, Copied, Copying, objectVars,
           historyVars
  <2>5. PendingCurrent'
    BY <1>a, <1>b, <1>e, <2>1, <1>11
       DEF CompleteRelocation, PendingCurrent, Pending, WayPcs, ArcPcs, HoldPcs, At, Goto,
           Me, Idle, Copied, Copying, objectVars, historyVars
  <2> QED
    BY <2>1, <2>2, <2>3, <2>4, <2>5 DEF StoresKept
<1>12. ASSUME NEW t \in Threads, MarkDone(t) PROVE StoresKept'
  <2>1. \A w : Busy(w) => Busy(w)'
    BY <1>a, <1>e, <1>12
       DEF MarkDone, Busy, Pending, At, Goto, Me, Idle, WayPcs, ArcPcs, HoldPcs
  <2>2. EntryCurrent'
    BY <1>a, <1>b, <2>1, <1>12 DEF MarkDone, EntryCurrent, objectVars, historyVars
  <2>3. (\A u \in Threads : CopyCurrent(u))'
    BY <1>a, <1>b, <1>d, <2>1, <1>12
       DEF MarkDone, CopyCurrent, At, Goto, Me, Idle, Copied, Copying, objectVars,
           historyVars
  <2>4. (\A u \in Threads : LoadCurrent(u))'
    BY <1>a, <1>b, <1>d, <2>1, <1>12
       DEF MarkDone, LoadCurrent, At, Goto, Me, Idle, Copied, Copying, objectVars,
           historyVars
  <2>5. PendingCurrent'
    BY <1>a, <1>b, <1>e, <2>1, <1>12
       DEF MarkDone, PendingCurrent, Pending, WayPcs, ArcPcs, HoldPcs, At, Goto, Me, Idle,
           Copied, Copying, objectVars, historyVars
  <2> QED
    BY <2>1, <2>2, <2>3, <2>4, <2>5 DEF StoresKept
<1>13. ASSUME NEW t \in Threads, UnlockRelocation(t) PROVE StoresKept'
  <2>1. \A w : Busy(w) => Busy(w)'
    BY <1>a, <1>e, <1>13
       DEF UnlockRelocation, Busy, Pending, At, Goto, Me, Idle, WayPcs, ArcPcs, HoldPcs
  <2>2. EntryCurrent'
    BY <1>a, <1>b, <2>1, <1>13 DEF UnlockRelocation, EntryCurrent, objectVars, historyVars
  <2>3. (\A u \in Threads : CopyCurrent(u))'
    BY <1>a, <1>b, <1>d, <2>1, <1>13
       DEF UnlockRelocation, CopyCurrent, At, Goto, Me, Idle, Copied, Copying, objectVars,
           historyVars
  <2>4. (\A u \in Threads : LoadCurrent(u))'
    <3>1. \A u \in Threads : th'[u].pc = "store" => th'[u] = th[u]
      BY <1>a, <1>13 DEF UnlockRelocation, Goto
    <3> QED
      BY <1>b, <2>1, <3>1, <1>13 DEF UnlockRelocation, LoadCurrent, historyVars
  <2>5. PendingCurrent'
    BY <1>a, <1>b, <1>e, <2>1, <1>13
       DEF UnlockRelocation, PendingCurrent, Pending, WayPcs, ArcPcs, HoldPcs, At, Goto, Me,
           Idle, Copied, Copying, objectVars, historyVars
  <2> QED
    BY <2>1, <2>2, <2>3, <2>4, <2>5 DEF StoresKept
<1>14. ASSUME NEW t \in Workers, TakePacket(t) PROVE StoresKept'
  <2>1. \A w : Busy(w) => Busy(w)'
    BY <1>a, <1>e, <1>14
       DEF TakePacket, Busy, Pending, At, Goto, Me, Idle, WayPcs, ArcPcs, HoldPcs
  <2>2. EntryCurrent'
    BY <1>a, <1>b, <2>1, <1>14 DEF TakePacket, EntryCurrent, objectVars, historyVars
  <2>3. (\A u \in Threads : CopyCurrent(u))'
    BY <1>a, <1>b, <1>d, <2>1, <1>14
       DEF TakePacket, CopyCurrent, At, Goto, Me, Idle, Copied, Copying, objectVars,
           historyVars
  <2>4. (\A u \in Threads : LoadCurrent(u))'
    BY <1>a, <1>b, <1>d, <2>1, <1>14
       DEF TakePacket, LoadCurrent, At, Goto, Me, Idle, Copied, Copying, objectVars,
           historyVars
  <2>5. PendingCurrent'
    BY <1>a, <1>b, <1>e, <2>1, <1>14
       DEF TakePacket, PendingCurrent, Pending, WayPcs, ArcPcs, HoldPcs, At, Goto, Me, Idle,
           Copied, Copying, objectVars, historyVars
  <2> QED
    BY <2>1, <2>2, <2>3, <2>4, <2>5 DEF StoresKept
<1>15. ASSUME NEW t \in Workers, ForgetSource(t) PROVE StoresKept'
  <2>1. \A w : Busy(w) => Busy(w)'
    BY <1>a, <1>e, <1>15
       DEF ForgetSource, Busy, Pending, At, Goto, Me, Idle, WayPcs, ArcPcs, HoldPcs
  <2>2. EntryCurrent'
    BY <1>a, <1>b, <2>1, <1>15 DEF ForgetSource, EntryCurrent, objectVars, historyVars
  <2>3. (\A u \in Threads : CopyCurrent(u))'
    BY <1>a, <1>b, <1>d, <2>1, <1>15
       DEF ForgetSource, CopyCurrent, At, Goto, Me, Idle, Copied, Copying, objectVars,
           historyVars
  <2>4. (\A u \in Threads : LoadCurrent(u))'
    <3>1. \A u \in Threads : th'[u].pc = "store" => th'[u] = th[u]
      BY <1>a, <1>15 DEF ForgetSource, At, Goto
    <3> QED
      BY <1>b, <2>1, <3>1, <1>15 DEF ForgetSource, LoadCurrent, historyVars
  <2>5. PendingCurrent'
    BY <1>a, <1>b, <1>e, <2>1, <1>15
       DEF ForgetSource, PendingCurrent, Pending, WayPcs, ArcPcs, HoldPcs, At, Goto, Me,
           Idle, Copied, Copying, objectVars, historyVars
  <2> QED
    BY <2>1, <2>2, <2>3, <2>4, <2>5 DEF StoresKept
<1>16. ASSUME NEW t \in Workers, ScanBegin(t) PROVE StoresKept'
  <2>1. \A w : Busy(w) => Busy(w)'
    BY <1>a, <1>e, <1>16
       DEF ScanBegin, Busy, Pending, At, Goto, Me, Idle, WayPcs, ArcPcs, HoldPcs
  <2>2. EntryCurrent'
    BY <1>a, <1>b, <2>1, <1>16 DEF ScanBegin, EntryCurrent, objectVars, historyVars
  <2>3. (\A u \in Threads : CopyCurrent(u))'
    BY <1>a, <1>b, <1>d, <2>1, <1>16
       DEF ScanBegin, CopyCurrent, At, Goto, Me, Idle, Copied, Copying, objectVars,
           historyVars
  <2>4. (\A u \in Threads : LoadCurrent(u))'
    BY <1>a, <1>b, <1>d, <2>1, <1>16
       DEF ScanBegin, LoadCurrent, At, Goto, Me, Idle, Copied, Copying, objectVars,
           historyVars
  <2>5. PendingCurrent'
    BY <1>a, <1>b, <1>e, <2>1, <1>16
       DEF ScanBegin, PendingCurrent, Pending, WayPcs, ArcPcs, HoldPcs, At, Goto, Me, Idle,
           Copied, Copying, objectVars, historyVars
  <2> QED
    BY <2>1, <2>2, <2>3, <2>4, <2>5 DEF StoresKept
<1>17. CASE BeginStore
  <2>1. \A w : Busy(w) => Busy(w)'
    BY <1>a, <1>e, <1>17
       DEF BeginStore, Begin, Busy, Pending, At, Goto, Me, Idle, WayPcs, ArcPcs, HoldPcs
  <2>2. EntryCurrent'
    BY <1>a, <1>b, <2>1, <1>17 DEF BeginStore, Begin, EntryCurrent, objectVars, historyVars
  <2>3. (\A u \in Threads : CopyCurrent(u))'
    BY <1>a, <1>b, <1>d, <2>1, <1>17
       DEF BeginStore, Begin, CopyCurrent, At, Goto, Me, Idle, Copied, Copying, objectVars,
           historyVars
  <2>4. (\A u \in Threads : LoadCurrent(u))'
    BY <1>a, <1>b, <1>d, <2>1, <1>17
       DEF BeginStore, Begin, LoadCurrent, At, Goto, Me, Idle, Copied, Copying, objectVars,
           historyVars
  <2>5. PendingCurrent'
    BY <1>a, <1>b, <1>e, <2>1, <1>17
       DEF BeginStore, Begin, PendingCurrent, Pending, WayPcs, ArcPcs, HoldPcs, At, Goto,
           Me, Idle, Copied, Copying, objectVars, historyVars
  <2> QED
    BY <2>1, <2>2, <2>3, <2>4, <2>5 DEF StoresKept
<1>18. CASE BeginPlainStore
  <2>1. \A w : Busy(w) => Busy(w)'
    BY <1>a, <1>e, <1>18
       DEF BeginPlainStore, Begin, Busy, Pending, At, Goto, Me, Idle, WayPcs, ArcPcs,
           HoldPcs
  <2>2. EntryCurrent'
    BY <1>a, <1>b, <2>1, <1>18 DEF BeginPlainStore, Begin, EntryCurrent, objectVars, historyVars
  <2>3. (\A u \in Threads : CopyCurrent(u))'
    BY <1>a, <1>b, <1>d, <2>1, <1>18
       DEF BeginPlainStore, Begin, CopyCurrent, At, Goto, Me, Idle, Copied, Copying,
           objectVars, historyVars
  <2>4. (\A u \in Threads : LoadCurrent(u))'
    BY <1>a, <1>b, <1>d, <2>1, <1>18
       DEF BeginPlainStore, Begin, LoadCurrent, At, Goto, Me, Idle, Copied, Copying,
           objectVars, historyVars
  <2>5. PendingCurrent'
    BY <1>a, <1>b, <1>e, <2>1, <1>18
       DEF BeginPlainStore, Begin, PendingCurrent, Pending, WayPcs, ArcPcs, HoldPcs, At,
           Goto, Me, Idle, Copied, Copying, objectVars, historyVars
  <2> QED
    BY <2>1, <2>2, <2>3, <2>4, <2>5 DEF StoresKept
<1>19. CASE ResolveOwner
  <2>1. \A w : Busy(w) => Busy(w)'
    BY <1>a, <1>e, <1>19
       DEF ResolveOwner, Busy, Pending, At, Goto, Me, Idle, WayPcs, ArcPcs, HoldPcs
  <2>2. EntryCurrent'
    BY <1>a, <1>b, <2>1, <1>19 DEF ResolveOwner, EntryCurrent, objectVars, historyVars
  <2>3. (\A u \in Threads : CopyCurrent(u))'
    BY <1>a, <1>b, <1>d, <2>1, <1>19
       DEF ResolveOwner, CopyCurrent, At, Goto, Me, Idle, Copied, Copying, objectVars,
           historyVars
  <2>4. (\A u \in Threads : LoadCurrent(u))'
    BY <1>a, <1>b, <1>d, <2>1, <1>19
       DEF ResolveOwner, LoadCurrent, At, Goto, Me, Idle, Copied, Copying, objectVars,
           historyVars
  <2>5. PendingCurrent'
    BY <1>a, <1>b, <1>e, <2>1, <1>19
       DEF ResolveOwner, PendingCurrent, Pending, WayPcs, ArcPcs, HoldPcs, At, Goto, Me,
           Idle, Copied, Copying, objectVars, historyVars
  <2> QED
    BY <2>1, <2>2, <2>3, <2>4, <2>5 DEF StoresKept
<1>20. CASE StoreSlot
  <2>1. /\ Me.pc = "slot" /\ Me.word \in Words /\ Me.access \in {"store", "plain"} /\ ~Pending
        /\ Target \in Addresses /\ KnownAddress(Target) /\ Me.got \in Addresses
    <3>1. Me.pc = "slot"
      BY <1>20 DEF StoreSlot, At, Me
    <3>2. /\ Me.word \in Words /\ Me.then = "slot" /\ Me.access \in {"store", "plain"} /\ KnownAddress(Me.got)
          /\ Me.access = "store" => KnownAddress(Me.slot)
      BY <1>j, <3>1
    <3>3. KnownAddress(Target)
      BY <3>2 DEF Target
    <3>4. Target \in Addresses /\ Me.got \in Addresses
      BY <1>i, <3>2, <3>3
    <3> QED
      BY <3>1, <3>2, <3>3, <3>4 DEF Pending
  <2>2. \A w \in Words \ {Me.word} :
          /\ written'[w] = written[w] /\ \A a \in Addresses : memory'[a][w] = memory[a][w]
          /\ w \notin exposed' => w \notin exposed
    BY <1>a, <1>20 DEF StoreSlot
  <2>3. written'[Me.word] = ops /\ memory'[Target][Me.word] = ops /\ entry' = entry /\ ops' = ops
    BY <1>a, <2>1, <1>20 DEF StoreSlot
  <2>4. Me.access = "store" /\ Me.word \notin exposed' => Me.got = Target
    <3>1. SUFFICES ASSUME Me.access = "store", Me.word \notin exposed', Me.got # Target
                   PROVE  FALSE
      OBVIOUS
    <3>2. ~(installed # 0 /\ Target = descriptors[installed].source)
      BY <3>1, <1>20 DEF StoreSlot
    <3>3. Target = entry.address /\ Target = Me.slot
      BY <2>1, <3>1, <3>2 DEF KnownAddress, Target
    <3>4. Me.slot <= Me.got /\ Me.got <= entry.address
      <4>1. Me.slot <= Me.got /\ KnownAddress(Me.got)
        BY <1>j, <2>1, <3>1
      <4> QED
        BY <1>i, <4>1
    <3> QED
      BY <1>a, <2>1, <3>1, <3>3, <3>4 DEF Addresses
  <2>5. Me.access = "plain" /\ Me.word \notin exposed' => Target = entry.address /\ \A u \in Threads : ~Copying(u)
    <3>1. Me.access = "plain" /\ Me.word \notin exposed' => ~(installed # 0 /\ Target = descriptors[installed].source)
      BY <1>20 DEF StoreSlot
    <3> QED
      BY <1>k, <2>1, <3>1 DEF KnownAddress
  <2>6. /\ Me.access = "store" => Pending' /\ Me'.word = Me.word /\ Me'.owner = Me.got
        /\ Me.access = "store" => \A w : w = Me.word => Busy(w)'
        /\ Me.access = "plain" => ~Pending'
    <3>1. Me.access = "store" => Me' = [Me EXCEPT !.pc = "mirror", !.owner = Me.got]
      BY <1>a, <1>20 DEF StoreSlot, Me
    <3>2. Me.access = "plain" => Me' = Idle
      BY <1>a, <1>20 DEF StoreSlot, Me
    <3>3. Me \in ThreadStates
      BY <1>a DEF Me
    <3>4. Me.access = "store" =>
            Me'.pc = "mirror" /\ Me'.access = "store" /\ Me'.word = Me.word /\ Me'.owner = Me.got
      BY <3>1, <3>3 DEF ThreadStates
    <3> QED
      BY <3>2, <3>4 DEF Pending, Busy, Idle
  <2>7. \A w : ~Busy(w)
    BY <2>1 DEF Busy
  <2>8. \A u \in Threads : Copying(u)' => Copying(u) /\ th'[u] = th[u]
    BY <1>a, <1>20 DEF StoreSlot, Copying, Idle, Me
  <2>9. EntryCurrent'
    <3>1. ASSUME NEW w \in Words \ {Me.word}, w \notin exposed'
          PROVE  memory'[entry'.address][w] = written'[w] \/ Busy(w)'
      BY <1>a, <1>b, <2>2, <2>3, <2>7, <3>1 DEF EntryCurrent
    <3>2. ASSUME NEW w \in Words, w = Me.word, w \notin exposed'
          PROVE  memory'[entry'.address][w] = written'[w] \/ Busy(w)'
      BY <2>1, <2>3, <2>5, <2>6, <3>2
    <3> QED
      BY <3>1, <3>2 DEF EntryCurrent
  <2>10. \A u \in Threads : CopyCurrent(u)'
    <3>1. \A u \in Threads : \A w : Copied(u, w)' => Copying(u) /\ Copied(u, w) /\ th'[u] = th[u]
      BY <2>8 DEF Copied, Copying
    <3> QED
      BY <1>b, <1>c, <2>1, <2>2, <2>5, <2>6, <2>7, <3>1 DEF CopyCurrent
  <2>11. \A u \in Threads : LoadCurrent(u)'
    <3>1. \A u \in Threads : th'[u].pc = "store" => Copying(u) /\ th'[u] = th[u] /\ th[u].index \in Words
      BY <1>d, <2>8 DEF Copying, LoadedWhole
    <3> QED
      BY <1>b, <2>1, <2>2, <2>5, <2>6, <2>7, <3>1 DEF LoadCurrent
  <2>12. PendingCurrent'
    BY <2>1, <2>3, <2>4, <2>6 DEF PendingCurrent
  <2> QED
    BY <2>9, <2>10, <2>11, <2>12 DEF StoresKept
<1>21. CASE MirrorStore
  <2>1. \A w : Busy(w) => Busy(w)'
    BY <1>a, <1>e, <1>21
       DEF MirrorStore, Busy, Pending, At, Goto, Me, Idle, WayPcs, ArcPcs, HoldPcs
  <2>2. EntryCurrent'
    <3>1. /\ Pending /\ Me.word \in Words /\ Busy(Me.word)
      BY <1>j, <1>21 DEF MirrorStore, At, Me, Busy
    <3>2. \A w \in Words \ {Me.word} : \A a \in Addresses : memory'[a][w] = memory[a][w]
      BY <1>a, <1>21 DEF MirrorStore
    <3> QED
      BY <1>a, <1>b, <2>1, <3>1, <3>2, <1>21 DEF MirrorStore, EntryCurrent, historyVars
  <2>3. (\A u \in Threads : CopyCurrent(u))'
    <3>1. /\ Pending /\ Me.word \in Words /\ Busy(Me.word)
      BY <1>j, <1>21 DEF MirrorStore, At, Me, Busy
    <3>2. \A w \in Words \ {Me.word} : \A a \in Addresses : memory'[a][w] = memory[a][w]
      BY <1>a, <1>21 DEF MirrorStore
    <3>3. \A u \in Threads : \A w : Copied(u, w)' => Copying(u) /\ Copied(u, w) /\ th'[u] = th[u]
      BY <1>a, <1>21 DEF MirrorStore, Copied, Copying
    <3> QED
      <4>1. ASSUME NEW u \in Threads, NEW w \in Words \ exposed, Copied(u, w)'
            PROVE  memory'[th[u].arc][w] = written[w] \/ Busy(w)'
        <5>1. CASE w = Me.word
          BY <2>1, <3>1, <5>1
        <5>2. CASE w # Me.word
          BY <1>b, <1>c, <2>1, <3>2, <3>3, <4>1, <5>2 DEF CopyCurrent
        <5> QED
          BY <5>1, <5>2
      <4> QED
        BY <3>3, <4>1, <1>21 DEF MirrorStore, CopyCurrent, historyVars
  <2>4. (\A u \in Threads : LoadCurrent(u))'
    BY <1>a, <1>b, <1>d, <2>1, <1>21
       DEF MirrorStore, LoadCurrent, At, Goto, Me, Idle, Copied, Copying, objectVars,
           historyVars
  <2>5. PendingCurrent'
    BY <1>a, <1>b, <1>e, <2>1, <1>21
       DEF MirrorStore, PendingCurrent, Pending, WayPcs, ArcPcs, HoldPcs, At, Goto, Me,
           Idle, Copied, Copying, objectVars, historyVars
  <2> QED
    BY <2>1, <2>2, <2>3, <2>4, <2>5 DEF StoresKept
<1>22. CASE FinalStore
  <2>1. Me.pc = "final" /\ Pending /\ Me.word \in Words /\ Me' = Idle
    BY <1>a, <1>j, <1>22 DEF FinalStore, At, Me
  <2>2. ~Pending' /\ PendingCurrent'
    BY <2>1 DEF Pending, PendingCurrent, Idle
  <2>3. \A u \in Threads : Copying(u)' => Copying(u) /\ th'[u] = th[u]
    BY <1>a, <1>22 DEF FinalStore, Copying, Idle
  <2>4. \A u \in Threads : \A w : Copied(u, w)' => Copying(u) /\ Copied(u, w) /\ th'[u] = th[u]
    BY <2>3 DEF Copied, Copying
  <2>5. CASE Me.got = Me.owner
    <3>1. memory' = memory /\ \A w : ~Busy(w)
      BY <2>1, <2>5, <1>22 DEF FinalStore, Busy
    <3>2. EntryCurrent'
      BY <1>b, <3>1, <1>22 DEF FinalStore, EntryCurrent, historyVars
    <3>3. \A u \in Threads : CopyCurrent(u)'
      BY <1>b, <2>4, <3>1, <1>22 DEF FinalStore, CopyCurrent, historyVars
    <3>4. \A u \in Threads : LoadCurrent(u)'
      BY <1>b, <2>3, <3>1, <1>22 DEF FinalStore, LoadCurrent, Copying, historyVars
    <3> QED
      BY <2>2, <3>2, <3>3, <3>4 DEF StoresKept
  <2>6. CASE Me.got # Me.owner
    <3>1. Me.got = entry.address
      BY SMTT(60), <1>a, <1>i, <1>j, <2>1, <2>6 DEF Addresses
    <3>2. \A u \in Threads : ~Copying(u)
      BY <1>c, <1>j, <2>1, <2>6
    <3>3. (\A u \in Threads : CopyCurrent(u) /\ LoadCurrent(u))'
      BY <2>3, <2>4, <3>2 DEF CopyCurrent, LoadCurrent, Copying
    <3>4. /\ memory'[entry.address][Me.word] = ops /\ written[Me.word] = ops
          /\ \A w \in Words \ {Me.word} : memory'[entry.address][w] = memory[entry.address][w] /\ ~Busy(w)
      BY <1>a, <1>b, <2>1, <2>6, <3>1, <1>22 DEF FinalStore, PendingCurrent, Busy
    <3>5. EntryCurrent'
      BY <1>b, <3>4, <1>22 DEF FinalStore, EntryCurrent, historyVars
    <3> QED
      BY <2>2, <3>3, <3>5 DEF StoresKept
  <2> QED
    BY <2>5, <2>6
<1>23. CASE GrowLock
  <2>1. CASE Undone
    <3>0. /\ At(Mutator, "growLock") /\ Goto(Mutator, "assist") /\ UNCHANGED lock
          /\ UNCHANGED <<objectVars, descriptors, installed, packet, quarantined, historyVars>>
      BY <2>1, <1>23 DEF GrowLock
    <3>1. \A w : Busy(w) => Busy(w)'
      BY <1>a, <1>e, <2>1, <3>0 DEF Busy, Pending, At, Goto, Me, Idle, WayPcs, ArcPcs, HoldPcs
    <3>2. EntryCurrent'
      BY <1>a, <1>b, <3>1, <2>1, <3>0 DEF EntryCurrent, objectVars, historyVars
    <3>3. (\A u \in Threads : CopyCurrent(u))'
      BY <1>a, <1>b, <1>d, <3>1, <2>1, <3>0
         DEF CopyCurrent, At, Goto, Me, Idle, Copied, Copying, objectVars, historyVars
    <3>4. (\A u \in Threads : LoadCurrent(u))'
      BY <1>a, <1>b, <1>d, <3>1, <2>1, <3>0
         DEF LoadCurrent, At, Goto, Me, Idle, Copied, Copying, objectVars, historyVars
    <3>5. PendingCurrent'
      BY <1>a, <1>b, <1>e, <3>1, <2>1, <3>0
         DEF PendingCurrent, Pending, WayPcs, ArcPcs, HoldPcs, At, Goto, Me, Idle, Copied,
             Copying, objectVars, historyVars
    <3> QED
      BY <3>1, <3>2, <3>3, <3>4, <3>5 DEF StoresKept
  <2>2. CASE ~Undone
    <3>0. /\ At(Mutator, "growLock") /\ lock = None /\ lock' = Mutator
           /\ th' = [th EXCEPT ![Mutator].pc = "resolve", ![Mutator].then = "growCopy"]
          /\ UNCHANGED <<objectVars, descriptors, installed, packet, quarantined, historyVars>>
      BY <2>2, <1>23 DEF GrowLock
    <3>1. \A w : Busy(w) => Busy(w)'
      BY <1>a, <1>e, <2>2, <3>0 DEF Busy, Pending, At, Goto, Me, Idle, WayPcs, ArcPcs, HoldPcs
    <3>2. EntryCurrent'
      BY <1>a, <1>b, <3>1, <2>2, <3>0 DEF EntryCurrent, objectVars, historyVars
    <3>3. (\A u \in Threads : CopyCurrent(u))'
      BY <1>a, <1>b, <1>d, <3>1, <2>2, <3>0
         DEF CopyCurrent, At, Goto, Me, Idle, Copied, Copying, objectVars, historyVars
    <3>4. (\A u \in Threads : LoadCurrent(u))'
      BY <1>a, <1>b, <1>d, <3>1, <2>2, <3>0
         DEF LoadCurrent, At, Goto, Me, Idle, Copied, Copying, objectVars, historyVars
    <3>5. PendingCurrent'
      BY <1>a, <1>b, <1>e, <3>1, <2>2, <3>0
         DEF PendingCurrent, Pending, WayPcs, ArcPcs, HoldPcs, At, Goto, Me, Idle, Copied,
             Copying, objectVars, historyVars
    <3> QED
      BY <3>1, <3>2, <3>3, <3>4, <3>5 DEF StoresKept
  <2> QED
    BY <2>1, <2>2
<1>24. CASE GrowCopy
  <2>0. \A u \in Threads : ~Copying(u)
    BY <1>a, <1>h, <1>24 DEF GrowCopy, At, Me
  <2>1. CASE next > MaxAddress
    <3>0. /\ At(Mutator, "growCopy") /\ th' = [th EXCEPT ![Mutator] = Idle] /\ lock' = None /\ UNCHANGED objectVars
          /\ UNCHANGED <<descriptors, installed, packet, quarantined, historyVars>>
      BY <2>1, <1>24 DEF GrowCopy
    <3>1. \A w : Busy(w) => Busy(w)'
      BY <1>a, <1>e, <2>1, <3>0 DEF Busy, Pending, At, Goto, Me, Idle, WayPcs, ArcPcs, HoldPcs
    <3>2. EntryCurrent'
      BY <1>a, <1>b, <3>1, <2>1, <3>0 DEF EntryCurrent, objectVars, historyVars
    <3>3. (\A u \in Threads : CopyCurrent(u))'
      BY <1>a, <1>b, <1>d, <3>1, <2>1, <3>0
         DEF CopyCurrent, At, Goto, Me, Idle, Copied, Copying, objectVars, historyVars
    <3>4. (\A u \in Threads : LoadCurrent(u))'
      BY <1>a, <1>b, <1>d, <3>1, <2>1, <3>0
         DEF LoadCurrent, At, Goto, Me, Idle, Copied, Copying, objectVars, historyVars
    <3>5. PendingCurrent'
      BY <1>a, <1>b, <1>e, <3>1, <2>1, <3>0
         DEF PendingCurrent, Pending, WayPcs, ArcPcs, HoldPcs, At, Goto, Me, Idle, Copied,
             Copying, objectVars, historyVars
    <3> QED
      BY <3>1, <3>2, <3>3, <3>4, <3>5 DEF StoresKept
  <2>2. CASE ~(next > MaxAddress)
    <3>0. /\ At(Mutator, "growCopy") /\ th' = [th EXCEPT ![Mutator].pc = "growPublish", ![Mutator].slot = next]
           /\ memory' = [memory EXCEPT ![next] = memory[Me.got]] /\ next' = next + 1
           /\ entry' = [entry EXCEPT !.moving = TRUE] /\ UNCHANGED lock
          /\ UNCHANGED <<descriptors, installed, packet, quarantined, historyVars>>
      BY <2>2, <1>24 DEF GrowCopy
    <3>1. \A w : Busy(w) => Busy(w)'
      BY <1>a, <1>e, <2>2, <3>0 DEF Busy, Pending, At, Goto, Me, Idle, WayPcs, ArcPcs, HoldPcs
    <3>2. EntryCurrent'
      <4>1. entry.address # next /\ entry'.address = entry.address
        BY <1>0, <1>a, <2>2, <3>0 DEF Described, TypeOK, Addresses
      <4>2. memory'[entry.address] = memory[entry.address]
        BY <1>a, <2>2, <3>0, <4>1
      <4> QED
        BY <1>b, <3>1, <3>0, <4>1, <4>2 DEF EntryCurrent, historyVars
    <3>3. (\A u \in Threads : CopyCurrent(u))'
      BY <1>a, <2>0, <2>2, <3>0
         DEF CopyCurrent, At, Goto, Me, Idle, Copied, Copying, objectVars, historyVars
    <3>4. (\A u \in Threads : LoadCurrent(u))'
      BY <1>a, <1>b, <1>d, <3>1, <2>2, <3>0
         DEF LoadCurrent, At, Goto, Me, Idle, Copied, Copying, objectVars, historyVars
    <3>5. PendingCurrent'
      BY <1>a, <1>b, <1>e, <3>1, <2>2, <3>0
         DEF PendingCurrent, Pending, WayPcs, ArcPcs, HoldPcs, At, Goto, Me, Idle, Copied,
             Copying, objectVars, historyVars
    <3> QED
      BY <3>1, <3>2, <3>3, <3>4, <3>5 DEF StoresKept
  <2> QED
    BY <2>1, <2>2
<1>25. CASE GrowPublish
  <2>1. \A w : Busy(w) => Busy(w)'
    BY <1>a, <1>e, <1>25
       DEF GrowPublish, Busy, Pending, At, Goto, Me, Idle, WayPcs, ArcPcs, HoldPcs
  <2>2. EntryCurrent'
    <3>1. memory[Me.slot] = memory[entry.address]
      BY <1>0, <1>25 DEF GrowPublish, At, CopiesWhole, GrownWhole, Me
    <3> QED
      BY <1>b, <2>1, <3>1, <1>25 DEF GrowPublish, EntryCurrent, historyVars
  <2>3. (\A u \in Threads : CopyCurrent(u))'
    BY <1>a, <1>b, <1>d, <2>1, <1>25
       DEF GrowPublish, CopyCurrent, At, Goto, Me, Idle, Copied, Copying, objectVars,
           historyVars
  <2>4. (\A u \in Threads : LoadCurrent(u))'
    BY <1>a, <1>b, <1>d, <2>1, <1>25
       DEF GrowPublish, LoadCurrent, At, Goto, Me, Idle, Copied, Copying, objectVars,
           historyVars
  <2>5. PendingCurrent'
    BY <1>a, <1>b, <1>e, <2>1, <1>25
       DEF GrowPublish, PendingCurrent, Pending, WayPcs, ArcPcs, HoldPcs, At, Goto, Me,
           Idle, Copied, Copying, objectVars, historyVars
  <2> QED
    BY <2>1, <2>2, <2>3, <2>4, <2>5 DEF StoresKept
<1> USE <1>a, <1>e, <1>b, <1>d
   DEF Busy, Pending, At, Goto, Me, Idle, WayPcs, ArcPcs, HoldPcs, EntryCurrent, objectVars,
       historyVars, CopyCurrent, Copied, Copying, LoadCurrent, PendingCurrent, StoresKept
<1>26. ASSUME NEW t \in Workers, ReleasePacket(t) PROVE StoresKept'
  BY <1>26 DEF ReleasePacket
<1>27. ASSUME NEW t \in Workers, ScanEnd(t) PROVE StoresKept'
  BY <1>27 DEF ScanEnd
<1>28. CASE BeginGrow
  BY <1>28 DEF BeginGrow, Begin
<1>29. CASE Prepare
  BY <1>29 DEF Prepare
<1>30. CASE EpochReclaim
  BY <1>30 DEF EpochReclaim
<1> QED
  BY ONLY [Next]_vars, <1>1, <1>2, <1>3, <1>4, <1>5, <1>6, <1>7, <1>8, <1>9, <1>10, <1>11,
     <1>12, <1>13, <1>14, <1>15, <1>16, <1>17, <1>18, <1>19, <1>20, <1>21, <1>22, <1>23,
     <1>24, <1>25, <1>26, <1>27, <1>28, <1>29, <1>30
     DEF Next, WorkerStep, MutatorStep, CopyStep, Threads

\* Initially the object is at its first address and nobody is in an access.
LEMMA InitInvariant ==
  Init => IInv
<1> SUFFICES ASSUME Init
             PROVE  IInv
  OBVIOUS
<1>0. /\ 1 \in Addresses /\ Addresses = 1..MaxAddress /\ MaxAddress \in Nat /\ 0 \notin Addresses
      /\ Mutator \in Threads /\ None \notin Threads /\ Threads = Workers \cup {Mutator}
      /\ None \notin Descriptors /\ None # 0 /\ Size \in Nat \ {0} /\ Words = 1..Size
  BY RelocationAssumption DEF Addresses, Threads, Words, Descriptors
<1>a. th = [t \in Threads |-> Idle] /\ \A t \in Threads : th[t] = Idle
  BY DEF Init
<1>b. Me = Idle
  BY <1>0, <1>a DEF Me
<1>c. \A t \in Threads : /\ th[t].pc = "idle" /\ th[t].access = "none" /\ th[t].then = "none" /\ th[t].got = 0
  BY <1>a DEF Idle
<1>d. \A a \in Addresses : descriptors[a] \notin Descriptors
  BY <1>0 DEF Init
<1>1. TypeOK
  <2>1. Idle \in ThreadStates
    BY RelocationAssumption DEF Idle, ThreadStates, Pcs, Values
  <2>2. memory \in [Addresses -> [Words -> Values]] /\ written \in [Words -> 0..MaxOps]
    BY RelocationAssumption DEF Init, Values
  <2>3. entry \in [address : Addresses, moving : BOOLEAN] /\ descriptors \in [Addresses -> Descriptors \cup {None}]
    BY <1>0 DEF Init
  <2>4. th \in [Threads -> ThreadStates]
    BY <1>a, <2>1
  <2>5. next \in 1..(MaxAddress + 1) /\ ops \in 0..MaxOps
    BY RelocationAssumption DEF Init
  <2> QED
    BY <1>0, <2>2, <2>3, <2>4, <2>5 DEF Init, TypeOK
<1>2. WorkersControlled /\ MutatorControlled
  BY <1>0, <1>a, <1>b DEF WorkersControlled, MutatorControlled
<1>3. Locked /\ Moving
  BY <1>0, <1>b, <1>c DEF Init, Locked, Growing, HoldPcs, Idle, Moving, Copying
<1>4. Arcs /\ Abandoned
  BY <1>c DEF Init, Arcs, ArcKnown, PacketTaken, ArcPcs, HoldPcs, Abandoned
<1>5. Described
  BY <1>0, <1>d DEF Init, Described, DescriptorKnown, HasCopier, PacketKnown, Undone, Whole
<1>6. CopiesWhole
  BY <1>b, <1>c DEF CopiesWhole, CopyWhole, GotWhole, CopiedWhole, Copied, LoadedWhole, GrownWhole, Idle
<1>7. Resolved /\ StoresKept
  <2>1. /\ Me.pc = "idle" /\ Me.access = "none" /\ Me.got = 0
    BY <1>b DEF Idle
  <2>2. Resolved /\ ~Pending
    BY <2>1 DEF Resolved, Stores, Pending
  <2>3. EntryCurrent
    BY <1>0 DEF Init, EntryCurrent
  <2> QED
    BY <1>c, <2>2, <2>3 DEF StoresKept, PendingCurrent, CopyCurrent, LoadCurrent, Copied
<1> QED
  BY <1>1, <1>2, <1>3, <1>4, <1>5, <1>6, <1>7 DEF IInv

\* IInv is inductive.
LEMMA StepKeepsInvariant ==
  IInv /\ [Next]_vars => IInv'
BY TypesStep, ControlStep, LockedStep, MovingStep, ArcsStep, DescribedStep, CopiesWholeStep,
   AbandonedStep, ResolvedStep, StoresKeptStep DEF IInv

\* So every reachable state satisfies it.
LEMMA InvariantHolds ==
  Spec => []IInv
BY InitInvariant, StepKeepsInvariant, PTL DEF Spec

-----------------------------------------------------------------------------
(* Every variable keeps its type: in particular the handle entry names an  *)
(* address that was given out, whatever copies and grows.                  *)
THEOREM TypeCorrect ==
  Spec => []TypeOK
<1>1. IInv => TypeOK
  BY DEF IInv
<1> QED
  BY <1>1, InvariantHolds, PTL

(* The value a store_reference with a current slot has written is in the   *)
(* object when the mutator's access is over, whatever a worker or an       *)
(* assist copies beside it (heap_access.rs:2145-2227).                     *)
THEOREM StoresAreKept ==
  Spec => []StoresSurvive
<1>1. IInv => StoresSurvive
  <2>1. ASSUME IInv, MutatorIdle
        PROVE  \A w \in Words \ exposed : memory[entry.address][w] = written[w]
    <3>1. Me = Idle
      BY <2>1 DEF IInv, MutatorControlled, MutatorIdle, At, Me, WayPcs, ArcPcs, HoldPcs
    <3>2. \A w : ~Busy(w)
      BY <3>1 DEF Busy, Pending, Idle
    <3> QED
      BY <2>1, <3>2 DEF IInv, StoresKept, EntryCurrent
  <2> QED
    BY <2>1 DEF StoresSurvive, Kept
<1> QED
  BY <1>1, InvariantHolds, PTL

(* No thread is ever handed the address of a half-copied object: what      *)
(* resolve_handle returns is whole (concurrent_relocate.rs:275-295).       *)
THEOREM ObjectsAreWhole ==
  Spec => []NoPartialObject
<1>1. IInv => NoPartialObject
  BY DEF IInv, CopiesWhole, CopyWhole, GotWhole, Whole, NoPartialObject
<1> QED
  BY <1>1, InvariantHolds, PTL

(* Who fails to claim a copy finds it done, so that wait_until_done never  *)
(* sleeps on the notification that could be missed                         *)
(* (concurrent_relocate.rs:253-256, 314-322).                              *)
THEOREM WaitersFindDone ==
  Spec => []NobodySleeps
<1>1. IInv => NobodySleeps
  BY DEF IInv, Arcs, ArcKnown, ArcPcs, NobodySleeps, At
<1> QED
  BY <1>1, InvariantHolds, PTL

(* What is quarantined is neither the object's address nor the source of a *)
(* copy that is still to be made (heap_access.rs:600-622, 2960-2984).      *)
THEOREM QuarantineIsLeft ==
  Spec => []QuarantinedIsAbandoned
<1>1. IInv => QuarantinedIsAbandoned
  <2>1. ASSUME IInv, NEW a \in quarantined
        PROVE  a # entry.address /\ (Undone => a # descriptors[installed].source)
    <3>1. a \in Int /\ ~(a < a)
      BY <2>1 DEF IInv, TypeOK, Addresses
    <3> QED
      BY <2>1, <3>1 DEF IInv, Abandoned
  <2> QED
    BY <2>1 DEF QuarantinedIsAbandoned
<1> QED
  BY <1>1, InvariantHolds, PTL
=============================================================================
