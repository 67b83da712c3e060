------------------------ MODULE EpochQuarantineProofs ------------------------
(***************************************************************************)
(* For any number of handles, addresses, readers, workers, retirers and    *)
(* epochs: what an announced reader has resolved is not given back before  *)
(* it exits, and every handle and address is in exactly one place.         *)
(*                                                                         *)
(* The argument follows the life of an item.  While it is in use it is     *)
(* nowhere else, and each step moves it to one other place (HandlesOnce,   *)
(* AddressesOnce, the Placed parts), so nobody resolves it once it is      *)
(* retired.  Its stamp is not older than the epoch of anybody who holds it *)
(* (Stamped); a pass that has looked at a holder has a limit not above the *)
(* holder's epoch (Scanned), which needs that nobody retires beside a pass *)
(* (PassAlone); hence the holder's items are not in the batch it gives     *)
(* back (BatchUnheld).                                                     *)
(***************************************************************************)
EXTENDS EpochQuarantine, FiniteSetTheorems, TLAPS

PassType ==
  [pc : {"idle", "limit", "lock", "scan", "take", "free"}, list : Lists, then : SUBSET Lists,
   limit : 0..(MaxEpoch + 1), todo : SUBSET Readers,
   batch : SUBSET (Handles \cup Addresses), freed : Handles \cup {None}]

\* TypeOK, with the domains TLC need not be told about.
Types ==
  /\ TypeOK
  /\ quarantine \in [Lists -> SUBSET ((Handles \cup Addresses) \X Epochs)]
  /\ pass \in PassType
  /\ \A h \in Handles : entry[h].state = "stable" => entry[h].address \in Addresses
  /\ \A r \in Retirers : retirer[r] # NothingDue => retirer[r].start \in Addresses

\* A reader that holds something has announced an epoch that was current.
ReadersAnnounced ==
  \A t \in Readers :
    /\ active[t] <= current /\ read[t] <= current
    /\ read[t] # 0 => active[t] = Inactive /\ t \in registered
    /\ active[t] # Inactive => t \in registered
    /\ held[t] # {} => active[t] # Inactive

\* Nobody retires beside a pass, and a batch exists only while it is given back.
PassAlone ==
  /\ pass.pc # "idle" => \A r \in Retirers : retirer[r] = NothingDue
  /\ pass.pc # "free" => pass.batch = {} /\ pass.freed = None

\* A handle on its way through the quarantine is retired, and there once.
HandlesOnce ==
  /\ \A r \in Retirers : retirer[r].handle # None =>
       /\ entry[retirer[r].handle].state = "retired"
       /\ \A s \in Retirers : retirer[s].handle = retirer[r].handle => s = r
  /\ \A q \in quarantine["handles"] :
       /\ entry[q[1]].state = "retired"
       /\ \A r \in Retirers : retirer[r].handle # q[1]
       /\ \A p \in quarantine["handles"] : p[1] = q[1] => p = q
  /\ pass.list = "handles" =>
       \A h \in pass.batch :
         /\ entry[h].state = "retired"
         /\ \A q \in quarantine["handles"] : q[1] # h

\* An address is free, in use, or on its way through the quarantine, and there once.
AddressesOnce ==
  /\ \A h \in Handles : entry[h].state = "stable" =>
       /\ entry[h].address \notin free
       /\ \A g \in Handles : entry[g].state = "stable" /\ entry[g].address = entry[h].address => g = h
       /\ \A r \in Retirers : retirer[r].start # entry[h].address
       /\ \A q \in quarantine["allocations"] : q[1] # entry[h].address
       /\ pass.list = "allocations" => entry[h].address \notin pass.batch
  /\ \A r \in Retirers :
       /\ retirer[r].start \notin free
       /\ retirer[r].start # None =>
            \A s \in Retirers : retirer[s].start = retirer[r].start => s = r
  /\ \A q \in quarantine["allocations"] :
       /\ q[1] \notin free
       /\ \A r \in Retirers : retirer[r].start # q[1]
       /\ \A p \in quarantine["allocations"] : p[1] = q[1] => p = q
  /\ pass.list = "allocations" =>
       \A a \in pass.batch : a \notin free /\ \A q \in quarantine["allocations"] : q[1] # a

\* A stamp is not older than the epoch of anybody who holds the stamped item.
Stamped ==
  \A t \in Readers : \A u \in held[t] :
    /\ \A r \in Retirers :
         retirer[r].epoch # 0 /\ (retirer[r].handle = u[1] \/ retirer[r].start = u[2])
           => active[t] <= retirer[r].epoch
    /\ \A q \in quarantine["handles"] : q[1] = u[1] => active[t] <= q[2]
    /\ \A q \in quarantine["allocations"] : q[1] = u[2] => active[t] <= q[2]

Item(u) == IF pass.list = "handles" THEN u[1] ELSE u[2]

\* A pass has still to look at a holder of a listed item, or its limit respects it.
Scanned ==
  pass.pc \in {"scan", "take"} =>
    \A t \in Readers : \A u \in held[t] : \A q \in quarantine[pass.list] :
      q[1] = Item(u) =>
        (pass.pc = "scan" /\ t \in pass.todo) \/ pass.limit <= active[t]

BatchUnheld == \A t \in Readers : \A u \in held[t] : Item(u) \notin pass.batch

\* No address is lost.
AddressesPlaced ==
  \A a \in Addresses :
    \/ a \in free
    \/ \E h \in Handles : entry[h].state = "stable" /\ entry[h].address = a
    \/ \E r \in Retirers : retirer[r].start = a
    \/ \E q \in quarantine["allocations"] : q[1] = a
    \/ pass.list = "allocations" /\ a \in pass.batch

\* No retired handle is lost.
HandlesPlaced ==
  \A h \in Handles : entry[h].state = "retired" =>
    \/ \E r \in Retirers : retirer[r].handle = h
    \/ \E q \in quarantine["handles"] : q[1] = h
    \/ pass.list = "handles" /\ h \in pass.batch

\* A free handle can be given out, or has been, in one way.
FreeHandlesOnce ==
  \A h \in Handles :
    /\ entry[h].state = "free" <=> h \in unused \cup reusable \cup claimed \cup {pass.freed}
    /\ h \in unused => h \notin reusable \cup claimed \cup {pass.freed}
    /\ h \in reusable => h \notin claimed \cup {pass.freed}
    /\ h \in claimed => h # pass.freed

IInv ==
  /\ AddressesPlaced /\ HandlesPlaced /\ FreeHandlesOnce
  /\ Types /\ ReadersAnnounced /\ PassAlone /\ HandlesOnce /\ AddressesOnce
  /\ Stamped /\ Scanned /\ BatchUnheld /\ NoReuseWhileHeld

-----------------------------------------------------------------------------
\* A pass begins with nothing left in the batch.
LEMMA BatchEmptyAtStart ==
  ASSUME Types, PassAlone, BeginReclaim
  PROVE  pass'.batch = {} /\ pass'.pc = "limit" /\ pass'.freed = pass.freed
BY DEF BeginReclaim, PassAlone, Types, PassType

\* Every step keeps the types.
LEMMA TypesStep ==
  ASSUME IInv, [Next]_vars
  PROVE  Types'
<1>0. Types /\ PassAlone
  BY DEF IInv
<1> USE <1>0, QuarantineAssumption
    DEF Types, TypeOK, Due, Epochs, Lists, Entry, NothingDue, Inactive,
        PassType, readerVars, tableVars
<1>1. CASE UNCHANGED vars
  BY <1>1 DEF vars
<1>2. ASSUME NEW t \in Readers, Register(t)
      PROVE  Types'
  BY <1>2 DEF Register
<1>3. ASSUME NEW t \in Readers, EnterRead(t)
      PROVE  Types'
  BY <1>3 DEF EnterRead
<1>4. ASSUME NEW t \in Readers, EnterStore(t)
      PROVE  Types'
  BY <1>4 DEF EnterStore
<1>5. ASSUME NEW t \in Readers, NEW h \in Handles,
             active[t] # Inactive, Resolve(t, h)
      PROVE  Types'
  BY <1>5 DEF Resolve
<1>6. ASSUME NEW t \in Readers, Exit(t)
      PROVE  Types'
  BY <1>6 DEF Exit
<1>7. ASSUME NEW t \in Readers, Unregister(t)
      PROVE  Types'
  BY <1>7 DEF Unregister
<1>8. ASSUME NEW t \in Markers, MarkerStep(t)
      PROVE  Types'
  BY <1>8 DEF MarkerStep, Resolve
<1>9. CASE AllocateHandle
  BY <1>9 DEF AllocateHandle
<1>10. ASSUME NEW h \in Handles, NEW a \in Addresses, Publish(h, a)
      PROVE  Types'
  BY <1>10 DEF Publish
<1>11. ASSUME NEW r \in Retirers, NEW h \in Handles, RetireHandle(r, h)
      PROVE  Types'
  BY SMTT(60), <1>11 DEF RetireHandle, MayRetire
<1>12. ASSUME NEW r \in Retirers, NEW h \in Handles, NEW a \in Addresses,
             Relocate(r, h, a)
      PROVE  Types'
  BY <1>12 DEF Relocate, MayRetire
<1>13. ASSUME NEW r \in Retirers, LoadEpoch(r)
      PROVE  Types'
  BY <1>13 DEF LoadEpoch
<1>14. ASSUME NEW r \in Retirers, PushHandle(r)
      PROVE  Types'
  BY <1>14 DEF PushHandle
<1>15. ASSUME NEW r \in Retirers, PushAllocation(r)
      PROVE  Types'
  BY <1>15 DEF PushAllocation
<1>16. CASE BeginReclaim
  <2>1. pass.batch = {} /\ current + 1 \in Epochs
    BY <1>0, <1>16, QuarantineAssumption DEF BeginReclaim, PassAlone, Types, TypeOK, Epochs
  <2>2. {"allocations", "handles"} \in SUBSET Lists /\ {"handles"} \in SUBSET Lists
    BY DEF Lists
  <2>3. "handles" \in Lists /\ "allocations" \in Lists
    BY DEF Lists
  <2> HIDE DEF Lists, Epochs, TypeOK
  <2>4. pass' \in PassType /\ pass'.batch = {}
    BY ZenonT(90), <1>0, <1>16, <2>1, <2>2, <2>3 DEF BeginReclaim, Types, PassType
  <2> QED
    BY <1>0, <1>16, <2>1, <2>4
    DEF BeginReclaim, Types, TypeOK, PassType, readerVars, tableVars
<1>17. CASE ReadLimit
  <2>1. current + 1 \in 0..(MaxEpoch + 1)
    BY <1>0, QuarantineAssumption DEF Types, TypeOK, Epochs
  <2>2. pass' \in PassType /\ pass'.list = pass.list /\ pass'.batch = pass.batch
    BY <1>0, <1>17, <2>1 DEF ReadLimit, Types, PassType
  <2> QED
    BY <1>0, <1>17, <2>2
    DEF ReadLimit, Types, TypeOK, PassType, readerVars, tableVars
<1>18. CASE LockParticipants
  BY <1>18 DEF LockParticipants
<1>19. ASSUME NEW t \in Readers, ScanParticipant(t)
      PROVE  Types'
  <2> DEFINE lower == IF active[t] # Inactive /\ active[t] < pass.limit THEN active[t] ELSE pass.limit
  <2>1. lower \in 0..(MaxEpoch + 1)
    BY <1>0, QuarantineAssumption DEF Types, TypeOK
  <2>2. pass' = [pass EXCEPT !.todo = pass.todo \ {t}, !.limit = lower]
    BY <1>19 DEF ScanParticipant
  <2> HIDE DEF lower
  <2>3. pass' \in PassType /\ pass'.list = pass.list /\ pass'.batch = pass.batch
    BY <1>0, <2>1, <2>2 DEF Types, PassType
  <2> QED
    BY <1>0, <1>19, <2>3
    DEF ScanParticipant, Types, TypeOK, PassType, readerVars, tableVars
<1>20. CASE ScanDone
  BY <1>20 DEF ScanDone
<1>21. CASE Take
  <2>1. Expired(pass.limit) \subseteq quarantine[pass.list]
    BY DEF Expired
  <2>2. {q[1] : q \in Expired(pass.limit)} \subseteq IF pass.list = "handles" THEN Handles ELSE Addresses
    BY <1>0, <2>1 DEF Types, TypeOK, Lists
  <2>3. pass' \in PassType /\ pass'.list = pass.list
        /\ pass'.batch \subseteq IF pass.list = "handles" THEN Handles ELSE Addresses
    BY <1>0, <1>21, <2>2 DEF Take, Types, PassType
  <2>4. /\ quarantine' \in [Lists -> SUBSET ((Handles \cup Addresses) \X Epochs)]
        /\ quarantine'["handles"] \subseteq quarantine["handles"]
        /\ quarantine'["allocations"] \subseteq quarantine["allocations"]
    BY <1>0, <1>21 DEF Take, Types, Lists
  <2> QED
    BY <1>0, <1>21, <2>3, <2>4
    DEF Take, Types, TypeOK, PassType, readerVars, tableVars
<1>22. ASSUME NEW h \in Handles, FreeHandle(h)
      PROVE  Types'
  BY <1>22 DEF FreeHandle
<1>23. CASE MakeReusable
  BY <1>23 DEF MakeReusable
<1>24. ASSUME NEW a \in Addresses, ReclaimObject(a)
      PROVE  Types'
  BY <1>24 DEF ReclaimObject
<1>25. CASE NextList
  <2>1. NoPass \in PassType /\ NoPass.batch = {}
    BY QuarantineAssumption DEF NoPass, PassType, Lists
  <2>2. ASSUME NEW l \in Lists, pass' = [NoPass EXCEPT !.pc = "limit", !.list = l, !.then = pass.then \ {l}]
        PROVE  pass' \in PassType /\ pass'.batch = {}
    BY <1>0, <2>1, <2>2 DEF Types, PassType
  <2>3. pass' \in PassType /\ pass'.batch = {}
    BY <1>25, <2>1, <2>2 DEF NextList, Lists
  <2> QED
    BY <1>0, <1>25, <2>3
    DEF NextList, Types, TypeOK, PassType, readerVars, tableVars
<1> QED
  BY <1>1, <1>2, <1>3, <1>4, <1>5, <1>6, <1>7, <1>8, <1>9, <1>10, <1>11,
      <1>12, <1>13, <1>14, <1>15, <1>16, <1>17, <1>18, <1>19, <1>20,
      <1>21, <1>22, <1>23, <1>24, <1>25
  DEF Next, ReaderStep, RetirerStep, Reclaim, vars, readerVars, tableVars

\* Announced epochs are epochs that were current, and nothing is held without
\* one.
LEMMA ReadersAnnouncedStep ==
  ASSUME IInv, [Next]_vars
  PROVE  ReadersAnnounced'
<1>0. Types /\ ReadersAnnounced
  BY DEF IInv
<1> USE <1>0, QuarantineAssumption
    DEF ReadersAnnounced, Types, Inactive, Epochs, TypeOK, PassType,
      readerVars, tableVars
<1>1. CASE UNCHANGED <<current, registered, read, active, held>>
  BY <1>1
<1>2. ASSUME NEW t \in Readers, Register(t)
      PROVE  ReadersAnnounced'
  BY <1>2 DEF Register
<1>3. ASSUME NEW t \in Readers, EnterRead(t)
      PROVE  ReadersAnnounced'
  BY <1>3 DEF EnterRead
<1>4. ASSUME NEW t \in Readers, EnterStore(t)
      PROVE  ReadersAnnounced'
  BY <1>4 DEF EnterStore
<1>5. ASSUME NEW t \in Readers, NEW h \in Handles,
             active[t] # Inactive, Resolve(t, h)
      PROVE  ReadersAnnounced'
  BY <1>5 DEF Resolve
<1>6. ASSUME NEW t \in Readers, Exit(t)
      PROVE  ReadersAnnounced'
  BY <1>6 DEF Exit
<1>7. ASSUME NEW t \in Readers, Unregister(t)
      PROVE  ReadersAnnounced'
  BY <1>7 DEF Unregister
<1>8. ASSUME NEW t \in Markers, MarkerStep(t)
      PROVE  ReadersAnnounced'
  BY <1>8 DEF MarkerStep, Resolve
<1>9. CASE BeginReclaim
  BY <1>9 DEF BeginReclaim
<1> QED
  BY <1>1, <1>2, <1>3, <1>4, <1>5, <1>6, <1>7, <1>8, <1>9
  DEF Next, ReaderStep, RetirerStep, Reclaim, AllocateHandle, Publish,
      RetireHandle, MayRetire, Relocate, LoadEpoch, PushHandle,
      PushAllocation, ReadLimit, LockParticipants, ScanParticipant,
      ScanDone, Take, Expired, FreeHandle, MakeReusable, ReclaimObject,
      NextList, NoPass, vars, readerVars, tableVars

\* Only MayRetire and BeginReclaim let one of a retirer and a pass begin,
\* each when the other is idle.
LEMMA PassAloneStep ==
  ASSUME IInv, [Next]_vars
  PROVE  PassAlone'
<1>0. Types /\ PassAlone
  BY DEF IInv
<1> USE <1>0, QuarantineAssumption
    DEF PassAlone, Types, NothingDue, TypeOK, PassType, readerVars,
      tableVars
<1>1. CASE UNCHANGED <<retirer, pass>>
  BY <1>1
<1>2. ASSUME NEW r \in Retirers, NEW h \in Handles, RetireHandle(r, h)
      PROVE  PassAlone'
  BY <1>2 DEF RetireHandle, MayRetire
<1>3. ASSUME NEW r \in Retirers, NEW h \in Handles, NEW a \in Addresses,
             Relocate(r, h, a)
      PROVE  PassAlone'
  BY <1>3 DEF Relocate, MayRetire
<1>4. ASSUME NEW r \in Retirers, LoadEpoch(r)
      PROVE  PassAlone'
  BY <1>4 DEF LoadEpoch
<1>5. ASSUME NEW r \in Retirers, PushHandle(r)
      PROVE  PassAlone'
  BY <1>5 DEF PushHandle
<1>6. ASSUME NEW r \in Retirers, PushAllocation(r)
      PROVE  PassAlone'
  BY <1>6 DEF PushAllocation
<1>7. CASE BeginReclaim
  BY <1>7 DEF BeginReclaim
<1>8. CASE ReadLimit
  BY <1>8 DEF ReadLimit
<1>9. CASE LockParticipants
  BY <1>9 DEF LockParticipants
<1>10. ASSUME NEW t \in Readers, ScanParticipant(t)
      PROVE  PassAlone'
  BY <1>10 DEF ScanParticipant
<1>11. CASE ScanDone
  BY <1>11 DEF ScanDone
<1>12. CASE Take
  BY <1>12 DEF Take, Expired
<1>13. ASSUME NEW h \in Handles, FreeHandle(h)
      PROVE  PassAlone'
  BY <1>13 DEF FreeHandle
<1>14. CASE MakeReusable
  BY <1>14 DEF MakeReusable
<1>15. ASSUME NEW a \in Addresses, ReclaimObject(a)
      PROVE  PassAlone'
  BY <1>15 DEF ReclaimObject
<1>16. CASE NextList
  BY <1>16 DEF NextList, NoPass
<1> QED
  BY <1>1, <1>2, <1>3, <1>4, <1>5, <1>6, <1>7, <1>8, <1>9, <1>10, <1>11,
      <1>12, <1>13, <1>14, <1>15, <1>16
  DEF Next, ReaderStep, RetirerStep, Reclaim, Register, EnterRead,
      EnterStore, Resolve, Exit, Unregister, MarkerStep, AllocateHandle,
      Publish, vars, readerVars, tableVars

\* A handle moves from its entry to a retirer, to the quarantine, to the
\* batch and back to its entry.
LEMMA HandlesOnceStep ==
  ASSUME IInv, [Next]_vars
  PROVE  HandlesOnce'
<1>0. Types /\ PassAlone /\ HandlesOnce
  BY DEF IInv
<1> USE <1>0, QuarantineAssumption
    DEF HandlesOnce, Types, PassAlone, Entry, NothingDue, Lists, TypeOK,
      PassType, readerVars, tableVars
<1>1. CASE UNCHANGED <<entry, quarantine, retirer, pass>>
  BY <1>1
<1>2. ASSUME NEW h \in Handles, NEW a \in Addresses, Publish(h, a)
      PROVE  HandlesOnce'
  BY <1>2 DEF Publish
<1>3. ASSUME NEW r \in Retirers, NEW h \in Handles, RetireHandle(r, h)
      PROVE  HandlesOnce'
  BY <1>3 DEF RetireHandle, MayRetire
<1>4. ASSUME NEW r \in Retirers, NEW h \in Handles, NEW a \in Addresses,
             Relocate(r, h, a)
      PROVE  HandlesOnce'
  BY <1>4 DEF Relocate, MayRetire
<1>5. ASSUME NEW r \in Retirers, LoadEpoch(r)
      PROVE  HandlesOnce'
  BY <1>5 DEF LoadEpoch
<1>6. ASSUME NEW r \in Retirers, PushHandle(r)
      PROVE  HandlesOnce'
  BY <1>6 DEF PushHandle
<1>7. ASSUME NEW r \in Retirers, PushAllocation(r)
      PROVE  HandlesOnce'
  BY <1>7 DEF PushAllocation
<1>8. CASE BeginReclaim
  BY <1>8, BatchEmptyAtStart DEF BeginReclaim
<1>9. CASE ReadLimit
  BY <1>9 DEF ReadLimit
<1>10. CASE LockParticipants
  BY <1>10 DEF LockParticipants
<1>11. ASSUME NEW t \in Readers, ScanParticipant(t)
      PROVE  HandlesOnce'
  BY <1>11 DEF ScanParticipant
<1>12. CASE ScanDone
  BY <1>12 DEF ScanDone
<1>13. CASE Take
  BY <1>13 DEF Take, Expired
<1>14. ASSUME NEW h \in Handles, FreeHandle(h)
      PROVE  HandlesOnce'
  BY <1>14 DEF FreeHandle
<1>15. CASE MakeReusable
  BY <1>15 DEF MakeReusable
<1>16. ASSUME NEW a \in Addresses, ReclaimObject(a)
      PROVE  HandlesOnce'
  BY <1>16 DEF ReclaimObject
<1>17. CASE NextList
  BY <1>17 DEF NextList, NoPass
<1> QED
  BY <1>1, <1>2, <1>3, <1>4, <1>5, <1>6, <1>7, <1>8, <1>9, <1>10, <1>11,
      <1>12, <1>13, <1>14, <1>15, <1>16, <1>17
  DEF Next, ReaderStep, RetirerStep, Reclaim, Register, EnterRead,
      EnterStore, Resolve, Exit, Unregister, MarkerStep, AllocateHandle,
      vars, readerVars, tableVars

\* An address moves from the free set to an entry, to a retirer, to the
\* quarantine, to the batch and back.
LEMMA AddressesOnceStep ==
  ASSUME IInv, [Next]_vars
  PROVE  AddressesOnce'
<1>0. Types /\ PassAlone /\ AddressesOnce
  BY DEF IInv
<1> USE <1>0, QuarantineAssumption
    DEF AddressesOnce, Types, PassAlone, Entry, NothingDue, Lists,
      TypeOK, PassType, readerVars, tableVars
<1>1. CASE UNCHANGED <<entry, free, quarantine, retirer, pass>>
  BY <1>1
<1>2. ASSUME NEW h \in Handles, NEW a \in Addresses, Publish(h, a)
      PROVE  AddressesOnce'
  BY <1>2 DEF Publish
<1>3. ASSUME NEW r \in Retirers, NEW h \in Handles, RetireHandle(r, h)
      PROVE  AddressesOnce'
  BY <1>3 DEF RetireHandle, MayRetire
<1>4. ASSUME NEW r \in Retirers, NEW h \in Handles, NEW a \in Addresses,
             Relocate(r, h, a)
      PROVE  AddressesOnce'
  BY <1>4 DEF Relocate, MayRetire
<1>5. ASSUME NEW r \in Retirers, LoadEpoch(r)
      PROVE  AddressesOnce'
  BY <1>5 DEF LoadEpoch
<1>6. ASSUME NEW r \in Retirers, PushHandle(r)
      PROVE  AddressesOnce'
  BY <1>6 DEF PushHandle
<1>7. ASSUME NEW r \in Retirers, PushAllocation(r)
      PROVE  AddressesOnce'
  BY SMTT(60), <1>7 DEF PushAllocation
<1>8. CASE BeginReclaim
  BY <1>8, BatchEmptyAtStart DEF BeginReclaim
<1>9. CASE ReadLimit
  BY <1>9 DEF ReadLimit
<1>10. CASE LockParticipants
  BY <1>10 DEF LockParticipants
<1>11. ASSUME NEW t \in Readers, ScanParticipant(t)
      PROVE  AddressesOnce'
  BY <1>11 DEF ScanParticipant
<1>12. CASE ScanDone
  BY <1>12 DEF ScanDone
<1>13. CASE Take
  BY <1>13 DEF Take, Expired
<1>14. ASSUME NEW h \in Handles, FreeHandle(h)
      PROVE  AddressesOnce'
  BY <1>14 DEF FreeHandle
<1>15. CASE MakeReusable
  BY <1>15 DEF MakeReusable
<1>16. ASSUME NEW a \in Addresses, ReclaimObject(a)
      PROVE  AddressesOnce'
  BY <1>16 DEF ReclaimObject
<1>17. CASE NextList
  BY <1>17 DEF NextList, NoPass
<1> QED
  BY <1>1, <1>2, <1>3, <1>4, <1>5, <1>6, <1>7, <1>8, <1>9, <1>10, <1>11,
      <1>12, <1>13, <1>14, <1>15, <1>16, <1>17
  DEF Next, ReaderStep, RetirerStep, Reclaim, Register, EnterRead,
      EnterStore, Resolve, Exit, Unregister, MarkerStep, AllocateHandle,
      vars, readerVars, tableVars

\* Nobody resolves what is stamped, and a stamp is the current epoch.
LEMMA StampedStep ==
  ASSUME IInv, [Next]_vars
  PROVE  Stamped'
<1>0. Types /\ ReadersAnnounced /\ HandlesOnce /\ AddressesOnce /\ Stamped /\ NoReuseWhileHeld
  BY DEF IInv
<1> USE <1>0, QuarantineAssumption
    DEF Stamped, Types, ReadersAnnounced, HandlesOnce, AddressesOnce,
      NoReuseWhileHeld, Inactive, NothingDue, Lists, TypeOK, PassType,
      readerVars, tableVars
<1>1. CASE UNCHANGED <<active, held, quarantine, retirer>>
  BY <1>1
<1>2. ASSUME NEW t \in Readers, EnterStore(t)
      PROVE  Stamped'
  BY <1>2 DEF EnterStore
<1>3. ASSUME NEW t \in Readers, NEW h \in Handles,
             active[t] # Inactive, Resolve(t, h)
      PROVE  Stamped'
  BY <1>3 DEF Resolve
<1>4. ASSUME NEW t \in Readers, Exit(t)
      PROVE  Stamped'
  BY <1>4 DEF Exit
<1>5. ASSUME NEW t \in Markers, MarkerStep(t)
      PROVE  Stamped'
  BY <1>5 DEF MarkerStep, Resolve
<1>6. ASSUME NEW r \in Retirers, NEW h \in Handles, RetireHandle(r, h)
      PROVE  Stamped'
  BY <1>6 DEF RetireHandle, MayRetire
<1>7. ASSUME NEW r \in Retirers, NEW h \in Handles, NEW a \in Addresses,
             Relocate(r, h, a)
      PROVE  Stamped'
  BY <1>7 DEF Relocate, MayRetire
<1>8. ASSUME NEW r \in Retirers, LoadEpoch(r)
      PROVE  Stamped'
  BY <1>8 DEF LoadEpoch
<1>9. ASSUME NEW r \in Retirers, PushHandle(r)
      PROVE  Stamped'
  BY <1>9 DEF PushHandle
<1>10. ASSUME NEW r \in Retirers, PushAllocation(r)
      PROVE  Stamped'
  BY <1>10 DEF PushAllocation
<1>11. CASE Take
  BY <1>11 DEF Take, Expired
<1> QED
  BY <1>1, <1>2, <1>3, <1>4, <1>5, <1>6, <1>7, <1>8, <1>9, <1>10, <1>11
  DEF Next, ReaderStep, RetirerStep, Reclaim, Register, EnterRead,
      Unregister, AllocateHandle, Publish, BeginReclaim, ReadLimit,
      LockParticipants, ScanParticipant, ScanDone, FreeHandle,
      MakeReusable, ReclaimObject, NextList, NoPass, vars, readerVars,
      tableVars

\* The list does not grow, no new holder finds a listed item, and a scanned
\* holder bounds the limit.
LEMMA ScannedStep ==
  ASSUME IInv, [Next]_vars
  PROVE  Scanned'
<1>0. Types /\ ReadersAnnounced /\ PassAlone /\ HandlesOnce /\ AddressesOnce /\ Scanned
  BY DEF IInv
<1> USE <1>0, QuarantineAssumption
    DEF Scanned, Types, ReadersAnnounced, PassAlone, HandlesOnce,
      AddressesOnce, Inactive, NothingDue, Lists, Item, TypeOK,
      PassType, readerVars, tableVars
<1>1. CASE UNCHANGED <<active, held, quarantine, pass>>
  BY <1>1
<1>2. ASSUME NEW t \in Readers, EnterStore(t)
      PROVE  Scanned'
  BY <1>2 DEF EnterStore
<1>3. ASSUME NEW t \in Readers, NEW h \in Handles,
             active[t] # Inactive, Resolve(t, h)
      PROVE  Scanned'
  BY <1>3 DEF Resolve
<1>4. ASSUME NEW t \in Readers, Exit(t)
      PROVE  Scanned'
  BY <1>4 DEF Exit
<1>5. ASSUME NEW t \in Markers, MarkerStep(t)
      PROVE  Scanned'
  BY <1>5 DEF MarkerStep, Resolve
<1>6. ASSUME NEW r \in Retirers, PushHandle(r)
      PROVE  Scanned'
  BY <1>6 DEF PushHandle
<1>7. ASSUME NEW r \in Retirers, PushAllocation(r)
      PROVE  Scanned'
  BY <1>7 DEF PushAllocation
<1>8. CASE BeginReclaim
  BY <1>8, BatchEmptyAtStart DEF BeginReclaim
<1>9. CASE ReadLimit
  BY <1>9 DEF ReadLimit
<1>10. CASE LockParticipants
  BY <1>10 DEF LockParticipants
<1>11. ASSUME NEW t \in Readers, ScanParticipant(t)
      PROVE  Scanned'
  BY <1>11 DEF ScanParticipant
<1>12. CASE ScanDone
  BY <1>12 DEF ScanDone
<1>13. CASE Take
  BY <1>13 DEF Take, Expired
<1>14. ASSUME NEW h \in Handles, FreeHandle(h)
      PROVE  Scanned'
  BY <1>14 DEF FreeHandle
<1>15. CASE MakeReusable
  BY <1>15 DEF MakeReusable
<1>16. ASSUME NEW a \in Addresses, ReclaimObject(a)
      PROVE  Scanned'
  BY <1>16 DEF ReclaimObject
<1>17. CASE NextList
  BY <1>17 DEF NextList, NoPass
<1> QED
  BY <1>1, <1>2, <1>3, <1>4, <1>5, <1>6, <1>7, <1>8, <1>9, <1>10, <1>11,
      <1>12, <1>13, <1>14, <1>15, <1>16, <1>17
  DEF Next, ReaderStep, RetirerStep, Reclaim, Register, EnterRead,
      Unregister, AllocateHandle, Publish, RetireHandle, MayRetire,
      Relocate, LoadEpoch, vars, readerVars, tableVars

\* What a pass takes is older than the epoch of every holder of the listed
\* items.
LEMMA BatchUnheldStep ==
  ASSUME IInv, [Next]_vars
  PROVE  BatchUnheld'
<1>0. Types /\ PassAlone /\ HandlesOnce /\ AddressesOnce /\ Stamped /\ Scanned /\ BatchUnheld
  BY DEF IInv
<1> USE <1>0, QuarantineAssumption
    DEF BatchUnheld, Types, PassAlone, HandlesOnce, AddressesOnce,
      Stamped, Scanned, Item, Lists, TypeOK, PassType, readerVars,
      tableVars
<1>1. CASE UNCHANGED <<held, pass>>
  BY <1>1
<1>2. ASSUME NEW t \in Readers, NEW h \in Handles,
             active[t] # Inactive, Resolve(t, h)
      PROVE  BatchUnheld'
  BY <1>2 DEF Resolve
<1>3. ASSUME NEW t \in Readers, Exit(t)
      PROVE  BatchUnheld'
  BY <1>3 DEF Exit
<1>4. ASSUME NEW t \in Markers, MarkerStep(t)
      PROVE  BatchUnheld'
  BY <1>4 DEF MarkerStep, Resolve
<1>5. CASE BeginReclaim
  BY <1>5, BatchEmptyAtStart DEF BeginReclaim
<1>6. CASE ReadLimit
  BY <1>6 DEF ReadLimit
<1>7. CASE LockParticipants
  BY <1>7 DEF LockParticipants
<1>8. ASSUME NEW t \in Readers, ScanParticipant(t)
      PROVE  BatchUnheld'
  BY <1>8 DEF ScanParticipant
<1>9. CASE ScanDone
  BY <1>9 DEF ScanDone
<1>10. CASE Take
  <2>1. pass.list = pass'.list /\ pass'.batch = {q[1] : q \in Expired(pass.limit)}
    BY <1>0, <1>10 DEF Take, Types, PassType
  <2>2. SUFFICES ASSUME NEW t \in Readers, NEW u \in held[t], NEW q \in Expired(pass.limit),
                        q[1] = Item(u)
                 PROVE  FALSE
    BY <1>10, <2>1 DEF BatchUnheld, Item, Take, readerVars
  <2>3. pass.limit <= active[t]
    BY <1>0, <1>10, <2>2 DEF Scanned, Take, Expired
  <2>4. active[t] <= q[2]
    BY <1>0, <2>2 DEF Stamped, Expired, Item, Types, PassType, Lists
  <2> QED
    BY <1>0, <2>2, <2>3, <2>4 DEF Expired, Types, TypeOK, Lists, Epochs
<1>11. ASSUME NEW h \in Handles, FreeHandle(h)
      PROVE  BatchUnheld'
  BY <1>11 DEF FreeHandle
<1>12. CASE MakeReusable
  BY <1>12 DEF MakeReusable
<1>13. ASSUME NEW a \in Addresses, ReclaimObject(a)
      PROVE  BatchUnheld'
  BY <1>13 DEF ReclaimObject
<1>14. CASE NextList
  BY <1>14 DEF NextList, NoPass
<1> QED
  BY <1>1, <1>2, <1>3, <1>4, <1>5, <1>6, <1>7, <1>8, <1>9, <1>10, <1>11,
      <1>12, <1>13, <1>14
  DEF Next, ReaderStep, RetirerStep, Reclaim, Register, EnterRead,
      EnterStore, Unregister, AllocateHandle, Publish, RetireHandle,
      MayRetire, Relocate, LoadEpoch, PushHandle, PushAllocation, vars,
      readerVars, tableVars

\* An address that leaves a place goes to the next one.
LEMMA AddressesPlacedStep ==
  ASSUME IInv, [Next]_vars
  PROVE  AddressesPlaced'
<1>0. Types /\ PassAlone /\ AddressesPlaced
  BY DEF IInv
<1> USE <1>0, QuarantineAssumption
    DEF AddressesPlaced, Types, PassAlone, Entry, NothingDue, Lists,
      TypeOK, PassType, readerVars, tableVars
<1>1. CASE UNCHANGED <<entry, free, quarantine, retirer, pass>>
  BY <1>1
<1>2. ASSUME NEW h \in Handles, NEW a \in Addresses, Publish(h, a)
      PROVE  AddressesPlaced'
  BY <1>2 DEF Publish
<1>3. ASSUME NEW r \in Retirers, NEW h \in Handles, RetireHandle(r, h)
      PROVE  AddressesPlaced'
  BY <1>3 DEF RetireHandle, MayRetire
<1>4. ASSUME NEW r \in Retirers, NEW h \in Handles, NEW a \in Addresses,
             Relocate(r, h, a)
      PROVE  AddressesPlaced'
  BY <1>4 DEF Relocate, MayRetire
<1>5. ASSUME NEW r \in Retirers, LoadEpoch(r)
      PROVE  AddressesPlaced'
  BY <1>5 DEF LoadEpoch
<1>6. ASSUME NEW r \in Retirers, PushHandle(r)
      PROVE  AddressesPlaced'
  BY <1>6 DEF PushHandle
<1>7. ASSUME NEW r \in Retirers, PushAllocation(r)
      PROVE  AddressesPlaced'
  <2> DEFINE q == <<retirer[r].start, retirer[r].epoch>>
  <2>1. quarantine'["allocations"] = quarantine["allocations"] \cup {q}
    BY <1>7 DEF PushAllocation
  <2>2. \A s \in Retirers : s # r => retirer'[s] = retirer[s]
    BY <1>7 DEF PushAllocation
  <2>3. q[1] = retirer[r].start /\ q \in quarantine'["allocations"]
    BY <2>1
  <2>4. UNCHANGED <<entry, free, pass>>
    BY <1>7 DEF PushAllocation
  <2> HIDE DEF q
  <2> QED
    BY <2>1, <2>2, <2>3, <2>4
<1>8. CASE BeginReclaim
  BY <1>8, BatchEmptyAtStart DEF BeginReclaim
<1>9. CASE ReadLimit
  BY <1>9 DEF ReadLimit
<1>10. CASE LockParticipants
  BY <1>10 DEF LockParticipants
<1>11. ASSUME NEW t \in Readers, ScanParticipant(t)
      PROVE  AddressesPlaced'
  BY <1>11 DEF ScanParticipant
<1>12. CASE ScanDone
  BY <1>12 DEF ScanDone
<1>13. CASE Take
  BY <1>13 DEF Take, Expired
<1>14. ASSUME NEW h \in Handles, FreeHandle(h)
      PROVE  AddressesPlaced'
  BY <1>14 DEF FreeHandle
<1>15. CASE MakeReusable
  BY <1>15 DEF MakeReusable
<1>16. ASSUME NEW a \in Addresses, ReclaimObject(a)
      PROVE  AddressesPlaced'
  BY <1>16 DEF ReclaimObject
<1>17. CASE NextList
  BY <1>17 DEF NextList, NoPass
<1> QED
  BY <1>1, <1>2, <1>3, <1>4, <1>5, <1>6, <1>7, <1>8, <1>9, <1>10, <1>11,
      <1>12, <1>13, <1>14, <1>15, <1>16, <1>17
  DEF Next, ReaderStep, RetirerStep, Reclaim, Register, EnterRead,
      EnterStore, Resolve, Exit, Unregister, MarkerStep, AllocateHandle,
      vars, readerVars, tableVars

\* A retired handle that leaves a place goes to the next one.
LEMMA HandlesPlacedStep ==
  ASSUME IInv, [Next]_vars
  PROVE  HandlesPlaced'
<1>0. Types /\ PassAlone /\ HandlesPlaced
  BY DEF IInv
<1> USE <1>0, QuarantineAssumption
    DEF HandlesPlaced, Types, PassAlone, Entry, NothingDue, Lists,
      TypeOK, PassType, readerVars, tableVars
<1>1. CASE UNCHANGED <<entry, quarantine, retirer, pass>>
  BY <1>1
<1>2. ASSUME NEW h \in Handles, NEW a \in Addresses, Publish(h, a)
      PROVE  HandlesPlaced'
  BY <1>2 DEF Publish
<1>3. ASSUME NEW r \in Retirers, NEW h \in Handles, RetireHandle(r, h)
      PROVE  HandlesPlaced'
  BY <1>3 DEF RetireHandle, MayRetire
<1>4. ASSUME NEW r \in Retirers, NEW h \in Handles, NEW a \in Addresses,
             Relocate(r, h, a)
      PROVE  HandlesPlaced'
  BY <1>4 DEF Relocate, MayRetire
<1>5. ASSUME NEW r \in Retirers, LoadEpoch(r)
      PROVE  HandlesPlaced'
  BY <1>5 DEF LoadEpoch
<1>6. ASSUME NEW r \in Retirers, PushHandle(r)
      PROVE  HandlesPlaced'
  <2> DEFINE q == <<retirer[r].handle, retirer[r].epoch>>
  <2>1. quarantine'["handles"] = quarantine["handles"] \cup {q}
    BY <1>6 DEF PushHandle
  <2>2. \A s \in Retirers : s # r => retirer'[s] = retirer[s]
    BY <1>6 DEF PushHandle
  <2>3. q[1] = retirer[r].handle /\ q \in quarantine'["handles"]
    BY <2>1
  <2>4. UNCHANGED <<entry, free, pass>>
    BY <1>6 DEF PushHandle
  <2> HIDE DEF q
  <2> QED
    BY <2>1, <2>2, <2>3, <2>4
<1>7. ASSUME NEW r \in Retirers, PushAllocation(r)
      PROVE  HandlesPlaced'
  BY <1>7 DEF PushAllocation
<1>8. CASE BeginReclaim
  BY <1>8, BatchEmptyAtStart DEF BeginReclaim
<1>9. CASE ReadLimit
  BY <1>9 DEF ReadLimit
<1>10. CASE LockParticipants
  BY <1>10 DEF LockParticipants
<1>11. ASSUME NEW t \in Readers, ScanParticipant(t)
      PROVE  HandlesPlaced'
  BY <1>11 DEF ScanParticipant
<1>12. CASE ScanDone
  BY <1>12 DEF ScanDone
<1>13. CASE Take
  BY <1>13 DEF Take, Expired
<1>14. ASSUME NEW h \in Handles, FreeHandle(h)
      PROVE  HandlesPlaced'
  BY <1>14 DEF FreeHandle
<1>15. CASE MakeReusable
  BY <1>15 DEF MakeReusable
<1>16. ASSUME NEW a \in Addresses, ReclaimObject(a)
      PROVE  HandlesPlaced'
  BY <1>16 DEF ReclaimObject
<1>17. CASE NextList
  BY <1>17 DEF NextList, NoPass
<1> QED
  BY <1>1, <1>2, <1>3, <1>4, <1>5, <1>6, <1>7, <1>8, <1>9, <1>10, <1>11,
      <1>12, <1>13, <1>14, <1>15, <1>16, <1>17
  DEF Next, ReaderStep, RetirerStep, Reclaim, Register, EnterRead,
      EnterStore, Resolve, Exit, Unregister, MarkerStep, AllocateHandle,
      vars, readerVars, tableVars

\* A handle is free between FreeHandle and Publish, and in one of the four
\* places.
LEMMA FreeHandlesOnceStep ==
  ASSUME IInv, [Next]_vars
  PROVE  FreeHandlesOnce'
<1>0. Types /\ PassAlone /\ FreeHandlesOnce
  BY DEF IInv
<1> USE <1>0, QuarantineAssumption
    DEF FreeHandlesOnce, Types, PassAlone, Entry, Lists, TypeOK,
      PassType, readerVars, tableVars
<1>1. CASE UNCHANGED <<entry, unused, reusable, claimed, pass>>
  BY <1>1
<1>2. CASE AllocateHandle
  BY <1>2 DEF AllocateHandle
<1>3. ASSUME NEW h \in Handles, NEW a \in Addresses, Publish(h, a)
      PROVE  FreeHandlesOnce'
  BY <1>3 DEF Publish
<1>4. ASSUME NEW r \in Retirers, NEW h \in Handles, RetireHandle(r, h)
      PROVE  FreeHandlesOnce'
  BY <1>4 DEF RetireHandle, MayRetire
<1>5. ASSUME NEW r \in Retirers, NEW h \in Handles, NEW a \in Addresses,
             Relocate(r, h, a)
      PROVE  FreeHandlesOnce'
  BY <1>5 DEF Relocate, MayRetire
<1>6. CASE BeginReclaim
  BY <1>6, BatchEmptyAtStart DEF BeginReclaim
<1>7. CASE ReadLimit
  BY <1>7 DEF ReadLimit
<1>8. CASE LockParticipants
  BY <1>8 DEF LockParticipants
<1>9. ASSUME NEW t \in Readers, ScanParticipant(t)
      PROVE  FreeHandlesOnce'
  BY <1>9 DEF ScanParticipant
<1>10. CASE ScanDone
  BY <1>10 DEF ScanDone
<1>11. CASE Take
  BY <1>11 DEF Take, Expired
<1>12. ASSUME NEW h \in Handles, FreeHandle(h)
      PROVE  FreeHandlesOnce'
  BY <1>12 DEF FreeHandle
<1>13. CASE MakeReusable
  BY <1>13 DEF MakeReusable
<1>14. ASSUME NEW a \in Addresses, ReclaimObject(a)
      PROVE  FreeHandlesOnce'
  BY <1>14 DEF ReclaimObject
<1>15. CASE NextList
  BY <1>15 DEF NextList, NoPass
<1> QED
  BY <1>1, <1>2, <1>3, <1>4, <1>5, <1>6, <1>7, <1>8, <1>9, <1>10, <1>11,
      <1>12, <1>13, <1>14, <1>15
  DEF Next, ReaderStep, RetirerStep, Reclaim, Register, EnterRead,
      EnterStore, Resolve, Exit, Unregister, MarkerStep, LoadEpoch,
      PushHandle, PushAllocation, vars, readerVars, tableVars

\* Only the batch is given back.
LEMMA NoReuseWhileHeldStep ==
  ASSUME IInv, [Next]_vars
  PROVE  NoReuseWhileHeld'
<1>0. Types /\ AddressesOnce /\ BatchUnheld /\ NoReuseWhileHeld /\ PassAlone
  BY DEF IInv
<1> USE <1>0, QuarantineAssumption
    DEF NoReuseWhileHeld, Types, AddressesOnce, BatchUnheld, PassAlone,
      Protected, Item, Entry, TypeOK, PassType, readerVars, tableVars
<1>1. CASE UNCHANGED <<held, entry, free>>
  BY <1>1
<1>2. ASSUME NEW t \in Readers, NEW h \in Handles,
             active[t] # Inactive, Resolve(t, h)
      PROVE  NoReuseWhileHeld'
  BY <1>2 DEF Resolve
<1>3. ASSUME NEW t \in Readers, Exit(t)
      PROVE  NoReuseWhileHeld'
  BY <1>3 DEF Exit
<1>4. ASSUME NEW t \in Markers, MarkerStep(t)
      PROVE  NoReuseWhileHeld'
  BY <1>4 DEF MarkerStep, Resolve
<1>5. ASSUME NEW h \in Handles, NEW a \in Addresses, Publish(h, a)
      PROVE  NoReuseWhileHeld'
  BY <1>5 DEF Publish
<1>6. ASSUME NEW r \in Retirers, NEW h \in Handles, RetireHandle(r, h)
      PROVE  NoReuseWhileHeld'
  BY <1>6 DEF RetireHandle, MayRetire
<1>7. ASSUME NEW r \in Retirers, NEW h \in Handles, NEW a \in Addresses,
             Relocate(r, h, a)
      PROVE  NoReuseWhileHeld'
  BY <1>7 DEF Relocate, MayRetire
<1>8. ASSUME NEW h \in Handles, FreeHandle(h)
      PROVE  NoReuseWhileHeld'
  BY <1>8 DEF FreeHandle
<1>9. ASSUME NEW a \in Addresses, ReclaimObject(a)
      PROVE  NoReuseWhileHeld'
  BY <1>9 DEF ReclaimObject
<1> QED
  BY <1>1, <1>2, <1>3, <1>4, <1>5, <1>6, <1>7, <1>8, <1>9
  DEF Next, ReaderStep, RetirerStep, Reclaim, Register, EnterRead,
      EnterStore, Unregister, AllocateHandle, LoadEpoch, PushHandle,
      PushAllocation, BeginReclaim, ReadLimit, LockParticipants,
      ScanParticipant, ScanDone, Take, Expired, MakeReusable, NextList,
      NoPass, vars, readerVars, tableVars

\* One step of any actor keeps the whole invariant.
LEMMA StepKeepsInvariant ==
  ASSUME IInv, [Next]_vars
  PROVE  IInv'
BY TypesStep, ReadersAnnouncedStep, PassAloneStep, HandlesOnceStep, AddressesOnceStep,
   StampedStep, ScannedStep, BatchUnheldStep, NoReuseWhileHeldStep,
   AddressesPlacedStep, HandlesPlacedStep, FreeHandlesOnceStep
DEF IInv

\* It holds of HeapEpoch::new with an empty heap.
LEMMA InitEstablishesInvariant == Init => IInv
BY QuarantineAssumption
DEF Init, IInv, AddressesPlaced, HandlesPlaced, FreeHandlesOnce,
    Types, TypeOK, ReadersAnnounced, PassAlone, HandlesOnce, AddressesOnce,
    Stamped, Scanned, BatchUnheld, NoReuseWhileHeld, Protected, Item, Due, Epochs, Lists,
    Entry, NothingDue, NoPass, Inactive, PassType

\* Every reachable state is well typed (the fields of HeapEpoch, heap/epoch.rs).
THEOREM TypeCorrect == Spec => []TypeOK
<1>1. IInv => TypeOK
  BY DEF IInv, Types
<1> QED BY <1>1, InitEstablishesInvariant, StepKeepsInvariant, PTL DEF Spec

\* What a reader resolved after it announced its epoch is not reused before it
\* exits, for any number of threads, objects and epochs: enter, retire_handle,
\* retire_allocation and the take functions of heap/epoch.rs work together.
THEOREM HeldIsProtected == Spec => []NoReuseWhileHeld
<1>1. IInv => NoReuseWhileHeld
  BY DEF IInv
<1> QED BY <1>1, InitEstablishesInvariant, StepKeepsInvariant, PTL DEF Spec

-----------------------------------------------------------------------------
\* The first conjunct of OnePlace.
LEMMA AddressInOnePlace ==
  ASSUME IInv, NEW a \in Addresses
  PROVE  Cardinality(AddressPlaces(a)) = 1
<1> USE QuarantineAssumption DEF IInv, Types, TypeOK, PassType, PassAlone, AddressesOnce, NothingDue, Entry, Lists
<1>1. ASSUME NEW x, AddressPlaces(a) = {x}
      PROVE  Cardinality(AddressPlaces(a)) = 1
  BY <1>1, FS_Singleton
<1>2. CASE a \in free
  <2>1. AddressPlaces(a) = {<<"free", a>>}
    BY <1>2 DEF AddressPlaces
  <2> QED BY <1>1, <2>1
<1>3. ASSUME NEW h \in Handles, entry[h].state = "stable", entry[h].address = a
      PROVE  Cardinality(AddressPlaces(a)) = 1
  <2>1. AddressPlaces(a) = {<<"entry", h>>}
    BY <1>3 DEF AddressPlaces
  <2> QED BY <1>1, <2>1
<1>4. ASSUME NEW r \in Retirers, retirer[r].start = a
      PROVE  Cardinality(AddressPlaces(a)) = 1
  <2>1. AddressPlaces(a) = {<<"due", r>>}
    BY <1>4 DEF AddressPlaces
  <2> QED BY <1>1, <2>1
<1>5. ASSUME NEW q \in quarantine["allocations"], q[1] = a
      PROVE  Cardinality(AddressPlaces(a)) = 1
  <2>1. AddressPlaces(a) = {<<"quarantine", q[2]>>}
    BY <1>5 DEF AddressPlaces
  <2> QED BY <1>1, <2>1
<1>6. CASE pass.list = "allocations" /\ a \in pass.batch
  <2>1. AddressPlaces(a) = {<<"batch", a>>}
    BY <1>6 DEF AddressPlaces
  <2> QED BY <1>1, <2>1
<1> QED BY <1>2, <1>3, <1>4, <1>5, <1>6 DEF AddressesPlaced

\* The second conjunct, for retired handles.
LEMMA HandleInOnePlace ==
  ASSUME IInv, NEW h \in Handles
  PROVE  Cardinality(HandlePlaces(h)) = (IF entry[h].state = "retired" THEN 1 ELSE 0)
<1>0. Types /\ PassAlone /\ HandlesOnce /\ HandlesPlaced
  BY DEF IInv
<1>1. CASE entry[h].state # "retired"
  <2>1. HandlePlaces(h) = {}
    BY <1>0, <1>1, QuarantineAssumption
    DEF HandlePlaces, Types, TypeOK, PassType, HandlesOnce, Lists
  <2> QED BY <1>1, <2>1, FS_EmptySet
<1>2. CASE entry[h].state = "retired"
  <2> USE <1>0, QuarantineAssumption
      DEF HandlePlaces, Types, TypeOK, PassType, PassAlone, HandlesOnce, NothingDue, Lists
  <2>1. ASSUME NEW r \in Retirers, retirer[r].handle = h
        PROVE  HandlePlaces(h) = {<<"due", r>>}
    BY <2>1
  <2>2. ASSUME NEW q \in quarantine["handles"], q[1] = h
        PROVE  HandlePlaces(h) = {<<"quarantine", q[2]>>}
    BY <2>2
  <2>3. ASSUME pass.list = "handles", h \in pass.batch
        PROVE  HandlePlaces(h) = {<<"batch", h>>}
    BY <2>3
  <2> HIDE <1>0 DEF HandlePlaces, Types, TypeOK, PassAlone, HandlesOnce
  <2>4. \E x : HandlePlaces(h) = {x}
    BY <1>0, <1>2, <2>1, <2>2, <2>3 DEF HandlesPlaced
  <2> QED BY <1>2, <2>4, FS_Singleton
<1> QED BY <1>1, <1>2

\* The ways in which h can be handed out.
FreeWays(h) ==
  {p \in {1, 2, 3, 4} :
     h \in CASE p = 1 -> unused [] p = 2 -> reusable [] p = 3 -> claimed [] p = 4 -> {pass.freed}}

\* The second conjunct, for free handles.
LEMMA FreeHandleInOnePlace ==
  ASSUME IInv, NEW h \in Handles
  PROVE  Cardinality(FreeWays(h)) = (IF entry[h].state = "free" THEN 1 ELSE 0)
<1> USE DEF IInv, FreeHandlesOnce, FreeWays
<1>1. CASE entry[h].state # "free"
  <2>1. FreeWays(h) = {}
    BY <1>1
  <2> QED BY <1>1, <2>1, FS_EmptySet
<1>2. CASE entry[h].state = "free"
  <2>1. \/ FreeWays(h) = {1} \/ FreeWays(h) = {2} \/ FreeWays(h) = {3} \/ FreeWays(h) = {4}
    BY <1>2
  <2>2. Cardinality({1}) = 1 /\ Cardinality({2}) = 1 /\ Cardinality({3}) = 1 /\ Cardinality({4}) = 1
    BY FS_Singleton
  <2> HIDE DEF FreeWays
  <2> QED BY <1>2, <2>1, <2>2
<1> QED BY <1>1, <1>2

\* Nothing is lost and nothing is given out twice, whatever retires, reclaims and
\* allocates: the expect of reclaim_quarantine (heap/handle.rs) cannot fail.
THEOREM EachInOnePlace == Spec => []OnePlace
<1>1. IInv => OnePlace
  BY AddressInOnePlace, HandleInOnePlace, FreeHandleInOnePlace DEF OnePlace, FreeWays
<1> QED BY <1>1, InitEstablishesInvariant, StepKeepsInvariant, PTL DEF Spec

=============================================================================
