-------------------------- MODULE AgentClusterProofs --------------------------
(***************************************************************************)
(* Proofs about AtomicsWaiters and AgentCluster, for any number of agents, *)
(* workers and sessions: whoever waits is on the list and tended, wait and *)
(* notify implement the queue of WaiterList, the main agent hears its      *)
(* workers out, and all of it holds of agents that run event loops.        *)
(***************************************************************************)
EXTENDS AgentCluster, FiniteSetTheorems, SequenceTheorems, WellFoundedInduction, TLAPS

-----------------------------------------------------------------------------
(* Numbers and sequences without repetition. *)

\* A set of numbers that is not empty has a least one.
LEMMA LeastNumber ==
  ASSUME NEW T \in SUBSET Nat, T # {}
  PROVE  \E m \in T : \A k \in T : m <= k
<1>1. PICK m \in T : \A k \in T : <<k, m>> \notin OpToRel(<, Nat)
  BY WFMin, NatLessThanWellFounded, Zenon
<1>2. \A k \in T : ~(k < m)
  BY <1>1, Zenon DEF OpToRel
<1>3. QED
  BY <1>2

Distinct(q) == \A i, j \in DOMAIN q : q[i] = q[j] => i = j

\* What RemoveAt keeps, at which places.
LEMMA RemoveAtElements ==
  ASSUME NEW S, NEW q \in Seq(S), NEW i \in DOMAIN q
  PROVE  /\ RemoveAt(q, i) \in Seq(S)
         /\ Len(RemoveAt(q, i)) = Len(q) - 1
         /\ \A j \in 1..(Len(q) - 1) :
              RemoveAt(q, i)[j] = IF j < i THEN q[j] ELSE q[j + 1]
<1> DEFINE l == SubSeq(q, 1, i - 1)
           r == SubSeq(q, i + 1, Len(q))
<1>1. i \in 1..Len(q) /\ Len(q) \in Nat /\ \A k \in 1..Len(q) : q[k] \in S
  BY LenProperties, ElementOfSeq
<1>2. /\ l \in Seq(S) /\ Len(l) = i - 1 /\ \A k \in 1..(i - 1) : l[k] = q[k]
  <2>1. \A k \in 1..(i - 1) : q[k] \in S
    BY <1>1
  <2>2. /\ l \in Seq(S) /\ Len(l) = IF 1 <= i - 1 THEN i - 1 - 1 + 1 ELSE 0
        /\ \A k \in 1..(i - 1 - 1 + 1) : l[k] = q[1 + k - 1]
    BY <1>1, <2>1, SubSeqProperties
  <2>3. QED
    BY <1>1, <2>2
<1>3. /\ r \in Seq(S) /\ Len(r) = Len(q) - i
      /\ \A k \in 1..(Len(q) - i) : r[k] = q[i + k]
  <2>1. \A k \in (i + 1)..Len(q) : q[k] \in S
    BY <1>1
  <2>2. /\ r \in Seq(S)
        /\ Len(r) = IF i + 1 <= Len(q) THEN Len(q) - (i + 1) + 1 ELSE 0
        /\ \A k \in 1..(Len(q) - (i + 1) + 1) : r[k] = q[i + 1 + k - 1]
    BY <1>1, <2>1, SubSeqProperties
  <2>3. QED
    BY <1>1, <2>2
<1>4. /\ l \o r \in Seq(S) /\ Len(l \o r) = Len(l) + Len(r)
      /\ \A k \in 1..(Len(l) + Len(r)) :
           (l \o r)[k] = IF k <= Len(l) THEN l[k] ELSE r[k - Len(l)]
  BY <1>2, <1>3, ConcatProperties
<1>5. RemoveAt(q, i) = l \o r
  BY DEF RemoveAt
<1> HIDE DEF l, r
<1>6. Len(l) + Len(r) = Len(q) - 1
  BY <1>1, <1>2, <1>3
<1>7. ASSUME NEW j \in 1..(Len(q) - 1)
      PROVE  (l \o r)[j] = IF j < i THEN q[j] ELSE q[j + 1]
  <2>1. CASE j < i
    BY <1>1, <1>2, <1>4, <1>6, <2>1
  <2>2. CASE ~(j < i)
    <3>1. j - Len(l) \in 1..(Len(q) - i) /\ i + (j - Len(l)) = j + 1
      BY <1>1, <1>2, <2>2
    <3>2. (l \o r)[j] = r[j - Len(l)]
      BY SMTT(60), <1>1, <1>2, <1>4, <1>6, <2>2
    <3>3. QED
      BY <1>3, <2>2, <3>1, <3>2
  <2>3. QED
    BY <2>1, <2>2
<1>8. QED
  BY <1>4, <1>5, <1>6, <1>7

\* One element of a sequence without repetition leaves; the others stay in order.
LEMMA RemoveAtDistinct ==
  ASSUME NEW S, NEW q \in Seq(S), NEW i \in DOMAIN q, Distinct(q)
  PROVE  /\ Distinct(RemoveAt(q, i))
         /\ Range(RemoveAt(q, i)) = Range(q) \ {q[i]}
         /\ \A s, t : Precedes(RemoveAt(q, i), s, t) <=>
                        Precedes(q, s, t) /\ s # q[i] /\ t # q[i]
<1> DEFINE r == RemoveAt(q, i)
           from(j) == IF j < i THEN j ELSE j + 1
           to(j) == IF j < i THEN j ELSE j - 1
<1>1. /\ i \in 1..Len(q) /\ Len(q) \in Nat /\ DOMAIN q = 1..Len(q)
      /\ r \in Seq(S) /\ DOMAIN r = 1..(Len(q) - 1)
      /\ \A j \in DOMAIN r : r[j] = q[from(j)]
  BY RemoveAtElements, LenProperties
<1> HIDE DEF r
<1>2. \A j \in DOMAIN r : from(j) \in DOMAIN q \ {i} /\ to(from(j)) = j
  BY <1>1
<1>3. \A j \in DOMAIN q \ {i} : to(j) \in DOMAIN r /\ from(to(j)) = j
  BY <1>1
<1>4. \A j, k \in DOMAIN r : j < k <=> from(j) < from(k)
  BY <1>1
<1>5. \A j \in DOMAIN q \ {i} : q[j] # q[i]
  BY <1>1 DEF Distinct
<1>6. Distinct(r)
  BY <1>1, <1>2 DEF Distinct
<1>7. Range(r) = Range(q) \ {q[i]}
  BY <1>1, <1>2, <1>3, <1>5 DEF Range
<1>8. ASSUME NEW s, NEW t, Precedes(r, s, t)
      PROVE  Precedes(q, s, t) /\ s # q[i] /\ t # q[i]
  BY <1>1, <1>2, <1>4, <1>5, <1>8 DEF Precedes
<1>9. ASSUME NEW s, NEW t, Precedes(q, s, t), s # q[i], t # q[i]
      PROVE  Precedes(r, s, t)
  <2>1. PICK j, k \in DOMAIN q : j < k /\ q[j] = s /\ q[k] = t
    BY <1>9 DEF Precedes
  <2>2. j \in DOMAIN q \ {i} /\ k \in DOMAIN q \ {i}
    BY <1>9, <2>1
  <2>3. /\ to(j) \in DOMAIN r /\ to(k) \in DOMAIN r
        /\ r[to(j)] = s /\ r[to(k)] = t
    BY <1>1, <1>3, <2>1, <2>2
  <2>4. to(j) < to(k)
    BY <1>1, <2>1, <2>2
  <2>5. QED
    BY <2>3, <2>4 DEF Precedes
<1>10. QED
  BY <1>6, <1>7, <1>8, <1>9 DEF r

\* RemoveFirst takes an element of a sequence without repetition out.
LEMMA RemoveFirstDistinct ==
  ASSUME NEW S, NEW q \in Seq(S), Distinct(q), NEW e
  PROVE  /\ RemoveFirst(q, e) \in Seq(S)
         /\ Distinct(RemoveFirst(q, e))
         /\ Range(RemoveFirst(q, e)) = Range(q) \ {e}
         /\ \A s, t : Precedes(RemoveFirst(q, e), s, t) <=>
                        Precedes(q, s, t) /\ s # e /\ t # e
<1>1. DOMAIN q = 1..Len(q) /\ Len(q) \in Nat
  BY LenProperties
<1>2. CASE e \in Range(q)
  <2> DEFINE I == {i \in 1..Len(q) : q[i] = e}
             m == CHOOSE x \in I : \A y \in I : x <= y
  <2>1. I # {} /\ I \in SUBSET Nat
    BY <1>1, <1>2 DEF Range
  <2>2. m \in I
    BY <2>1, LeastNumber
  <2>3. RemoveFirst(q, e) = RemoveAt(q, m)
    BY <2>1 DEF RemoveFirst, SelectInSeq, Min
  <2>4. m \in DOMAIN q /\ q[m] = e
    BY <1>1, <2>2
  <2> HIDE DEF m, I
  <2>5. QED
    BY <2>3, <2>4, RemoveAtElements, RemoveAtDistinct
<1>3. CASE e \notin Range(q)
  <2>1. RemoveFirst(q, e) = q
    BY <1>1, <1>3 DEF RemoveFirst, Range
  <2>2. \A s, t : Precedes(q, s, t) => s # e /\ t # e
    BY <1>3 DEF Precedes, Range
  <2>3. QED
    BY <1>3, <2>1, <2>2
<1>4. QED
  BY <1>2, <1>3

LEMMA AppendRange ==
  ASSUME NEW S, NEW q \in Seq(S), NEW e \in S
  PROVE  Range(Append(q, e)) = Range(q) \cup {e}
<1> DEFINE r == Append(q, e)
<1>1. /\ r \in Seq(S) /\ DOMAIN q = 1..Len(q) /\ Len(q) \in Nat
      /\ DOMAIN r = 1..(Len(q) + 1) /\ r[Len(q) + 1] = e
      /\ \A i \in DOMAIN q : r[i] = q[i]
  BY AppendProperties, LenProperties
<1> HIDE DEF r
<1>2. Range(r) = Range(q) \cup {e}
  BY <1>1 DEF Range
<1>3. QED
  BY <1>2 DEF r

\* A new element at the end comes after all others.
LEMMA AppendDistinct ==
  ASSUME NEW S, NEW q \in Seq(S), Distinct(q), NEW e \in S, e \notin Range(q)
  PROVE  /\ Append(q, e) \in Seq(S)
         /\ Distinct(Append(q, e))
         /\ Range(Append(q, e)) = Range(q) \cup {e}
         /\ \A s, t : Precedes(Append(q, e), s, t) <=>
                        Precedes(q, s, t) \/ (s \in Range(q) /\ t = e)
<1> DEFINE r == Append(q, e)
<1>1. /\ r \in Seq(S) /\ DOMAIN q = 1..Len(q) /\ Len(q) \in Nat
      /\ DOMAIN r = 1..(Len(q) + 1) /\ r[Len(q) + 1] = e
      /\ \A i \in DOMAIN q : r[i] = q[i]
  BY AppendProperties, LenProperties
<1>2. \A i \in DOMAIN q : q[i] # e
  BY DEF Range
<1> HIDE DEF r
<1>3. Distinct(r)
  BY <1>1, <1>2 DEF Distinct
<1>4. Range(r) = Range(q) \cup {e}
  BY AppendRange DEF r
<1>5. ASSUME NEW s, NEW t, Precedes(r, s, t)
      PROVE  Precedes(q, s, t) \/ (s \in Range(q) /\ t = e)
  <2>1. PICK i, j \in DOMAIN r : i < j /\ r[i] = s /\ r[j] = t
    BY <1>5 DEF Precedes
  <2>2. i \in DOMAIN q /\ q[i] = s
    BY <1>1, <2>1
  <2>3. CASE j = Len(q) + 1
    BY <1>1, <2>1, <2>2, <2>3 DEF Range
  <2>4. CASE j # Len(q) + 1
    BY <1>1, <2>1, <2>2, <2>4 DEF Precedes
  <2>5. QED
    BY <2>3, <2>4
<1>6. ASSUME NEW s, NEW t, Precedes(q, s, t) \/ (s \in Range(q) /\ t = e)
      PROVE  Precedes(r, s, t)
  <2>1. CASE Precedes(q, s, t)
    BY <1>1, <2>1 DEF Precedes
  <2>2. CASE s \in Range(q) /\ t = e
    BY <1>1, <2>2 DEF Precedes, Range
  <2>3. QED
    BY <1>6, <2>1, <2>2
<1>7. QED
  BY <1>1, <1>3, <1>4, <1>5, <1>6 DEF r

-----------------------------------------------------------------------------
(* The inductive invariant. *)

\* The notifier, and nobody else, holds the lock of the table.
TableLocked == \A a \in Agents : op[a].pc = "notify" <=> registryLock = a

\* A wait that expired, and nobody else, holds the lock of its status.
StatusLocked ==
  \A a \in Agents, s \in Sessions :
    statusLock[s] = a <=> op[a].pc = "unlist" /\ op[a].s = s

\* Everybody who is about to register finds an unused session.
Registering == {a \in Agents : op[a].pc = "register"}
SessionsSuffice == Cardinality(Registering) <= Cardinality(Unused)

\* A thread blocks in a session of its own.
BlockedInOwn ==
  \A a \in Agents : op[a].pc \in {"block", "asleep", "unlist"} =>
    LET s == op[a].s IN
      /\ waiter[s].owner = a /\ waiter[s].promise = None /\ status[s] # "unused"
      /\ op[a].pc = "unlist" => status[s] = "timedOut"

\* A timer belongs to a waitAsync; it pushes the handle of an expired one.
TimersAreAsync ==
  \A s \in Sessions : timer[s] # "none" =>
    /\ IsAsync(s) /\ status[s] # "unused"
    /\ timer[s] = "push" => status[s] = "timedOut"

\* A session is registered once, by some agent.
RegisteredOnce ==
  /\ Distinct(registry)
  /\ \A s \in Sessions : status[s] # "unused" => waiter[s].owner \in Agents
  /\ \A s \in Range(registry) : status[s] # "unused"

\* What a notifier keeps and has still to look at is part of the list, in its
\* order, and it passes nobody by who waits until it has met its limit.
Remaining(a) == op[a].kept \o op[a].batch
ScanInOrder ==
  \A a \in Agents : op[a].pc = "notify" =>
    /\ Distinct(Remaining(a)) /\ Range(Remaining(a)) \subseteq Range(registry)
    /\ \A s, t \in Sessions : Precedes(Remaining(a), s, t) => Precedes(registry, s, t)
    /\ Counted(op[a].served) < op[a].limit =>
         \A s \in Range(op[a].kept) : status[s] # "waiting"

\* What is on the list waits or has expired.
ListedStatus == \A s \in Listed : status[s] \in {"waiting", "timedOut"}

IInv ==
  /\ WaitersTypeOK /\ TableLocked /\ StatusLocked /\ SessionsSuffice
  /\ BlockedInOwn /\ TimersAreAsync /\ RegisteredOnce /\ ScanInOrder
  /\ ListedStatus /\ ListedIsTended


-----------------------------------------------------------------------------
(* Facts the steps share. *)

\* What kind of record op[a] is, by its label.
LEMMA OpKinds ==
  ASSUME WaitersTypeOK, NEW a \in Agents
  PROVE  /\ op[a].pc \in {"idle", "register", "block", "asleep", "unlist", "notify"}
         /\ op[a].pc = "idle" <=> op[a] = Idle
         /\ op[a].pc = "register" => op[a] \in [pc : {"register"}, async : BOOLEAN, timed : BOOLEAN]
         /\ op[a].pc \in {"block", "asleep", "unlist"} =>
              op[a] \in [pc : {"block", "asleep", "unlist"}, s : Sessions]
         /\ op[a].pc = "notify" =>
              op[a] \in [pc : {"notify"}, limit : Limits, batch : Seq(Sessions),
                         kept : Seq(Sessions), served : Seq(Sessions)]
  BY DEF WaitersTypeOK, OpTypes, Idle

LEMMA RegistrySeq ==
  ASSUME WaitersTypeOK
  PROVE  Range(registry) \subseteq Sessions /\ DOMAIN registry = 1..Len(registry)
  BY RangeOfSeq, LenProperties DEF WaitersTypeOK

\* While a notifier scans, the list is Remaining.
LEMMA ListedRemaining ==
  ASSUME WaitersTypeOK, NEW a \in Agents, op[a].pc = "notify", registryLock = a
  PROVE  Listed = Range(Remaining(a)) /\ Remaining(a) \in Seq(Sessions)
<1>1. op[a].batch \in Seq(Sessions) /\ op[a].kept \in Seq(Sessions) /\ registryLock # None
  BY OpKinds, WaiterAssumption
<1>2. QED
  BY <1>1, RangeConcatenation, ConcatProperties DEF Listed, Remaining

LEMMA ListedSessions ==
  ASSUME WaitersTypeOK, TableLocked
  PROVE  Listed \subseteq Sessions
<1>1. CASE registryLock = None
  BY <1>1, RegistrySeq DEF Listed
<1>2. CASE registryLock # None
  <2>1. registryLock \in Agents /\ op[registryLock].pc = "notify"
    BY <1>2 DEF WaitersTypeOK, TableLocked
  <2>2. op[registryLock].batch \in Seq(Sessions) /\ op[registryLock].kept \in Seq(Sessions)
    BY <2>1, OpKinds
  <2>3. QED
    BY <1>2, <2>2, RangeOfSeq DEF Listed
<1>3. QED
  BY <1>1, <1>2

\* The counts of agents about to register and of unused sessions are numbers.
LEMMA FiniteCounts ==
  /\ IsFiniteSet(Registering) /\ IsFiniteSet(Unused)
  /\ Cardinality(Registering) \in Nat /\ Cardinality(Unused) \in Nat
<1>1. IsFiniteSet(Sessions)
  BY FS_Interval, WaiterAssumption DEF Sessions
<1>2. IsFiniteSet(Unused) /\ IsFiniteSet(Registering)
  BY <1>1, FS_Subset, WaiterAssumption DEF Unused, Registering
<1>3. QED
  BY <1>2, FS_CardinalityType

\* A step of an agent that is no notifier, before or after it, and that leaves
\* the table alone, leaves the list as it is.
LEMMA TableFrame ==
  ASSUME WaitersTypeOK, TableLocked,
         NEW a \in Agents, op[a].pc # "notify", op'[a].pc # "notify",
         \A b \in Agents \ {a} : op'[b] = op[b], UNCHANGED <<registry, registryLock>>
  PROVE  /\ TableLocked' /\ Listed' = Listed
         /\ \A b \in Agents : op'[b].pc = "notify" => op'[b] = op[b]
<1>1. registryLock # None => op'[registryLock] = op[registryLock]
  BY DEF TableLocked, WaitersTypeOK
<1>2. Listed' = Listed
  BY <1>1 DEF Listed
<1>3. QED
  BY <1>2 DEF TableLocked

\* Neither does it disturb the notifier, if no session begins to wait.
LEMMA ScanFrame ==
  ASSUME WaitersTypeOK, ScanInOrder, UNCHANGED <<registry, waiter>>,
         \A b \in Agents : op'[b].pc = "notify" => op'[b] = op[b],
         \A s \in Sessions : status'[s] = "waiting" => status[s] = "waiting"
  PROVE  ScanInOrder'
<1> SUFFICES ASSUME NEW b \in Agents, op'[b].pc = "notify"
             PROVE  /\ Distinct(Remaining(b)') /\ Range(Remaining(b)') \subseteq Range(registry')
                    /\ \A s, t \in Sessions :
                         Precedes(Remaining(b)', s, t) => Precedes(registry', s, t)
                    /\ Counted(op[b].served)' < op'[b].limit =>
                         \A s \in Range(op'[b].kept) : status'[s] # "waiting"
  BY DEF ScanInOrder
<1>1. op'[b] = op[b] /\ op[b].pc = "notify"
  OBVIOUS
<1>2. Range(op[b].kept) \subseteq Sessions
  BY <1>1, OpKinds, RangeOfSeq
<1>3. Counted(op[b].served)' = Counted(op[b].served)
  BY <1>1 DEF Counted, IsAsync
<1>4. Remaining(b)' = Remaining(b)
  BY <1>1 DEF Remaining
<1>5. QED
  BY <1>1, <1>2, <1>3, <1>4 DEF ScanInOrder

LEMMA CountedNat ==
  ASSUME NEW q \in Seq(Sessions)
  PROVE  Counted(q) \in Nat
<1>1. DOMAIN q = 1..Len(q) /\ Len(q) \in Nat
  BY LenProperties
<1>2. IsFiniteSet(DOMAIN q)
  BY <1>1, FS_Interval
<1>3. IsFiniteSet({i \in DOMAIN q : IsAsync(q[i])})
  BY <1>2, FS_Subset
<1>4. QED
  BY <1>3, FS_CardinalityType DEF Counted

LEMMA ConcatPrefix ==
  ASSUME NEW S, NEW p \in Seq(S), NEW q \in Seq(S)
  PROVE  /\ DOMAIN p = 1..Len(p) /\ Len(p) \in Nat /\ DOMAIN (p \o q) \subseteq Nat \ {0}
         /\ \A i \in DOMAIN p : (p \o q)[i] = p[i]
<1> DEFINE m == Len(p)
           n == Len(q)
           c == p \o q
<1>1. /\ m \in Nat /\ n \in Nat /\ DOMAIN p = 1..m /\ DOMAIN c = 1..(m + n)
      /\ \A i \in 1..(m + n) : c[i] = IF i <= m THEN p[i] ELSE q[i - m]
  BY ConcatProperties, LenProperties
<1> HIDE DEF m, n, c
<1>2. DOMAIN c \subseteq Nat \ {0} /\ \A i \in DOMAIN p : c[i] = p[i]
  BY <1>1
<1>3. QED
  BY <1>1, <1>2 DEF m, c

\* The head of the batch is kept or dropped.
LEMMA HeadLeaves ==
  ASSUME NEW S, NEW p \in Seq(S), NEW q \in Seq(S), q # <<>>
  PROVE  /\ Append(p, Head(q)) \o Tail(q) = p \o q
         /\ Len(p) + 1 \in DOMAIN (p \o q) /\ (p \o q)[Len(p) + 1] = Head(q)
         /\ p \o Tail(q) = RemoveAt(p \o q, Len(p) + 1)
<1> DEFINE m == Len(p)
           n == Len(q)
           t == Tail(q)
           c == p \o q
           h == Append(p, Head(q))
           l == h \o t
           k == p \o t
           r == RemoveAt(c, m + 1)
<1>1. /\ m \in Nat /\ n \in Nat \ {0} /\ Head(q) = q[1] /\ Head(q) \in S
      /\ t \in Seq(S) /\ Len(t) = n - 1
      /\ \A i \in 1..(n - 1) : t[i] = q[i + 1]
  BY LenProperties, EmptySeq, HeadTailProperties
<1>2. /\ c \in Seq(S) /\ Len(c) = m + n
      /\ \A i \in 1..(m + n) : c[i] = IF i <= m THEN p[i] ELSE q[i - m]
  BY ConcatProperties
<1>3. /\ h \in Seq(S) /\ Len(h) = m + 1
      /\ \A i \in 1..m : h[i] = p[i]
      /\ h[m + 1] = q[1]
  BY <1>1, AppendProperties
<1>4. /\ l \in Seq(S) /\ Len(l) = Len(h) + Len(t)
      /\ \A i \in 1..(Len(h) + Len(t)) :
           l[i] = IF i <= Len(h) THEN h[i] ELSE t[i - Len(h)]
  BY <1>1, <1>3, ConcatProperties
<1>5. /\ k \in Seq(S) /\ Len(k) = m + Len(t)
      /\ \A i \in 1..(m + Len(t)) : k[i] = IF i <= m THEN p[i] ELSE t[i - m]
  BY <1>1, ConcatProperties
<1>6. DOMAIN c = 1..(m + n)
  BY <1>2, LenProperties
<1> HIDE DEF m, n, t, c, h, l, k, r
<1>7. m + 1 \in DOMAIN c /\ c[m + 1] = Head(q)
  <2>1. m + 1 \in 1..(m + n) /\ ~(m + 1 <= m) /\ m + 1 - m = 1
    BY <1>1
  <2>2. QED
    BY <1>1, <1>2, <1>6, <2>1
<1>8. /\ r \in Seq(S) /\ Len(r) = Len(c) - 1
      /\ \A i \in 1..(Len(c) - 1) : r[i] = IF i < m + 1 THEN c[i] ELSE c[i + 1]
  BY <1>2, <1>7, RemoveAtElements DEF r
<1>9. l = c
  <2>1. Len(h) + Len(t) = m + n /\ Len(l) = m + n
    BY <1>1, <1>3, <1>4
  <2>2. ASSUME NEW i \in 1..(m + n)
        PROVE  l[i] = c[i]
    <3>1. l[i] = IF i <= m + 1 THEN h[i] ELSE t[i - (m + 1)]
      BY <1>3, <1>4, <2>1
    <3>2. c[i] = IF i <= m THEN p[i] ELSE q[i - m]
      BY <1>2
    <3>3. CASE i <= m
      BY <1>1, <1>3, <3>1, <3>2, <3>3
    <3>4. CASE i = m + 1
      <4>1. i - m = 1 /\ ~(i <= m)
        BY <1>1, <3>4
      <4>2. QED
        BY <1>3, <3>1, <3>2, <3>4, <4>1
    <3>5. CASE i > m + 1
      <4>1. i - (m + 1) \in 1..(n - 1) /\ i - (m + 1) + 1 = i - m /\ ~(i <= m) /\ ~(i <= m + 1)
        BY <1>1, <3>5
      <4>2. t[i - (m + 1)] = q[i - m]
        BY <1>1, <4>1
      <4>3. QED
        BY <3>1, <3>2, <4>1, <4>2
    <3>6. QED
      BY <1>1, <3>3, <3>4, <3>5
  <2>3. QED
    BY <1>2, <1>4, <2>1, <2>2, SeqEqual
<1>10. k = r
  <2>1. /\ Len(c) - 1 = m + n - 1 /\ m + Len(t) = m + n - 1
        /\ Len(k) = m + n - 1 /\ Len(r) = m + n - 1
    BY <1>1, <1>2, <1>5, <1>8
  <2>2. ASSUME NEW i \in 1..(m + n - 1)
        PROVE  k[i] = r[i]
    <3>1. k[i] = IF i <= m THEN p[i] ELSE t[i - m]
      BY <1>5, <2>1
    <3>2. r[i] = IF i < m + 1 THEN c[i] ELSE c[i + 1]
      BY <1>8, <2>1
    <3>3. CASE i <= m
      <4>1. i < m + 1 /\ i \in 1..(m + n)
        BY <1>1, <3>3
      <4>2. QED
        BY <1>2, <3>1, <3>2, <3>3, <4>1
    <3>4. CASE i > m
      <4>1. /\ i - m \in 1..(n - 1) /\ i - m + 1 = (i + 1) - m /\ ~(i <= m)
            /\ ~(i < m + 1) /\ i + 1 \in 1..(m + n) /\ ~(i + 1 <= m)
        BY <1>1, <3>4
      <4>2. t[i - m] = q[(i + 1) - m]
        BY <1>1, <4>1
      <4>3. \A x \in 1..(m + n) : ~(x <= m) => c[x] = q[x - m]
        BY <1>2
      <4>4. QED
        <5>1. c[i + 1] = q[(i + 1) - m]
          BY <4>1, <4>3, Zenon
        <5>2. k[i] = t[i - m] /\ r[i] = c[i + 1]
          BY <3>1, <3>2, <4>1
        <5>3. QED
          BY <4>2, <5>1, <5>2, Zenon
    <3>5. QED
      BY <1>1, <3>3, <3>4
  <2>3. QED
    BY <1>5, <1>8, <2>1, <2>2, SeqEqual
<1>11. QED
  BY <1>7, <1>9, <1>10 DEF m, t, c, h, l, k, r

-----------------------------------------------------------------------------
(* Every step keeps the invariant. *)

LEMMA InitInv == WaitersInit => IInv
<1> SUFFICES ASSUME WaitersInit PROVE IInv
  OBVIOUS
<1> USE WaiterAssumption
<1>1. WaitersTypeOK
  <2>1. <<>> \in Seq(Sessions) /\ <<>> \in Seq(Handles)
    BY EmptySeq
  <2>2. op \in [Agents -> {Idle}]
    BY DEF WaitersInit
  <2>3. QED
    BY <2>1, <2>2 DEF WaitersInit, WaitersTypeOK, OpTypes
<1>2. TableLocked /\ StatusLocked
  BY DEF WaitersInit, TableLocked, StatusLocked, Idle
<1>3. SessionsSuffice
  <2>1. Registering = {}
    BY DEF WaitersInit, Registering, Idle
  <2>2. QED
    BY <2>1, FS_EmptySet, FiniteCounts DEF SessionsSuffice
<1>4. BlockedInOwn /\ TimersAreAsync /\ ScanInOrder
  BY DEF WaitersInit, BlockedInOwn, TimersAreAsync, ScanInOrder, Idle
<1>5. Range(registry) = {} /\ Listed = {} /\ DOMAIN registry = {}
  <2>1. registry = <<>> /\ registryLock = None
    BY DEF WaitersInit
  <2>2. DOMAIN registry = {}
    BY <2>1
  <2>3. QED
    BY <2>1, <2>2 DEF Range, Listed
<1>6. RegisteredOnce /\ ListedStatus
  BY <1>5 DEF RegisteredOnce, Distinct, ListedStatus, WaitersInit
<1>7. ListedIsTended
  BY <1>5 DEF ListedIsTended, WaitersInit
<1>8. QED
  BY <1>1, <1>2, <1>3, <1>4, <1>6, <1>7 DEF IInv

LEMMA CompareKeeps ==
  ASSUME IInv, NEW a \in Agents, NEW async \in BOOLEAN, NEW timed \in BOOLEAN,
         Compare(a, async, timed)
  PROVE  IInv'
<1> USE DEF IInv
<1>1. /\ op[a] = Idle /\ op[a].pc = "idle"
      /\ op' = [op EXCEPT ![a] = [pc |-> "register", async |-> async, timed |-> timed]]
      /\ Cardinality(Registering) < Cardinality(Unused)
      /\ UNCHANGED <<registry, registryLock, status, statusLock, waiter, timer, timeouts, promise>>
  BY DEF Compare, SetOp, sessionVars, Registering, Idle
<1>2. WaitersTypeOK'
  BY <1>1 DEF WaitersTypeOK, OpTypes
<1>3. /\ op'[a].pc = "register" /\ \A b \in Agents \ {a} : op'[b] = op[b]
  BY <1>1 DEF WaitersTypeOK
<1>4. TableLocked' /\ StatusLocked' /\ BlockedInOwn' /\ TimersAreAsync' /\ RegisteredOnce'
  BY <1>1, <1>3 DEF TableLocked, StatusLocked, BlockedInOwn, TimersAreAsync, RegisteredOnce, IsAsync
<1>5. SessionsSuffice'
  <2>1. Registering' = Registering \cup {a} /\ a \notin Registering
    BY <1>1, <1>3 DEF Registering
  <2>2. Unused' = Unused
    BY <1>1 DEF Unused
  <2>3. Cardinality(Registering') = Cardinality(Registering) + 1
    BY <2>1, FS_AddElement, FiniteCounts
  <2>4. QED
    BY <1>1, <2>2, <2>3, FiniteCounts DEF SessionsSuffice
<1>6. ScanInOrder'
  BY <1>1, <1>3 DEF ScanInOrder, Remaining, Counted, IsAsync
<1>7. Listed' = Listed
  BY <1>1, <1>3 DEF Listed, TableLocked
<1>8. ListedStatus' /\ ListedIsTended'
  BY <1>1, <1>3, <1>7 DEF ListedStatus, ListedIsTended, IsAsync
<1>9. QED
  BY <1>2, <1>4, <1>5, <1>6, <1>8

LEMMA RegisterKeeps ==
  ASSUME IInv, NEW a \in Agents, Register(a)
  PROVE  IInv'
<1> USE DEF IInv
<1> DEFINE s == CHOOSE s \in Unused : \A t \in Unused : s <= t
           h == IF op[a].async THEN waiter'[s].promise ELSE None
<1>1. s \in Unused /\ s \in Sessions /\ Unused # {}
  <2>1. a \in Registering
    BY DEF Register, Registering
  <2>2. Unused # {}
    BY <2>1, FiniteCounts, FS_EmptySet DEF SessionsSuffice
  <2>3. Unused \in SUBSET Nat
    BY WaiterAssumption DEF Unused, Sessions
  <2>4. QED
    BY <2>2, <2>3, LeastNumber DEF Unused
<1> HIDE DEF s
<1>2. /\ op[a] \in [pc : {"register"}, async : BOOLEAN, timed : BOOLEAN]
      /\ registryLock = None /\ UNCHANGED <<registryLock, statusLock, timeouts>>
      /\ registry' = Append(registry, s)
      /\ status' = [status EXCEPT ![s] = "waiting"]
      /\ \/ /\ op[a].async
            /\ \E handle \in Handles :
                 /\ waiter' = [waiter EXCEPT ![s] = [owner |-> a, promise |-> handle, timed |-> op[a].timed]]
                 /\ promise' = [promise EXCEPT ![a][handle] = "pending"]
            /\ timer' = [timer EXCEPT ![s] = "sleep"]
            /\ op' = [op EXCEPT ![a] = Idle]
         \/ /\ ~op[a].async
            /\ waiter' = [waiter EXCEPT ![s] = [owner |-> a, promise |-> None, timed |-> op[a].timed]]
            /\ op' = [op EXCEPT ![a] = [pc |-> "block", s |-> s]]
            /\ UNCHANGED <<promise, timer>>
  BY OpKinds DEF Register, Enlist, SetOp, s
<1>3. status[s] = "unused" /\ s \notin Range(registry) /\ timer[s] = "none"
  BY <1>1 DEF Unused, RegisteredOnce, TimersAreAsync
<1>4. /\ registry' \in Seq(Sessions) /\ Distinct(registry')
      /\ Range(registry') = Range(registry) \cup {s}
  BY <1>1, <1>2, <1>3, AppendDistinct DEF WaitersTypeOK, RegisteredOnce
<1>5. WaitersTypeOK'
  <2>1. /\ registry' \in Seq(Sessions) /\ registryLock' \in Agents \cup {None}
        /\ status' \in [Sessions -> {"unused", "waiting", "notified", "timedOut"}]
        /\ statusLock' \in [Sessions -> Agents \cup {None}] /\ timeouts' \in Seq(Handles)
    BY <1>1, <1>2, <1>4 DEF WaitersTypeOK
  <2>2. waiter' \in [Sessions -> [owner : Agents \cup {None}, promise : Handles \cup {None},
                                  timed : BOOLEAN]]
    <3>1. PICK handle \in Handles \cup {None} :
            waiter' = [waiter EXCEPT ![s] = [owner |-> a, promise |-> handle, timed |-> op[a].timed]]
      BY <1>2
    <3>2. QED
      BY <1>1, <1>2, <3>1 DEF WaitersTypeOK
  <2>3. promise' \in [Agents -> [Handles -> {"none", "pending", "ok", "timedOut"}]]
    <3>1. \/ UNCHANGED promise
          \/ \E handle \in Handles : promise' = [promise EXCEPT ![a][handle] = "pending"]
      BY <1>2
    <3>2. promise \in [Agents -> [Handles -> {"none", "pending", "ok", "timedOut"}]]
      BY DEF WaitersTypeOK
    <3>3. QED
      BY <3>1, <3>2
  <2>4. timer' \in [Sessions -> {"none", "sleep", "push", "remove", "done"}]
    BY <1>1, <1>2 DEF WaitersTypeOK
  <2>5. op' \in [Agents -> OpTypes]
    <3>1. Idle \in OpTypes /\ [pc |-> "block", s |-> s] \in OpTypes
      BY <1>1 DEF OpTypes
    <3>2. op \in [Agents -> OpTypes]
      BY DEF WaitersTypeOK
    <3>3. QED
      BY <1>2, <3>1, <3>2
  <2>6. QED
    BY <2>1, <2>2, <2>3, <2>4, <2>5 DEF WaitersTypeOK
<1>6. /\ op'[a].pc \in {"idle", "block"} /\ (op'[a].pc = "block" => op'[a].s = s)
      /\ \A b \in Agents \ {a} : op'[b] = op[b]
      /\ op[a].pc = "register"
      /\ \A t \in Sessions \ {s} : status'[t] = status[t] /\ waiter'[t] = waiter[t] /\ timer'[t] = timer[t]
      /\ status'[s] = "waiting" /\ waiter'[s].owner = a
      /\ op'[a].pc = "block" => waiter'[s].promise = None /\ timer'[s] = "none"
      /\ op'[a].pc = "idle" => waiter'[s].promise # None /\ timer'[s] = "sleep"
  BY <1>1, <1>2, <1>3, WaiterAssumption DEF WaitersTypeOK, Idle
<1>7. \A b \in Agents : op[b].pc # "notify" /\ op'[b].pc # "notify"
  BY <1>2, <1>6, WaiterAssumption DEF TableLocked
<1>8. TableLocked' /\ ScanInOrder'
  BY <1>2, <1>7, WaiterAssumption DEF TableLocked, ScanInOrder
<1>9. StatusLocked'
  BY <1>2, <1>6 DEF StatusLocked
<1>10. SessionsSuffice'
  <2>1. Registering' = Registering \ {a} /\ a \in Registering
    BY <1>6 DEF Registering
  <2>2. Unused' = Unused \ {s}
    BY <1>1, <1>6 DEF Unused
  <2>3. /\ Cardinality(Registering') = Cardinality(Registering) - 1
        /\ Cardinality(Unused') = Cardinality(Unused) - 1
    BY <1>1, <2>1, <2>2, FS_RemoveElement, FiniteCounts
  <2>4. QED
    BY <2>3, FiniteCounts DEF SessionsSuffice
<1>11. BlockedInOwn'
  <2> SUFFICES ASSUME NEW b \in Agents, op'[b].pc \in {"block", "asleep", "unlist"}
               PROVE  LET t == op'[b].s IN
                        /\ waiter'[t].owner = b /\ waiter'[t].promise = None /\ status'[t] # "unused"
                        /\ op'[b].pc = "unlist" => status'[t] = "timedOut"
    BY DEF BlockedInOwn
  <2>1. CASE b = a
    BY <1>6, <2>1
  <2>2. CASE b # a
    BY <1>3, <1>6, <2>2, OpKinds DEF BlockedInOwn
  <2>3. QED
    BY <2>1, <2>2
<1>12. TimersAreAsync'
  BY <1>6, WaiterAssumption DEF TimersAreAsync, IsAsync
<1>13. RegisteredOnce'
  BY <1>1, <1>4, <1>6, RegistrySeq DEF RegisteredOnce
<1>14. Listed = Range(registry) /\ Listed' = Listed \cup {s}
  BY <1>2, <1>4 DEF Listed
<1>15. ListedStatus'
  BY <1>3, <1>6, <1>14, RegistrySeq DEF ListedStatus
<1>16. ListedIsTended'
  <2>1. \A t \in Sessions : status'[t] = "waiting" => t \in Listed'
    BY <1>6, <1>14 DEF ListedIsTended
  <2>2. ASSUME NEW t \in Listed'
        PROVE  LET b == waiter'[t].owner IN
                 IF waiter'[t].promise # None
                 THEN timer'[t] \in (IF status'[t] = "waiting" THEN {"sleep"} ELSE {"push", "remove"})
                 ELSE op'[b].pc \in (IF status'[t] = "waiting" THEN {"block", "asleep"} ELSE {"unlist"}) /\ op'[b].s = t
    <3>1. CASE t = s
      BY <1>6, <3>1
    <3>2. CASE t # s
      <4>1. t \in Listed /\ t \in Sessions
        BY <1>14, <3>2, RegistrySeq
      <4>2. waiter[t].promise = None => waiter[t].owner # a
        BY <1>6, <4>1 DEF ListedIsTended, IsAsync
      <4>3. waiter[t].promise = None => waiter[t].owner \in Agents
        BY <4>1, <1>14 DEF RegisteredOnce
      <4>4. QED
        BY <1>6, <3>2, <4>1, <4>2, <4>3 DEF ListedIsTended, IsAsync
    <3>3. QED
      BY <3>1, <3>2
  <2>3. QED
    BY <2>1, <2>2 DEF ListedIsTended, IsAsync
<1>17. QED
  BY <1>5, <1>8, <1>9, <1>10, <1>11, <1>12, <1>13, <1>15, <1>16

\* Block and Wake: a thread that waits in a session looks at its status.
LEMMA LookKeeps ==
  ASSUME IInv, NEW a \in Agents, op[a].pc \in {"block", "asleep"},
         \/ status[op[a].s] = "waiting" /\ op' = [op EXCEPT ![a] = [op[a] EXCEPT !.pc = "asleep"]]
         \/ status[op[a].s] # "waiting" /\ op' = [op EXCEPT ![a] = Idle],
         UNCHANGED <<registry, registryLock, sessionVars, timer, timeouts, promise>>
  PROVE  IInv'
<1> USE DEF IInv
<1> DEFINE s == op[a].s
<1>1. /\ op[a] \in [pc : {"block", "asleep", "unlist"}, s : Sessions] /\ s \in Sessions
      /\ waiter[s].owner = a /\ waiter[s].promise = None /\ status[s] # "unused"
      /\ UNCHANGED <<registry, registryLock, status, statusLock, waiter, timer, timeouts, promise>>
  BY OpKinds DEF BlockedInOwn, sessionVars
<1>2. WaitersTypeOK'
  <2>1. [op[a] EXCEPT !.pc = "asleep"] \in OpTypes /\ Idle \in OpTypes
    BY <1>1 DEF OpTypes
  <2>2. op' \in [Agents -> OpTypes]
    BY <2>1 DEF WaitersTypeOK
  <2>3. QED
    BY <1>1, <2>2 DEF WaitersTypeOK
<1>3. /\ \A b \in Agents \ {a} : op'[b] = op[b]
      /\ op'[a].pc \in {"asleep", "idle"} /\ (op'[a].pc = "asleep" => op'[a].s = s)
      /\ (op'[a].pc = "idle" => status[s] # "waiting")
  BY <1>1 DEF WaitersTypeOK, Idle
<1>4. /\ TableLocked' /\ Listed' = Listed
      /\ \A b \in Agents : op'[b].pc = "notify" => op'[b] = op[b]
  BY <1>1, <1>3, TableFrame
<1>5. StatusLocked' /\ BlockedInOwn' /\ TimersAreAsync' /\ RegisteredOnce' /\ ListedStatus'
  BY <1>1, <1>3, <1>4 DEF StatusLocked, BlockedInOwn, TimersAreAsync, RegisteredOnce, ListedStatus, IsAsync
<1>6. SessionsSuffice'
  <2>1. Registering' = Registering /\ Unused' = Unused
    BY <1>1, <1>3 DEF Registering, Unused
  <2>2. QED
    BY <2>1 DEF SessionsSuffice
<1>7. ScanInOrder'
  BY <1>1, <1>4, ScanFrame
<1>8. ListedIsTended'
  <2>1. ASSUME NEW t \in Listed, ~IsAsync(t)
        PROVE  op'[waiter[t].owner].pc \in (IF status[t] = "waiting" THEN {"block", "asleep"} ELSE {"unlist"})
               /\ op'[waiter[t].owner].s = t
    <3>1. waiter[t].owner \in Agents
      BY <2>1, RegistrySeq, <1>1, ListedSessions DEF ListedStatus, RegisteredOnce
    <3>2. QED
      BY <1>1, <1>3, <2>1, <3>1 DEF ListedIsTended
  <2>2. QED
    BY <1>1, <1>4, <2>1 DEF ListedIsTended, IsAsync
<1>9. QED
  BY <1>2, <1>4, <1>5, <1>6, <1>7, <1>8

LEMMA ExpireKeeps ==
  ASSUME IInv, NEW a \in Agents, Expire(a)
  PROVE  IInv'
<1> USE DEF IInv
<1> DEFINE s == op[a].s
<1>1. /\ op[a] \in [pc : {"block", "asleep", "unlist"}, s : Sessions] /\ s \in Sessions
      /\ op[a].pc = "asleep" /\ waiter[s].owner = a /\ waiter[s].promise = None
      /\ status[s] = "waiting" /\ statusLock[s] = None
      /\ status' = [status EXCEPT ![s] = "timedOut"]
      /\ statusLock' = [statusLock EXCEPT ![s] = a]
      /\ op' = [op EXCEPT ![a] = [op[a] EXCEPT !.pc = "unlist"]]
      /\ UNCHANGED <<registry, registryLock, waiter, timer, timeouts, promise>>
  BY OpKinds DEF BlockedInOwn, Expire, SetOp
<1>2. WaitersTypeOK'
  <2>1. [op[a] EXCEPT !.pc = "unlist"] \in OpTypes
    BY <1>1 DEF OpTypes
  <2>2. op' \in [Agents -> OpTypes]
    BY <1>1, <2>1 DEF WaitersTypeOK
  <2>3. QED
    BY <1>1, <2>2 DEF WaitersTypeOK
<1>3. /\ \A b \in Agents \ {a} : op'[b] = op[b]
      /\ op'[a].pc = "unlist" /\ op'[a].s = s
      /\ \A t \in Sessions \ {s} : status'[t] = status[t] /\ statusLock'[t] = statusLock[t]
      /\ status'[s] = "timedOut" /\ statusLock'[s] = a
  BY <1>1 DEF WaitersTypeOK
<1>4. /\ TableLocked' /\ Listed' = Listed
      /\ \A b \in Agents : op'[b].pc = "notify" => op'[b] = op[b]
  BY <1>1, <1>3, TableFrame
<1>5. StatusLocked'
  BY <1>1, <1>3, WaiterAssumption DEF StatusLocked
<1>6. BlockedInOwn'
  BY <1>1, <1>3, OpKinds DEF BlockedInOwn
<1>7. TimersAreAsync' /\ RegisteredOnce'
  BY <1>1, <1>3, RegistrySeq DEF TimersAreAsync, RegisteredOnce, IsAsync
<1>8. ListedStatus'
  BY <1>1, <1>3, <1>4, ListedSessions DEF ListedStatus
<1>9. SessionsSuffice'
  <2>1. Registering' = Registering /\ Unused' = Unused
    BY <1>1, <1>3 DEF Registering, Unused
  <2>2. QED
    BY <2>1 DEF SessionsSuffice
<1>10. ScanInOrder'
  <2>1. \A t \in Sessions : status'[t] = "waiting" => status[t] = "waiting"
    BY <1>1, <1>3
  <2>2. QED
    BY <1>1, <1>4, <2>1, ScanFrame
<1>11. ListedIsTended'
  <2>1. ASSUME NEW t \in Listed, ~IsAsync(t)
        PROVE  op'[waiter[t].owner].pc \in (IF status'[t] = "waiting" THEN {"block", "asleep"} ELSE {"unlist"})
               /\ op'[waiter[t].owner].s = t
    <3>1. waiter[t].owner \in Agents /\ t \in Sessions
      BY <2>1, ListedSessions DEF ListedStatus, RegisteredOnce
    <3>2. QED
      BY <1>1, <1>3, <2>1, <3>1 DEF ListedIsTended
  <2>2. ASSUME NEW t \in Listed, IsAsync(t)
        PROVE  timer[t] \in (IF status'[t] = "waiting" THEN {"sleep"} ELSE {"push", "remove"})
    <3>1. t # s /\ t \in Sessions
      BY <1>1, <2>2, ListedSessions DEF IsAsync
    <3>2. QED
      BY <1>3, <2>2, <3>1 DEF ListedIsTended
  <2>3. \A t \in Sessions : status'[t] = "waiting" => status[t] = "waiting"
    BY <1>1, <1>3
  <2>4. QED
    BY <1>1, <1>4, <2>1, <2>2, <2>3 DEF ListedIsTended, IsAsync
<1>12. QED
  BY <1>2, <1>4, <1>5, <1>6, <1>7, <1>8, <1>9, <1>10, <1>11

\* Who is no longer waiting leaves the list.
LEMMA ListLoses ==
  ASSUME IInv, NEW s \in Sessions, registryLock = None, status[s] # "waiting",
         registry' = RemoveFirst(registry, s), UNCHANGED <<registryLock, status, waiter>>
  PROVE  /\ registry' \in Seq(Sessions) /\ RegisteredOnce'
         /\ Listed \subseteq Sessions /\ Listed' = Listed \ {s} /\ ListedStatus'
         /\ \A a \in Agents : op[a].pc # "notify"
         /\ \A t \in Sessions : status'[t] = "waiting" => t \in Listed'
<1> USE DEF IInv
<1>1. /\ registry' \in Seq(Sessions) /\ Distinct(registry')
      /\ Range(registry') = Range(registry) \ {s}
  BY RemoveFirstDistinct DEF WaitersTypeOK, RegisteredOnce
<1>2. Listed' = Listed \ {s} /\ Listed = Range(registry)
  BY <1>1 DEF Listed
<1>3. RegisteredOnce' /\ ListedStatus'
  BY <1>1, <1>2 DEF RegisteredOnce, ListedStatus
<1>4. \A a \in Agents : op[a].pc # "notify"
  BY WaiterAssumption DEF TableLocked
<1>5. QED
  BY <1>1, <1>2, <1>3, <1>4, ListedSessions DEF ListedIsTended

LEMMA UnlistKeeps ==
  ASSUME IInv, NEW a \in Agents, Unlist(a)
  PROVE  IInv'
<1> USE DEF IInv
<1> DEFINE s == op[a].s
<1>1. /\ op[a] \in [pc : {"block", "asleep", "unlist"}, s : Sessions] /\ s \in Sessions
      /\ op[a].pc = "unlist" /\ waiter[s].owner = a /\ waiter[s].promise = None
      /\ status[s] = "timedOut" /\ registryLock = None
      /\ registry' = RemoveFirst(registry, s)
      /\ statusLock' = [statusLock EXCEPT ![s] = None]
      /\ op' = [op EXCEPT ![a] = Idle]
      /\ UNCHANGED <<registryLock, status, waiter, timer, timeouts, promise>>
  BY OpKinds DEF BlockedInOwn, Unlist, SetOp
<1>2. /\ registry' \in Seq(Sessions) /\ RegisteredOnce'
      /\ Listed \subseteq Sessions /\ Listed' = Listed \ {s} /\ ListedStatus'
      /\ \A b \in Agents : op[b].pc # "notify"
      /\ \A t \in Sessions : status'[t] = "waiting" => t \in Listed'
  BY <1>1, ListLoses
<1>3. WaitersTypeOK'
  <2>1. op' \in [Agents -> OpTypes]
    BY <1>1 DEF WaitersTypeOK, OpTypes
  <2>2. QED
    BY <1>1, <1>2, <2>1 DEF WaitersTypeOK
<1>4. /\ op'[a].pc = "idle" /\ \A b \in Agents \ {a} : op'[b] = op[b]
      /\ statusLock'[s] = None /\ \A t \in Sessions \ {s} : statusLock'[t] = statusLock[t]
  BY <1>1 DEF WaitersTypeOK, Idle
<1>5. TableLocked' /\ ScanInOrder'
  BY <1>1, <1>2, <1>4, WaiterAssumption DEF TableLocked, ScanInOrder
<1>6. StatusLocked'
  <2> SUFFICES ASSUME NEW b \in Agents, NEW t \in Sessions
               PROVE  statusLock'[t] = b <=> op'[b].pc = "unlist" /\ op'[b].s = t
    BY DEF StatusLocked
  <2>1. b # None
    BY WaiterAssumption
  <2>2. CASE b = a
    BY <1>1, <1>4, <2>1, <2>2 DEF StatusLocked
  <2>3. CASE b # a
    BY <1>1, <1>4, <2>1, <2>3 DEF StatusLocked
  <2>4. QED
    BY <2>2, <2>3
<1>7. BlockedInOwn' /\ TimersAreAsync'
  BY <1>1, <1>4 DEF BlockedInOwn, TimersAreAsync, IsAsync
<1>8. SessionsSuffice'
  <2>1. Registering' = Registering /\ Unused' = Unused
    BY <1>1, <1>4 DEF Registering, Unused
  <2>2. QED
    BY <2>1 DEF SessionsSuffice
<1>9. ListedIsTended'
  <2>1. ASSUME NEW t \in Listed', ~IsAsync(t)
        PROVE  op'[waiter[t].owner] = op[waiter[t].owner]
    <3>1. waiter[t].owner \in Agents /\ op[waiter[t].owner].s = t
      BY <1>2, <2>1 DEF ListedStatus, RegisteredOnce, ListedIsTended
    <3>2. QED
      BY <1>2, <1>4, <2>1, <3>1
  <2>2. QED
    BY <1>1, <1>2, <2>1 DEF ListedIsTended, IsAsync
<1>10. QED
  BY <1>2, <1>3, <1>5, <1>6, <1>7, <1>8, <1>9

\* TimerFires, TimerPushes and TimerRemoves leave the agents where they are.
LEMMA TimerKeeps ==
  ASSUME IInv, NEW s \in Sessions, TimerThread(s)
  PROVE  IInv'
<1> USE DEF IInv
<1>1. /\ timer[s] # "none" /\ IsAsync(s) /\ timer' = [timer EXCEPT ![s] = timer'[s]]
      /\ \/ timer[s] = "sleep" /\ status[s] = "waiting" /\ timer'[s] = "push"
         \/ timer[s] = "sleep" /\ status[s] # "waiting" /\ timer'[s] = "remove"
         \/ timer[s] = "push" /\ timer'[s] = "remove"
         \/ timer[s] = "remove" /\ timer'[s] = "done"
      /\ UNCHANGED <<registryLock, statusLock, waiter, promise, op>>
  BY DEF TimerThread, TimerFires, TimerPushes, TimerRemoves, TimersAreAsync, WaitersTypeOK,
         sessionVars
<1>2. /\ IF timer[s] = "sleep" /\ status[s] = "waiting"
         THEN status' = [status EXCEPT ![s] = "timedOut"] /\ statusLock[s] = None
         ELSE UNCHANGED status
      /\ IF timer[s] = "remove" THEN registryLock = None /\ registry' = RemoveFirst(registry, s)
         ELSE UNCHANGED registry
      /\ IF timer[s] = "push" THEN timeouts' = Append(timeouts, waiter[s].promise)
         ELSE UNCHANGED timeouts
  BY <1>1 DEF TimerThread, TimerFires, TimerPushes, TimerRemoves, sessionVars
<1>3. /\ \A t \in Sessions \ {s} : timer'[t] = timer[t] /\ status'[t] = status[t]
      /\ status'[s] # "waiting" => status'[s] \in {status[s], "timedOut"}
      /\ status'[s] = "waiting" => status[s] = "waiting"
      /\ status[s] = "unused" <=> status'[s] = "unused"
      /\ status[s] = "timedOut" => status'[s] = "timedOut"
      /\ timer'[s] = "push" => status'[s] = "timedOut"
  BY <1>1, <1>2 DEF WaitersTypeOK
<1>4. timer[s] = "remove" => status[s] # "waiting"
  <2>1. ASSUME timer[s] = "remove", status[s] = "waiting"
        PROVE  FALSE
    BY <1>1, <2>1 DEF ListedIsTended
  <2>2. QED
    BY <2>1
<1>5. /\ registry' \in Seq(Sessions) /\ RegisteredOnce'
      /\ Listed \subseteq Sessions
      /\ Listed' = IF timer[s] = "remove" THEN Listed \ {s} ELSE Listed
  <2>1. CASE timer[s] = "remove"
    BY <1>1, <1>2, <1>4, <2>1, ListLoses
  <2>2. CASE timer[s] # "remove"
    <3>1. UNCHANGED registry /\ Listed' = Listed
      BY <1>1, <1>2, <2>2 DEF Listed
    <3>2. QED
      BY <1>1, <1>3, <2>2, <3>1, ListedSessions, RegistrySeq DEF RegisteredOnce, WaitersTypeOK
  <2>3. QED
    BY <2>1, <2>2
<1>6. WaitersTypeOK'
  <2>1. timeouts' \in Seq(Handles)
    <3>1. waiter[s].promise \in Handles /\ timeouts \in Seq(Handles)
      BY <1>1 DEF WaitersTypeOK, IsAsync
    <3>2. Append(timeouts, waiter[s].promise) \in Seq(Handles)
      BY <3>1, AppendProperties
    <3>3. QED
      BY <1>2, <3>1, <3>2
  <2>2. status' \in [Sessions -> {"unused", "waiting", "notified", "timedOut"}]
    BY <1>1, <1>2 DEF WaitersTypeOK
  <2>3. timer' \in [Sessions -> {"none", "sleep", "push", "remove", "done"}]
    BY <1>1 DEF WaitersTypeOK
  <2>4. QED
    BY <1>1, <1>5, <2>1, <2>2, <2>3 DEF WaitersTypeOK
<1>7. TableLocked' /\ StatusLocked'
  BY <1>1 DEF TableLocked, StatusLocked
<1>8. BlockedInOwn'
  BY <1>1, <1>3, OpKinds DEF BlockedInOwn
<1>9. TimersAreAsync'
  BY <1>1, <1>3 DEF TimersAreAsync, IsAsync
<1>10. SessionsSuffice'
  <2>1. Registering' = Registering /\ Unused' = Unused
    BY <1>1, <1>3 DEF Registering, Unused
  <2>2. QED
    BY <2>1 DEF SessionsSuffice
<1>11. ScanInOrder'
  <2>1. CASE timer[s] = "remove"
    BY <1>1, <1>2, <1>4, <2>1, ListLoses DEF ScanInOrder
  <2>2. CASE timer[s] # "remove"
    <3>1. \A t \in Sessions : status'[t] = "waiting" => status[t] = "waiting"
      BY <1>3
    <3>2. QED
      BY <1>1, <1>2, <2>2, <3>1, ScanFrame
  <2>3. QED
    BY <2>1, <2>2
<1>12. ListedStatus'
  BY <1>3, <1>5 DEF ListedStatus
<1>13. ListedIsTended'
  <2>1. ASSUME NEW t \in Sessions, status'[t] = "waiting"
        PROVE  t \in Listed'
    <3>1. status[t] = "waiting"
      BY <1>3, <2>1
    <3>2. QED
      BY <1>4, <1>5, <2>1, <3>1 DEF ListedIsTended
  <2>2. ASSUME NEW t \in Listed'
        PROVE  LET b == waiter[t].owner IN
                 IF IsAsync(t)
                 THEN timer'[t] \in (IF status'[t] = "waiting" THEN {"sleep"} ELSE {"push", "remove"})
                 ELSE op[b].pc \in (IF status'[t] = "waiting" THEN {"block", "asleep"} ELSE {"unlist"}) /\ op[b].s = t
    <3>1. t \in Listed /\ t \in Sessions
      BY <1>5, <2>2
    <3>2. CASE t = s
      <4>1. timer[s] # "remove"
        BY <1>5, <2>2, <3>2
      <4>2. status[s] = "waiting" <=> timer[s] = "sleep"
        BY <1>1, <3>1, <3>2 DEF ListedIsTended
      <4>3. QED
        BY <1>1, <1>2, <1>3, <3>2, <4>1, <4>2
    <3>3. CASE t # s
      BY <1>3, <3>1, <3>3 DEF ListedIsTended
    <3>4. QED
      BY <3>2, <3>3
  <2>3. IsAsync(s)' = IsAsync(s) /\ \A t \in Listed' : IsAsync(t)' = IsAsync(t)
    BY <1>1 DEF IsAsync
  <2>4. QED
    BY <1>1, <2>1, <2>2, <2>3 DEF ListedIsTended
<1>14. QED
  BY <1>5, <1>6, <1>7, <1>8, <1>9, <1>10, <1>11, <1>12, <1>13

LEMMA PollTimeoutsKeeps ==
  ASSUME IInv, NEW a \in Agents, PollTimeouts(a)
  PROVE  IInv'
<1> USE DEF IInv
<1>1. /\ UNCHANGED <<registry, registryLock, status, statusLock, waiter, timer, op>>
      /\ timeouts' = <<>>
      /\ \E handles : Settle(a, handles, "timedOut")
  BY DEF PollTimeouts, sessionVars
<1>2. WaitersTypeOK'
  <2>1. promise' \in [Agents -> [Handles -> {"none", "pending", "ok", "timedOut"}]]
    BY <1>1 DEF WaitersTypeOK, Settle
  <2>2. <<>> \in Seq(Handles)
    BY EmptySeq
  <2>3. QED
    BY <1>1, <2>1, <2>2 DEF WaitersTypeOK
<1>3. TableLocked' /\ StatusLocked' /\ SessionsSuffice' /\ BlockedInOwn' /\ TimersAreAsync'
  BY <1>1 DEF TableLocked, StatusLocked, SessionsSuffice, Registering, Unused, BlockedInOwn,
              TimersAreAsync, IsAsync
<1>4. Listed' = Listed
  BY <1>1 DEF Listed
<1>5. RegisteredOnce' /\ ListedStatus' /\ ListedIsTended'
  BY <1>1, <1>4 DEF RegisteredOnce, ListedStatus, ListedIsTended, IsAsync
<1>6. ScanInOrder'
  BY <1>1, ScanFrame
<1>7. QED
  BY <1>2, <1>3, <1>5, <1>6

LEMMA NotifyBeginKeeps ==
  ASSUME IInv, NEW a \in Agents, NEW limit \in Limits, NotifyBegin(a, limit)
  PROVE  IInv'
<1> USE DEF IInv
<1> DEFINE scan == [pc |-> "notify", limit |-> limit, batch |-> registry, kept |-> <<>>, served |-> <<>>]
<1>1. /\ op[a].pc = "idle" /\ registryLock = None /\ registryLock' = a
      /\ op' = [op EXCEPT ![a] = scan]
      /\ UNCHANGED <<registry, status, statusLock, waiter, timer, timeouts, promise>>
  BY DEF NotifyBegin, SetOp, sessionVars, Idle
<1>2. <<>> \in Seq(Sessions) /\ scan \in OpTypes
  BY EmptySeq DEF OpTypes, WaitersTypeOK
<1>3. WaitersTypeOK'
  <2>1. op' \in [Agents -> OpTypes]
    BY <1>1, <1>2 DEF WaitersTypeOK
  <2>2. QED
    BY <1>1, <2>1 DEF WaitersTypeOK
<1>4. op'[a] = scan /\ \A b \in Agents \ {a} : op'[b] = op[b]
  BY <1>1 DEF WaitersTypeOK
<1> HIDE DEF scan
<1>5. /\ op'[a].pc = "notify" /\ op'[a].batch = registry /\ op'[a].kept = <<>>
      /\ Remaining(a)' = registry
  BY <1>4, ConcatEmptySeq DEF scan, Remaining, WaitersTypeOK
<1>6. \A b \in Agents : op[b].pc # "notify"
  BY <1>1, WaiterAssumption DEF TableLocked
<1>7. TableLocked'
  BY <1>1, <1>4, <1>5, <1>6 DEF TableLocked
<1>8. StatusLocked' /\ BlockedInOwn' /\ TimersAreAsync' /\ RegisteredOnce'
  BY <1>1, <1>4, <1>5 DEF StatusLocked, BlockedInOwn, TimersAreAsync, RegisteredOnce, IsAsync
<1>9. SessionsSuffice'
  <2>1. Registering' = Registering /\ Unused' = Unused
    BY <1>1, <1>4, <1>5 DEF Registering, Unused
  <2>2. QED
    BY <2>1 DEF SessionsSuffice
<1>10. Range(<<>>) = {}
  BY DEF Range
<1>11. ScanInOrder'
  <2> SUFFICES ASSUME NEW b \in Agents, op'[b].pc = "notify"
               PROVE  /\ Distinct(Remaining(b)') /\ Range(Remaining(b)') \subseteq Range(registry')
                      /\ \A s, t \in Sessions :
                           Precedes(Remaining(b)', s, t) => Precedes(registry', s, t)
                      /\ \A s \in Range(op'[b].kept) : status'[s] # "waiting"
    BY DEF ScanInOrder
  <2>1. b = a
    BY <1>4, <1>6
  <2>2. QED
    BY <1>1, <1>5, <1>10, <2>1 DEF RegisteredOnce
<1>12. Listed' = Listed
  <2>1. registryLock' # None
    BY <1>1, WaiterAssumption
  <2>2. Listed' = Range(op'[a].batch) \cup Range(op'[a].kept)
    BY <1>1, <2>1 DEF Listed
  <2>3. QED
    BY <1>1, <1>5, <1>10, <2>2 DEF Listed
<1>13. ListedStatus'
  BY <1>1, <1>12 DEF ListedStatus
<1>14. ListedIsTended'
  <2>1. ASSUME NEW t \in Listed, ~IsAsync(t)
        PROVE  op'[waiter[t].owner] = op[waiter[t].owner]
    <3>1. waiter[t].owner \in Agents
      BY <2>1, ListedSessions DEF ListedStatus, RegisteredOnce
    <3>2. op[waiter[t].owner].pc \in {"block", "asleep", "unlist"}
      BY <2>1 DEF ListedIsTended
    <3>3. QED
      BY <1>1, <1>4, <3>1, <3>2
  <2>2. QED
    BY <1>1, <1>12, <2>1 DEF ListedIsTended, IsAsync
<1>15. QED
  BY <1>3, <1>7, <1>8, <1>9, <1>11, <1>13, <1>14

\* What NotifyEntry does: the next entry is woken or kept.
LEMMA NotifyEntryCases ==
  ASSUME IInv, NEW a \in Agents, NotifyEntry(a)
  PROVE  LET s == Head(op[a].batch) IN
    /\ op[a].pc = "notify" /\ op[a].batch # <<>> /\ s \in Sessions
    /\ op[a].batch \in Seq(Sessions) /\ op[a].kept \in Seq(Sessions)
    /\ op[a].served \in Seq(Sessions) /\ op[a].limit \in Nat
    /\ UNCHANGED <<registry, registryLock, statusLock, waiter, timer, timeouts, promise>>
    /\ \A b \in Agents \ {a} : op'[b] = op[b]
    /\ op' \in [Agents -> OpTypes] /\ op'[a].pc = "notify" /\ op'[a].limit = op[a].limit
    /\ op'[a].batch = Tail(op[a].batch)
    /\ \/ /\ status[s] = "waiting" /\ Counted(op[a].served) < op[a].limit
          /\ status' = [status EXCEPT ![s] = "notified"]
          /\ op'[a].kept = op[a].kept /\ statusLock[s] = None
       \/ /\ UNCHANGED status /\ op'[a].kept = Append(op[a].kept, s)
          /\ op'[a].served = op[a].served
          /\ status[s] # "waiting" \/ ~(Counted(op[a].served) < op[a].limit)
<1> USE DEF IInv
<1> DEFINE s == Head(op[a].batch)
           keep == [op[a] EXCEPT !.batch = Tail(@), !.kept = Append(@, s)]
           wake == [op[a] EXCEPT !.batch = Tail(@), !.served = Append(@, s)]
<1>1. /\ op[a].pc = "notify" /\ op[a].batch # <<>>
      /\ op[a] \in [pc : {"notify"}, limit : Limits, batch : Seq(Sessions),
                    kept : Seq(Sessions), served : Seq(Sessions)]
  BY OpKinds DEF NotifyEntry
<1>2. /\ s \in Sessions /\ Tail(op[a].batch) \in Seq(Sessions)
      /\ Append(op[a].kept, s) \in Seq(Sessions) /\ Append(op[a].served, s) \in Seq(Sessions)
  BY <1>1, HeadTailProperties, AppendProperties
<1>3. op[a].limit \in Nat /\ Counted(op[a].served) \in Nat
  BY <1>1, CountedNat, WaiterAssumption
<1>4. /\ keep \in OpTypes /\ wake \in OpTypes
      /\ keep.pc = "notify" /\ keep.limit = op[a].limit /\ keep.batch = Tail(op[a].batch)
      /\ keep.kept = Append(op[a].kept, s) /\ keep.served = op[a].served
      /\ wake.pc = "notify" /\ wake.limit = op[a].limit /\ wake.batch = Tail(op[a].batch)
      /\ wake.kept = op[a].kept
  BY <1>1, <1>2 DEF OpTypes
<1>5. \/ /\ Counted(op[a].served) >= op[a].limit
         /\ op' = [op EXCEPT ![a] = keep] /\ UNCHANGED status
      \/ /\ ~(Counted(op[a].served) >= op[a].limit) /\ statusLock[s] = None
         /\ status[s] = "waiting" /\ status' = [status EXCEPT ![s] = "notified"]
         /\ op' = [op EXCEPT ![a] = wake]
      \/ /\ ~(Counted(op[a].served) >= op[a].limit)
         /\ status[s] # "waiting" /\ UNCHANGED status
         /\ op' = [op EXCEPT ![a] = keep]
  BY DEF NotifyEntry, WakeOrKeep, SetOp
<1> HIDE DEF keep, wake
<1>6. op' = [op EXCEPT ![a] = keep] \/ op' = [op EXCEPT ![a] = wake]
  BY <1>5
<1>7. op' \in [Agents -> OpTypes] /\ \A b \in Agents \ {a} : op'[b] = op[b]
  BY <1>4, <1>6 DEF WaitersTypeOK
<1>8. /\ op' = [op EXCEPT ![a] = keep] => op'[a] = keep
      /\ op' = [op EXCEPT ![a] = wake] => op'[a] = wake
  BY DEF WaitersTypeOK
<1>9. UNCHANGED <<registry, registryLock, statusLock, waiter, timer, timeouts, promise>>
  BY DEF NotifyEntry
<1>10. op'[a].pc = "notify" /\ op'[a].limit = op[a].limit /\ op'[a].batch = Tail(op[a].batch)
  BY <1>4, <1>6, <1>8
<1>11. \/ /\ status[s] = "waiting" /\ Counted(op[a].served) < op[a].limit
          /\ status' = [status EXCEPT ![s] = "notified"]
          /\ op'[a].kept = op[a].kept /\ statusLock[s] = None
       \/ /\ UNCHANGED status /\ op'[a].kept = Append(op[a].kept, s)
          /\ op'[a].served = op[a].served
          /\ status[s] # "waiting" \/ ~(Counted(op[a].served) < op[a].limit)
  BY <1>3, <1>4, <1>5, <1>8
<1>12. QED
  BY <1>1, <1>2, <1>3, <1>7, <1>9, <1>10, <1>11

LEMMA NotifyEntryKeeps ==
  ASSUME IInv, NEW a \in Agents, NotifyEntry(a)
  PROVE  IInv'
<1> USE DEF IInv
<1> DEFINE s == Head(op[a].batch)
           woken == status[s] = "waiting" /\ Counted(op[a].served) < op[a].limit
<1>1. /\ op[a].pc = "notify" /\ op[a].batch # <<>> /\ s \in Sessions
      /\ op[a].batch \in Seq(Sessions) /\ op[a].kept \in Seq(Sessions)
      /\ op[a].served \in Seq(Sessions) /\ op[a].limit \in Nat
      /\ UNCHANGED <<registry, registryLock, statusLock, waiter, timer, timeouts, promise>>
      /\ \A b \in Agents \ {a} : op'[b] = op[b]
      /\ op' \in [Agents -> OpTypes] /\ op'[a].pc = "notify" /\ op'[a].limit = op[a].limit
      /\ op'[a].batch = Tail(op[a].batch)
  BY NotifyEntryCases
<1>2. \/ /\ woken /\ status' = [status EXCEPT ![s] = "notified"]
         /\ op'[a].kept = op[a].kept /\ statusLock[s] = None
      \/ /\ ~woken /\ UNCHANGED status
         /\ op'[a].kept = Append(op[a].kept, s) /\ op'[a].served = op[a].served
  BY NotifyEntryCases
<1>3. /\ registryLock = a /\ a # None
      /\ \A b \in Agents \ {a} : op[b].pc # "notify"
  BY <1>1, WaiterAssumption DEF TableLocked
<1>4. /\ Remaining(a) \in Seq(Sessions) /\ Distinct(Remaining(a)) /\ Listed = Range(Remaining(a))
      /\ Range(Remaining(a)) \subseteq Range(registry) /\ s \in Range(Remaining(a))
      /\ \A x, y \in Sessions : Precedes(Remaining(a), x, y) => Precedes(registry, x, y)
  <2>1. /\ Remaining(a) \in Seq(Sessions) /\ Listed = Range(Remaining(a))
    BY <1>1, <1>3, ListedRemaining
  <2>2. s \in Range(Remaining(a))
    <3>1. /\ Len(op[a].kept) + 1 \in DOMAIN Remaining(a)
          /\ Remaining(a)[Len(op[a].kept) + 1] = s
      BY <1>1, HeadLeaves DEF Remaining
    <3>2. QED
      BY <3>1, Zenon DEF Range
  <2>3. QED
    BY <1>1, <2>1, <2>2 DEF ScanInOrder
<1>5. WaitersTypeOK'
  <2>1. status' \in [Sessions -> {"unused", "waiting", "notified", "timedOut"}]
    BY <1>2 DEF WaitersTypeOK
  <2>2. QED
    BY <1>1, <2>1 DEF WaitersTypeOK
<1>6. /\ \A t \in Sessions \ {s} : status'[t] = status[t]
      /\ status'[s] = IF woken THEN "notified" ELSE status[s]
  BY <1>1, <1>2 DEF WaitersTypeOK
<1>7. Remaining(a)' = IF woken THEN RemoveAt(Remaining(a), Len(op[a].kept) + 1) ELSE Remaining(a)
  <2>1. /\ Append(op[a].kept, s) \o Tail(op[a].batch) = Remaining(a)
        /\ op[a].kept \o Tail(op[a].batch) = RemoveAt(Remaining(a), Len(op[a].kept) + 1)
    <3>1. /\ op[a].kept \in Seq(Sessions) /\ op[a].batch \in Seq(Sessions) /\ op[a].batch # <<>>
      BY <1>1
    <3>2. /\ Append(op[a].kept, Head(op[a].batch)) \o Tail(op[a].batch) = op[a].kept \o op[a].batch
          /\ op[a].kept \o Tail(op[a].batch) = RemoveAt(op[a].kept \o op[a].batch, Len(op[a].kept) + 1)
      BY <3>1, HeadLeaves, Zenon
    <3>3. QED
      BY <3>2 DEF Remaining
  <2>2. Remaining(a)' = op'[a].kept \o Tail(op[a].batch)
    BY <1>1 DEF Remaining
  <2>3. CASE woken
    BY <1>2, <2>1, <2>2, <2>3, Zenon
  <2>4. CASE ~woken
    BY <1>2, <2>1, <2>2, <2>4, Zenon
  <2>5. QED
    BY <2>3, <2>4
<1>8. /\ Distinct(Remaining(a)') /\ Range(Remaining(a)') = (IF woken THEN Listed \ {s} ELSE Listed)
      /\ \A x, y \in Sessions : Precedes(Remaining(a)', x, y) => Precedes(Remaining(a), x, y)
  <2>1. CASE woken
    <3>1. /\ Len(op[a].kept) + 1 \in DOMAIN Remaining(a)
          /\ Remaining(a)[Len(op[a].kept) + 1] = s
      BY <1>1, HeadLeaves DEF Remaining
    <3>2. QED
      BY <1>4, <1>7, <2>1, <3>1, RemoveAtDistinct
  <2>2. CASE ~woken
    BY <1>4, <1>7, <2>2
  <2>3. QED
    BY <2>1, <2>2
<1>9. Listed' = IF woken THEN Listed \ {s} ELSE Listed
  <2>1. Listed' = Range(Remaining(a)')
    <3>1. op'[a].batch \in Seq(Sessions) /\ op'[a].kept \in Seq(Sessions)
      <4>1. op'[a] \in OpTypes
        BY <1>1
      <4>2. QED
        BY <1>1, <4>1 DEF OpTypes, Idle
    <3>2. Listed' = Range(op'[a].batch) \cup Range(op'[a].kept)
      BY <1>1, <1>3 DEF Listed
    <3>3. QED
      BY <3>1, <3>2, RangeConcatenation DEF Remaining
  <2>2. QED
    BY <1>8, <2>1
<1>10. TableLocked' /\ StatusLocked'
  BY <1>1, <1>3 DEF TableLocked, StatusLocked
<1>11. BlockedInOwn' /\ TimersAreAsync' /\ RegisteredOnce'
  <2>1. \A t \in Sessions : /\ status'[t] = "unused" <=> status[t] = "unused"
                            /\ status[t] = "timedOut" => status'[t] = "timedOut"
    BY <1>6
  <2>2. BlockedInOwn'
    BY <1>1, <2>1, OpKinds DEF BlockedInOwn
  <2>3. TimersAreAsync'
    BY <1>1, <2>1 DEF TimersAreAsync, IsAsync
  <2>4. RegisteredOnce'
    BY <1>1, <2>1, RegistrySeq DEF RegisteredOnce
  <2>5. QED
    BY <2>2, <2>3, <2>4
<1>12. SessionsSuffice'
  <2>1. Registering' = Registering /\ Unused' = Unused
    BY <1>1, <1>6 DEF Registering, Unused
  <2>2. QED
    BY <2>1 DEF SessionsSuffice
<1>13. ScanInOrder'
  <2> SUFFICES ASSUME NEW b \in Agents, op'[b].pc = "notify"
               PROVE  /\ Distinct(Remaining(b)') /\ Range(Remaining(b)') \subseteq Range(registry')
                      /\ \A x, y \in Sessions :
                           Precedes(Remaining(b)', x, y) => Precedes(registry', x, y)
                      /\ Counted(op[b].served)' < op'[b].limit =>
                           \A t \in Range(op'[b].kept) : status'[t] # "waiting"
    BY DEF ScanInOrder
  <2>1. b = a
    BY <1>1, <1>3
  <2>2. /\ Distinct(Remaining(a)') /\ Range(Remaining(a)') \subseteq Range(registry')
        /\ \A x, y \in Sessions : Precedes(Remaining(a)', x, y) => Precedes(registry', x, y)
    BY <1>1, <1>4, <1>8
  <2>3. ASSUME Counted(op[a].served)' < op'[a].limit
        PROVE  \A t \in Range(op'[a].kept) : status'[t] # "waiting"
    <3>1. CASE woken
      BY <1>1, <1>2, <1>6, <3>1, RangeOfSeq DEF ScanInOrder
    <3>2. CASE ~woken
      <4>1. Counted(op[a].served)' = Counted(op[a].served)
        BY <1>1, <1>2, <3>2 DEF Counted, IsAsync
      <4>2. Counted(op[a].served) < op[a].limit
        BY <1>1, <2>3, <4>1
      <4>3. Range(op'[a].kept) = Range(op[a].kept) \cup {s}
        <5>1. Range(Append(op[a].kept, s)) = Range(op[a].kept) \cup {s}
          BY <1>1, AppendRange
        <5>2. op'[a].kept = Append(op[a].kept, s)
          BY <1>2, <3>2
        <5>3. QED
          BY <5>1, <5>2
      <4>4. \A t \in Range(op[a].kept) : status[t] # "waiting"
        BY <1>1, <4>2 DEF ScanInOrder
      <4>5. status[s] # "waiting"
        BY <3>2, <4>2
      <4>6. QED
        BY <1>2, <3>2, <4>3, <4>4, <4>5
    <3>3. QED
      BY <3>1, <3>2
  <2>4. QED
    BY <2>1, <2>2, <2>3
<1>14. ListedStatus'
  BY <1>4, <1>6, <1>9, ListedSessions DEF ListedStatus
<1>15. ListedIsTended'
  <2>1. \A t \in Sessions : status'[t] = "waiting" => t \in Listed'
    BY <1>6, <1>9 DEF ListedIsTended
  <2>2. ASSUME NEW t \in Listed'
        PROVE  status'[t] = status[t] /\ t \in Listed
    BY <1>4, <1>6, <1>9, <2>2, ListedSessions
  <2>3. ASSUME NEW t \in Listed, ~IsAsync(t)
        PROVE  op'[waiter[t].owner] = op[waiter[t].owner]
    <3>1. waiter[t].owner \in Agents
      BY <2>3, ListedSessions DEF ListedStatus, RegisteredOnce
    <3>2. op[waiter[t].owner].pc \in {"block", "asleep", "unlist"}
      BY <2>3 DEF ListedIsTended
    <3>3. QED
      BY <1>1, <3>1, <3>2
  <2>4. QED
    BY <1>1, <2>1, <2>2, <2>3 DEF ListedIsTended, IsAsync
<1>16. QED
  BY <1>5, <1>10, <1>11, <1>12, <1>13, <1>14, <1>15

LEMMA NotifyEndKeeps ==
  ASSUME IInv, NEW a \in Agents, NotifyEnd(a)
  PROVE  IInv'
<1> USE DEF IInv
<1>1. /\ op[a].pc = "notify" /\ op[a].batch = <<>> /\ registry' = op[a].kept
      /\ registryLock' = None /\ op' = [op EXCEPT ![a] = Idle]
      /\ \E handles : Settle(a, handles, "ok")
      /\ UNCHANGED <<status, statusLock, waiter, timer, timeouts>>
  BY DEF NotifyEnd, SetOp, sessionVars
<1>2. op[a].kept \in Seq(Sessions) /\ Remaining(a) = op[a].kept
  BY <1>1, OpKinds, ConcatEmptySeq DEF Remaining
<1>3. /\ registryLock = a /\ \A b \in Agents \ {a} : op[b].pc # "notify"
  BY <1>1 DEF TableLocked
<1>4. /\ op'[a].pc = "idle" /\ \A b \in Agents \ {a} : op'[b] = op[b]
  BY <1>1 DEF WaitersTypeOK, Idle
<1>5. WaitersTypeOK'
  <2>1. op' \in [Agents -> OpTypes]
    BY <1>1 DEF WaitersTypeOK, OpTypes
  <2>2. promise' \in [Agents -> [Handles -> {"none", "pending", "ok", "timedOut"}]]
    BY <1>1 DEF WaitersTypeOK, Settle
  <2>3. QED
    BY <1>1, <1>2, <2>1, <2>2 DEF WaitersTypeOK
<1>6. TableLocked' /\ ScanInOrder'
  BY <1>1, <1>3, <1>4, WaiterAssumption DEF TableLocked, ScanInOrder
<1>7. Listed' = Listed /\ Distinct(registry') /\ Range(registry') \subseteq Range(registry)
  <2>1. Listed = Range(op[a].kept)
    BY <1>1, <1>2, <1>3, ListedRemaining
  <2>2. QED
    BY <1>1, <1>2, <2>1 DEF Listed, ScanInOrder
<1>8. StatusLocked' /\ BlockedInOwn' /\ TimersAreAsync'
  BY <1>1, <1>4 DEF StatusLocked, BlockedInOwn, TimersAreAsync, IsAsync
<1>9. RegisteredOnce' /\ ListedStatus'
  BY <1>1, <1>7 DEF RegisteredOnce, ListedStatus
<1>10. SessionsSuffice'
  <2>1. Registering' = Registering /\ Unused' = Unused
    BY <1>1, <1>4 DEF Registering, Unused
  <2>2. QED
    BY <2>1 DEF SessionsSuffice
<1>11. ListedIsTended'
  <2>1. ASSUME NEW t \in Listed, ~IsAsync(t)
        PROVE  op'[waiter[t].owner] = op[waiter[t].owner]
    <3>1. waiter[t].owner \in Agents
      BY <2>1, ListedSessions DEF ListedStatus, RegisteredOnce
    <3>2. op[waiter[t].owner].pc \in {"block", "asleep", "unlist"}
      BY <2>1 DEF ListedIsTended
    <3>3. QED
      BY <1>1, <1>4, <3>1, <3>2
  <2>2. QED
    BY <1>1, <1>7, <2>1 DEF ListedIsTended, IsAsync
<1>12. QED
  BY <1>5, <1>6, <1>8, <1>9, <1>10, <1>11

-----------------------------------------------------------------------------
(* The invariant holds, and with it what it implies. *)

LEMMA StepKeeps ==
  ASSUME IInv, [WaitersNext]_waiterVars
  PROVE  IInv'
<1>1. ASSUME NEW a \in Agents, Call(a) PROVE IInv'
  BY <1>1, CompareKeeps, NotifyBeginKeeps DEF Call
<1>2. ASSUME NEW a \in Agents, Continue(a) PROVE IInv'
  <2>1. CASE Block(a) \/ Wake(a)
    BY <2>1, LookKeeps DEF Block, Wake, SetOp
  <2>2. CASE Register(a) \/ Expire(a) \/ Unlist(a)
    BY <2>2, RegisterKeeps, ExpireKeeps, UnlistKeeps
  <2>3. CASE NotifyEntry(a) \/ NotifyEnd(a)
    BY <2>3, NotifyEntryKeeps, NotifyEndKeeps
  <2>4. QED
    BY <1>2, <2>1, <2>2, <2>3 DEF Continue
<1>3. CASE UNCHANGED waiterVars
  <2>1. /\ Listed' = Listed /\ Registering' = Registering /\ Unused' = Unused
        /\ UNCHANGED <<registry, registryLock, status, statusLock, waiter, timer, timeouts,
                       promise, op>>
    BY <1>3 DEF waiterVars, sessionVars, Listed, Registering, Unused
  <2>2. ScanInOrder'
    BY <2>1, ScanFrame DEF IInv
  <2>3. WaitersTypeOK' /\ TableLocked' /\ StatusLocked' /\ SessionsSuffice' /\ BlockedInOwn'
    BY <2>1 DEF IInv, WaitersTypeOK, TableLocked, StatusLocked, SessionsSuffice, BlockedInOwn
  <2>4. TimersAreAsync' /\ RegisteredOnce' /\ ListedStatus' /\ ListedIsTended'
    BY <2>1 DEF IInv, TimersAreAsync, RegisteredOnce, ListedStatus, ListedIsTended, IsAsync
  <2>5. QED
    BY <2>2, <2>3, <2>4 DEF IInv
<1>4. QED
  BY <1>1, <1>2, <1>3, TimerKeeps, PollTimeoutsKeeps DEF WaitersNext

LEMMA Invariance == WaitersSpec => []IInv
  BY InitInv, StepKeeps, PTL DEF WaitersSpec

\* Every variable of wait, notify and waitAsync keeps its type.
THEOREM WaitersTypeCorrect == WaitersSpec => []WaitersTypeOK
<1>1. IInv => WaitersTypeOK
  BY DEF IInv
<1>2. QED
  BY <1>1, Invariance, PTL

\* Whoever waits is on the list a notification goes through, and what is on the
\* list has a thread or a timer that will take it off: registration, expiry,
\* notification and removal never lose a session between two locks.
THEOREM WaitersAreTended == WaitersSpec => []ListedIsTended
<1>1. IInv => ListedIsTended
  BY DEF IInv
<1>2. QED
  BY <1>1, Invariance, PTL

-----------------------------------------------------------------------------
(* The queue that wait and notify implement. *)

Order == {p \in Waiting \X Waiting : Precedes(registry, p[1], p[2])}
Outcome == [s \in Sessions |-> IF status[s] \in {"notified", "timedOut"} THEN status[s] ELSE "none"]
queueVars == <<Waiting, Order, Outcome>>

\* Changes of the list that keep who waits in order are no steps of the queue.
LEMMA OrderStutters ==
  ASSUME status' = status,
         \A s, t \in Waiting : Precedes(registry', s, t) <=> Precedes(registry, s, t)
  PROVE  UNCHANGED queueVars
<1>1. Waiting' = Waiting /\ Outcome' = Outcome
  BY DEF Waiting, Outcome
<1>2. Order' = Order
  BY <1>1 DEF Order
<1>3. QED
  BY <1>1, <1>2 DEF queueVars

\* A session that is notified or times out leaves the queue.
LEMMA SessionLeaves ==
  ASSUME WaitersTypeOK, registry' = registry, NEW s \in Waiting,
         NEW how \in {"notified", "timedOut"}, status' = [status EXCEPT ![s] = how]
  PROVE  Queue!Leave(s, how)
<1>1. s \in Sessions /\ Waiting' = Waiting \ {s}
  BY DEF Waiting, WaitersTypeOK
<1>2. Outcome' = [Outcome EXCEPT ![s] = how]
  BY <1>1 DEF Outcome, WaitersTypeOK
<1>3. Order' = {p \in Order : s \notin {p[1], p[2]}}
  BY <1>1 DEF Order
<1>4. QED
  BY <1>1, <1>2, <1>3 DEF Queue!Leave, Order, Outcome

LEMMA RegisterEnqueues ==
  ASSUME IInv, NEW a \in Agents, Register(a)
  PROVE  Queue!Next
<1> USE DEF IInv
<1> DEFINE s == CHOOSE s \in Unused : \A t \in Unused : s <= t
<1>1. s \in Unused /\ s \in Sessions
  <2>1. a \in Registering
    BY DEF Register, Registering
  <2>2. Unused # {}
    BY <2>1, FiniteCounts, FS_EmptySet DEF SessionsSuffice
  <2>3. Unused \in SUBSET Nat
    BY WaiterAssumption DEF Unused, Sessions
  <2>4. QED
    BY <2>2, <2>3, LeastNumber DEF Unused
<1>2. /\ registryLock = None /\ registry' = Append(registry, s)
      /\ status' = [status EXCEPT ![s] = "waiting"]
  BY DEF Register, Enlist, s
<1> HIDE DEF s
<1>3. status[s] = "unused" /\ s \notin Range(registry) /\ registry \in Seq(Sessions)
  BY <1>1 DEF Unused, RegisteredOnce, WaitersTypeOK
<1>4. \A x, y : Precedes(registry', x, y) <=>
                  Precedes(registry, x, y) \/ (x \in Range(registry) /\ y = s)
  BY <1>1, <1>2, <1>3, AppendDistinct DEF RegisteredOnce
<1>5. Waiting \subseteq Range(registry) /\ s \notin Waiting
  BY <1>2, <1>3 DEF Waiting, ListedIsTended, Listed
<1>6. \A x, y : Precedes(registry, x, y) => x # s /\ y # s
  BY <1>3 DEF Precedes, Range
<1>7. Waiting' = Waiting \cup {s}
  BY <1>1, <1>2 DEF Waiting, WaitersTypeOK
<1>8. Outcome' = Outcome /\ Outcome[s] = "none"
  BY <1>1, <1>2, <1>3 DEF Outcome, WaitersTypeOK
<1>9. Order' = Order \cup Waiting \X {s}
  <2>1. Order' = {p \in (Waiting \cup {s}) \X (Waiting \cup {s}) :
                    Precedes(registry, p[1], p[2]) \/ (p[1] \in Range(registry) /\ p[2] = s)}
    BY <1>4, <1>7 DEF Order
  <2>2. ASSUME NEW x \in Waiting \cup {s}, NEW y \in Waiting \cup {s}
        PROVE  Precedes(registry, x, y) \/ (x \in Range(registry) /\ y = s) <=>
                 <<x, y>> \in Order \cup Waiting \X {s}
    BY <1>3, <1>5, <1>6 DEF Order
  <2>3. Order \cup Waiting \X {s} \subseteq (Waiting \cup {s}) \X (Waiting \cup {s})
    BY DEF Order
  <2>4. QED
    BY <2>1, <2>2, <2>3
<1>10. Queue!Enqueue(s)
  BY <1>5, <1>7, <1>8, <1>9 DEF Queue!Enqueue, Order, Outcome
<1>11. QED
  BY <1>1, <1>10 DEF Queue!Next

\* The notifier wakes the session that has waited longest: whoever waits is
\* among those it has not looked at yet, and the head of these comes first.
LEMMA NotifyTakesFirst ==
  ASSUME IInv, NEW a \in Agents, NotifyEntry(a)
  PROVE  Queue!Next \/ UNCHANGED queueVars
<1> USE DEF IInv
<1>0. PICK s \in Sessions : s = Head(op[a].batch)
  BY NotifyEntryCases
<1>1. /\ op[a].pc = "notify" /\ op[a].batch # <<>>
      /\ op[a].batch \in Seq(Sessions) /\ op[a].kept \in Seq(Sessions)
      /\ registry' = registry
      /\ \/ /\ status[s] = "waiting" /\ Counted(op[a].served) < op[a].limit
            /\ status' = [status EXCEPT ![s] = "notified"]
         \/ status' = status
  BY <1>0, NotifyEntryCases
<1>2. CASE status' = status
  BY <1>1, <1>2, OrderStutters
<1>3. CASE /\ status[s] = "waiting" /\ Counted(op[a].served) < op[a].limit
           /\ status' = [status EXCEPT ![s] = "notified"]
  <2>1. s \in Waiting /\ Queue!Leave(s, "notified")
    BY <1>1, <1>3, SessionLeaves DEF Waiting
  <2>2. Listed = Range(Remaining(a)) /\ Remaining(a) \in Seq(Sessions)
    BY <1>1, ListedRemaining DEF TableLocked
  <2>3. /\ Len(op[a].kept) + 1 \in DOMAIN Remaining(a)
        /\ Remaining(a)[Len(op[a].kept) + 1] = s
    BY <1>0, <1>1, HeadLeaves DEF Remaining
  <2>4. /\ DOMAIN op[a].kept = 1..Len(op[a].kept) /\ Len(op[a].kept) \in Nat
        /\ DOMAIN Remaining(a) \subseteq Nat \ {0}
        /\ \A i \in DOMAIN op[a].kept : Remaining(a)[i] = op[a].kept[i]
    BY <1>1, ConcatPrefix DEF Remaining
  <2>5. ASSUME NEW t \in Waiting, t # s
        PROVE  Precedes(registry, s, t)
    <3>1. t \in Sessions /\ t \in Range(Remaining(a)) /\ t \notin Range(op[a].kept)
      BY <1>1, <1>3, <2>2, <2>5 DEF Waiting, ListedIsTended, ScanInOrder
    <3>2. PICK j \in DOMAIN Remaining(a) : Remaining(a)[j] = t
      BY <3>1 DEF Range
    <3>3. ~(j <= Len(op[a].kept))
      BY <2>4, <3>1, <3>2 DEF Range
    <3>4. Len(op[a].kept) + 1 < j
      BY <2>3, <2>4, <2>5, <3>2, <3>3
    <3>5. Precedes(Remaining(a), s, t)
      BY <2>3, <3>2, <3>4 DEF Precedes
    <3>6. QED
      BY <1>1, <3>1, <3>5 DEF ScanInOrder
  <2>6. \A t \in Waiting \ {s} : <<s, t>> \in Order
    BY <2>1, <2>5 DEF Order
  <2>7. Queue!WakeFirst(s)
    BY <2>1, <2>6 DEF Queue!WakeFirst, Order
  <2>8. QED
    BY <2>7 DEF Queue!Next
<1>4. QED
  BY <1>1, <1>2, <1>3

\* What the notifier puts back is the list without those it woke, in order.
LEMMA NotifyEndStutters ==
  ASSUME IInv, NEW a \in Agents, NotifyEnd(a)
  PROVE  UNCHANGED queueVars
<1> USE DEF IInv
<1>1. /\ op[a].pc = "notify" /\ op[a].batch = <<>> /\ registry' = op[a].kept
      /\ status' = status
  BY DEF NotifyEnd, sessionVars
<1>2. op[a].kept \in Seq(Sessions) /\ Remaining(a) = op[a].kept
  BY <1>1, OpKinds, ConcatEmptySeq DEF Remaining
<1>3. Waiting \subseteq Range(op[a].kept) /\ Waiting \subseteq Sessions
  BY <1>1, <1>2, ListedRemaining DEF TableLocked, Waiting, ListedIsTended
<1>4. \A s, t \in Sessions : Precedes(op[a].kept, s, t) => Precedes(registry, s, t)
  BY <1>1, <1>2 DEF ScanInOrder
<1>5. ASSUME NEW s \in Waiting, NEW t \in Waiting, Precedes(registry, s, t)
      PROVE  Precedes(op[a].kept, s, t)
  <2>1. PICK i, j \in DOMAIN op[a].kept : op[a].kept[i] = s /\ op[a].kept[j] = t
    BY <1>3 DEF Range
  <2>2. PICK k, l \in DOMAIN registry : k < l /\ registry[k] = s /\ registry[l] = t
    BY <1>5 DEF Precedes
  <2>3. /\ DOMAIN registry = 1..Len(registry) /\ Len(registry) \in Nat
        /\ DOMAIN op[a].kept = 1..Len(op[a].kept) /\ Len(op[a].kept) \in Nat
    BY <1>2, LenProperties DEF WaitersTypeOK
  <2>4. s # t
    BY <2>2, <2>3 DEF RegisteredOnce, Distinct
  <2>5. CASE j < i
    <3>1. Precedes(registry, t, s)
      BY <1>3, <1>4, <2>1, <2>5 DEF Precedes
    <3>2. PICK m, n \in DOMAIN registry : m < n /\ registry[m] = t /\ registry[n] = s
      BY <3>1 DEF Precedes
    <3>3. m = l /\ n = k
      BY <2>2, <3>2 DEF RegisteredOnce, Distinct
    <3>4. QED
      BY <2>2, <2>3, <3>2, <3>3
  <2>6. CASE i < j
    BY <2>1, <2>6 DEF Precedes
  <2>7. QED
    BY <2>1, <2>3, <2>4, <2>5, <2>6
<1>6. QED
  BY <1>1, <1>3, <1>4, <1>5, OrderStutters

\* Taking somebody off the list who does not wait leaves the queue alone.
LEMMA RemovalStutters ==
  ASSUME IInv, NEW s \in Sessions, status[s] # "waiting",
         registry' = RemoveFirst(registry, s), status' = status
  PROVE  UNCHANGED queueVars
<1>1. \A x, y : Precedes(registry', x, y) <=> Precedes(registry, x, y) /\ x # s /\ y # s
  BY RemoveFirstDistinct DEF IInv, WaitersTypeOK, RegisteredOnce
<1>2. s \notin Waiting
  BY DEF Waiting
<1>3. QED
  BY <1>1, <1>2, OrderStutters

LEMMA TimerMaps ==
  ASSUME IInv, NEW s \in Sessions, TimerThread(s)
  PROVE  Queue!Next \/ UNCHANGED queueVars
<1> USE DEF IInv
<1>1. CASE TimerFires(s)
  <2>1. CASE status[s] = "waiting"
    <3>1. Queue!Leave(s, "timedOut") /\ s \in Waiting
      BY <1>1, <2>1, SessionLeaves DEF TimerFires, Waiting
    <3>2. QED
      BY <3>1 DEF Queue!Next, Queue!Expire
  <2>2. CASE status[s] # "waiting"
    BY <1>1, <2>2, OrderStutters DEF TimerFires
  <2>3. QED
    BY <2>1, <2>2
<1>2. CASE TimerPushes(s)
  BY <1>2, OrderStutters DEF TimerPushes, sessionVars
<1>3. CASE TimerRemoves(s)
  <2>1. status[s] # "waiting"
    BY <1>3 DEF TimerRemoves, TimersAreAsync, ListedIsTended
  <2>2. QED
    BY <1>3, <2>1, RemovalStutters DEF TimerRemoves, sessionVars
<1>4. QED
  BY <1>1, <1>2, <1>3 DEF TimerThread

LEMMA AgentMaps ==
  ASSUME IInv, NEW a \in Agents, Call(a) \/ Continue(a) \/ PollTimeouts(a)
  PROVE  Queue!Next \/ UNCHANGED queueVars
<1> USE DEF IInv
<1>1. CASE Call(a) \/ Block(a) \/ Wake(a) \/ PollTimeouts(a)
  <2>1. registry' = registry /\ status' = status
    BY <1>1 DEF Call, Compare, NotifyBegin, Block, Wake, PollTimeouts, sessionVars
  <2>2. QED
    BY <2>1, OrderStutters
<1>2. CASE Register(a)
  BY <1>2, RegisterEnqueues
<1>3. CASE Expire(a)
  <2>1. op[a].s \in Sessions
    BY <1>3, OpKinds DEF Expire
  <2>2. Queue!Leave(op[a].s, "timedOut") /\ op[a].s \in Waiting
    BY <1>3, <2>1, SessionLeaves DEF Expire, Waiting
  <2>3. QED
    BY <2>1, <2>2 DEF Queue!Next, Queue!Expire
<1>4. CASE Unlist(a)
  <2>1. op[a].s \in Sessions /\ status[op[a].s] = "timedOut"
    BY <1>4, OpKinds DEF Unlist, BlockedInOwn
  <2>2. QED
    BY <1>4, <2>1, RemovalStutters DEF Unlist
<1>5. CASE NotifyEntry(a) \/ NotifyEnd(a)
  BY <1>5, NotifyTakesFirst, NotifyEndStutters
<1>6. QED
  BY <1>1, <1>2, <1>3, <1>4, <1>5 DEF Continue

LEMMA InitMaps == WaitersInit => Queue!Init
<1> SUFFICES ASSUME WaitersInit PROVE Queue!Init
  OBVIOUS
<1>1. Waiting = {} /\ Outcome = [s \in Sessions |-> "none"]
  BY DEF WaitersInit, Waiting, Outcome
<1>2. Order = {}
  BY <1>1 DEF Order
<1>3. QED
  BY <1>1, <1>2 DEF Queue!Init, Order, Outcome

LEMMA StepMaps ==
  ASSUME IInv, [WaitersNext]_waiterVars
  PROVE  [Queue!Next]_queueVars
<1>1. CASE UNCHANGED waiterVars
  BY <1>1, OrderStutters DEF waiterVars, sessionVars
<1>2. CASE WaitersNext
  BY <1>2, AgentMaps, TimerMaps DEF WaitersNext
<1>3. QED
  BY <1>1, <1>2

\* wait and notify, with their two kinds of lock and the steps between them,
\* are a queue: a notification wakes whoever has waited longest, and a session
\* is notified or times out, never both.
THEOREM WaitersServeInOrder == WaitersSpec => ServesInOrder
<1>1. ASSUME IInv, [WaitersNext]_waiterVars
      PROVE  [Queue!Next]_<<Waiting, Order, Outcome>>
  BY <1>1, StepMaps DEF queueVars
<1>2. QED
  BY <1>1, Invariance, InitMaps, PTL DEF WaitersSpec, ServesInOrder, Queue!Spec, Order, Outcome

-----------------------------------------------------------------------------
(* The inductive invariant of the threads. *)

\* A worker that has not been created is not known, and one whose exit has not
\* been heard keeps the main agent's loop alive.
ControlledUntilHeard ==
  \A w \in Workers :
    /\ mode[w] = "none" => heard[w] = Nothing
    /\ mode[w] # "none" /\ heard[w] = Nothing => active[w] /\ w \in control
    /\ heard[w] # Nothing => w \notin control

\* An exit is the last event of a worker, and its thread is over.
ExitIsLast ==
  \A i \in DOMAIN events : events[i].kind = "exit" =>
    /\ mode[events[i].worker] = "ended"
    /\ \A j \in DOMAIN events : events[j].worker = events[i].worker => j <= i

\* No exit is lost: it is on its way to the main agent or has been heard.
ExitIsAnnounced ==
  \A w \in Workers : mode[w] = "ended" /\ heard[w] = Nothing =>
    \E i \in DOMAIN events : events[i].worker = w /\ events[i].kind = "exit"

ThreadInv ==
  /\ ThreadsTypeOK /\ ControlledUntilHeard /\ ExitIsLast /\ ExitIsAnnounced
  /\ HearsThemOut

-----------------------------------------------------------------------------
(* The steps of the threads. *)

LEMMA ThreadsInitInv == ThreadsInit => ThreadInv
<1> SUFFICES ASSUME ThreadsInit PROVE ThreadInv
  OBVIOUS
<1>1. <<>> \in Seq(Events) /\ <<>> \in Seq({"message", "terminate"})
  BY EmptySeq
<1>2. ThreadsTypeOK
  BY <1>1, ThreadAssumption DEF ThreadsInit, ThreadsTypeOK, Threads, Nothing
<1>3. \A w \in Workers : mode[w] = "none" /\ heard[w] = Nothing
  BY ThreadAssumption DEF ThreadsInit, Threads
<1>4. mode[Main] # "ended" /\ events = <<>> /\ DOMAIN events = {}
  BY EmptySeq DEF ThreadsInit, Threads
<1>5. QED
  BY <1>2, <1>3, <1>4 DEF ThreadInv, ControlledUntilHeard, ExitIsLast, ExitIsAnnounced,
                         HearsThemOut

\* Where the types of the threads' variables come from.
LEMMA EventFields ==
  ASSUME ThreadsTypeOK
  PROVE  \A i \in DOMAIN events :
           /\ events[i] \in Events /\ events[i].worker \in Workers
           /\ events[i].kind = "exit" => events[i].code \in {0, 1}
  BY ElementOfSeq, LenProperties DEF ThreadsTypeOK, Events

\* A step that says nothing, starts and ends no worker, and terminates only
\* workers whose exit has not been heard.
LEMMA QuietStep ==
  ASSUME ThreadInv, ThreadsTypeOK', UNCHANGED <<control, active, events, heard>>,
         \A w \in Workers : /\ mode'[w] = "ended" <=> mode[w] = "ended"
                            /\ mode'[w] = "none" <=> mode[w] = "none"
                            /\ heard[w] # Nothing => terminated'[w] = terminated[w],
         mode'[Main] = "ended" => \A w \in Workers : ~(active[w] /\ referenced'[w])
  PROVE  ThreadInv'
<1>1. ControlledUntilHeard'
  BY DEF ThreadInv, ControlledUntilHeard
<1>2. ExitIsLast' /\ ExitIsAnnounced'
  BY EventFields DEF ThreadInv, ExitIsLast, ExitIsAnnounced
<1>3. HearsThemOut'
  BY DEF ThreadInv, ControlledUntilHeard, HearsThemOut, Nothing
<1>4. QED
  BY <1>1, <1>2, <1>3 DEF ThreadInv

\* Every agent that a step of a loop or of a script moves, and no other.
LEMMA GoMoves ==
  ASSUME ThreadsTypeOK, NEW a \in Threads, NEW where, Go(a, where)
  PROVE  mode'[a] = where /\ \A b \in Threads \ {a} : mode'[b] = mode[b]
  BY DEF ThreadsTypeOK, Go

\* A step of the main agent's JavaScript that creates no worker.
LEMMA MainKeeps ==
  ASSUME ThreadInv, mode[Main] # "ended", NEW w \in Workers,
         \/ PostToWorker(w) \/ Terminate(w) \/ \E value \in BOOLEAN : WorkerRef(w, value)
  PROVE  ThreadInv'
<1> USE DEF ThreadInv
<1>1. UNCHANGED <<mode, armed, control, active, events, heard, listening, threw>>
  BY DEF PostToWorker, Terminate, WorkerRef, workerVars, channelVars
<1>2. commands' \in [Workers -> Seq({"message", "terminate"})]
  <2>1. \/ UNCHANGED commands
        \/ commands' = [commands EXCEPT ![w] = Append(@, "message")]
        \/ commands' = [commands EXCEPT ![w] = Append(@, "terminate")]
    BY DEF PostToWorker, Terminate, WorkerRef, channelVars
  <2>2. /\ commands[w] \in Seq({"message", "terminate"})
        /\ Append(commands[w], "message") \in Seq({"message", "terminate"})
        /\ Append(commands[w], "terminate") \in Seq({"message", "terminate"})
    BY AppendProperties DEF ThreadsTypeOK
  <2>3. QED
    BY <2>1, <2>2 DEF ThreadsTypeOK
<1>3. ThreadsTypeOK'
  BY <1>1, <1>2 DEF ThreadsTypeOK, PostToWorker, Terminate, WorkerRef, workerVars
<1>4. \A v \in Workers : heard[v] # Nothing => terminated'[v] = terminated[v]
  BY DEF PostToWorker, Terminate, WorkerRef, workerVars, ControlledUntilHeard, ThreadsTypeOK
<1>5. QED
  BY <1>1, <1>3, <1>4, QuietStep

LEMMA CreateKeeps ==
  ASSUME ThreadInv, mode[Main] # "ended", NEW w \in Workers, CreateWorker(w)
  PROVE  ThreadInv'
<1> USE DEF ThreadInv
<1>1. /\ mode[w] = "none" /\ w \in Threads /\ Main \in Threads /\ Main # w
      /\ mode'[w] \in {"start", "failed"} /\ \A b \in Threads \ {w} : mode'[b] = mode[b]
      /\ mode' \in [Threads -> {"none", "failed", "start", "compile", "script", "callback",
                                "message", "loop", "check", "ended", "aborted"}]
      /\ control' = control \cup {w} /\ active' = [active EXCEPT ![w] = TRUE]
      /\ referenced' = [referenced EXCEPT ![w] = TRUE]
      /\ UNCHANGED <<armed, terminated, commands, events, heard, listening, threw>>
  BY ThreadAssumption DEF CreateWorker, Go, ThreadsTypeOK, Threads, channelVars
<1>2. ThreadsTypeOK'
  BY <1>1 DEF ThreadsTypeOK
<1>3. heard[w] = Nothing /\ \A v \in Workers \ {w} : mode'[v] = mode[v] /\ active'[v] = active[v]
  BY <1>1 DEF ControlledUntilHeard, ThreadsTypeOK, Threads
<1>4. ControlledUntilHeard'
  BY <1>1, <1>3 DEF ControlledUntilHeard, ThreadsTypeOK
<1>5. ExitIsLast'
  BY <1>1, <1>3, EventFields DEF ExitIsLast
<1>6. ExitIsAnnounced'
  BY <1>1, <1>3 DEF ExitIsAnnounced
<1>7. HearsThemOut'
  BY <1>1, <1>3 DEF HearsThemOut
<1>8. QED
  BY <1>2, <1>4, <1>5, <1>6, <1>7

\* What a step does that appends one event, which is no exit, for a worker
\* whose thread is not over.
LEMMA SaysKeeps ==
  ASSUME ThreadInv, ThreadsTypeOK', NEW w \in Workers, NEW e \in Events, e.worker = w, e.kind # "exit",
         mode[w] \notin {"none", "ended"}, mode'[w] \notin {"none", "ended"},
         mode[Main] # "ended", \A b \in Threads \ {w} : mode'[b] = mode[b],
         events' = Append(events, e),
         UNCHANGED <<control, active, referenced, heard, terminated>>
  PROVE  ThreadInv'
<1> USE DEF ThreadInv
<1>1. /\ DOMAIN events = 1..Len(events) /\ Len(events) \in Nat
      /\ DOMAIN events' = 1..(Len(events) + 1) /\ events'[Len(events) + 1] = e
      /\ \A i \in DOMAIN events : events'[i] = events[i]
  BY AppendProperties, LenProperties DEF ThreadsTypeOK
<1>2. Main \in Threads /\ Main # w /\ Workers \subseteq Threads
  BY ThreadAssumption DEF Threads
<1>3. ControlledUntilHeard'
  BY <1>2 DEF ControlledUntilHeard
<1>4. \A i \in DOMAIN events : events[i].kind = "exit" => events[i].worker # w
  BY DEF ExitIsLast
<1>5. ExitIsLast'
  <2> SUFFICES ASSUME NEW i \in DOMAIN events', events'[i].kind = "exit"
               PROVE  /\ mode'[events'[i].worker] = "ended"
                      /\ \A j \in DOMAIN events' : events'[j].worker = events'[i].worker => j <= i
    BY DEF ExitIsLast
  <2>1. i \in DOMAIN events /\ events'[i] = events[i]
    BY <1>1
  <2>2. events[i].worker # w /\ events[i].worker \in Workers
    BY <1>4, <2>1, EventFields
  <2>3. mode'[events[i].worker] = "ended"
    BY <1>2, <2>1, <2>2 DEF ExitIsLast
  <2>4. ASSUME NEW j \in DOMAIN events', events'[j].worker = events'[i].worker PROVE j <= i
    <3>1. j \in DOMAIN events
      BY <1>1, <2>1, <2>2, <2>4
    <3>2. QED
      BY <1>1, <2>1, <2>4, <3>1 DEF ExitIsLast
  <2>5. QED
    BY <2>1, <2>3, <2>4
<1>6. ExitIsAnnounced'
  <2> SUFFICES ASSUME NEW v \in Workers, mode'[v] = "ended", heard'[v] = Nothing
               PROVE  \E i \in DOMAIN events' : events'[i].worker = v /\ events'[i].kind = "exit"
    BY DEF ExitIsAnnounced
  <2>1. PICK i \in DOMAIN events : events[i].worker = v /\ events[i].kind = "exit"
    BY <1>2 DEF ExitIsAnnounced
  <2>2. i \in DOMAIN events' /\ events'[i] = events[i]
    BY <1>1
  <2>3. QED
    BY <2>1, <2>2
<1>7. HearsThemOut'
  <2>1. ASSUME NEW v \in Workers, heard[v] # Nothing, NEW i \in DOMAIN events'
        PROVE  mode'[v] = "ended" /\ events'[i].worker # v
    <3>1. mode[v] = "ended" /\ v # w /\ v \in Threads
      BY <1>2, <2>1 DEF HearsThemOut
    <3>2. QED
      BY <1>1, <2>1, <3>1 DEF HearsThemOut
  <2>2. QED
    BY <1>2, <2>1 DEF HearsThemOut
<1>8. QED
  BY <1>3, <1>5, <1>6, <1>7

\* The last events of a worker: an exit, after an error if there was one.
LEMMA LastWords ==
  ASSUME ThreadsTypeOK, NEW w \in Workers, NEW ok \in BOOLEAN, WorkerEnds(w, ok)
  PROVE  /\ events' \in Seq(Events) /\ DOMAIN events = 1..Len(events) /\ Len(events) \in Nat
         /\ \E n \in {1, 2} :
              /\ DOMAIN events' = 1..(Len(events) + n)
              /\ \A i \in 1..Len(events) : events'[i] = events[i]
              /\ \A i \in 1..(Len(events) + n) : i > Len(events) => events'[i].worker = w
              /\ \A i \in 1..(Len(events) + n) :
                   i > Len(events) /\ events'[i].kind = "exit" <=> i = Len(events) + n
<1> DEFINE code == IF ok THEN IF terminated[w] THEN 1 ELSE 0 ELSE 1
           exit == ExitEvent(w, code)
           error == Event(w, "error")
           words == IF ok THEN <<exit>> ELSE <<error, exit>>
           m == Len(events)
           n == IF ok THEN 1 ELSE 2
<1>1. /\ exit \in Events /\ error \in Events /\ exit.worker = w /\ error.worker = w
      /\ exit.kind = "exit" /\ error.kind = "error"
  BY DEF ExitEvent, Event, Events
<1>2. events' = events \o words
  BY DEF WorkerEnds
<1> HIDE DEF exit, error
<1>3. /\ words \in Seq(Events) /\ Len(words) = n /\ words[n] = exit
      /\ \A i \in 1..n : words[i] = IF i = n THEN exit ELSE error
  BY <1>1
<1>4. events \in Seq(Events) /\ DOMAIN events = 1..m /\ m \in Nat
  BY LenProperties DEF ThreadsTypeOK
<1> HIDE DEF words, n
<1>5. /\ events' \in Seq(Events) /\ Len(events') = m + n
      /\ \A i \in 1..(m + n) : events'[i] = IF i <= m THEN events[i] ELSE words[i - m]
  BY <1>2, <1>3, <1>4, ConcatProperties
<1> HIDE DEF m
<1>6. n \in {1, 2}
  BY DEF n
<1>7. DOMAIN events' = 1..(m + n)
  BY <1>5, LenProperties
<1>8. /\ \A i \in 1..m : events'[i] = events[i]
      /\ \A i \in 1..(m + n) : i > m => events'[i] = IF i = m + n THEN exit ELSE error
  <2>1. ASSUME NEW i \in 1..(m + n), i > m
        PROVE  events'[i] = IF i = m + n THEN exit ELSE error
    <3>1. i - m \in 1..n /\ (i - m = n <=> i = m + n) /\ ~(i <= m)
      BY <1>4, <1>6, <2>1
    <3>2. QED
      BY <1>3, <1>5, <3>1
  <2>2. \A i \in 1..m : i \in 1..(m + n) /\ i <= m
    BY <1>4, <1>6
  <2>3. QED
    BY <1>5, <2>1, <2>2
<1>9. /\ \A i \in 1..(m + n) : i > m => events'[i].worker = w
      /\ \A i \in 1..(m + n) : i > m /\ events'[i].kind = "exit" <=> i = m + n
  BY <1>1, <1>4, <1>6, <1>8
<1>10. QED
  BY <1>4, <1>5, <1>6, <1>7, <1>8, <1>9 DEF m

LEMMA EndsKeeps ==
  ASSUME ThreadInv, NEW w \in Workers, NEW ok \in BOOLEAN, WorkerEnds(w, ok), UNCHANGED threw,
         mode[Main] # "ended", mode[w] \notin {"none", "ended"}
  PROVE  ThreadInv'
<1> USE DEF ThreadInv
<1> DEFINE m == Len(events)
<1>1. PICK n \in {1, 2} :
        /\ DOMAIN events' = 1..(m + n)
        /\ \A i \in 1..m : events'[i] = events[i]
        /\ \A i \in 1..(m + n) : i > m => events'[i].worker = w
        /\ \A i \in 1..(m + n) : i > m /\ events'[i].kind = "exit" <=> i = m + n
  BY LastWords
<1>2. events' \in Seq(Events) /\ DOMAIN events = 1..m /\ m \in Nat
  BY LastWords
<1> HIDE DEF m
<1>3. /\ Main \in Threads /\ Main # w /\ Workers \subseteq Threads
      /\ mode'[w] = "ended" /\ \A b \in Threads \ {w} : mode'[b] = mode[b]
      /\ UNCHANGED <<armed, control, terminated, active, referenced, commands, heard, listening>>
  BY ThreadAssumption DEF Threads, WorkerEnds, Go, ThreadsTypeOK, workerVars
<1>4. ThreadsTypeOK'
  BY <1>2, <1>3 DEF ThreadsTypeOK, WorkerEnds, Go
<1>5. heard[w] = Nothing
  BY DEF HearsThemOut
<1>6. ControlledUntilHeard'
  BY <1>3 DEF ControlledUntilHeard
<1>7. \A i \in 1..m : /\ i \in 1..(m + n) /\ events[i].worker \in Workers
                      /\ events[i].kind = "exit" => events[i].worker # w
  BY <1>2, EventFields DEF ExitIsLast
<1>8. ExitIsLast'
  <2> SUFFICES ASSUME NEW i \in 1..(m + n), events'[i].kind = "exit"
               PROVE  /\ mode'[events'[i].worker] = "ended"
                      /\ \A j \in 1..(m + n) : events'[j].worker = events'[i].worker => j <= i
    BY <1>1 DEF ExitIsLast
  <2>1. CASE i \in 1..m
    <3>1. /\ events'[i] = events[i] /\ events[i].kind = "exit" /\ events[i].worker \in Workers
          /\ events[i].worker # w
      BY <1>1, <1>7, <2>1
    <3>2. mode'[events'[i].worker] = "ended"
      BY <1>2, <1>3, <2>1, <3>1 DEF ExitIsLast
    <3>3. ASSUME NEW j \in 1..(m + n), events'[j].worker = events'[i].worker PROVE j <= i
      <4>1. ~(j > m)
        BY <1>1, <3>1, <3>3
      <4>2. j \in 1..m
        BY <1>2, <4>1
      <4>3. QED
        BY <1>1, <1>2, <2>1, <3>1, <3>3, <4>2 DEF ExitIsLast
    <3>4. QED
      BY <3>2, <3>3
  <2>2. CASE i \notin 1..m
    <3>1. i > m
      BY <1>2, <2>2
    <3>2. i = m + n /\ events'[i].worker = w
      BY <1>1, <3>1
    <3>3. \A j \in 1..(m + n) : j <= i
      BY <1>2, <3>2
    <3>4. QED
      BY <1>3, <3>2, <3>3
  <2>3. QED
    BY <2>1, <2>2
<1>9. ExitIsAnnounced'
  <2> SUFFICES ASSUME NEW v \in Workers, mode'[v] = "ended", heard'[v] = Nothing
               PROVE  \E i \in 1..(m + n) : events'[i].worker = v /\ events'[i].kind = "exit"
    BY <1>1 DEF ExitIsAnnounced
  <2>1. CASE v = w
    <3>1. m + n \in 1..(m + n) /\ m + n > m
      BY <1>2
    <3>2. QED
      BY <1>1, <2>1, <3>1
  <2>2. CASE v # w
    <3>1. PICK i \in DOMAIN events : events[i].worker = v /\ events[i].kind = "exit"
      BY <1>3, <2>2 DEF ExitIsAnnounced
    <3>2. QED
      BY <1>1, <1>2, <1>7, <3>1
  <2>3. QED
    BY <2>1, <2>2
<1>10. HearsThemOut'
  <2>1. ASSUME NEW v \in Workers, heard[v] # Nothing
        PROVE  mode'[v] = "ended" /\ \A i \in 1..(m + n) : events'[i].worker # v
    <3>1. mode[v] = "ended" /\ v # w /\ v \in Threads
      BY <1>3, <1>5, <2>1 DEF HearsThemOut
    <3>2. ASSUME NEW i \in 1..(m + n) PROVE events'[i].worker # v
      <4>1. CASE i \in 1..m
        BY <1>1, <1>2, <2>1, <4>1 DEF HearsThemOut
      <4>2. CASE i \notin 1..m
        BY <1>1, <1>2, <3>1, <4>2
      <4>3. QED
        BY <4>1, <4>2
    <3>3. QED
      BY <1>3, <3>1, <3>2
  <2>2. QED
    BY <1>1, <1>3, <2>1 DEF HearsThemOut
<1>11. QED
  BY <1>4, <1>6, <1>8, <1>9, <1>10

\* dispatch_worker_event: the main agent takes one event.
LEMMA PollEventKeeps ==
  ASSUME ThreadInv, NEW others, mode[Main] # "ended", PollEvent(others)
  PROVE  ThreadInv'
<1> USE DEF ThreadInv
<1> DEFINE e == Head(events)
           w == e.worker
           m == Len(events)
<1>1. /\ m \in Nat \ {0} /\ DOMAIN events = 1..m /\ e = events[1]
      /\ events' \in Seq(Events) /\ DOMAIN events' = 1..(m - 1)
      /\ \A i \in 1..(m - 1) : events'[i] = events[i + 1]
  BY EmptySeq, LenProperties, HeadTailProperties DEF PollEvent, ThreadsTypeOK
<1>2. e \in Events /\ w \in Workers /\ (e.kind = "exit" => e.code \in {0, 1})
  BY <1>1, EventFields
<1>3. /\ Main \in Threads /\ Main \notin Workers /\ Workers \subseteq Threads
      /\ mode'[Main] = "message" /\ \A b \in Threads \ {Main} : mode'[b] = mode[b]
      /\ UNCHANGED <<armed, terminated, referenced, commands, listening, threw>>
  BY ThreadAssumption DEF Threads, PollEvent, Go, ThreadsTypeOK
<1>4. IF e.kind = "exit"
      THEN /\ heard' = [heard EXCEPT ![w] = ExitCode(e)]
           /\ active' = [active EXCEPT ![w] = FALSE] /\ control' = control \ {w}
      ELSE UNCHANGED <<heard, active, control>>
  BY DEF PollEvent, Forget
<1> HIDE DEF m, e
<1>5. \A i \in 1..(m - 1) : i + 1 \in 1..m /\ i + 1 # 1
  BY <1>1
<1>6. e.kind = "exit" =>
        /\ mode[w] = "ended" /\ heard[w] = Nothing /\ w \in control
        /\ \A i \in 1..(m - 1) : events'[i].worker # w
  <2> HAVE e.kind = "exit"
  <2>1. 1 \in 1..m
    BY <1>1
  <2>2. mode[w] = "ended" /\ \A j \in 1..m : events[j].worker = w => j <= 1
    BY <1>1, <2>1 DEF ExitIsLast
  <2>3. heard[w] = Nothing
    BY <1>1, <1>2, <2>1 DEF HearsThemOut
  <2>4. w \in control
    BY <1>2, <2>2, <2>3 DEF ControlledUntilHeard
  <2>5. \A i \in 1..(m - 1) : ~(i + 1 <= 1)
    BY <1>1
  <2>6. QED
    BY <1>1, <1>5, <2>2, <2>3, <2>4, <2>5
<1>7. e.kind = "exit" =>
        ExitCode(e) \in {0, 1} /\ (ExitCode(e) = 0 => ~terminated[w])
  BY <1>2, <1>6 DEF ExitCode
<1>8. ThreadsTypeOK'
  <2>1. heard' \in [Workers -> {Nothing, 0, 1}] /\ active' \in [Workers -> BOOLEAN]
        /\ control' \subseteq Workers
    BY <1>2, <1>4, <1>7 DEF ThreadsTypeOK
  <2>2. mode' = [mode EXCEPT ![Main] = "message"]
    BY DEF PollEvent, Go
  <2>3. QED
    BY <1>1, <1>3, <2>1, <2>2 DEF ThreadsTypeOK
<1>9. /\ \A v \in Workers \ {w} : heard'[v] = heard[v] /\ active'[v] = active[v]
                                  /\ (v \in control' <=> v \in control)
      /\ e.kind = "exit" => heard'[w] = ExitCode(e) /\ w \notin control'
  BY <1>2, <1>4 DEF ThreadsTypeOK
<1>10. ControlledUntilHeard'
  <2> SUFFICES ASSUME NEW v \in Workers
               PROVE  /\ mode[v] = "none" => heard'[v] = Nothing
                      /\ mode[v] # "none" /\ heard'[v] = Nothing => active'[v] /\ v \in control'
                      /\ heard'[v] # Nothing => v \notin control'
    BY <1>3 DEF ControlledUntilHeard
  <2>1. CASE v = w /\ e.kind = "exit"
    BY <1>6, <1>7, <1>9, <2>1 DEF Nothing
  <2>2. CASE ~(v = w /\ e.kind = "exit")
    BY <1>4, <1>9, <2>2 DEF ControlledUntilHeard
  <2>3. QED
    BY <2>1, <2>2
<1>11. ExitIsLast'
  <2> SUFFICES ASSUME NEW i \in 1..(m - 1), events'[i].kind = "exit"
               PROVE  /\ mode'[events'[i].worker] = "ended"
                      /\ \A j \in 1..(m - 1) : events'[j].worker = events'[i].worker => j <= i
    BY <1>1 DEF ExitIsLast
  <2>1. events'[i] = events[i + 1] /\ i + 1 \in 1..m /\ events[i + 1].worker \in Workers
    BY <1>1, <1>5, EventFields
  <2>2. /\ mode[events[i + 1].worker] = "ended"
        /\ \A j \in 1..m : events[j].worker = events[i + 1].worker => j <= i + 1
    BY <1>1, <2>1 DEF ExitIsLast
  <2>3. ASSUME NEW j \in 1..(m - 1), events'[j].worker = events'[i].worker PROVE j <= i
    <3>1. j + 1 <= i + 1
      BY <1>1, <1>5, <2>1, <2>2, <2>3
    <3>2. QED
      BY <1>1, <3>1
  <2>4. QED
    BY <1>3, <2>1, <2>2, <2>3
<1>12. ExitIsAnnounced'
  <2> SUFFICES ASSUME NEW v \in Workers, mode[v] = "ended", heard'[v] = Nothing
               PROVE  \E i \in 1..(m - 1) : events'[i].worker = v /\ events'[i].kind = "exit"
    BY SMTT(60), <1>1, <1>3 DEF ExitIsAnnounced
  <2>1. ~(v = w /\ e.kind = "exit")
    BY <1>7, <1>9 DEF Nothing
  <2>2. heard[v] = Nothing
    BY <1>4, <1>9, <2>1
  <2>3. PICK i \in 1..m : events[i].worker = v /\ events[i].kind = "exit"
    BY <1>1, <2>2 DEF ExitIsAnnounced
  <2>4. i # 1
    BY <1>1, <2>1, <2>3
  <2>5. i - 1 \in 1..(m - 1) /\ (i - 1) + 1 = i
    BY <1>1, <2>4
  <2>6. QED
    BY <1>1, <2>3, <2>5
<1>13. HearsThemOut'
  <2> SUFFICES ASSUME NEW v \in Workers, heard'[v] # Nothing
               PROVE  /\ mode[v] = "ended" /\ \A i \in 1..(m - 1) : events'[i].worker # v
                      /\ heard'[v] = 0 => ~terminated[v]
    BY <1>1, <1>3 DEF HearsThemOut
  <2>1. CASE v = w /\ e.kind = "exit"
    BY <1>6, <1>7, <1>9, <2>1
  <2>2. CASE ~(v = w /\ e.kind = "exit")
    <3>1. heard[v] # Nothing /\ heard'[v] = heard[v]
      BY <1>4, <1>9, <2>2
    <3>2. QED
      BY <1>1, <1>5, <3>1 DEF HearsThemOut
  <2>3. QED
    BY <2>1, <2>2
<1>14. QED
  BY <1>8, <1>10, <1>11, <1>12, <1>13

\* A step by which an agent that is neither new nor over goes elsewhere in its
\* script or loop, with no event.
LEMMA MovesKeep ==
  ASSUME ThreadInv, mode[Main] # "ended", NEW a \in Threads,
         NEW where \in {"script", "loop", "check", "callback", "message", "ended", "aborted"},
         mode[a] \notin {"none", "ended"}, Go(a, where),
         where \in {"ended", "aborted"} => a = Main,
         where = "ended" => ~HasPending(Main),
         armed' \in [Threads -> BOOLEAN], listening' \in [Workers -> BOOLEAN],
         commands' \in [Workers -> Seq({"message", "terminate"})], threw' \subseteq Workers,
         UNCHANGED <<control, active, referenced, events, heard>>,
         terminated' \in [Workers -> BOOLEAN],
         \A w \in Workers : heard[w] # Nothing => terminated'[w] = terminated[w]
  PROVE  ThreadInv'
<1>1. ThreadsTypeOK
  BY DEF ThreadInv
<1>2. mode'[a] = where /\ \A b \in Threads \ {a} : mode'[b] = mode[b]
  BY <1>1, GoMoves
<1>3. Main \in Threads /\ Main \notin Workers /\ Workers \subseteq Threads
  BY ThreadAssumption DEF Threads
<1>4. ThreadsTypeOK'
  <2>1. mode' \in [Threads -> {"none", "failed", "start", "compile", "script", "callback",
                               "message", "loop", "check", "ended", "aborted"}]
    BY <1>1 DEF Go, ThreadsTypeOK
  <2>2. QED
    BY <1>1, <2>1 DEF ThreadsTypeOK
<1>5. \A w \in Workers : (mode'[w] = "ended" <=> mode[w] = "ended") /\ (mode'[w] = "none" <=> mode[w] = "none")
  BY <1>2, <1>3
<1>6. mode'[Main] = "ended" => \A w \in Workers : ~(active[w] /\ referenced[w])
  BY <1>2, <1>3 DEF HasPending
<1>7. QED
  BY <1>4, <1>5, <1>6, QuietStep

LEMMA JavaScriptKeeps ==
  ASSUME ThreadInv, mode[Main] # "ended", NEW a \in Threads, JavaScript(a)
  PROVE  ThreadInv'
<1>1. ThreadsTypeOK /\ Main \in Threads /\ Main \notin Workers /\ Workers \subseteq Threads
  BY ThreadAssumption DEF ThreadInv, Threads
<1>2. CASE SetTimer(a)
  <2>1. ThreadsTypeOK' /\ UNCHANGED <<mode, workerVars, channelVars>>
    BY <1>1, <1>2 DEF SetTimer, ThreadsTypeOK, workerVars, channelVars
  <2>2. QED
    BY <2>1, QuietStep DEF workerVars, channelVars
<1>3. CASE Throw(a)
  <2>1. CASE mode[a] = "script"
    BY <1>1, <1>3, <2>1, MovesKeep DEF Throw, ThreadsTypeOK, workerVars, channelVars
  <2>2. CASE mode[a] = "message" /\ a = Main
    BY <1>1, <1>3, <2>2, MovesKeep DEF Throw, AgentEnds, ThreadsTypeOK, workerVars, channelVars
  <2>3. CASE mode[a] = "message" /\ a # Main
    BY <1>1, <1>3, <2>3, EndsKeeps DEF Throw, AgentEnds, Threads
  <2>4. QED
    BY <1>3, <2>1, <2>2, <2>3 DEF Throw
<1>4. ASSUME NEW w \in Workers,
             \/ CreateWorker(w) \/ PostToWorker(w) \/ Terminate(w)
             \/ \E value \in BOOLEAN : WorkerRef(w, value)
      PROVE  ThreadInv'
  BY <1>4, CreateKeeps, MainKeeps
<1>5. CASE a \in Workers /\ PostToParent(a)
  <2> DEFINE e == Event(a, "message")
  <2>1. e \in Events /\ e.worker = a /\ e.kind # "exit"
    BY <1>5 DEF Event, Events
  <2>2. /\ events' = Append(events, e) /\ mode[a] \notin {"none", "ended"}
        /\ UNCHANGED <<mode, armed, control, terminated, active, referenced, commands, heard,
                       listening, threw>>
    BY <1>5 DEF PostToParent, Running, workerVars
  <2> HIDE DEF e
  <2>3. Append(events, e) \in Seq(Events)
    BY <1>1, <2>1, AppendProperties DEF ThreadsTypeOK
  <2>4. ThreadsTypeOK'
    BY <1>1, <2>2, <2>3 DEF ThreadsTypeOK
  <2>5. QED
    BY <1>5, <2>1, <2>2, <2>4, SaysKeeps
<1>6. CASE a \in Workers /\ \E value \in BOOLEAN : Listen(a, value)
  <2>1. ThreadsTypeOK' /\ UNCHANGED <<mode, workerVars, channelVars>>
    BY <1>1, <1>6 DEF Listen, ThreadsTypeOK, workerVars, channelVars
  <2>2. QED
    BY <2>1, QuietStep DEF workerVars, channelVars
<1>7. QED
  BY <1>2, <1>3, <1>4, <1>5, <1>6 DEF JavaScript

LEMMA StartUpKeeps ==
  ASSUME ThreadInv, mode[Main] # "ended", NEW a \in Threads, StartUp(a)
  PROVE  ThreadInv'
<1>1. ThreadsTypeOK /\ a \in Workers /\ a # Main
  BY ThreadAssumption DEF ThreadInv, StartUp
<1>2. CASE Online(a)
  <2> DEFINE e == Event(a, "online")
  <2>1. e \in Events /\ e.worker = a /\ e.kind # "exit"
    BY <1>1 DEF Event, Events
  <2>2. /\ events' = Append(events, e) /\ mode[a] = "start" /\ Go(a, "compile")
        /\ UNCHANGED <<armed, control, terminated, active, referenced, commands, heard,
                       listening, threw>>
    BY <1>2 DEF Online, workerVars
  <2>3. mode'[a] = "compile" /\ \A b \in Threads \ {a} : mode'[b] = mode[b]
    BY <1>1, <2>2, GoMoves
  <2> HIDE DEF e
  <2>4. Append(events, e) \in Seq(Events)
    BY <1>1, <2>1, AppendProperties DEF ThreadsTypeOK
  <2>5. ThreadsTypeOK'
    BY <1>1, <2>2, <2>4 DEF ThreadsTypeOK, Go
  <2>6. QED
    BY <1>1, <2>1, <2>2, <2>3, <2>5, SaysKeeps
<1>3. CASE mode[a] = "compile" /\ Go(a, "script") /\ UNCHANGED <<armed, workerVars, channelVars, listening, threw>>
  BY <1>1, <1>3, MovesKeep DEF ThreadsTypeOK, workerVars, channelVars
<1>4. CASE mode[a] = "compile" /\ WorkerEnds(a, FALSE) /\ UNCHANGED threw
  BY <1>1, <1>4, EndsKeeps
<1>5. QED
  BY <1>2, <1>3, <1>4 DEF StartUp, Compile

\* The steps of an event loop.
LEMMA LoopKeeps ==
  ASSUME ThreadInv, mode[Main] # "ended", NEW a \in Threads, NEW others \in BOOLEAN,
         \/ LoopEnds(a, others) \/ Sleep(a, others) \/ Poll(a, others) \/ PollEnds(a, others)
         \/ Return(a) \/ TimerCallback(a)
  PROVE  ThreadInv'
<1>1. ThreadsTypeOK /\ Main \in Threads /\ Main \notin Workers /\ Workers \subseteq Threads
  BY ThreadAssumption DEF ThreadInv, Threads
<1>2. CASE LoopEnds(a, others)
  <2>1. CASE a = Main
    <3>1. Go(a, IF a \notin threw THEN "ended" ELSE "aborted") /\ ~HasPending(a)
      BY <1>2, <2>1 DEF LoopEnds, AgentEnds
    <3>2. /\ mode[a] \notin {"none", "ended"}
          /\ UNCHANGED <<armed, workerVars, channelVars, listening, threw>>
      BY <1>2, <2>1 DEF LoopEnds, AgentEnds, AtPoll
    <3>3. QED
      BY <1>1, <2>1, <3>1, <3>2, MovesKeep DEF ThreadsTypeOK, workerVars, channelVars
  <2>2. CASE a # Main
    BY <1>1, <1>2, <2>2, EndsKeeps DEF LoopEnds, AgentEnds, AtPoll, Threads
  <2>3. QED
    BY <2>1, <2>2
<1>3. CASE \/ Sleep(a, others) \/ Return(a) \/ TimerCallback(a) \/ PollNothing(a, others)
           \/ CallbackReturns(a)
  <2>1. PICK where \in {"loop", "check", "callback"} : Go(a, where)
    BY <1>3 DEF Sleep, Return, TimerCallback, PollNothing, CallbackReturns
  <2>2. mode[a] \notin {"none", "ended"}
    BY <1>3 DEF Sleep, Return, TimerCallback, PollNothing, CallbackReturns, Polls, AtPoll
  <2>3. /\ armed' \in [Threads -> BOOLEAN]
        /\ UNCHANGED <<workerVars, channelVars, listening, threw>>
    BY <1>1, <1>3 DEF Sleep, Return, TimerCallback, PollNothing, CallbackReturns, ThreadsTypeOK
  <2>4. /\ listening' \in [Workers -> BOOLEAN] /\ threw' \subseteq Workers
        /\ commands' \in [Workers -> Seq({"message", "terminate"})]
        /\ terminated' \in [Workers -> BOOLEAN]
        /\ UNCHANGED <<control, active, referenced, events, heard, terminated>>
    BY <1>1, <2>3 DEF ThreadsTypeOK, workerVars, channelVars
  <2>5. QED
    BY <2>1, <2>2, <2>3, <2>4, MovesKeep
<1>4. CASE a \in Workers /\ (PollMessage(a, others) \/ PollTerminate(a, others))
  <2>1. commands' = [commands EXCEPT ![a] = Tail(@)] /\ commands[a] # <<>>
    BY <1>4 DEF PollMessage, PollTerminate
  <2>2. commands' \in [Workers -> Seq({"message", "terminate"})]
    <3>1. Tail(commands[a]) \in Seq({"message", "terminate"})
      BY <1>1, <1>4, <2>1, HeadTailProperties DEF ThreadsTypeOK
    <3>2. QED
      BY <1>1, <2>1, <3>1 DEF ThreadsTypeOK
  <2>3. PICK where \in {"message", "loop"} : Go(a, where)
    BY <1>4 DEF PollMessage, PollTerminate
  <2>4. /\ mode[a] \notin {"none", "ended"}
        /\ UNCHANGED <<armed, control, active, referenced, events, heard, listening, threw>>
    BY <1>4 DEF PollMessage, PollTerminate, Polls, AtPoll, workerVars
  <2>5. terminated' = [terminated EXCEPT ![a] = TRUE] \/ UNCHANGED terminated
    BY <1>4 DEF PollMessage, PollTerminate, workerVars
  <2>6. heard[a] = Nothing
    BY <1>4, <2>4 DEF ThreadInv, HearsThemOut
  <2>7. /\ terminated' \in [Workers -> BOOLEAN]
        /\ \A w \in Workers : heard[w] # Nothing => terminated'[w] = terminated[w]
    BY <1>1, <1>4, <2>5, <2>6 DEF ThreadsTypeOK
  <2>8. /\ armed' \in [Threads -> BOOLEAN] /\ listening' \in [Workers -> BOOLEAN]
        /\ threw' \subseteq Workers
    BY <1>1, <2>4 DEF ThreadsTypeOK
  <2>9. QED
    BY <2>2, <2>3, <2>4, <2>7, <2>8, MovesKeep
<1>5. CASE a = Main /\ PollEvent(others)
  BY <1>5, PollEventKeeps
<1>6. QED
  BY <1>2, <1>3, <1>4, <1>5 DEF Poll, PollEnds

-----------------------------------------------------------------------------
(* The cluster. *)

\* Every step of the cluster is one of wait and notify, or none of theirs.
LEMMA ClusterStepWaits ==
  ASSUME [Next]_vars
  PROVE  [WaitersNext]_waiterVars
<1>1. ASSUME NEW a \in Agents, RunJavaScript(a) \/ RunHost(a) \/ Start(a) \/ Loop(a) \/ Fire(a)
      PROVE  [WaitersNext]_waiterVars
  BY <1>1 DEF RunJavaScript, RunHost, Start, Loop, Fire, WaitersNext
<1>2. CASE \E s \in Sessions : TimerThread(s)
  BY <1>2 DEF WaitersNext
<1>3. CASE UNCHANGED vars
  BY <1>3 DEF vars
<1>4. QED
  BY <1>1, <1>2, <1>3 DEF Next

LEMMA ClusterStepKeeps ==
  ASSUME ThreadInv, [Next]_vars
  PROVE  ThreadInv'
<1>1. CASE UNCHANGED threadVars
  <2>1. UNCHANGED <<mode, armed, control, terminated, active, referenced, commands, events, heard,
                    listening, threw>>
    BY <1>1 DEF threadVars, workerVars, channelVars
  <2>2. QED
    BY <2>1 DEF ThreadInv, ThreadsTypeOK, ControlledUntilHeard, ExitIsLast, ExitIsAnnounced,
                HearsThemOut
<1>2. ASSUME Alive, NEW a \in Agents, UNCHANGED threadVars \/ RunJavaScript(a) \/ RunHost(a) \/ Start(a) \/ Loop(a) \/ Fire(a)
      PROVE  ThreadInv'
  <2>1. a \in Threads /\ mode[Main] # "ended" /\ Expired \in BOOLEAN
    BY <1>2, ClusterAssumption DEF Alive, Expired
  <2>2. \/ JavaScript(a) \/ Return(a) \/ StartUp(a) \/ TimerCallback(a) \/ UNCHANGED threadVars
        \/ LoopEnds(a, Expired) \/ Sleep(a, Expired) \/ Poll(a, Expired) \/ PollEnds(a, Expired)
    BY <1>2 DEF RunJavaScript, RunHost, Start, Loop, Fire
  <2>3. QED
    BY <1>1, <2>1, <2>2, JavaScriptKeeps, StartUpKeeps, LoopKeeps
<1>3. QED
  BY <1>1, <1>2 DEF Next, vars

\* Every variable of the agents and of their waiters keeps its type.
THEOREM ClusterTypeCorrect == Spec => []TypeOK
<1>1. ThreadInv /\ IInv => TypeOK
  BY DEF ThreadInv, IInv, TypeOK
<1>2. Init => ThreadInv /\ IInv
  BY ThreadsInitInv, InitInv DEF Init
<1>3. ThreadInv /\ IInv /\ [Next]_vars => (ThreadInv /\ IInv)'
  BY ClusterStepKeeps, ClusterStepWaits, StepKeeps
<1>4. QED
  BY <1>1, <1>2, <1>3, PTL DEF Spec

\* The main agent's loop does not end before it has heard of the exit of every
\* worker it holds a reference to; an exit is the last a worker says, and the
\* code 0 is given only to a worker that nobody had terminated.
THEOREM WorkersAreHeardOut == Spec => []HearsThemOut
<1>1. ThreadInv => HearsThemOut
  BY DEF ThreadInv
<1>2. Init => ThreadInv
  BY ThreadsInitInv DEF Init
<1>3. QED
  BY <1>1, <1>2, ClusterStepKeeps, PTL DEF Spec

\* No exit of a worker is lost between its thread and the main agent.
THEOREM ExitsAreAnnounced == Spec => [](ControlledUntilHeard /\ ExitIsAnnounced)
<1>1. ThreadInv => ControlledUntilHeard /\ ExitIsAnnounced
  BY DEF ThreadInv
<1>2. Init => ThreadInv
  BY ThreadsInitInv DEF Init
<1>3. QED
  BY <1>1, <1>2, ClusterStepKeeps, PTL DEF Spec

\* Agents that run event loops and end when they are done lose no waiter
\* either, and their waits and notifications are a queue.
THEOREM ClusterServesInOrder == Spec => []ListedIsTended /\ ServesInOrder
<1>1. IInv => ListedIsTended
  BY DEF IInv
<1>2. Init => IInv /\ Queue!Init
  BY InitInv, InitMaps DEF Init
<1>3. IInv /\ [Next]_vars => IInv' /\ [Queue!Next]_<<Waiting, Order, Outcome>>
  BY ClusterStepWaits, StepKeeps, StepMaps DEF queueVars
<1>4. QED
  BY <1>1, <1>2, <1>3, PTL DEF Spec, ServesInOrder, Queue!Spec, Order, Outcome
=============================================================================
