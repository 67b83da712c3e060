--------------------------- MODULE AtomicsWaiters ---------------------------
(***************************************************************************)
(* Atomics.wait, waitAsync and notify on one shared location: dispatch/    *)
(* atomics.rs and the waiter table of WorkerCluster.  A session is one     *)
(* registration; its status has a lock and a condition variable of its     *)
(* own, and the list of registrations has the lock `waiters`.  A waitAsync *)
(* leaves a thread behind that sleeps until the timeout; promise handles   *)
(* index the table of the agent that looks them up.                        *)
(*                                                                         *)
(* A wait whose value differs, and a waitAsync with timeout 0, return      *)
(* before they touch anything: they are not actions.  A critical section   *)
(* that takes no second lock is one step.                                  *)
(***************************************************************************)
EXTENDS Integers, FiniteSets, Sequences, SequencesExt

CONSTANTS
  Agents,             (* the threads that run JavaScript                     *)
  SyncAgents,         (* those that call wait                                *)
  AsyncAgents,        (* those that call waitAsync                           *)
  MaxSessions,        (* bound: registrations in a behaviour                 *)
  Handles,            (* promise handles of each agent's table               *)
  Limits,             (* the counts notify is called with                    *)
  None

ASSUME WaiterAssumption ==
  /\ AsyncAgents \cup SyncAgents \subseteq Agents /\ None \notin Agents \cup Handles
  /\ IsFiniteSet(Agents) /\ MaxSessions \in Nat
  /\ Cardinality(Handles) >= MaxSessions /\ Limits \subseteq Nat

Sessions == 1..MaxSessions

VARIABLES
  registry,           (* waiters[key], in order of registration              *)
  registryLock,       (* who holds the lock of the table                     *)
  status,             (* WaiterStatus of each session                        *)
  statusLock,         (* who holds it across steps                           *)
  waiter,             (* whose session it is, its promise, is it timed?      *)
  timer,              (* the timeout thread of a waitAsync                   *)
  timeouts,           (* wait_timeouts: handles whose wait has expired       *)
  promise,            (* the promises of waitAsync, in each agent's table    *)
  op                  (* what each agent's thread is doing                   *)

sessionVars == <<status, statusLock, waiter>>
waiterVars == <<registry, registryLock, sessionVars, timer, timeouts, promise, op>>

Idle == [pc |-> "idle"]
Unused == {s \in Sessions : status[s] = "unused"}
IsAsync(s) == waiter[s].promise # None

WaitersInit ==
  /\ registry = <<>> /\ registryLock = None
  /\ status = [s \in Sessions |-> "unused"]
  /\ statusLock = [s \in Sessions |-> None]
  /\ waiter = [s \in Sessions |-> [owner |-> None, promise |-> None, timed |-> FALSE]]
  /\ timer = [s \in Sessions |-> "none"]
  /\ timeouts = <<>>
  /\ promise = [a \in Agents |-> [h \in Handles |-> "none"]]
  /\ op = [a \in Agents |-> Idle]

SetOp(a, what) == op' = [op EXCEPT ![a] = what]

\* settle_promise in the table of agent a: only a pending promise changes.
Settle(a, handles, result) ==
  promise' = [promise EXCEPT ![a] = [h \in Handles |->
    IF h \in handles /\ @[h] = "pending" THEN result ELSE @[h]]]

-----------------------------------------------------------------------------
(* Waiting. *)

\* The value was the expected one when it was compared, under the lock of the
\* bytes; that lock is released before the session is registered.
Compare(a, async, timed) ==
  /\ op[a] = Idle
  /\ Cardinality({b \in Agents : op[b].pc = "register"}) < Cardinality(Unused)
  /\ a \in (IF async THEN AsyncAgents ELSE SyncAgents)
  /\ SetOp(a, [pc |-> "register", async |-> async, timed |-> timed])
  /\ UNCHANGED <<registry, registryLock, sessionVars, timer, timeouts, promise>>

\* Mutant: the registration goes to the front of the queue.
Enlist_First(s, a, handle, timed) ==
  /\ registryLock = None
  /\ registry' = <<s>> \o registry
  /\ status' = [status EXCEPT ![s] = "waiting"]
  /\ waiter' = [waiter EXCEPT ![s] = [owner |-> a, promise |-> handle, timed |-> timed]]

Enlist(s, a, handle, timed) ==
  /\ registryLock = None
  /\ registry' = Append(registry, s)
  /\ status' = [status EXCEPT ![s] = "waiting"]
  /\ waiter' = [waiter EXCEPT ![s] = [owner |-> a, promise |-> handle, timed |-> timed]]

\* wait_register; a waitAsync also makes a promise and spawns its timer.
Register(a) ==
  /\ op[a].pc = "register"
  /\ LET s == CHOOSE s \in Unused : \A t \in Unused : s <= t IN
     IF op[a].async
     THEN \E h \in {h \in Handles : promise[a][h] = "none"} :
            /\ Enlist(s, a, h, op[a].timed)
            /\ promise' = [promise EXCEPT ![a][h] = "pending"]
            /\ timer' = [timer EXCEPT ![s] = "sleep"]
            /\ SetOp(a, Idle)
     ELSE /\ Enlist(s, a, None, op[a].timed)
          /\ SetOp(a, [pc |-> "block", s |-> s])
          /\ UNCHANGED <<promise, timer>>
  /\ UNCHANGED <<registryLock, statusLock, timeouts>>

\* wait_block: look at the status under its lock and sleep on the condvar.
Block(a) ==
  /\ op[a].pc = "block" /\ statusLock[op[a].s] = None
  /\ SetOp(a, IF status[op[a].s] = "waiting" THEN [op[a] EXCEPT !.pc = "asleep"] ELSE Idle)
  /\ UNCHANGED <<registry, registryLock, sessionVars, timer, timeouts, promise>>

\* Mutant: the predicate of the condvar looks for a timeout only.
Wake_TimeoutOnly(a) ==
  /\ op[a].pc = "asleep" /\ status[op[a].s] = "timedOut" /\ statusLock[op[a].s] = None
  /\ SetOp(a, Idle)
  /\ UNCHANGED <<registry, registryLock, sessionVars, timer, timeouts, promise>>

\* The condvar returns because the status has changed.
Wake(a) ==
  /\ op[a].pc = "asleep" /\ status[op[a].s] # "waiting" /\ statusLock[op[a].s] = None
  /\ SetOp(a, Idle)
  /\ UNCHANGED <<registry, registryLock, sessionVars, timer, timeouts, promise>>

\* The wait times out and keeps the lock of its status while it goes on.
Expire(a) ==
  /\ op[a].pc = "asleep" /\ status[op[a].s] = "waiting" /\ statusLock[op[a].s] = None
  /\ waiter[op[a].s].timed
  /\ status' = [status EXCEPT ![op[a].s] = "timedOut"]
  /\ statusLock' = [statusLock EXCEPT ![op[a].s] = a]
  /\ SetOp(a, [op[a] EXCEPT !.pc = "unlist"])
  /\ UNCHANGED <<registry, registryLock, waiter, timer, timeouts, promise>>

\* Mutant: a wait that timed out does not take itself off the list.
Unlist_Stays(a) ==
  /\ op[a].pc = "unlist" /\ registryLock = None
  /\ statusLock' = [statusLock EXCEPT ![op[a].s] = None]
  /\ SetOp(a, Idle)
  /\ UNCHANGED <<registry, registryLock, status, waiter, timer, timeouts, promise>>

\* ... to take itself off the list, which needs the lock of the table; it is
\* registered once, so it is there at most once.
Unlist(a) ==
  /\ op[a].pc = "unlist" /\ registryLock = None
  /\ registry' = RemoveFirst(registry, op[a].s)
  /\ statusLock' = [statusLock EXCEPT ![op[a].s] = None]
  /\ SetOp(a, Idle)
  /\ UNCHANGED <<registryLock, status, waiter, timer, timeouts, promise>>

-----------------------------------------------------------------------------
(* Notifying.  The notifier holds the table's lock and takes each status   *)
(* lock in turn; `served` is whom it woke, and what the code counts        *)
(* against the limit is the promises among them.                           *)

Counted(served) == Cardinality({i \in DOMAIN served : IsAsync(served[i])})

NotifyBegin(a, limit) ==
  /\ op[a] = Idle /\ registryLock = None /\ registry # <<>>
  /\ registryLock' = a
  /\ SetOp(a, [pc |-> "notify", limit |-> limit, batch |-> registry, kept |-> <<>>, served |-> <<>>])
  /\ UNCHANGED <<registry, sessionVars, timer, timeouts, promise>>

WakeOrKeep(a, s) ==
  IF status[s] = "waiting"
  THEN /\ status' = [status EXCEPT ![s] = "notified"]
       /\ SetOp(a, [op[a] EXCEPT !.batch = Tail(@), !.served = Append(@, s)])
  ELSE /\ UNCHANGED status
       /\ SetOp(a, [op[a] EXCEPT !.batch = Tail(@), !.kept = Append(@, s)])

NotifyEntry(a) ==
  /\ op[a].pc = "notify" /\ op[a].batch # <<>>
  /\ LET s == Head(op[a].batch) IN
     IF Counted(op[a].served) >= op[a].limit
     THEN /\ SetOp(a, [op[a] EXCEPT !.batch = Tail(@), !.kept = Append(@, s)])
          /\ UNCHANGED status
     ELSE statusLock[s] = None /\ WakeOrKeep(a, s)
  /\ UNCHANGED <<registry, registryLock, statusLock, waiter, timer, timeouts, promise>>

\* The table is unlocked; then the promises are settled, in the notifier's
\* own table, which nobody else reads.
NotifyEnd(a) ==
  /\ op[a].pc = "notify" /\ op[a].batch = <<>>
  /\ registry' = op[a].kept
  /\ registryLock' = None
  /\ Settle(a, {waiter[s].promise : s \in Range(op[a].served)}, "ok")
  /\ SetOp(a, Idle)
  /\ UNCHANGED <<sessionVars, timer, timeouts>>

-----------------------------------------------------------------------------
(* The thread a waitAsync leaves behind, and who answers the promise. *)

TimerFires(s) ==
  /\ timer[s] = "sleep" /\ waiter[s].timed /\ statusLock[s] = None
  /\ IF status[s] = "waiting"
     THEN /\ status' = [status EXCEPT ![s] = "timedOut"]
          /\ timer' = [timer EXCEPT ![s] = "push"]
     ELSE /\ UNCHANGED status
          /\ timer' = [timer EXCEPT ![s] = "remove"]
  /\ UNCHANGED <<registry, registryLock, statusLock, waiter, timeouts, promise, op>>

TimerPushes(s) ==
  /\ timer[s] = "push"
  /\ timeouts' = Append(timeouts, waiter[s].promise)
  /\ timer' = [timer EXCEPT ![s] = "remove"]
  /\ UNCHANGED <<registry, registryLock, sessionVars, promise, op>>

TimerRemoves(s) ==
  /\ timer[s] = "remove" /\ registryLock = None
  /\ registry' = RemoveFirst(registry, s)
  /\ timer' = [timer EXCEPT ![s] = "done"]
  /\ UNCHANGED <<registryLock, sessionVars, timeouts, promise, op>>

\* pop_wait_timeouts, by whichever agent polls, and settle_promise there.
PollTimeouts(a) ==
  /\ op[a] = Idle
  /\ Settle(a, Range(timeouts), "timedOut")
  /\ timeouts' = <<>>
  /\ UNCHANGED <<registry, registryLock, sessionVars, timer, op>>

-----------------------------------------------------------------------------

\* A call that JavaScript begins, and the steps that carry it on.
Call(a) ==
  \/ \E async, timed \in BOOLEAN : Compare(a, async, timed)
  \/ \E limit \in Limits : NotifyBegin(a, limit)

Continue(a) ==
  \/ Register(a) \/ Block(a) \/ Wake(a) \/ Expire(a) \/ Unlist(a)
  \/ NotifyEntry(a) \/ NotifyEnd(a)

TimerThread(s) == TimerFires(s) \/ TimerPushes(s) \/ TimerRemoves(s)

\* Threads keep running, and whoever waits for a lock that is released again
\* and again gets it in the end (SF); a sleep ends.
WaitersFairness ==
  /\ \A a \in Agents : SF_waiterVars(Continue(a))
  /\ \A s \in Sessions : SF_waiterVars(TimerThread(s))

WaitersNext ==
  \/ \E a \in Agents : Call(a) \/ Continue(a) \/ PollTimeouts(a)
  \/ \E s \in Sessions : TimerThread(s)

WaitersSpec == WaitersInit /\ [][WaitersNext]_waiterVars /\ WaitersFairness

-----------------------------------------------------------------------------
(* Properties. *)

OpTypes ==
  {Idle} \cup [pc : {"register"}, async : BOOLEAN, timed : BOOLEAN]
  \cup [pc : {"block", "asleep", "unlist"}, s : Sessions]
  \cup [pc : {"notify"}, limit : Limits, batch : Seq(Sessions), kept : Seq(Sessions),
        served : Seq(Sessions)]

WaitersTypeOK ==
  /\ registry \in Seq(Sessions) /\ registryLock \in Agents \cup {None}
  /\ status \in [Sessions -> {"unused", "waiting", "notified", "timedOut"}]
  /\ statusLock \in [Sessions -> Agents \cup {None}]
  /\ waiter \in [Sessions -> [owner : Agents \cup {None}, promise : Handles \cup {None},
                              timed : BOOLEAN]]
  /\ timer \in [Sessions -> {"none", "sleep", "push", "remove", "done"}]
  /\ timeouts \in Seq(Handles)
  /\ promise \in [Agents -> [Handles -> {"none", "pending", "ok", "timedOut"}]]
  /\ op \in [Agents -> OpTypes]

\* wait and notify implement the queue WaiterList promises: whatever threads do
\* between two locks, a notification wakes the session that has waited longest,
\* and a session that was notified never times out, nor the other way round.
Waiting == {s \in Sessions : status[s] = "waiting"}
Precedes(queue, s, t) ==
  \E i, j \in DOMAIN queue : i < j /\ queue[i] = s /\ queue[j] = t
Queue == INSTANCE WaiterList WITH
  waiting <- Waiting,
  before <- {p \in Waiting \X Waiting : Precedes(registry, p[1], p[2])},
  outcome <- [s \in Sessions |-> IF status[s] \in {"notified", "timedOut"} THEN status[s] ELSE "none"]
ServesInOrder == Queue!Spec

\* The sessions a notification reaches; while a notifier scans, the list is
\* what it still has to look at and what it keeps.
Listed == IF registryLock = None THEN Range(registry)
          ELSE Range(op[registryLock].batch) \cup Range(op[registryLock].kept)

\* Whoever waits is on the list, or a notification would pass it by; and all
\* that is on the list has somebody who will take it off: a waiting session its
\* thread or its timer, a finished one the thread that is to remove it.
ListedIsTended ==
  /\ \A s \in Sessions : status[s] = "waiting" => s \in Listed
  /\ \A s \in Listed :
       LET a == waiter[s].owner IN
         IF IsAsync(s) THEN timer[s] \in (IF status[s] = "waiting" THEN {"sleep"} ELSE {"push", "remove"})
         ELSE op[a].pc \in (IF status[s] = "waiting" THEN {"block", "asleep"} ELSE {"unlist"}) /\ op[a].s = s

\* The expired wait holds its status and wants the table; the notifier holds
\* the table and wants that status.
CircularWait ==
  \E a, b \in Agents :
    /\ op[a].pc = "unlist" /\ registryLock = b
    /\ op[b].batch # <<>> /\ Head(op[b].batch) = op[a].s
    /\ Counted(op[b].served) < op[b].limit

\* A notified Atomics.wait returns, unless a wait that expired and a notifier
\* have locked each other out.
NotifiedReturns ==
  \A a \in Agents :
    (op[a].pc = "asleep" /\ status[op[a].s] = "notified") ~> (op[a] = Idle \/ CircularWait)

\* Once nobody is in notify, a promise whose session was notified is settled.
NotifiedIsAnswered ==
  registryLock = None =>
    \A s \in Sessions : IsAsync(s) /\ status[s] = "notified" =>
      promise[waiter[s].owner][waiter[s].promise] # "pending"
=============================================================================
