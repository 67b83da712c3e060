----------------------------- MODULE WaiterList -----------------------------
(***************************************************************************)
(* What the waiters of one shared location are promised: they form a queue *)
(* (ECMAScript's WaiterList); a notification takes the one that has waited *)
(* longest, a timeout takes any, and nobody is taken twice.                *)
(***************************************************************************)
CONSTANT Sessions     (* one per call of Atomics.wait or Atomics.waitAsync   *)

VARIABLES
  waiting,            (* who is in the queue                                 *)
  before,             (* <<s, t>>: s has waited longer than t                *)
  outcome             (* how each session ended, or that it has not          *)

Init ==
  /\ waiting = {} /\ before = {}
  /\ outcome = [s \in Sessions |-> "none"]

Enqueue(s) ==
  /\ outcome[s] = "none" /\ s \notin waiting
  /\ waiting' = waiting \cup {s}
  /\ before' = before \cup waiting \X {s}
  /\ UNCHANGED outcome

Leave(s, how) ==
  /\ outcome' = [outcome EXCEPT ![s] = how]
  /\ waiting' = waiting \ {s}
  /\ before' = {p \in before : s \notin {p[1], p[2]}}

\* The one that has waited longest.
WakeFirst(s) ==
  /\ s \in waiting /\ \A t \in waiting \ {s} : <<s, t>> \in before
  /\ Leave(s, "notified")

Expire(s) == s \in waiting /\ Leave(s, "timedOut")

Next == \E s \in Sessions : Enqueue(s) \/ WakeFirst(s) \/ Expire(s)

Spec == Init /\ [][Next]_<<waiting, before, outcome>>
=============================================================================
