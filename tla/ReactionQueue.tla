---------------------------- MODULE ReactionQueue ----------------------------
(* What a promise promises its reactions: each waits in a queue of its own   *)
(* promise, and once the promise is settled they run one by one, oldest      *)
(* first, whatever other promises do in the same step.                       *)
EXTENDS Sequences, Naturals

CONSTANT Promise
VARIABLES waiting, settled

TypeOK == settled \subseteq Promise /\ DOMAIN waiting = Promise

Init == waiting = [p \in Promise |-> <<>>] /\ settled = {}

Arrives(p) ==
  /\ Len(waiting'[p]) > Len(waiting[p])
  /\ SubSeq(waiting'[p], 1, Len(waiting[p])) = waiting[p]

Runs(p) == p \in settled /\ waiting[p] # <<>> /\ waiting'[p] = Tail(waiting[p])

Next ==
  /\ settled \subseteq settled'
  /\ DOMAIN waiting' = Promise
  /\ \A p \in Promise : waiting'[p] = waiting[p] \/ Arrives(p) \/ Runs(p)

Spec == Init /\ [][Next]_<<waiting, settled>>
=============================================================================
