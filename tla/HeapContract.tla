---------------------------- MODULE HeapContract ----------------------------
(***************************************************************************)
(* What the garbage collector promises the program: an object disappears   *)
(* only when the program cannot reach it any more.  Objects are handles,   *)
(* each with one reference word; the program holds handles in its locals.  *)
(***************************************************************************)
CONSTANTS Handles, Locals, Null

VARIABLES
  live,      (* handles that resolve to an object                            *)
  field,     (* the reference word of each object                            *)
  local      (* the references the program holds                             *)

vars == <<live, field, local>>

\* A set of objects the program can be confined to.
Closed(S) ==
  /\ \A l \in Locals : local[l] \in S \cup {Null}
  /\ \A h \in S : field[h] \in S \cup {Null}

\* h is in every closed set: the program can reach it.
Reachable == {h \in Handles : \A S \in SUBSET Handles : Closed(S) => h \in S}

Init ==
  /\ live \subseteq Handles
  /\ field \in [Handles -> Handles \cup {Null}]
  /\ local \in [Locals -> Handles \cup {Null}]
  /\ Reachable \subseteq live

Load(l, m) ==
  /\ local[m] # Null
  /\ local' = [local EXCEPT ![l] = field[local[m]]]
  /\ UNCHANGED <<live, field>>

Drop(l) ==
  /\ local' = [local EXCEPT ![l] = Null]
  /\ UNCHANGED <<live, field>>

Store(h, v) ==
  /\ h \in Reachable /\ v \in Reachable \cup {Null}
  /\ field' = [field EXCEPT ![h] = v]
  /\ UNCHANGED <<live, local>>

Allocate(l, h) ==
  /\ h \notin live
  /\ live' = live \cup {h}
  /\ local' = [local EXCEPT ![l] = h]
  /\ field' = [field EXCEPT ![h] = Null]

\* Objects die, and the word of a dead object means nothing any more.
Collect ==
  /\ live' \subseteq live
  /\ Reachable \subseteq live'
  /\ \A h \in live' : field'[h] = field[h]
  /\ field' \in [Handles -> Handles \cup {Null}]
  /\ UNCHANGED local

Next ==
  \/ \E l, m \in Locals : Load(l, m)
  \/ \E l \in Locals : Drop(l)
  \/ \E h \in Handles, v \in Handles \cup {Null} : Store(h, v)
  \/ \E l \in Locals, h \in Handles : Allocate(l, h)
  \/ Collect

Spec == Init /\ [][Next]_vars

\* No reference the program can follow leads to a dead object.
NoDanglingReference == Reachable \subseteq live

=============================================================================
