------------------------- MODULE MCGenerationalZgc --------------------------
(* Instances of GenerationalZgc for TLC. *)
EXTENDS GenerationalZgc, TLC

CONSTANT Page

OnePage == [h \in Handles |-> Page]
Interchangeable == Permutations(Handles) \cup Permutations(Locals)

(* Heaps to start with: an empty one, and local -> object -> object -> ...  *)
(* through all objects, which are of any generations or all old.            *)
EmptyHeap ==
  {[entry |-> [h \in Handles |-> "free"], field |-> [h \in Handles |-> Null],
    local |-> [l \in Locals |-> Null]]}

Orders ==
  {o \in [1..Cardinality(Handles) -> Handles] :
     \A i, j \in DOMAIN o : o[i] = o[j] => i = j}

Chain(o, l, e) ==
  [entry |-> e,
   field |-> [h \in Handles |->
     LET i == CHOOSE k \in DOMAIN o : o[k] = h
     IN IF i + 1 \in DOMAIN o THEN o[i + 1] ELSE Null],
   local |-> [m \in Locals |-> IF m = l THEN o[1] ELSE Null]]

Chains ==
  {Chain(o, l, e) : o \in Orders, l \in Locals, e \in [Handles -> {"young", "old"}]}
ChainsOrEmpty == Chains \cup EmptyHeap
OldChains == {heap \in Chains : \A h \in Handles : heap.entry[h] = "old"}

=============================================================================
