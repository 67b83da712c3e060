------------------------- MODULE MCEpochQuarantine -------------------------
(* EpochQuarantine for TLC: everything but the epochs is interchangeable.  *)
EXTENDS EpochQuarantine, TLC

Interchangeable == Permutations(Handles) \cup Permutations(Addresses)
                     \cup Permutations(Readers) \cup Permutations(Retirers)
=============================================================================
