-------------------------- MODULE MCRuntimeManager --------------------------
(* Finite instances of RuntimeManager for TLC. *)
EXTENDS RuntimeManager, TLC

Graceful == {"error", "signal", "shutdown"}
Forced == {"destroy", "error", "update", "signal"}

Symmetry == Permutations(Threads) \cup Permutations(Kos)
=============================================================================
