-------------------------- MODULE MCDropOldestQueue --------------------------
(***************************************************************************)
(* TLC instances of the drop-oldest queue.                                 *)
(***************************************************************************)
EXTENDS DropOldestQueue, TLC

\* Producers are interchangeable in the safety run.
Symmetric == Permutations(Producers)
==============================================================================
