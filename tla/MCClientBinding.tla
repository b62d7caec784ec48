---------------------------- MODULE MCClientBinding ----------------------------
(***************************************************************************)
(* Instances of ClientBinding for TLC.                                     *)
(***************************************************************************)
EXTENDS ClientBinding, TLC

\* The entities of a class are interchangeable.
Symmetry == Permutations(Publishers) \cup Permutations(Subscribers)
================================================================================
