------------------------------ MODULE MCQueryFlow ------------------------------
(***************************************************************************)
(* Instances of QueryFlow for TLC.                                         *)
(***************************************************************************)
EXTENDS QueryFlow

\* The properties of the run `query` speak of the time until the server stops: of what
\* follows, only its return is explored.
MCNext == Next /\ (stops > 0 => \neg up /\ up')
MCFairSpec == Init /\ [][MCNext]_vars /\ Fairness
================================================================================
