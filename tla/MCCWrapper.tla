------------------------------ MODULE MCCWrapper ------------------------------
(***************************************************************************)
(* The C wrapper for TLC.  Its table of queries (CQueryable) and its       *)
(* memory (CBuffers) share no state, so every pair of behaviours of the    *)
(* two is covered by the behaviours in which one of them rests.            *)
(***************************************************************************)
EXTENDS CQueryable, CBuffers

VARIABLE part     \* the part that moves: "queries" or "buffers"

wvars == <<vars, bvars, part>>

WInit ==
    /\ Init /\ BInit /\ part \in {"queries", "buffers"}
    /\ IF part = "queries" THEN type = "sample" ELSE kind = "pull"

WNext ==
    \/ part = "queries" /\ Next /\ UNCHANGED <<bvars, part>>
    \/ part = "buffers" /\ BNext /\ UNCHANGED <<vars, part>>

WFairSpec ==
    /\ WInit /\ [][WNext]_wvars
    /\ WF_vars(DispatchStep) /\ WF_vars(UndeclareFinish)
    /\ \A r \in Runners : WF_vars(FinishPush(r))
    /\ \A t \in Threads : WF_vars(RecvInsert(t))
================================================================================
