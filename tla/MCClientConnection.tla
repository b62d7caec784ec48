------------------------- MODULE MCClientConnection -------------------------
(***************************************************************************)
(* The client's connection for TLC.  Every behaviour has the reconnect     *)
(* worker, the closer and MaxTasks other tasks, of any roles; the rest     *)
(* never begin, which is a behaviour of the full system as well.           *)
(***************************************************************************)
EXTENDS ClientConnection

CONSTANT MaxTasks     \* bound: tasks besides the reconnect worker and the closer

VARIABLE cast         \* the callers that may begin

mcvars == <<vars, cast>>

MCInit ==
    /\ Init
    /\ cast \in {S \cup {Closer} : S \in SUBSET (Callers \ {Closer})}
    /\ Cardinality(cast) = MaxTasks + 1

MCNext ==
    /\ Next /\ UNCHANGED cast
    /\ \A c \in Callers \ cast : pc'[c] = "idle" /\ (c \in Workers => backlog'[c] = 0)

MCFairSpec ==
    /\ MCInit /\ [][MCNext]_mcvars
    /\ WF_vars(ServerStarts) /\ WF_vars(ReconnectStep) /\ WF_vars(CloseStep)
    /\ \A c \in Callers : WF_vars(CallerStep(c))
    /\ \A c \in Workers \cup {Heartbeat} : WF_vars(c \in cast /\ Begin(c))
==============================================================================
