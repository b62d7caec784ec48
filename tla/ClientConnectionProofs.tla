------------------------ MODULE ClientConnectionProofs ------------------------
(***************************************************************************)
(* What holds of the client's connection for any number of workers,        *)
(* getters, commands and server restarts.                                  *)
(***************************************************************************)
EXTENDS ClientConnection, TLAPS

(* The disjuncts of Next, with the types of what they are about. *)
LEMMA NextSplit ==
    ASSUME [Next]_vars
    PROVE  \/ ServerStops \/ ServerStarts
           \/ ReconnectCheck \/ ReconnectLook \/ ReconnectRegister \/ ConnectOk
           \/ ConnectFails \/ Backoff \/ SetConnectedSwap \/ SetConnected
           \/ SetConnectedAnnounce
           \/ \E w \in Workers : PushCommand(w)
           \/ \E c \in Callers :
                 \/ Begin(c) \/ CheckClosed(c) \/ Look(c) \/ Register(c)
                 \/ CallAnswered(c) \/ StreamEnds(c) \/ CallDisconnected(c)
                 \/ MarkDisconnected(c) \/ Warn(c) \/ MarkDisconnectedAnnounce(c)
           \/ Close \/ CloseAnnounce \/ CloseFlushed
           \/ UNCHANGED vars
  BY DEF Next, ReconnectStep, CallerStep, CloseStep

LEMMA CallerFacts == Closer \in Callers /\ Workers \subseteq Callers
                     /\ Workers \subseteq Waiters
  BY DEF Callers, Waiters

LEMMA TypeStep == TypeOK /\ [Next]_vars => TypeOK'
<1> SUFFICES ASSUME TypeOK, [Next]_vars PROVE TypeOK'
  OBVIOUS
<1> USE CallerFacts
<1>1. ASSUME ServerStops PROVE TypeOK'
  <2>1. stops' \in 0..MaxStops
    BY <1>1, BoundsNat DEF TypeOK, ServerStops
  <2>2. hit' \subseteq Callers /\ up' \in BOOLEAN
    BY <1>1 DEF ServerStops
  <2> QED BY <1>1, <2>1, <2>2 DEF TypeOK, ServerStops, connVars, histVars
<1>2. ASSUME ServerStarts PROVE TypeOK'
  BY <1>2 DEF TypeOK, ServerStarts, connVars, histVars
<1>3. ASSUME ReconnectCheck \/ ReconnectLook \/ ReconnectRegister \/ ConnectOk \/ Backoff
      PROVE  TypeOK'
  <2>1. CASE ReconnectCheck
    BY <2>1 DEF TypeOK, ReconnectCheck, connVars, histVars
  <2>2. CASE ReconnectLook
    BY <2>2 DEF TypeOK, ReconnectLook, connVars
  <2>3. CASE ReconnectRegister
    BY <2>3 DEF TypeOK, ReconnectRegister, connVars, histVars
  <2>4. CASE ConnectOk
    BY <2>4 DEF TypeOK, ConnectOk, connVars, histVars
  <2>5. CASE Backoff
    BY <2>5 DEF TypeOK, Backoff, connVars, histVars
  <2> QED BY <1>3, <2>1, <2>2, <2>3, <2>4, <2>5
<1>4. ASSUME ConnectFails \/ SetConnectedSwap \/ SetConnected PROVE TypeOK'
  <2>1. CASE ConnectFails
    BY <2>1 DEF TypeOK, ConnectFails
  <2>2. CASE SetConnectedSwap
    BY <2>2 DEF TypeOK, SetConnectedSwap, histVars
  <2>3. CASE SetConnected
    <3>1. generation' \in Nat /\ warnings' \in Nat
      BY <2>3 DEF TypeOK, SetConnected
    <3>2. channel' \in BOOLEAN /\ failed' \in BOOLEAN
      BY <2>3, Zenon DEF SetConnected
    <3> QED BY <2>3, <3>1, <3>2 DEF TypeOK, SetConnected
  <2> QED BY <1>4, <2>1, <2>2, <2>3
<1>5. ASSUME SetConnectedAnnounce PROVE TypeOK'
  BY <1>5 DEF TypeOK, SetConnectedAnnounce, notify_waiters, connVars
<1>6. ASSUME NEW w \in Workers, PushCommand(w) PROVE TypeOK'
  <2>1. backlog[w] \in 0..Capacity /\ Capacity \in Nat
    BY BoundsNat DEF TypeOK
  <2>2. pushed' \in [Workers -> Nat]
    BY <1>6 DEF TypeOK, PushCommand
  <2>3. backlog' \in [Workers -> 0..Capacity] /\ evicted' \in [Workers -> Nat]
    <3>1. CASE backlog[w] < Capacity
      <4>1. backlog[w] + 1 \in 0..Capacity
        BY <2>1, <3>1
      <4> QED BY <1>6, <3>1, <4>1 DEF TypeOK, PushCommand
    <3>2. CASE \neg (backlog[w] < Capacity)
      BY <1>6, <3>2 DEF TypeOK, PushCommand
    <3> QED BY <3>1, <3>2
  <2> QED BY <1>6, <2>2, <2>3 DEF TypeOK, PushCommand, connVars
<1>7. ASSUME NEW c \in Callers, Begin(c) PROVE TypeOK'
  <2>1. backlog' \in [Workers -> 0..Capacity]
    <3> SUFFICES ASSUME NEW w \in Workers
                 PROVE  (IF w = c THEN backlog[w] - 1 ELSE backlog[w]) \in 0..Capacity
      BY <1>7 DEF Begin
    <3>1. backlog[w] \in 0..Capacity /\ (w = c => backlog[w] > 0) /\ Capacity \in Nat
      BY <1>7, BoundsNat DEF TypeOK, Begin
    <3> QED BY <3>1
  <2>2. pc' \in [Callers -> {"idle", "check", "look", "gap", "asleep", "call", "stream",
                             "clear", "warn", "warn_only", "announce", "close",
                             "announce_close", "flush", "ended"}]
    BY <1>7 DEF TypeOK, Begin, Step
  <2> QED BY <1>7, <2>1, <2>2 DEF TypeOK, Begin, connVars, histVars
<1>8. ASSUME NEW c \in Callers, CheckClosed(c) \/ Register(c) PROVE TypeOK'
  <2>1. CASE CheckClosed(c)
    BY <2>1 DEF TypeOK, CheckClosed, Step, connVars, histVars
  <2>2. CASE Register(c)
    BY <2>2 DEF TypeOK, Register, Step, connVars, histVars
  <2> QED BY <1>8, <2>1, <2>2
<1>9. ASSUME NEW c \in Callers, Look(c) PROVE TypeOK'
  <2>1. pc' \in [Callers -> {"idle", "check", "look", "gap", "asleep", "call", "stream",
                             "clear", "warn", "warn_only", "announce", "close",
                             "announce_close", "flush", "ended"}]
    BY <1>9 DEF TypeOK, Look, Step
  <2> QED BY <1>9, <2>1 DEF TypeOK, Look, connVars, histVars
<1>10. ASSUME NEW c \in Callers, CallAnswered(c) PROVE TypeOK'
  <2>1. pc' \in [Callers -> {"idle", "check", "look", "gap", "asleep", "call", "stream",
                             "clear", "warn", "warn_only", "announce", "close",
                             "announce_close", "flush", "ended"}]
    BY <1>10 DEF TypeOK, CallAnswered, Step, AfterCall
  <2>2. acked' \in [Workers -> Nat] /\ gen' \in [Callers -> Nat]
    BY <1>10 DEF TypeOK, CallAnswered
  <2> QED BY <1>10, <2>1, <2>2 DEF TypeOK, CallAnswered, connVars
<1>11. ASSUME NEW c \in Callers, StreamEnds(c) \/ CallDisconnected(c) PROVE TypeOK'
  <2>1. CASE StreamEnds(c)
    BY <2>1 DEF TypeOK, StreamEnds, Step, connVars, histVars
  <2>2. CASE CallDisconnected(c)
    <3>1. failed' \in BOOLEAN
      BY <2>2, Zenon DEF CallDisconnected
    <3> QED BY <2>2, <3>1 DEF TypeOK, CallDisconnected, connVars
  <2> QED BY <1>11, <2>1, <2>2
<1>12. ASSUME NEW c \in Callers, MarkDisconnected(c) PROVE TypeOK'
  <2>1. pc' \in [Callers -> {"idle", "check", "look", "gap", "asleep", "call", "stream",
                             "clear", "warn", "warn_only", "announce", "close",
                             "announce_close", "flush", "ended"}]
    BY <1>12 DEF TypeOK, MarkDisconnected, Step, AfterCall, AfterDisconnect
  <2> QED BY <1>12, <2>1 DEF TypeOK, MarkDisconnected, histVars
<1>13. ASSUME NEW c \in Callers, Warn(c) PROVE TypeOK'
  BY <1>13 DEF TypeOK, Warn
<1>14. ASSUME NEW c \in Callers, MarkDisconnectedAnnounce(c) PROVE TypeOK'
  <2>1. pc' \in [Callers -> {"idle", "check", "look", "gap", "asleep", "call", "stream",
                             "clear", "warn", "warn_only", "announce", "close",
                             "announce_close", "flush", "ended"}]
    BY <1>14 DEF TypeOK, MarkDisconnectedAnnounce, notify_waiters, AfterCall, AfterDisconnect
  <2> QED BY <1>14, <2>1 DEF TypeOK, MarkDisconnectedAnnounce, notify_waiters, connVars
<1>15. ASSUME Close \/ CloseAnnounce \/ CloseFlushed PROVE TypeOK'
  <2>1. CASE Close
    BY <2>1 DEF TypeOK, Close, Step, histVars
  <2>2. CASE CloseAnnounce
    BY <2>2 DEF TypeOK, CloseAnnounce, notify_waiters, connVars
  <2>3. CASE CloseFlushed
    BY <2>3 DEF TypeOK, CloseFlushed, Step, connVars, histVars
  <2> QED BY <1>15, <2>1, <2>2, <2>3
<1>16. CASE UNCHANGED vars
  BY <1>16 DEF TypeOK, vars, connVars, histVars
<1> QED
  BY <1>1, <1>2, <1>3, <1>4, <1>5, <1>6, <1>7, <1>8, <1>9, <1>10, <1>11, <1>12, <1>13,
     <1>14, <1>15, <1>16, NextSplit

(***************************************************************************)
(* The connection state stays well typed; in particular no worker takes a  *)
(* command from an empty queue, and no queue outgrows its capacity.        *)
(***************************************************************************)
THEOREM TypeCorrect == Spec => []TypeOK
<1>1. Init => TypeOK
  <2> SUFFICES ASSUME Init PROVE TypeOK
    OBVIOUS
  <2>1. channel \in BOOLEAN /\ up \in BOOLEAN
    BY DEF Init
  <2>2. generation \in Nat
    BY DEF Init
  <2>3. failed \in BOOLEAN /\ missed \in BOOLEAN /\ warned \in BOOLEAN /\ closed \in BOOLEAN
    BY Zenon DEF Init
  <2>5. stops \in 0..MaxStops /\ warnings \in Nat
    BY BoundsNat DEF Init
  <2>4. backlog \in [Workers -> 0..Capacity] /\ backlog \in [Workers -> Nat]
        /\ pushed = backlog /\ acked = backlog /\ evicted = backlog
        /\ gen \in [Callers -> Nat]
    BY BoundsNat DEF Init
  <2> QED BY <2>1, <2>2, <2>3, <2>4, <2>5 DEF Init, TypeOK
<1> QED BY <1>1, TypeStep, PTL DEF Spec

--------------------------------------------------------------------------------
(* Late failures *)

\* No caller holds a generation from the future, and one that is about to report
\* a failure of the current channel has seen it fail.
GenInv ==
    \A c \in Callers :
        /\ gen[c] <= generation
        /\ pc[c] = "clear" /\ gen[c] = generation => failed

LEMMA GenStep == TypeOK /\ GenInv /\ [Next]_vars => GenInv'
<1> SUFFICES ASSUME TypeOK, GenInv, [Next]_vars PROVE GenInv'
  OBVIOUS
<1> USE CallerFacts
<1>0. generation \in Nat /\ gen \in [Callers -> Nat]
      /\ DOMAIN pc = Callers /\ pc = [c \in Callers |-> pc[c]]
  BY DEF TypeOK
<1>1. ASSUME UNCHANGED <<generation, gen, pc, failed>> PROVE GenInv'
  BY <1>1 DEF GenInv
<1>2. ASSUME NEW c \in Callers, UNCHANGED <<generation, failed>>,
             \A d \in Callers : pc'[d] = "clear" => d # c /\ pc[d] = "clear",
             gen' \in [Callers -> Nat], \A d \in Callers : gen'[d] \in {gen[d], 0, generation},
             \A d \in Callers : d # c => gen'[d] = gen[d]
      PROVE  GenInv'
  <2> SUFFICES ASSUME NEW d \in Callers
               PROVE  gen'[d] <= generation /\ (pc'[d] = "clear" /\ gen'[d] = generation => failed)
    BY <1>2 DEF GenInv
  <2>1. gen'[d] <= generation
    BY <1>0, <1>2 DEF GenInv
  <2> QED BY <1>2, <2>1 DEF GenInv
<1>3. CASE SetConnected
  <2>1. \A c \in Callers : gen[c] <= generation /\ gen[c] \in Nat
    BY <1>0 DEF GenInv
  <2>2. \A c \in Callers : gen[c] <= generation + 1 /\ gen[c] # generation + 1
    BY <1>0, <2>1
  <2> QED BY <1>3, <2>2 DEF GenInv, SetConnected
<1>4. ASSUME NEW c \in Callers, CallDisconnected(c) PROVE GenInv'
  BY <1>4, <1>0 DEF GenInv, CallDisconnected, connVars
<1>5. ASSUME NEW c \in Callers,
             Begin(c) \/ CheckClosed(c) \/ Register(c) \/ Look(c) \/ CallAnswered(c)
             \/ StreamEnds(c) \/ MarkDisconnected(c) \/ Warn(c)
             \/ MarkDisconnectedAnnounce(c)
      PROVE  GenInv'
  <2>1. CASE Begin(c) \/ CheckClosed(c) \/ Register(c) \/ Warn(c)
    <3>1. UNCHANGED <<generation, failed, gen>>
      BY <2>1 DEF Begin, CheckClosed, Register, Warn, connVars, histVars
    <3>2. PICK l : l # "clear" /\ pc' = [pc EXCEPT ![c] = l]
      BY <2>1 DEF Begin, CheckClosed, Register, Warn, Step
    <3>3. \A d \in Callers : pc'[d] = "clear" => d # c /\ pc[d] = "clear"
      BY <1>0, <3>2
    <3> QED BY <1>0, <1>2, <3>1, <3>3
  <2>2. CASE Look(c) \/ CallAnswered(c) \/ StreamEnds(c) \/ MarkDisconnected(c)
    <3>1. UNCHANGED <<generation, failed>>
      BY <2>2 DEF Look, CallAnswered, StreamEnds, MarkDisconnected, connVars, histVars
    <3>2. /\ gen' \in [Callers -> Nat] /\ \A d \in Callers : gen'[d] \in {gen[d], 0, generation}
          /\ \A d \in Callers : d # c => gen'[d] = gen[d]
      BY <1>0, <2>2 DEF Look, CallAnswered, StreamEnds, MarkDisconnected
    <3>3. PICK l : l # "clear" /\ pc' = [pc EXCEPT ![c] = l]
      BY <2>2 DEF Look, CallAnswered, StreamEnds, MarkDisconnected, Step, AfterCall,
                  AfterDisconnect
    <3>4. \A d \in Callers : pc'[d] = "clear" => d # c /\ pc[d] = "clear"
      BY <1>0, <3>3
    <3> QED BY <1>2, <3>1, <3>2, <3>4
  <2>3. CASE MarkDisconnectedAnnounce(c)
    <3>1. AfterDisconnect(c) # "clear"
      BY DEF AfterDisconnect, AfterCall
    <3>2. UNCHANGED <<generation, failed, gen>>
      BY <2>3 DEF MarkDisconnectedAnnounce, connVars
    <3>3. \A d \in Callers : pc'[d] = "clear" => d # c /\ pc[d] = "clear"
      BY <2>3, <3>1 DEF MarkDisconnectedAnnounce, notify_waiters
    <3> QED BY <1>0, <1>2, <3>2, <3>3
  <2> QED BY <1>5, <2>1, <2>2, <2>3
<1>6. CASE SetConnectedAnnounce
  BY <1>0, <1>6 DEF GenInv, SetConnectedAnnounce, notify_waiters, connVars
<1>7. CASE Close \/ CloseFlushed
  <2>1. PICK l : l # "clear" /\ pc' = [pc EXCEPT ![Closer] = l]
    BY <1>7 DEF Close, CloseFlushed, Step
  <2>2. UNCHANGED <<generation, failed, gen>>
    BY <1>7 DEF Close, CloseFlushed, connVars, histVars
  <2>3. \A d \in Callers : pc'[d] = "clear" => d # Closer /\ pc[d] = "clear"
    BY <1>0, <2>1
  <2> QED BY <1>0, <1>2, <2>2, <2>3
<1>8. CASE CloseAnnounce
  <2>1. UNCHANGED <<generation, failed, gen>>
    BY <1>8 DEF CloseAnnounce, connVars
  <2>2. \A d \in Callers : pc'[d] = "clear" => d # Closer /\ pc[d] = "clear"
    BY <1>8 DEF CloseAnnounce, notify_waiters
  <2> QED BY <1>0, <1>2, <2>1, <2>2
<1>9. CASE ServerStops \/ ServerStarts \/ ReconnectCheck \/ ReconnectLook
           \/ ReconnectRegister \/ ConnectOk \/ ConnectFails \/ Backoff \/ SetConnectedSwap
           \/ UNCHANGED vars \/ \E w \in Workers : PushCommand(w)
  <2>1. UNCHANGED <<generation, gen, pc, failed>>
    BY <1>9 DEF ServerStops, ServerStarts, ReconnectCheck, ReconnectLook,
                ReconnectRegister, ConnectOk, ConnectFails, Backoff, SetConnectedSwap,
                PushCommand, vars, connVars, histVars
  <2> QED BY <1>1, <2>1
<1> QED BY <1>3, <1>4, <1>5, <1>6, <1>7, <1>8, <1>9, NextSplit

(***************************************************************************)
(* The generation check of mark_disconnected does its work: however late a *)
(* task reports a failure, and however many channels the session has had   *)
(* since, the channel in place is torn down only for its own failure.      *)
(***************************************************************************)
THEOREM LateFailuresAreHarmless == Spec => LateFailureHarmless
<1>1. Init => GenInv
  BY DEF Init, GenInv
<1>2. TypeOK /\ GenInv /\ [Next]_vars => [channel /\ \neg channel' => failed]_vars
  <2> SUFFICES ASSUME TypeOK, GenInv, [Next]_vars, channel, \neg channel' PROVE failed
    OBVIOUS
  <2>1. \E c \in Callers : MarkDisconnected(c)
    BY NextSplit DEF ServerStops, ServerStarts, ReconnectCheck, ReconnectLook,
          ReconnectRegister, ConnectOk, ConnectFails, Backoff, SetConnectedSwap,
          SetConnected, SetConnectedAnnounce, PushCommand, Begin, CheckClosed, Look,
          Register, CallAnswered, StreamEnds, CallDisconnected, Warn,
          MarkDisconnectedAnnounce, Close, CloseAnnounce, CloseFlushed, vars, connVars
  <2> QED BY <2>1 DEF MarkDisconnected, Step, GenInv
<1> QED BY <1>1, <1>2, TypeCorrect, GenStep, PTL DEF Spec, LateFailureHarmless

--------------------------------------------------------------------------------
(* Lost wakeups *)

\* OnlyGapLosesWakeups, with the window in which the wakeup gets lost.
GapInv ==
    pcR \in {"gap", "asleep"} /\ \neg channel =>
        missed \/ \E c \in Callers : pc[c] \in {"warn", "announce"}

LEMMA GapStep == TypeOK /\ GapInv /\ [Next]_vars => GapInv'
<1> SUFFICES ASSUME TypeOK, GapInv, [Next]_vars PROVE GapInv'
  OBVIOUS
<1> USE CallerFacts
<1>0. pc = [c \in Callers |-> pc[c]]
  BY DEF TypeOK
<1>1. ASSUME UNCHANGED <<channel, pc, missed>>, pcR' = pcR \/ pcR' \notin {"gap", "asleep"}
             \/ pcR = "gap"
      PROVE  GapInv'
  BY <1>1 DEF GapInv
<1>2. CASE ReconnectLook
  BY <1>2 DEF GapInv, ReconnectLook, connVars
<1>3. CASE SetConnected
  BY <1>3 DEF GapInv, SetConnected
<1>4. CASE SetConnectedAnnounce
  BY <1>4 DEF GapInv, SetConnectedAnnounce
<1>5. ASSUME NEW c \in Callers, NEW l, pc' = [pc EXCEPT ![c] = l],
             pc[c] \notin {"warn", "announce"} \/ l = "announce",
             UNCHANGED <<channel, pcR, missed>>
      PROVE  GapInv'
  <2>1. ASSUME NEW d \in Callers, pc[d] \in {"warn", "announce"}
        PROVE  pc'[d] \in {"warn", "announce"}
    BY <1>0, <1>5, <2>1
  <2> QED BY <1>5, <2>1 DEF GapInv
<1>6. ASSUME NEW c \in Callers,
             \/ Begin(c) \/ CheckClosed(c) \/ Look(c) \/ Register(c) \/ CallAnswered(c)
             \/ StreamEnds(c) \/ CallDisconnected(c) \/ Warn(c)
      PROVE  GapInv'
  <2>1. UNCHANGED <<channel, pcR, missed>>
    BY <1>6 DEF Begin, CheckClosed, Look, Register, CallAnswered, StreamEnds,
                CallDisconnected, Warn, connVars, histVars
  <2>2. \/ pc[c] \notin {"warn", "announce"} /\ \E l : pc' = [pc EXCEPT ![c] = l]
        \/ pc' = [pc EXCEPT ![c] = "announce"]
        \/ pc[c] = "warn_only" /\ pc' = [pc EXCEPT ![c] = "idle"]
    BY <1>6 DEF Begin, CheckClosed, Look, Register, CallAnswered, StreamEnds,
                CallDisconnected, Warn, Step
  <2> QED BY <1>5, <2>1, <2>2
<1>7. ASSUME NEW c \in Callers, MarkDisconnected(c) PROVE GapInv'
  <2>1. CASE generation = gen[c] /\ channel
    <3>1. pc'[c] = "warn"
      BY <1>0, <1>7, <2>1 DEF MarkDisconnected, Step
    <3> QED BY <3>1 DEF GapInv
  <2>2. CASE \neg (generation = gen[c] /\ channel)
    <3>1. channel \in BOOLEAN
      BY DEF TypeOK
    <3>2. channel' = channel /\ UNCHANGED <<pcR, missed>>
      BY <1>7, <2>2, <3>1 DEF MarkDisconnected, histVars
    <3>3. pc[c] = "clear" /\ \E l : pc' = [pc EXCEPT ![c] = l]
      BY <1>7 DEF MarkDisconnected, Step
    <3> QED BY <1>5, <3>2, <3>3
  <2> QED BY <2>1, <2>2
<1>8. ASSUME NEW c \in Callers, MarkDisconnectedAnnounce(c) PROVE GapInv'
  BY <1>8 DEF GapInv, MarkDisconnectedAnnounce, notify_waiters, connVars
<1>9. CASE CloseAnnounce
  BY <1>9 DEF GapInv, CloseAnnounce, notify_waiters, connVars
<1>10. CASE Close \/ CloseFlushed
  <2>1. pc[Closer] \notin {"warn", "announce"} /\ \E l : pc' = [pc EXCEPT ![Closer] = l]
    BY <1>10 DEF Close, CloseFlushed, Step
  <2>2. UNCHANGED <<channel, pcR, missed>>
    BY <1>10 DEF Close, CloseFlushed, connVars, histVars
  <2> QED BY <1>5, <2>1, <2>2
<1>11. CASE ServerStops \/ ServerStarts \/ ReconnectCheck \/ ReconnectRegister
            \/ ConnectOk \/ ConnectFails \/ Backoff \/ SetConnectedSwap
            \/ UNCHANGED vars \/ \E w \in Workers : PushCommand(w)
  <2>1. UNCHANGED <<channel, pc, missed>>
    BY <1>11 DEF ServerStops, ServerStarts, ReconnectCheck, ReconnectRegister,
                 ConnectOk, ConnectFails, Backoff, SetConnectedSwap, PushCommand, vars,
                 connVars, histVars
  <2>2. pcR' = pcR \/ pcR' \notin {"gap", "asleep"} \/ pcR = "gap"
    BY <1>11 DEF ServerStops, ServerStarts, ReconnectCheck, ReconnectRegister,
                 ConnectOk, ConnectFails, Backoff, SetConnectedSwap, PushCommand, vars
  <2> QED BY <1>1, <2>1, <2>2
<1> QED BY <1>2, <1>3, <1>4, <1>6, <1>7, <1>8, <1>9, <1>10, <1>11, NextSplit

(***************************************************************************)
(* The reconnect worker misses a disconnection only in the window between  *)
(* its look at the channel and its registration with the Notify, whatever  *)
(* the number of tasks that clear the channel.                             *)
(***************************************************************************)
THEOREM OnlyTheGapLosesWakeups == Spec => []OnlyGapLosesWakeups
<1>1. Init => GapInv
  BY DEF Init, GapInv
<1>2. GapInv => OnlyGapLosesWakeups
  BY DEF GapInv, OnlyGapLosesWakeups
<1> QED BY <1>1, <1>2, TypeCorrect, GapStep, PTL DEF Spec

--------------------------------------------------------------------------------
(* Commands *)

\* NothingSkipped, what is left of its sum once the session is closed, and the
\* labels a worker never reaches.
SkipInv ==
    /\ NothingSkipped
    /\ \A w \in Workers : pushed[w] >= backlog[w] + evicted[w]
    /\ \A w \in Workers : pc[w] \notin {"warn_only", "stream", "close", "announce_close",
                                        "flush", "ended"}

LEMMA SkipStep == TypeOK /\ SkipInv /\ [Next]_vars => SkipInv'
<1> SUFFICES ASSUME TypeOK, SkipInv, [Next]_vars PROVE SkipInv'
  OBVIOUS
<1> DEFINE Bad == {"warn_only", "stream", "close", "announce_close", "flush", "ended"}
<1> USE CallerFacts
<1>0. /\ pc = [c \in Callers |-> pc[c]]
      /\ \A w \in Workers : w \notin Getters /\ w # Closer /\ w # Heartbeat
      /\ \A w \in Workers : pushed[w] \in Nat /\ backlog[w] \in Nat /\ acked[w] \in Nat
                             /\ evicted[w] \in Nat /\ backlog[w] <= Capacity
      /\ Capacity \in Nat \ {0}
  BY RolesApart, BoundsNat DEF TypeOK
<1>1. ASSUME UNCHANGED <<pushed, backlog, acked, evicted>>, closed \in BOOLEAN, \neg closed' => \neg closed,
             \A w \in Workers : pc'[w] \notin Bad
                 /\ (\neg closed' => (pc'[w] = "idle" <=> pc[w] = "idle"))
      PROVE  SkipInv'
  BY <1>1 DEF SkipInv, NothingSkipped
<1>2. closed \in BOOLEAN
  BY DEF TypeOK
<1>3. ASSUME NEW w \in Workers, PushCommand(w) PROVE SkipInv'
  <2>1. \A v \in Workers : pc'[v] = pc[v] /\ acked'[v] = acked[v] /\ closed' = closed
    BY <1>3 DEF PushCommand, connVars
  <2>2. \A v \in Workers : v # w => pushed'[v] = pushed[v] /\ backlog'[v] = backlog[v]
                                    /\ evicted'[v] = evicted[v]
    BY <1>3 DEF PushCommand, TypeOK
  <2>3. pushed'[w] = pushed[w] + 1
    BY <1>3 DEF PushCommand, TypeOK
  <2>4. \/ backlog'[w] = backlog[w] + 1 /\ evicted'[w] = evicted[w]
        \/ backlog'[w] = backlog[w] /\ evicted'[w] = evicted[w] + 1 /\ backlog[w] >= Capacity
    BY <1>0, <1>3 DEF PushCommand, TypeOK
  <2> HIDE DEF Bad
  <2>5. pushed'[w] >= backlog'[w] + evicted'[w]
    BY <1>0, <2>3, <2>4 DEF SkipInv
  <2>6. \neg closed => pushed'[w] = backlog'[w] + acked'[w] + evicted'[w]
                                    + (IF pc[w] = "idle" THEN 0 ELSE 1)
    BY <1>0, <2>1, <2>3, <2>4 DEF SkipInv, NothingSkipped
  <2>7. evicted'[w] # 0 => pushed'[w] >= Capacity + evicted'[w]
    BY <1>0, <2>3, <2>4 DEF SkipInv, NothingSkipped
  <2>8. NothingSkipped'
    BY <2>1, <2>2, <2>6, <2>7 DEF SkipInv, NothingSkipped
  <2> QED BY <2>1, <2>2, <2>5, <2>8 DEF SkipInv
<1>4. ASSUME NEW c \in Callers, Begin(c) PROVE SkipInv'
  <2>1. UNCHANGED <<pushed, acked, evicted, closed>>
    BY <1>4 DEF Begin, connVars, histVars
  <2>2. \A v \in Workers : v # c => pc'[v] = pc[v] /\ backlog'[v] = backlog[v]
    BY <1>0, <1>4 DEF Begin, Step
  <2>3. c \in Workers => pc[c] = "idle" /\ pc'[c] = "check" /\ backlog'[c] = backlog[c] - 1
    BY <1>0, <1>4 DEF Begin, Step
  <2>4. \A v \in Workers : pushed'[v] >= backlog'[v] + evicted'[v] /\ pc'[v] \notin Bad
    BY <1>0, <2>1, <2>2, <2>3 DEF SkipInv
  <2>5. ASSUME NEW v \in Workers, \neg closed'
        PROVE  pushed'[v] = backlog'[v] + acked'[v] + evicted'[v]
                              + (IF pc'[v] = "idle" THEN 0 ELSE 1)
    BY <1>0, <2>1, <2>2, <2>3, <2>5 DEF SkipInv, NothingSkipped
  <2>6. \A v \in Workers : evicted'[v] # 0 => pushed'[v] >= Capacity + evicted'[v]
    BY <2>1 DEF SkipInv, NothingSkipped
  <2> QED BY <2>4, <2>5, <2>6 DEF SkipInv, NothingSkipped
<1>5. ASSUME NEW c \in Callers, CallAnswered(c) PROVE SkipInv'
  <2>1. UNCHANGED <<pushed, backlog, evicted, closed>>
    BY <1>5 DEF CallAnswered, connVars
  <2>2. \A v \in Workers : v # c => pc'[v] = pc[v] /\ acked'[v] = acked[v]
    BY <1>0, <1>5 DEF CallAnswered, Step
  <2>3. c \in Workers => pc[c] = "call" /\ pc'[c] = "idle" /\ acked'[c] = acked[c] + 1
    BY <1>0, <1>5 DEF CallAnswered, Step, AfterCall
  <2>4. \A v \in Workers : pushed'[v] >= backlog'[v] + evicted'[v] /\ pc'[v] \notin Bad
    BY <1>0, <2>1, <2>2, <2>3 DEF SkipInv
  <2>5. ASSUME NEW v \in Workers, \neg closed'
        PROVE  pushed'[v] = backlog'[v] + acked'[v] + evicted'[v]
                              + (IF pc'[v] = "idle" THEN 0 ELSE 1)
    BY <1>0, <2>1, <2>2, <2>3, <2>5 DEF SkipInv, NothingSkipped
  <2>6. \A v \in Workers : evicted'[v] # 0 => pushed'[v] >= Capacity + evicted'[v]
    BY <2>1 DEF SkipInv, NothingSkipped
  <2> QED BY <2>4, <2>5, <2>6 DEF SkipInv, NothingSkipped
<1>6. ASSUME NEW c \in Callers,
             CheckClosed(c) \/ Look(c) \/ Register(c) \/ CallDisconnected(c)
             \/ MarkDisconnected(c) \/ StreamEnds(c) \/ Warn(c)
      PROVE  SkipInv'
  <2>1. UNCHANGED <<pushed, backlog, acked, evicted, closed>>
    BY <1>6 DEF CheckClosed, Look, Register, CallDisconnected, MarkDisconnected,
                StreamEnds, Warn, connVars, histVars
  <2>2. \A v \in Workers : v # c => pc'[v] = pc[v]
    BY <1>0, <1>6 DEF CheckClosed, Look, Register, CallDisconnected, MarkDisconnected,
                      StreamEnds, Warn, Step
  <2>3. ASSUME c \in Workers
        PROVE  pc'[c] \notin Bad /\ (\neg closed => (pc'[c] = "idle" <=> pc[c] = "idle"))
    <3>1. pc[c] \notin Bad
      BY <2>3 DEF SkipInv
    <3>2. CASE CheckClosed(c) \/ Look(c)
      BY <1>0, <2>3, <3>2 DEF CheckClosed, Look, Step
    <3>3. CASE Register(c) \/ CallDisconnected(c) \/ MarkDisconnected(c)
      BY <1>0, <2>3, <3>3 DEF Register, CallDisconnected, MarkDisconnected, Step,
                              AfterDisconnect
    <3>4. CASE StreamEnds(c) \/ Warn(c)
      BY <1>0, <3>1, <3>4 DEF StreamEnds, Warn, Step
    <3> QED BY <1>6, <3>2, <3>3, <3>4
  <2> QED BY <1>1, <1>2, <2>1, <2>2, <2>3 DEF SkipInv
<1>7. ASSUME NEW c \in Callers, MarkDisconnectedAnnounce(c) PROVE SkipInv'
  <2>1. UNCHANGED <<pushed, backlog, acked, evicted, closed>>
    BY <1>7 DEF MarkDisconnectedAnnounce, connVars
  <2>2. \A v \in Workers : pc'[v] = IF v = c THEN "check"
                               ELSE IF pc[v] = "asleep" THEN "check" ELSE pc[v]
    BY <1>0, <1>7 DEF MarkDisconnectedAnnounce, notify_waiters, AfterDisconnect
  <2>3. pc[c] = "announce"
    BY <1>7 DEF MarkDisconnectedAnnounce
  <2> QED BY <1>1, <1>2, <2>1, <2>2, <2>3 DEF SkipInv
<1>8. CASE SetConnectedAnnounce \/ CloseAnnounce
  <2>1. UNCHANGED <<pushed, backlog, acked, evicted, closed>>
    BY <1>8 DEF SetConnectedAnnounce, CloseAnnounce, connVars
  <2>2. \A v \in Workers : pc'[v] = IF pc[v] = "asleep" THEN "check" ELSE pc[v]
    BY <1>0, <1>8 DEF SetConnectedAnnounce, CloseAnnounce, notify_waiters
  <2> QED BY <1>1, <1>2, <2>1, <2>2 DEF SkipInv
<1>9. CASE Close \/ CloseFlushed
  <2>1. UNCHANGED <<pushed, backlog, acked, evicted>> /\ (\neg closed' => \neg closed)
    BY <1>9 DEF Close, CloseFlushed, connVars, histVars
  <2>2. \A v \in Workers : pc'[v] = pc[v]
    BY <1>0, <1>9 DEF Close, CloseFlushed, Step
  <2> QED BY <1>1, <1>2, <2>1, <2>2 DEF SkipInv
<1>10. CASE ServerStops \/ ServerStarts \/ ReconnectCheck \/ ReconnectLook
            \/ ReconnectRegister \/ ConnectOk \/ ConnectFails \/ Backoff
            \/ SetConnectedSwap \/ SetConnected \/ UNCHANGED vars
  <2>1. UNCHANGED <<pushed, backlog, acked, evicted, closed, pc>>
    BY <1>10 DEF ServerStops, ServerStarts, ReconnectCheck, ReconnectLook,
                 ReconnectRegister, ConnectOk, ConnectFails, Backoff, SetConnectedSwap,
                 SetConnected, vars, connVars, histVars
  <2> QED BY <1>1, <1>2, <2>1 DEF SkipInv
<1> QED BY <1>3, <1>4, <1>5, <1>6, <1>7, <1>8, <1>9, <1>10, NextSplit

(***************************************************************************)
(* Through any number of disconnections, until cleanup closes the session, *)
(* every command is queued, being sent, answered by the server, or was     *)
(* displaced by a newer one from the full queue, which drops no more than  *)
(* were queued on top of its capacity.                                     *)
(***************************************************************************)
THEOREM CommandsAreNotSkipped == Spec => []NothingSkipped
<1>1. Init => SkipInv
  BY CallerFacts, BoundsNat DEF Init, SkipInv, NothingSkipped
<1>2. SkipInv => NothingSkipped
  BY DEF SkipInv
<1> QED BY <1>1, <1>2, TypeCorrect, SkipStep, PTL DEF Spec

--------------------------------------------------------------------------------
(* Warnings and new channels *)

\* The flag is down only when nothing was printed, but for the one warning that
\* set_connected leaves behind between its two steps; and it looks for a new channel
\* only without one.
WarnInv ==
    /\ pcR = "set" => warnings <= 2 /\ (warnings = 2 => warned)
    /\ pcR # "set" => warnings <= 1 /\ (warnings = 1 => warned)
ConnectInv == pcR \in {"connect", "backoff", "swap", "set"} => \neg channel

\* A step of none of the tasks that warn, look for a channel or set one.
LEMMA ConnectFrame ==
    ASSUME WarnInv, ConnectInv, UNCHANGED <<warned, warnings>>, channel' => channel,
           \/ pcR' = pcR
           \/ pcR = "asleep" /\ pcR' = "check"
    PROVE  WarnInv' /\ ConnectInv'
  BY DEF WarnInv, ConnectInv

LEMMA WarnStep == TypeOK /\ WarnInv /\ ConnectInv /\ [Next]_vars => WarnInv' /\ ConnectInv'
<1> SUFFICES ASSUME TypeOK, WarnInv, ConnectInv, [Next]_vars PROVE WarnInv' /\ ConnectInv'
  OBVIOUS
<1>0. warnings \in Nat
  BY DEF TypeOK
\* warn_disconnected_once.
<1>w. ASSUME warned', warnings' = (IF warned THEN warnings ELSE warnings + 1),
             pcR' = pcR \/ (pcR # "set" /\ pcR' # "set")
      PROVE  WarnInv'
  BY <1>0, <1>w DEF WarnInv
<1>1. CASE ReconnectCheck \/ ReconnectLook \/ ReconnectRegister \/ ConnectOk \/ Backoff
  <2>1. pcR # "set" /\ pcR' # "set" /\ UNCHANGED <<warned, warnings, channel>>
    BY <1>1 DEF ReconnectCheck, ReconnectLook, ReconnectRegister, ConnectOk, Backoff,
                connVars, histVars
  <2>2. pcR' \in {"connect", "swap"} => pcR = "connect" \/ \neg channel
    BY <1>1 DEF ReconnectCheck, ReconnectLook, ReconnectRegister, ConnectOk, Backoff
  <2>3. pcR' # "backoff"
    BY <1>1 DEF ReconnectCheck, ReconnectLook, ReconnectRegister, ConnectOk, Backoff
  <2> QED BY <2>1, <2>2, <2>3 DEF WarnInv, ConnectInv
<1>2. CASE ConnectFails
  <2>1. warned' /\ warnings' = (IF warned THEN warnings ELSE warnings + 1)
        /\ pcR = "connect" /\ pcR' = "backoff" /\ channel' = channel
    BY <1>2 DEF ConnectFails
  <2>2. WarnInv'
    BY <1>w, <2>1
  <2> QED BY <2>1, <2>2 DEF ConnectInv
<1>3. CASE SetConnectedSwap
  <2>1. pcR = "swap" /\ pcR' = "set" /\ UNCHANGED <<warnings, channel>>
    BY <1>3 DEF SetConnectedSwap, histVars
  <2> QED BY <1>0, <2>1 DEF WarnInv, ConnectInv
<1>4. CASE SetConnected
  BY <1>4 DEF SetConnected, WarnInv, ConnectInv
<1>5. CASE SetConnectedAnnounce
  <2>1. pcR = "announce" /\ pcR' = "check" /\ UNCHANGED <<warned, warnings>>
    BY <1>5 DEF SetConnectedAnnounce, connVars
  <2> QED BY <2>1 DEF WarnInv, ConnectInv
<1>6. ASSUME NEW c \in Callers, Warn(c) PROVE WarnInv' /\ ConnectInv'
  <2>1. warned' /\ warnings' = (IF warned THEN warnings ELSE warnings + 1)
        /\ UNCHANGED <<pcR, channel>>
    BY <1>6 DEF Warn
  <2>2. WarnInv'
    BY <1>w, <2>1
  <2> QED BY <2>1, <2>2 DEF ConnectInv
<1>7. ASSUME NEW c \in Callers, MarkDisconnected(c) PROVE WarnInv' /\ ConnectInv'
  <2>1. (channel' => channel) /\ UNCHANGED <<warned, warnings, pcR>>
    BY <1>7 DEF MarkDisconnected, histVars
  <2> QED BY <2>1, ConnectFrame
<1>8. ASSUME NEW c \in Callers,
             \/ Begin(c) \/ CheckClosed(c) \/ Look(c) \/ Register(c) \/ CallAnswered(c)
             \/ StreamEnds(c) \/ CallDisconnected(c) \/ MarkDisconnectedAnnounce(c)
      PROVE  WarnInv' /\ ConnectInv'
  BY <1>8, ConnectFrame
     DEF Begin, CheckClosed, Look, Register, CallAnswered, StreamEnds, CallDisconnected,
         MarkDisconnectedAnnounce, connVars, histVars
<1>9. CASE \/ ServerStops \/ ServerStarts \/ Close \/ CloseAnnounce \/ CloseFlushed
           \/ UNCHANGED vars \/ \E w \in Workers : PushCommand(w)
  BY <1>9, ConnectFrame DEF ServerStops, ServerStarts, Close, CloseAnnounce, CloseFlushed,
                            PushCommand, vars, connVars, histVars
<1> QED BY <1>1, <1>2, <1>3, <1>4, <1>5, <1>6, <1>7, <1>8, <1>9, NextSplit

LEMMA WarnInit == Init => WarnInv /\ ConnectInv
  BY DEF Init, WarnInv, ConnectInv

(***************************************************************************)
(* However many tasks meet the disconnection, they print one warning for   *)
(* it, and a second only between the two steps of set_connected.           *)
(***************************************************************************)
THEOREM WarnedOnce == Spec => []OneWarningUnlessConnecting
<1>1. TypeOK /\ WarnInv => OneWarningUnlessConnecting
  BY DEF TypeOK, WarnInv, OneWarningUnlessConnecting
<1> QED BY <1>1, TypeCorrect, WarnInit, WarnStep, PTL DEF Spec

(***************************************************************************)
(* set_connected never replaces a channel in use: a generation follows     *)
(* only on one that was torn down.                                         *)
(***************************************************************************)
THEOREM ChannelsReplaceNone == Spec => ReplacesNoChannel
<1>1. ConnectInv /\ [Next]_vars
        => [generation' # generation =>
              \neg channel /\ channel' /\ generation' = generation + 1]_vars
  <2> SUFFICES ASSUME ConnectInv, [Next]_vars, generation' # generation
               PROVE  \neg channel /\ channel' /\ generation' = generation + 1
    OBVIOUS
  <2>1. SetConnected
    BY NextSplit DEF ServerStops, ServerStarts, ReconnectCheck, ReconnectLook,
          ReconnectRegister, ConnectOk, ConnectFails, Backoff, SetConnectedSwap,
          SetConnectedAnnounce, PushCommand, Begin, CheckClosed, Look, Register,
          CallAnswered, StreamEnds, CallDisconnected, MarkDisconnected, Warn,
          MarkDisconnectedAnnounce, Close, CloseAnnounce, CloseFlushed, vars, connVars
  <2> QED BY <2>1 DEF SetConnected, ConnectInv
<1> QED BY <1>1, TypeCorrect, WarnInit, WarnStep, PTL DEF Spec, ReplacesNoChannel
================================================================================
