---------------------------- MODULE QueryFlowProofs ----------------------------
(***************************************************************************)
(* What holds of the queries of a client's queryable, for any number of    *)
(* queries, replies, faults and other clients, and any queue capacity.     *)
(***************************************************************************)
EXTENDS QueryFlow, SequenceTheorems, TLAPS

(* The steps that change only the connection and where the worker and undeclare stand. *)
LinkStep ==
    \/ SetConnected \/ ConnectionLost \/ StreamEnds \/ WorkerLook \/ WorkerRegister
    \/ CallDisconnected \/ UndeclareClose

LEMMA LinkProp ==
    ASSUME LinkStep
    PROVE  /\ UNCHANGED <<up, stops, srv, asked, stream, events, app, cmds, cur, stale, hist>>
           /\ closed => closed'
<1>1. CASE SetConnected \/ ConnectionLost \/ StreamEnds
  BY <1>1 DEF SetConnected, ConnectionLost, StreamEnds, closed
<1>2. CASE WorkerLook \/ WorkerRegister \/ CallDisconnected \/ UndeclareClose
  BY <1>2 DEF WorkerLook, WorkerRegister, CallDisconnected, UndeclareClose, closed, fate, work
<1> QED BY <1>1, <1>2 DEF LinkStep

(* The disjuncts of Next. *)
LEMMA NextSplit ==
    ASSUME [Next]_vars
    PROVE  \/ ServerStops \/ ServerStarts \/ LeaseLapses \/ OtherDeclares
           \/ StreamOpens \/ StreamBreaks \/ QueryArrives \/ AppRecv
           \/ (\E o \in objs \cup active : Reply(o)) \/ (\E o \in objs : Finish(o))
           \/ WorkerRecv \/ WorkerStale \/ WorkerClosed
           \/ CallOk \/ CallAnswerLost \/ CallStale \/ CallRefused
           \/ LinkStep \/ UndeclareStart \/ UndeclareFlushed \/ UndeclareNotify
           \/ UndeclareCall \/ UNCHANGED vars
  BY DEF Next, WorkerStep, UndeclareStep, LinkStep

(* How far Push moves the elements of a queue. *)
Shift(s) == IF Len(s) < Capacity THEN 0 ELSE 1

(* What Push makes of a queue within its capacity: the new element is last, and the    *)
(* others were queued before it, in the same order.                                   *)
Pushed(u, s, x, T) ==
    /\ u \in Seq(T) /\ Len(u) <= Capacity /\ u[Len(u)] = x /\ Len(u) \in Nat \ {0}
    /\ Shift(s) \in Nat
    /\ \A i \in 1..(Len(u) - 1) : i + Shift(s) \in DOMAIN s /\ u[i] = s[i + Shift(s)]

LEMMA PushProp ==
    ASSUME NEW T, NEW s \in Seq(T), NEW x \in T, Len(s) <= Capacity
    PROVE  Pushed(Push(s, x), s, x, T)
<1>0. Capacity \in Nat \ {0}
  BY BoundsNat
<1>1. CASE Len(s) < Capacity
  <2>1. Push(s, x) = Append(s, x)
    BY <1>1 DEF Push
  <2>2. Append(s, x) \in Seq(T) /\ Len(Append(s, x)) = Len(s) + 1
        /\ Append(s, x)[Len(s) + 1] = x /\ \A i \in 1..Len(s) : Append(s, x)[i] = s[i]
    OBVIOUS
  <2>3. \A i \in 1..(Len(Append(s, x)) - 1) :
           i + 0 \in DOMAIN s /\ Append(s, x)[i] = s[i + 0]
    BY <2>2
  <2>4. Len(s) + 1 <= Capacity /\ Len(s) + 1 \in Nat \ {0}
    BY <1>0, <1>1
  <2>5. Shift(s) = 0
    BY <1>1 DEF Shift
  <2> QED BY <2>1, <2>2, <2>3, <2>4, <2>5 DEF Pushed
<1>2. CASE ~(Len(s) < Capacity)
  <2> DEFINE u == Tail(s)
  <2>1. Len(s) # 0 /\ s # << >>
    BY <1>0, <1>2
  <2>2. Push(s, x) = Append(u, x)
    BY <1>2 DEF Push
  <2>3. u \in Seq(T) /\ Len(u) = Len(s) - 1 /\ \A i \in 1..Len(u) : u[i] = s[i + 1]
    BY <2>1
  <2>4. \A i \in 1..Len(u) : i + 1 \in DOMAIN s
    BY <2>3
  <2> HIDE DEF u
  <2>5. Append(u, x) \in Seq(T) /\ Len(Append(u, x)) = Len(u) + 1
        /\ Append(u, x)[Len(u) + 1] = x /\ \A i \in 1..Len(u) : Append(u, x)[i] = u[i]
    BY <2>3
  <2>6. \A i \in 1..(Len(Append(u, x)) - 1) :
           i + 1 \in DOMAIN s /\ Append(u, x)[i] = s[i + 1]
    BY <2>3, <2>4, <2>5
  <2>7. Len(Append(u, x)) <= Capacity /\ Len(Append(u, x)) \in Nat \ {0}
    BY <2>3, <2>5
  <2>8. Shift(s) = 1
    BY <1>2 DEF Shift
  <2> QED BY <2>2, <2>5, <2>6, <2>7, <2>8 DEF Pushed
<1> QED BY <1>1, <1>2

LEMMA TailProp ==
    ASSUME NEW T, NEW s \in Seq(T), s # << >>
    PROVE  /\ Tail(s) \in Seq(T) /\ Len(Tail(s)) = Len(s) - 1 /\ Head(s) \in T
           /\ Head(s) = s[1] /\ 1 \in DOMAIN s
           /\ \A i \in DOMAIN Tail(s) : i + 1 \in DOMAIN s /\ Tail(s)[i] = s[i + 1]
  OBVIOUS

LEMMA CurProp ==
    ASSUME TypeOK, pcC # "recv"
    PROVE  cur[1] \in Commands /\ DOMAIN cur = {1}
<1>1. cur \in Seq(Commands) /\ Len(cur) <= 1 /\ cur # << >>
  BY DEF TypeOK
<1>2. Len(cur) = 1
  BY <1>1
<1> QED BY <1>1, <1>2

LEMMA EvictedType ==
    ASSUME TypeOK
    PROVE  {d.q : d \in {e \in Evicted(cmds) : e.op = "finish"}} \subseteq Queries
<1>1. Evicted(cmds) \subseteq Commands
  <2>1. CASE Len(cmds) < Capacity
    BY <2>1 DEF Evicted
  <2>2. CASE ~(Len(cmds) < Capacity)
    <3>1. cmds \in Seq(Commands) /\ cmds # << >>
      BY <2>2, BoundsNat DEF TypeOK
    <3>2. Head(cmds) \in Commands
      BY <3>1, TailProp
    <3> QED BY <2>2, <3>2 DEF Evicted
  <2> QED BY <2>1, <2>2
<1> QED BY <1>1 DEF Commands

LEMMA EnqueueType ==
    ASSUME TypeOK, NEW c \in Commands, enqueue_command(c)
    PROVE  cmds' \in Seq(Commands) /\ Len(cmds') <= Capacity /\ evicted' \subseteq Queries
<1>1. cmds \in Seq(Commands) /\ Len(cmds) <= Capacity
  BY DEF TypeOK
<1>2. Pushed(cmds', cmds, c, Commands)
  BY <1>1, PushProp DEF enqueue_command
<1> QED BY <1>2, EvictedType DEF enqueue_command, TypeOK, Pushed

LEMMA CommandType ==
    ASSUME NEW o \in Filed, NEW op \in {"reply", "finish"}
    PROVE  Command(op, o) \in Commands
  BY DEF Command, Commands, Filed

LEMMA PerformType ==
    ASSUME TypeOK, pcC = "call", Perform
    PROVE  inflight' \subseteq Filed /\ carried' \subseteq Queries \X Queries
           /\ finished' \subseteq Queries
           /\ UNCHANGED <<nextHandle, nextQuery, reg, given, evicted>>
<1>1. cur[1].q \in Queries
  BY CurProp DEF Commands
<1>2. Found \subseteq inflight /\ \A x \in Found : x.q \in Queries
  BY DEF Found, TypeOK, Filed
<1> QED BY <1>1, <1>2 DEF Perform, TypeOK

LEMMA TypeInit == Init => TypeOK
<1> SUFFICES ASSUME Init PROVE TypeOK
  OBVIOUS
<1>1. << >> \in Seq(Filed) /\ << >> \in Seq(Commands) /\ Len(<< >>) = 0
  OBVIOUS
<1>2. Len(<< >>) <= Capacity /\ 0 \in 0..MaxReplies /\ 0 \in 0..MaxStops
      /\ 0 \in 0..MaxFaults /\ 0 \in 0..MaxQueries /\ Len(<< >>) <= 1
  BY <1>1, BoundsNat
<1>3. replies \in [Queries -> 0..MaxReplies]
  BY <1>2 DEF Init
<1>4. conn \in BOOLEAN /\ ended \in BOOLEAN
  BY Zenon DEF Init
<1> QED BY <1>1, <1>2, <1>3, <1>4 DEF Init, TypeOK

(* Every action keeps the types. *)
LEMMA TypeStep ==
    ASSUME TypeOK, [Next]_vars
    PROVE  TypeOK'
<1>f. ASSUME Fault PROVE faults' \in 0..MaxFaults
  BY <1>f, BoundsNat DEF Fault, TypeOK
<1>m. ASSUME NEW p \in {"recv", "taken", "look", "gap", "asleep", "call"}, mark_disconnected(p)
      PROVE  /\ conn' \in BOOLEAN
             /\ pcC' \in {"recv", "taken", "look", "gap", "asleep", "call"}
             /\ pcC' = "recv" <=> p = "recv"
  BY <1>m DEF mark_disconnected, Woken, TypeOK
<1>u. ASSUME Unanswered PROVE faults' \in 0..MaxFaults
  BY <1>u, <1>f DEF Unanswered, TypeOK
<1>s. ASSUME EndStream PROVE stream' = 0 /\ ended' \in BOOLEAN
  BY <1>s, Zenon DEF EndStream
<1>n. << >> \in Seq(Commands) /\ Len(<< >>) <= 1
  OBVIOUS
<1>1. CASE ServerStops
  <2>1. stops' \in 0..MaxStops
    BY <1>1, BoundsNat DEF ServerStops, TypeOK
  <2>2. up' \in BOOLEAN /\ inflight' = {}
    BY <1>1, Zenon DEF ServerStops
  <2>4. nextHandle' = 1 /\ nextQuery' = 1 /\ reg' = 0 /\ stream' = 0
        /\ ended' \in BOOLEAN
    BY <1>1, <1>s DEF ServerStops
  <2>3. UNCHANGED <<faults, conn, asked, events, app, cmds, work, pcU, hist>>
    BY <1>1 DEF ServerStops
  <2> QED BY <2>1, <2>2, <2>3, <2>4 DEF TypeOK, app, work, hist
<1>2. CASE ServerStarts
  BY <1>2 DEF ServerStarts, TypeOK, srv, app, work, hist
<1>3. CASE LeaseLapses
  BY <1>3, <1>f, <1>s DEF LeaseLapses, TypeOK, app, work, hist
<1>4. CASE OtherDeclares
  BY <1>4 DEF OtherDeclares, TypeOK, fate, app, work, hist
<1>5. CASE StreamOpens
  <2>1. stream' \in Nat /\ reg' \in Nat /\ nextHandle' \in Nat \ {0}
    BY <1>5 DEF StreamOpens, TypeOK
  <2>2. UNCHANGED <<fate, nextQuery, inflight, asked, events, app, cmds, work, pcU, hist>>
    BY <1>5 DEF StreamOpens
  <2> QED BY <2>1, <2>2 DEF TypeOK, fate, app, work, hist
<1>6. CASE StreamBreaks
  BY <1>6, <1>f, <1>s DEF StreamBreaks, TypeOK, srv, app, work, hist
<1>7. CASE QueryArrives
  <2> DEFINE x == [id |-> nextQuery, handle |-> reg, q |-> asked + 1]
  <2>1. x \in Filed /\ asked' \in 0..MaxQueries /\ nextQuery' \in Nat \ {0}
    BY <1>7, BoundsNat DEF QueryArrives, TypeOK, Filed, Queries
  <2>2. inflight' = inflight \cup {x}
        /\ events' = IF stream = reg /\ pcU = "none" THEN Push(events, x) ELSE events
    BY <1>7 DEF QueryArrives
  <2> HIDE DEF x
  <2>3. events' \in Seq(Filed) /\ Len(events') <= Capacity /\ inflight' \subseteq Filed
    <3>1. events \in Seq(Filed) /\ Len(events) <= Capacity /\ inflight \subseteq Filed
      BY DEF TypeOK
    <3>2. Pushed(Push(events, x), events, x, Filed)
      BY <2>1, <3>1, PushProp
    <3> QED BY <2>1, <2>2, <3>1, <3>2 DEF Pushed
  <2> QED BY <1>7, <2>1, <2>3 DEF QueryArrives, TypeOK, fate, app, work, hist
<1>8. CASE AppRecv
  <2>1. events \in Seq(Filed) /\ events # << >>
    BY <1>8 DEF AppRecv, TypeOK
  <2>2. Tail(events) \in Seq(Filed) /\ Len(Tail(events)) <= Capacity /\ Head(events) \in Filed
    BY <2>1, TailProp, BoundsNat DEF TypeOK
  <2>3. active' \subseteq Filed /\ objs' \subseteq Filed
    BY <1>8, <2>2 DEF AppRecv, Forget, TypeOK
  <2> QED BY <1>8, <2>2, <2>3 DEF AppRecv, TypeOK, fate, srv, work, hist
<1>9. ASSUME NEW o \in objs \cup active, Reply(o) PROVE TypeOK'
  <2>1. o \in Filed /\ o.q \in Queries
    BY DEF TypeOK, Filed
  <2>2. cmds' \in Seq(Commands) /\ Len(cmds') <= Capacity /\ evicted' \subseteq Queries
    BY <1>9, <2>1, CommandType, EnqueueType DEF Reply
  <2>3. replies' \in [Queries -> 0..MaxReplies]
    BY <1>9, <2>1, BoundsNat DEF Reply, TypeOK
  <2> QED BY <1>9, <2>2, <2>3 DEF Reply, TypeOK, fate, srv, work
<1>10. ASSUME NEW o \in objs, Finish(o) PROVE TypeOK'
  <2>1. o \in Filed /\ o.q \in Queries
    BY DEF TypeOK, Filed
  <2>2. cmds' \in Seq(Commands) /\ Len(cmds') <= Capacity /\ evicted' \subseteq Queries
    BY <1>10, <2>1, CommandType, EnqueueType DEF Finish
  <2> QED BY <1>10, <2>1, <2>2 DEF Finish, TypeOK, fate, srv, work
<1>11. CASE WorkerRecv
  <2>1. cmds \in Seq(Commands) /\ cmds # << >> /\ pcC = "recv"
    BY <1>11 DEF WorkerRecv, TypeOK
  <2>2. Tail(cmds) \in Seq(Commands) /\ Len(Tail(cmds)) <= Capacity /\ Head(cmds) \in Commands
    BY <2>1, TailProp, BoundsNat DEF TypeOK
  <2>3. cur' = <<Head(cmds)>> /\ cmds' = Tail(cmds) /\ pcC' = "taken"
    BY <1>11 DEF WorkerRecv
  <2>4. cur' \in Seq(Commands) /\ Len(cur') <= 1 /\ cur' # << >>
    BY <2>2, <2>3
  <2> QED BY <1>11, <2>2, <2>3, <2>4 DEF WorkerRecv, TypeOK, fate, srv, app, hist
<1>12. CASE WorkerStale
  <2>1. CASE cur' = << >> /\ pcC' = "recv"
    BY <1>12, <2>1, <1>n DEF WorkerStale, TypeOK, fate, srv, app, hist
  <2>2. CASE pcC' = "look" /\ UNCHANGED cur
    BY <1>12, <2>2 DEF WorkerStale, TypeOK, fate, srv, app, hist
  <2> QED BY <1>12, <2>1, <2>2 DEF WorkerStale
<1>13. CASE WorkerClosed
  BY <1>13, <1>n DEF WorkerClosed, TypeOK, fate, srv, app, hist
<1>14. CASE CallOk
  <2>1. inflight' \subseteq Filed /\ carried' \subseteq Queries \X Queries
        /\ finished' \subseteq Queries
        /\ UNCHANGED <<nextHandle, nextQuery, reg, given, evicted>>
    BY <1>14, PerformType DEF CallOk
  <2>2. active' \subseteq Filed
    BY <1>14 DEF CallOk, Forget, TypeOK
  <2> QED BY <1>14, <1>n, <2>1, <2>2 DEF CallOk, TypeOK, fate
<1>15. CASE CallAnswerLost
  <2>1. inflight' \subseteq Filed /\ carried' \subseteq Queries \X Queries
        /\ finished' \subseteq Queries
        /\ UNCHANGED <<nextHandle, nextQuery, reg, given, evicted>>
    BY <1>15, PerformType DEF CallAnswerLost
  <2>2. faults' \in 0..MaxFaults
    BY <1>15, <1>f DEF CallAnswerLost
  <2>3. mark_disconnected("look") /\ pcC = "call"
        /\ UNCHANGED <<up, stops, ended, asked, stream, events, app, cmds, cur, stale, pcU>>
    BY <1>15 DEF CallAnswerLost
  <2>4. conn' \in BOOLEAN /\ pcC' # "recv"
        /\ pcC' \in {"recv", "taken", "look", "gap", "asleep", "call"}
    BY <2>3, <1>m
  <2> QED BY <2>1, <2>2, <2>3, <2>4 DEF TypeOK, app
<1>16. CASE CallStale
  <2>1. Identity(cur[1]) \in Identities
    BY <1>16, CurProp DEF CallStale, Identity, Identities, Commands
  <2>2. active' \subseteq Filed
    BY <1>16 DEF CallStale, Forget, TypeOK
  <2> QED BY <1>16, <1>n, <2>1, <2>2 DEF CallStale, TypeOK, fate, srv, hist
<1>17. CASE CallRefused
  <2>1. faults' \in 0..MaxFaults
    BY <1>17, <1>f DEF CallRefused
  <2> QED BY <1>17, <1>n, <2>1 DEF CallRefused, TypeOK, srv, app, hist
<1>18. CASE UndeclareStart
  BY <1>18 DEF UndeclareStart, TypeOK, fate, srv, app, work, hist
<1>19. CASE UndeclareFlushed
  BY <1>19 DEF UndeclareFlushed, TypeOK, fate, srv, app, work, hist
<1>20. CASE UndeclareCall
  <2>1. pcU' = "done" /\ UNCHANGED <<up, stops, ended, nextHandle, nextQuery, asked, stream, events,
                                    app, cmds, cur, stale, hist>>
    BY <1>20 DEF UndeclareCall
  <2>2. CASE reg' = 0 /\ inflight' \subseteq inflight /\ UNCHANGED <<faults, conn, pcC>>
    BY <2>1, <2>2 DEF TypeOK, app, hist
  <2>3. CASE Unanswered /\ mark_disconnected(pcC) /\ UNCHANGED <<reg, inflight>>
    <3>1. faults' \in 0..MaxFaults /\ conn' \in BOOLEAN /\ (pcC' = "recv" <=> pcC = "recv")
          /\ pcC' \in {"recv", "taken", "look", "gap", "asleep", "call"}
      BY <2>3, <1>u, <1>m DEF TypeOK
    <3> QED BY <2>1, <2>3, <3>1 DEF TypeOK, app, hist
  <2> QED BY <1>20, <2>2, <2>3 DEF UndeclareCall
<1>21. CASE UNCHANGED vars
  BY <1>21 DEF TypeOK, vars, fate, srv, app, work, hist
<1>22. CASE UndeclareNotify
  <2>1. UNCHANGED <<fate, srv, asked, events, app, cmds, stale, hist>> /\ stream' = 0
        /\ pcU' \in {"call", "done"}
    BY <1>22 DEF UndeclareNotify
  <2>2. CASE cur' = << >> /\ pcC' = "recv"
    BY <2>1, <2>2, <1>n DEF TypeOK, fate, srv, app, hist
  <2>3. CASE UNCHANGED <<cur, pcC>>
    BY <2>1, <2>3 DEF TypeOK, fate, srv, app, hist
  <2> QED BY <1>22, <2>2, <2>3 DEF UndeclareNotify
<1>23. CASE LinkStep
  <2>1. UNCHANGED <<up, stops, srv, asked, stream, events, app, cmds, cur, stale, hist>>
    BY <1>23, LinkProp
  <2>2. ASSUME conn' \in BOOLEAN, ended' \in BOOLEAN, faults' \in 0..MaxFaults,
               pcC' \in {"recv", "taken", "look", "gap", "asleep", "call"},
               pcC' = "recv" <=> pcC = "recv",
               pcU' \in {"none", "flush", "empty", "closed", "call", "done"}
        PROVE  TypeOK'
    BY <2>1, <2>2 DEF TypeOK, srv, app, hist
  <2>3. CASE SetConnected
    <3>1. conn' = TRUE /\ pcC' = Woken(pcC) /\ UNCHANGED <<faults, ended, pcU>>
      BY <2>3 DEF SetConnected
    <3> QED BY <2>2, <3>1 DEF TypeOK, Woken
  <2>4. CASE ConnectionLost
    <3>1. Unanswered /\ mark_disconnected(pcC) /\ UNCHANGED <<ended, pcU>>
      BY <2>4 DEF ConnectionLost
    <3> QED BY <1>m, <1>u, <2>2, <3>1 DEF TypeOK
  <2>5. CASE StreamEnds
    <3>1. ended' = FALSE /\ mark_disconnected(pcC) /\ UNCHANGED <<faults, pcU>>
      BY <2>5 DEF StreamEnds
    <3> QED BY <1>m, <2>2, <3>1 DEF TypeOK
  <2>6. CASE WorkerLook \/ WorkerRegister
    <3>1. pcC # "recv" /\ pcC' \in {"call", "gap", "asleep"}
          /\ UNCHANGED <<conn, ended, faults, pcU>>
      BY <2>6 DEF WorkerLook, WorkerRegister, fate
    <3> QED BY <2>2, <3>1 DEF TypeOK
  <2>7. CASE CallDisconnected
    <3>1. pcC = "call" /\ Unanswered /\ mark_disconnected("look") /\ UNCHANGED <<ended, pcU>>
      BY <2>7 DEF CallDisconnected
    <3> QED BY <1>m, <1>u, <2>2, <3>1 DEF TypeOK
  <2>8. CASE UndeclareClose
    <3>1. pcU' = "closed" /\ UNCHANGED <<conn, ended, faults, pcC>>
      BY <2>8 DEF UndeclareClose, fate, work
    <3> QED BY <2>2, <3>1 DEF TypeOK
  <2> QED BY <1>23, <2>3, <2>4, <2>5, <2>6, <2>7, <2>8 DEF LinkStep
<1> QED
  BY <1>1, <1>2, <1>3, <1>4, <1>5, <1>6, <1>7, <1>8, <1>9, <1>10, <1>11, <1>12, <1>13,
     <1>14, <1>15, <1>16, <1>17, <1>18, <1>19, <1>20, <1>21, <1>22, <1>23,
     NextSplit

(* Both queues stay within their capacity and the worker holds a command exactly when  *)
(* it is not waiting for one, for every capacity and number of queries.                *)
THEOREM TypeCorrect == Spec => []TypeOK
<1> QED BY TypeInit, TypeStep, PTL DEF Spec
--------------------------------------------------------------------------------
(* Answers reach the query they answer *)

(* As long as the server has not stopped it gives the n-th query the id n, so that     *)
(* every record of a query, on either side, has the query's own number as its id.      *)
IdInv ==
    stops = 0 =>
        /\ nextQuery = asked + 1
        /\ \A x \in inflight \cup objs \cup active : x.id = x.q
        /\ \A i \in DOMAIN events : events[i].id = events[i].q
        /\ \A i \in DOMAIN cmds : cmds[i].id = cmds[i].q
        /\ \A i \in DOMAIN cur : cur[i].id = cur[i].q

(* The server stops for good, as far as the count of stops goes. *)
LEMMA StopsStay ==
    ASSUME TypeOK, [Next]_vars, stops' = 0
    PROVE  stops = 0
<1>1. CASE ServerStops
  BY <1>1, BoundsNat DEF ServerStops, TypeOK
<1>2. CASE ServerStarts \/ LeaseLapses \/ OtherDeclares \/ StreamOpens \/ StreamBreaks
             \/ QueryArrives \/ AppRecv
  BY <1>2 DEF ServerStarts, LeaseLapses, OtherDeclares, StreamOpens, StreamBreaks,
              QueryArrives, AppRecv, fate
<1>3. CASE \/ \E o \in objs \cup active : Reply(o)
           \/ \E o \in objs : Finish(o)
  BY <1>3 DEF Reply, Finish, fate
<1>4. CASE \/ WorkerRecv \/ WorkerStale \/ WorkerClosed \/ CallOk \/ CallAnswerLost
           \/ CallStale \/ CallRefused
  BY <1>4 DEF WorkerRecv, WorkerStale, WorkerClosed, CallOk, CallAnswerLost, CallStale,
              CallRefused, fate
<1>5. CASE UndeclareStart \/ UndeclareFlushed \/ UndeclareNotify \/ UndeclareCall
           \/ UNCHANGED vars
  BY <1>5 DEF UndeclareStart, UndeclareFlushed, UndeclareNotify, UndeclareCall, vars, fate
<1>z. CASE LinkStep
  BY <1>z, LinkProp
<1> QED BY <1>1, <1>2, <1>3, <1>4, <1>5, <1>z, NextSplit

LEMMA IdInit == Init => IdInv
  BY DEF Init, IdInv

(* A queue of records whose ids are their numbers stays one. *)
LEMMA PushIds ==
    ASSUME NEW T, NEW s \in Seq(T), NEW x \in T, Len(s) <= Capacity, x.id = x.q,
           \A i \in DOMAIN s : s[i].id = s[i].q
    PROVE  \A i \in DOMAIN Push(s, x) : Push(s, x)[i].id = Push(s, x)[i].q
<1> DEFINE u == Push(s, x)
<1>0. Pushed(u, s, x, T)
  BY PushProp
<1> HIDE DEF u
<1>1. u \in Seq(T) /\ Len(u) \in Nat \ {0} /\ u[Len(u)] = x
  BY <1>0 DEF Pushed
<1>2. \A i \in 1..(Len(u) - 1) : i + Shift(s) \in DOMAIN s /\ u[i] = s[i + Shift(s)]
  BY <1>0 DEF Pushed
<1>3. \A i \in DOMAIN u : i = Len(u) \/ i \in 1..(Len(u) - 1)
  BY <1>1
<1>4. \A i \in DOMAIN u : u[i].id = u[i].q
  BY <1>1, <1>2, <1>3
<1> QED BY <1>4 DEF u

LEMMA IdStep ==
    ASSUME TypeOK, IdInv, [Next]_vars
    PROVE  IdInv'
<1> SUFFICES ASSUME stops' = 0
             PROVE  IdInv'
  BY DEF IdInv
<1>0. stops = 0
  BY StopsStay
\* A step that makes no record: the sets shrink, and the queues stay as they are.
<1>a. ASSUME UNCHANGED <<nextQuery, asked, events, cmds>>, inflight' \subseteq inflight,
             objs' \subseteq objs, active' \subseteq active, cur' = cur \/ cur' = << >>
      PROVE  IdInv'
  BY <1>a, <1>0 DEF IdInv
<1>f. ASSUME NEW id PROVE Forget(id) \subseteq active
  BY DEF Forget
<1>p. ASSUME Perform PROVE inflight' \subseteq inflight /\ nextQuery' = nextQuery
  BY <1>p DEF Perform
<1>e. ASSUME NEW c \in Commands, c.id = c.q, enqueue_command(c),
             UNCHANGED <<nextQuery, asked, events, inflight, active, cur>>, objs' \subseteq objs
      PROVE  IdInv'
  <2>1. cmds \in Seq(Commands) /\ Len(cmds) <= Capacity /\ cmds' = Push(cmds, c)
    BY <1>e DEF TypeOK, enqueue_command
  <2>2. \A i \in DOMAIN cmds' : cmds'[i].id = cmds'[i].q
    BY <1>0, <1>e, <2>1, PushIds DEF IdInv
  <2> QED BY <1>0, <1>e, <2>2 DEF IdInv
<1>c. ASSUME NEW o \in objs \cup active, NEW op \in {"reply", "finish"}
      PROVE  Command(op, o) \in Commands /\ Command(op, o).id = Command(op, o).q
  <2>1. o \in Filed /\ o.id = o.q
    BY <1>0 DEF TypeOK, IdInv
  <2> QED BY <2>1, CommandType DEF Command
<1>1. CASE ServerStops
  BY <1>1, <1>0 DEF ServerStops, TypeOK
<1>2. CASE ServerStarts \/ LeaseLapses \/ OtherDeclares \/ StreamOpens \/ StreamBreaks
  BY <1>2, <1>a DEF ServerStarts, LeaseLapses, OtherDeclares, StreamOpens, StreamBreaks,
                    srv, app, work
<1>3. CASE QueryArrives
  <2> DEFINE x == [id |-> nextQuery, handle |-> reg, q |-> asked + 1]
  <2>1. x \in Filed /\ x.id = x.q
    BY <1>3, <1>0, BoundsNat DEF QueryArrives, TypeOK, Filed, Queries, IdInv
  <2>2. inflight' = inflight \cup {x}
        /\ events' = (IF stream = reg /\ pcU = "none" THEN Push(events, x) ELSE events)
        /\ nextQuery' = asked' + 1
    BY <1>3, <1>0 DEF QueryArrives, IdInv, TypeOK
  <2> HIDE DEF x
  <2>3. \A i \in DOMAIN events' : events'[i].id = events'[i].q
    <3>1. \A i \in DOMAIN Push(events, x) : Push(events, x)[i].id = Push(events, x)[i].q
      BY <1>0, <2>1, PushIds DEF TypeOK, IdInv
    <3> QED BY <1>0, <2>2, <3>1 DEF IdInv
  <2>4. UNCHANGED <<objs, active, cmds, cur>>
    BY <1>3 DEF QueryArrives, app, work
  <2> QED BY <1>0, <2>1, <2>2, <2>3, <2>4 DEF IdInv
<1>4. CASE AppRecv
  <2>1. events \in Seq(Filed) /\ events # << >>
    BY <1>4 DEF AppRecv, TypeOK
  <2>2. Head(events) = events[1] /\ 1 \in DOMAIN events
        /\ \A i \in DOMAIN Tail(events) :
              i + 1 \in DOMAIN events /\ Tail(events)[i] = events[i + 1]
    BY <2>1, TailProp
  <2>3. events' = Tail(events) /\ objs' = objs \cup {Head(events)}
        /\ active' \subseteq active \cup {Head(events)}
        /\ UNCHANGED <<nextQuery, asked, inflight, cmds, cur>>
    BY <1>4 DEF AppRecv, Forget, srv, work
  <2>4. \A i \in DOMAIN events' : events'[i].id = events'[i].q
    BY <1>0, <2>2, <2>3 DEF IdInv
  <2>5. Head(events).id = Head(events).q
    BY <1>0, <2>2 DEF IdInv
  <2> QED BY <1>0, <2>3, <2>4, <2>5 DEF IdInv
<1>5. ASSUME NEW o \in objs \cup active, Reply(o) PROVE IdInv'
  BY <1>5, <1>c, <1>e DEF Reply, srv, work
<1>6. ASSUME NEW o \in objs, Finish(o) PROVE IdInv'
  BY <1>6, <1>c, <1>e DEF Finish, srv, work
<1>7. CASE WorkerRecv
  <2>1. cmds \in Seq(Commands) /\ cmds # << >>
    BY <1>7 DEF WorkerRecv, TypeOK
  <2>2. Head(cmds) = cmds[1] /\ 1 \in DOMAIN cmds
        /\ \A i \in DOMAIN Tail(cmds) : i + 1 \in DOMAIN cmds /\ Tail(cmds)[i] = cmds[i + 1]
    BY <2>1, TailProp
  <2>3. cmds' = Tail(cmds) /\ cur' = <<Head(cmds)>>
        /\ UNCHANGED <<nextQuery, asked, inflight, objs, active, events>>
    BY <1>7 DEF WorkerRecv, srv, app
  <2>4. \A i \in DOMAIN cmds' : cmds'[i].id = cmds'[i].q
    BY <1>0, <2>2, <2>3 DEF IdInv
  <2>5. \A i \in DOMAIN cur' : cur'[i].id = cur'[i].q
    BY <1>0, <2>2, <2>3 DEF IdInv
  <2> QED BY <1>0, <2>3, <2>4, <2>5 DEF IdInv
<1>8. CASE WorkerStale \/ WorkerClosed \/ CallRefused
  BY <1>8, <1>a DEF WorkerStale, WorkerClosed, CallRefused, srv, app
<1>9. CASE CallOk \/ CallAnswerLost
  BY <1>9, <1>a, <1>f, <1>p DEF CallOk, CallAnswerLost, app, work
<1>10. CASE CallStale
  BY <1>10, <1>a, <1>f DEF CallStale, srv
<1>11. CASE UndeclareStart \/ UndeclareFlushed \/ UndeclareNotify \/ UndeclareCall
  BY <1>11, <1>a DEF UndeclareStart, UndeclareFlushed, UndeclareNotify, UndeclareCall, srv, app, work
<1>12. CASE UNCHANGED vars
  BY <1>12, <1>a DEF vars, srv, app, work
<1>z. CASE LinkStep
  BY <1>z, LinkProp, <1>a DEF srv, app, hist
<1> QED
  BY <1>1, <1>2, <1>3, <1>4, <1>5, <1>6, <1>7, <1>8, <1>9, <1>10, <1>11, <1>12, <1>z, NextSplit

(* The query that the server finds is the one that the command is about. *)
LEMMA FoundIsMine ==
    ASSUME TypeOK, IdInv, stops = 0, pcC = "call"
    PROVE  \A x \in Found : x.q = cur[1].q
  BY CurProp DEF IdInv, Found
LEMMA CarriedStep ==
    ASSUME TypeOK, IdInv, OriginalUnlessRestarted, [Next]_vars
    PROVE  OriginalUnlessRestarted'
<1> SUFFICES ASSUME stops' = 0
             PROVE  RepliesReachOriginal'
  BY DEF OriginalUnlessRestarted
<1>0. stops = 0 /\ RepliesReachOriginal
  BY StopsStay DEF OriginalUnlessRestarted
<1>a. ASSUME UNCHANGED carried PROVE RepliesReachOriginal'
  BY <1>0, <1>a DEF RepliesReachOriginal
<1>1. CASE CallOk \/ CallAnswerLost
  <2>1. pcC = "call" /\ carried' = carried \cup {<<cur[1].q, x.q>> : x \in Found}
    BY <1>1 DEF CallOk, CallAnswerLost, Perform
  <2>2. \A x \in Found : x.q = cur[1].q
    BY <1>0, <2>1, FoundIsMine
  <2> QED BY <1>0, <2>1, <2>2 DEF RepliesReachOriginal
<1>2. CASE \/ ServerStops \/ ServerStarts \/ LeaseLapses \/ OtherDeclares \/ StreamOpens
           \/ StreamBreaks \/ QueryArrives \/ AppRecv
  BY <1>2, <1>a DEF ServerStops, ServerStarts, LeaseLapses, OtherDeclares, StreamOpens,
                    StreamBreaks, QueryArrives, AppRecv, hist
<1>3. CASE \/ \E o \in objs \cup active : Reply(o)
           \/ \E o \in objs : Finish(o)
  BY <1>3, <1>a DEF Reply, Finish
<1>4. CASE WorkerRecv \/ WorkerStale \/ WorkerClosed \/ CallStale \/ CallRefused
  BY <1>4, <1>a DEF WorkerRecv, WorkerStale, WorkerClosed, CallStale, CallRefused, hist
<1>5. CASE UndeclareStart \/ UndeclareFlushed \/ UndeclareNotify \/ UndeclareCall
           \/ UNCHANGED vars
  BY <1>5, <1>a DEF UndeclareStart, UndeclareFlushed, UndeclareNotify, UndeclareCall, vars, hist
<1>z. CASE LinkStep
  BY <1>z, LinkProp, <1>a DEF hist
<1> QED BY <1>1, <1>2, <1>3, <1>4, <1>5, <1>z, NextSplit

(* Whatever a reply or a finish acts on at a server that was not restarted is the      *)
(* query that the application was answering, through lost answers, retries, lapsed     *)
(* leases and new declarations.                                                       *)
THEOREM RepliesAreTheirs == Spec => []OriginalUnlessRestarted
<1>1. Init => OriginalUnlessRestarted
  BY DEF Init, OriginalUnlessRestarted, RepliesReachOriginal
<1> QED BY <1>1, TypeInit, TypeStep, IdInit, IdStep, CarriedStep, PTL DEF Spec

--------------------------------------------------------------------------------
(* A finish is the last of its query's commands *)

(* May follow a finish of its query. *)
After(c) == c.op = "finish" \/ c.late

(* In the worker's hands and in the queue, what stands behind a finish of its query    *)
(* may do so, and a query whose finish is anywhere was given up by the application.    *)
OrderInv ==
    /\ \A i, j \in DOMAIN cmds :
          i < j /\ cmds[i].op = "finish" /\ cmds[j].q = cmds[i].q => After(cmds[j])
    /\ \A i \in DOMAIN cur : \A j \in DOMAIN cmds :
          cur[i].op = "finish" /\ cmds[j].q = cur[i].q => After(cmds[j])
    /\ \A i \in DOMAIN cmds : cmds[i].op = "finish" => cmds[i].q \in given
    /\ \A i \in DOMAIN cur : cur[i].op = "finish" => cur[i].q \in given
DoneInv ==
    stops = 0 =>
        /\ finished \subseteq given
        /\ \A q \in finished :
              /\ \A i \in DOMAIN cmds : cmds[i].q = q => After(cmds[i])
              /\ \A i \in DOMAIN cur : cur[i].q = q => After(cur[i])

LEMMA OrderInit == Init => OrderInv /\ DoneInv
  BY DEF Init, OrderInv, DoneInv

(* A command is queued: a reply to a query that was given up comes late. *)
LEMMA EnqueueOrder ==
    ASSUME TypeOK, OrderInv, DoneInv, NEW c \in Commands, enqueue_command(c),
           c.q \in given => After(c), given \subseteq given',
           c.op = "finish" => c.q \in given', UNCHANGED <<cur, finished, stops>>
    PROVE  OrderInv' /\ DoneInv'
<1>1. cmds \in Seq(Commands) /\ Len(cmds) <= Capacity /\ cmds' = Push(cmds, c)
  BY DEF TypeOK, enqueue_command
<1>0. Pushed(cmds', cmds, c, Commands)
  BY <1>1, PushProp
<1>2. cmds' \in Seq(Commands) /\ Len(cmds') \in Nat \ {0} /\ cmds'[Len(cmds')] = c
      /\ Shift(cmds) \in Nat
  BY <1>0 DEF Pushed
<1>3. \A i \in 1..(Len(cmds') - 1) :
         i + Shift(cmds) \in DOMAIN cmds /\ cmds'[i] = cmds[i + Shift(cmds)]
  BY <1>0 DEF Pushed
<1>4. \A i \in DOMAIN cmds' : i \in Nat /\ (i = Len(cmds') \/ i \in 1..(Len(cmds') - 1))
  BY <1>2
<1>5. \A i, j \in DOMAIN cmds' :
         i < j /\ cmds'[i].op = "finish" /\ cmds'[j].q = cmds'[i].q => After(cmds'[j])
  <2> SUFFICES ASSUME NEW i \in DOMAIN cmds', NEW j \in DOMAIN cmds', i < j,
                      cmds'[i].op = "finish", cmds'[j].q = cmds'[i].q
               PROVE  After(cmds'[j])
    OBVIOUS
  <2>1. i \in 1..(Len(cmds') - 1)
    BY <1>2, <1>4
  <2>2. CASE j = Len(cmds')
    <3>1. c.q \in given
      BY <1>2, <1>3, <2>1, <2>2 DEF OrderInv
    <3> QED BY <1>2, <2>2, <3>1
  <2>3. CASE j \in 1..(Len(cmds') - 1)
    <3>1. i + Shift(cmds) < j + Shift(cmds)
      BY <1>2, <1>4
    <3> QED BY <1>3, <2>1, <2>3, <3>1 DEF OrderInv
  <2> QED BY <1>4, <2>2, <2>3
<1>6. \A i \in DOMAIN cur' : \A j \in DOMAIN cmds' :
         cur'[i].op = "finish" /\ cmds'[j].q = cur'[i].q => After(cmds'[j])
  <2> SUFFICES ASSUME NEW i \in DOMAIN cur, NEW j \in DOMAIN cmds',
                      cur[i].op = "finish", cmds'[j].q = cur[i].q
               PROVE  After(cmds'[j])
    OBVIOUS
  <2>1. CASE j = Len(cmds')
    BY <1>2, <2>1 DEF OrderInv
  <2>2. CASE j \in 1..(Len(cmds') - 1)
    BY <1>3, <2>2 DEF OrderInv
  <2> QED BY <1>4, <2>1, <2>2
<1>7. \A i \in DOMAIN cmds' : cmds'[i].op = "finish" => cmds'[i].q \in given'
  <2> SUFFICES ASSUME NEW i \in DOMAIN cmds', cmds'[i].op = "finish"
               PROVE  cmds'[i].q \in given'
    OBVIOUS
  <2>1. CASE i = Len(cmds')
    BY <1>2, <2>1
  <2>2. CASE i \in 1..(Len(cmds') - 1)
    BY <1>3, <2>2 DEF OrderInv
  <2> QED BY <1>4, <2>1, <2>2
<1>8. ASSUME stops = 0, NEW q \in finished, NEW i \in DOMAIN cmds', cmds'[i].q = q
      PROVE  After(cmds'[i])
  <2>1. CASE i = Len(cmds')
    BY <1>2, <1>8, <2>1 DEF DoneInv
  <2>2. CASE i \in 1..(Len(cmds') - 1)
    BY <1>3, <1>8, <2>2 DEF DoneInv
  <2> QED BY <1>4, <2>1, <2>2
<1>9. OrderInv'
  BY <1>5, <1>6, <1>7 DEF OrderInv
<1>10. DoneInv'
  BY <1>8 DEF DoneInv
<1> QED BY <1>9, <1>10

LEMMA OrderStep ==
    ASSUME TypeOK, IdInv, OrderInv, DoneInv, [Next]_vars
    PROVE  OrderInv' /\ DoneInv'
\* A step that queues nothing and finishes nothing.
<1>a. ASSUME UNCHANGED <<cmds, given, finished>>, cur' = cur \/ cur' = << >>, stops' = 0 => stops = 0
      PROVE  OrderInv' /\ DoneInv'
  BY <1>a DEF OrderInv, DoneInv
<1>s. stops' = 0 => stops = 0
  BY StopsStay
\* The server performs the command that the worker has sent.
<1>p. ASSUME pcC = "call", Perform, UNCHANGED <<cmds, stops>>, cur' = cur \/ cur' = << >>
      PROVE  OrderInv' /\ DoneInv'
  <2>1. DOMAIN cur = {1} /\ given' = given
    BY <1>p, CurProp DEF Perform
  <2>2. OrderInv'
    BY <1>p, <2>1 DEF OrderInv
  <2>3. ASSUME stops = 0, NEW q \in finished', q \notin finished
        PROVE  q = cur[1].q /\ cur[1].op = "finish"
    <3>1. \A x \in Found : x.q = cur[1].q
      BY <1>p, <2>3, FoundIsMine
    <3>2. cur[1].op # "reply"
      BY <1>p, <2>3 DEF Perform
    <3>3. \E x \in Found : q = x.q
      BY <1>p, <2>3, <3>2 DEF Perform
    <3>4. cur[1] \in Commands
      BY <1>p, CurProp
    <3> QED BY <3>1, <3>2, <3>3, <3>4 DEF Commands
  <2>4. DoneInv'
    <3> SUFFICES ASSUME stops = 0
                 PROVE  /\ finished' \subseteq given'
                        /\ \A q \in finished' :
                              /\ \A i \in DOMAIN cmds' : cmds'[i].q = q => After(cmds'[i])
                              /\ \A i \in DOMAIN cur' : cur'[i].q = q => After(cur'[i])
      BY <1>p DEF DoneInv
    <3>1. finished' \subseteq given'
      BY <2>1, <2>3 DEF OrderInv, DoneInv
    <3>2. ASSUME NEW q \in finished', NEW i \in DOMAIN cmds', cmds'[i].q = q
          PROVE  After(cmds'[i])
      <4>1. CASE q \in finished
        BY <1>p, <3>2, <4>1 DEF DoneInv
      <4>2. CASE q \notin finished
        BY <1>p, <2>1, <2>3, <3>2, <4>2 DEF OrderInv
      <4> QED BY <4>1, <4>2
    <3>3. ASSUME NEW q \in finished', NEW i \in DOMAIN cur', cur'[i].q = q
          PROVE  After(cur'[i])
      <4>1. CASE q \in finished
        BY <1>p, <3>3, <4>1 DEF DoneInv
      <4>2. CASE q \notin finished
        BY <1>p, <2>1, <2>3, <3>3, <4>2 DEF After
      <4> QED BY <4>1, <4>2
    <3> QED BY <3>1, <3>2, <3>3
  <2> QED BY <2>2, <2>4
<1>1. CASE \/ ServerStops \/ ServerStarts \/ LeaseLapses \/ OtherDeclares \/ StreamOpens
           \/ StreamBreaks \/ QueryArrives \/ AppRecv
  BY <1>1, <1>a, <1>s DEF ServerStops, ServerStarts, LeaseLapses, OtherDeclares, StreamOpens,
                          StreamBreaks, QueryArrives, AppRecv, hist, work
<1>2. ASSUME NEW o \in objs \cup active, Reply(o) PROVE OrderInv' /\ DoneInv'
  <2>1. Command("reply", o) \in Commands /\ Command("reply", o).op = "reply"
        /\ (Command("reply", o).q \in given => After(Command("reply", o)))
    BY CommandType DEF TypeOK, Command, After
  <2> QED BY <1>2, <2>1, EnqueueOrder DEF Reply, work, fate
<1>3. ASSUME NEW o \in objs, Finish(o) PROVE OrderInv' /\ DoneInv'
  <2>1. Command("finish", o) \in Commands /\ After(Command("finish", o))
        /\ Command("finish", o).q = o.q
    BY CommandType DEF TypeOK, Command, After
  <2> QED BY <1>3, <2>1, EnqueueOrder DEF Finish, work, fate
<1>4. CASE WorkerRecv
  <2>1. cmds \in Seq(Commands) /\ cmds # << >>
    BY <1>4 DEF WorkerRecv, TypeOK
  <2>2. Head(cmds) = cmds[1] /\ 1 \in DOMAIN cmds
        /\ \A i \in DOMAIN Tail(cmds) : i + 1 \in DOMAIN cmds /\ Tail(cmds)[i] = cmds[i + 1]
    BY <2>1, TailProp
  <2>3. \A i \in DOMAIN Tail(cmds) : i \in Nat /\ 1 < i + 1
    BY <2>1
  <2>4. cmds' = Tail(cmds) /\ DOMAIN cur' = {1} /\ cur'[1] = cmds[1]
        /\ UNCHANGED <<given, finished, stops>>
    BY <1>4, <2>2 DEF WorkerRecv, fate, hist
  <2>5. OrderInv'
    <3>1. \A i, j \in DOMAIN cmds' :
             i < j /\ cmds'[i].op = "finish" /\ cmds'[j].q = cmds'[i].q => After(cmds'[j])
      BY <2>2, <2>3, <2>4 DEF OrderInv
    <3>2. \A j \in DOMAIN cmds' :
             cmds[1].op = "finish" /\ cmds'[j].q = cmds[1].q => After(cmds'[j])
      BY <2>2, <2>3, <2>4 DEF OrderInv
    <3>3. \A i \in DOMAIN cmds' : cmds'[i].op = "finish" => cmds'[i].q \in given
      BY <2>2, <2>4 DEF OrderInv
    <3>4. cmds[1].op = "finish" => cmds[1].q \in given
      BY <2>2 DEF OrderInv
    <3> QED BY <2>4, <3>1, <3>2, <3>3, <3>4 DEF OrderInv
  <2>6. DoneInv'
    BY <2>2, <2>4 DEF DoneInv
  <2> QED BY <2>5, <2>6
<1>5. CASE WorkerStale \/ WorkerClosed \/ CallStale \/ CallRefused
  BY <1>5, <1>a DEF WorkerStale, WorkerClosed, CallStale, CallRefused, hist, fate
<1>6. CASE CallOk \/ CallAnswerLost
  BY <1>6, <1>p DEF CallOk, CallAnswerLost, fate, work
<1>7. CASE UndeclareStart \/ UndeclareFlushed \/ UndeclareNotify \/ UndeclareCall
           \/ UNCHANGED vars
  BY <1>7, <1>a, <1>s DEF UndeclareStart, UndeclareFlushed, UndeclareNotify, UndeclareCall, vars, hist, work
<1>z. CASE LinkStep
  BY <1>z, LinkProp, <1>a DEF hist
<1> QED BY <1>1, <1>2, <1>3, <1>4, <1>5, <1>6, <1>7, <1>z, NextSplit

(* Once a server that was not restarted has finished a query, no reply made before the *)
(* finish is queued or being sent, across retries and evictions from a full queue.     *)
THEOREM FinishComesLast == Spec => []FinishIsLast
<1>1. DoneInv => FinishIsLast
  BY DEF DoneInv, FinishIsLast, After, Range
<1>2. Init => TypeOK /\ IdInv /\ OrderInv /\ DoneInv
  BY TypeInit, IdInit, OrderInit
<1>3. TypeOK /\ IdInv /\ OrderInv /\ DoneInv /\ [Next]_vars
         => TypeOK' /\ IdInv' /\ OrderInv' /\ DoneInv'
  BY TypeStep, IdStep, OrderStep
<1> QED BY <1>1, <1>2, <1>3, PTL DEF Spec
--------------------------------------------------------------------------------
(* Each query lives by QueryLife *)

(* A query waits once or is held once, never both, and none is from the future. *)
OnceInv ==
    /\ \A i, j \in DOMAIN events : events[i].q = events[j].q => i = j
    /\ \A i \in DOMAIN events : events[i].q <= asked
    /\ \A i \in DOMAIN events : \A o \in objs : events[i].q # o.q
    /\ \A o \in objs : o.q <= asked
    /\ \A o, p \in objs : o.q = p.q => o = p

LEMMA OnceInit == Init => OnceInv
  BY DEF Init, OnceInv

LEMMA NumbersNat ==
    ASSUME TypeOK
    PROVE  /\ asked \in Nat
           /\ \A i \in DOMAIN events : events[i] \in Filed /\ events[i].q \in Nat
           /\ \A o \in objs \cup active \cup inflight : o.q \in Nat
           /\ \A i \in DOMAIN cmds : cmds[i] \in Commands /\ cmds[i].q \in Nat
           /\ \A i \in DOMAIN cur : cur[i] \in Commands /\ cur[i].q \in Nat
<1>1. (\A x \in Filed : x.q \in Nat) /\ (\A c \in Commands : c.q \in Nat) /\ asked \in Nat
  BY BoundsNat DEF TypeOK, Filed, Commands, Queries
<1>2. \A i \in DOMAIN events : events[i] \in Filed
  BY DEF TypeOK
<1>3. \A i \in DOMAIN cmds : cmds[i] \in Commands
  BY DEF TypeOK
<1>4. \A i \in DOMAIN cur : cur[i] \in Commands
  BY DEF TypeOK
<1> QED BY <1>1, <1>2, <1>3, <1>4 DEF TypeOK

(* The new query of QueryArrives, and what becomes of the event queue. *)
LEMMA ArrivesProp ==
    ASSUME TypeOK, QueryArrives
    PROVE  \E x \in Filed :
             /\ x.q = asked + 1 /\ x.id = nextQuery /\ asked' = asked + 1
             /\ inflight' = inflight \cup {x}
             /\ events' = events \/ (events' = Push(events, x) /\ Pushed(events', events, x, Filed))
<1> DEFINE y == [id |-> nextQuery, handle |-> reg, q |-> asked + 1]
<1>1. y \in Filed /\ y.q = asked + 1 /\ y.id = nextQuery
  BY BoundsNat DEF QueryArrives, TypeOK, Filed, Queries
<1>2. asked' = asked + 1 /\ inflight' = inflight \cup {y}
      /\ events' = IF stream = reg /\ pcU = "none" THEN Push(events, y) ELSE events
  BY DEF QueryArrives
<1> HIDE DEF y
<1>3. Pushed(Push(events, y), events, y, Filed)
  BY <1>1, PushProp DEF TypeOK
<1> QED BY <1>1, <1>2, <1>3

LEMMA OnceStep ==
    ASSUME TypeOK, OnceInv, [Next]_vars
    PROVE  OnceInv'
<1>a. ASSUME UNCHANGED <<events, objs, asked>> PROVE OnceInv'
  BY <1>a DEF OnceInv
<1>1. CASE QueryArrives
  <2>1. PICK x \in Filed :
           /\ x.q = asked + 1 /\ asked' = asked + 1
           /\ events' = events \/ Pushed(events', events, x, Filed)
    BY <1>1, ArrivesProp
  <2>2. objs' = objs
    BY <1>1 DEF QueryArrives, app
  <2>3. CASE events' = events
    BY <2>1, <2>2, <2>3, NumbersNat DEF OnceInv
  <2>4. CASE Pushed(events', events, x, Filed)
    <3>1. events' \in Seq(Filed) /\ Len(events') \in Nat \ {0} /\ events'[Len(events')] = x
          /\ Shift(events) \in Nat
          /\ \A i \in 1..(Len(events') - 1) :
                i + Shift(events) \in DOMAIN events /\ events'[i] = events[i + Shift(events)]
      BY <2>4 DEF Pushed
    <3>2. \A i \in DOMAIN events' : i \in Nat /\ (i = Len(events') \/ i \in 1..(Len(events') - 1))
      BY <3>1
    <3>3. \A i \in 1..(Len(events') - 1) :
             events'[i].q # asked + 1 /\ events'[i].q <= asked + 1
             /\ \A o \in objs : events'[i].q # o.q
      BY <3>1, NumbersNat DEF OnceInv
    <3>4. \A i \in DOMAIN events' :
             events'[i].q <= asked' /\ \A o \in objs' : events'[i].q # o.q
      BY <2>1, <2>2, <3>1, <3>2, <3>3, NumbersNat DEF OnceInv
    <3>5. ASSUME NEW i \in DOMAIN events', NEW j \in DOMAIN events',
                 events'[i].q = events'[j].q
          PROVE  i = j
      <4>1. CASE i \in 1..(Len(events') - 1) /\ j \in 1..(Len(events') - 1)
        <5>1. i + Shift(events) = j + Shift(events)
          BY <3>1, <3>5, <4>1 DEF OnceInv
        <5> QED BY <3>1, <3>2, <5>1
      <4> QED BY <2>1, <3>1, <3>2, <3>3, <3>5, <4>1
    <3>6. \A o \in objs' : o.q <= asked'
      BY <2>1, <2>2, NumbersNat DEF OnceInv
    <3> QED BY <2>2, <3>4, <3>5, <3>6 DEF OnceInv
  <2> QED BY <2>1, <2>3, <2>4
<1>2. CASE AppRecv
  <2>1. events \in Seq(Filed) /\ events # << >>
    BY <1>2 DEF AppRecv, TypeOK
  <2>2. Head(events) = events[1] /\ 1 \in DOMAIN events
        /\ \A i \in DOMAIN Tail(events) :
              i + 1 \in DOMAIN events /\ Tail(events)[i] = events[i + 1]
    BY <2>1, TailProp
  <2>3. \A i \in DOMAIN Tail(events) : i \in Nat /\ i + 1 # 1
    BY <2>1
  <2>4. events' = Tail(events) /\ objs' = objs \cup {events[1]} /\ asked' = asked
    BY <1>2, <2>2 DEF AppRecv
  <2>5. \A i, j \in DOMAIN events' : events'[i].q = events'[j].q => i = j
    BY <2>2, <2>3, <2>4 DEF OnceInv
  <2>6. \A i \in DOMAIN events' : events'[i].q <= asked' /\ \A o \in objs' : events'[i].q # o.q
    BY <2>2, <2>3, <2>4 DEF OnceInv
  <2>7. (\A o \in objs' : o.q <= asked') /\ \A o, p \in objs' : o.q = p.q => o = p
    BY <2>2, <2>4 DEF OnceInv
  <2> QED BY <2>5, <2>6, <2>7 DEF OnceInv
<1>3. ASSUME NEW o \in objs, Finish(o) PROVE OnceInv'
  <2>1. objs' = objs \ {o} /\ UNCHANGED <<events, asked>>
    BY <1>3 DEF Finish
  <2> QED BY <2>1 DEF OnceInv
<1>4. CASE ServerStops \/ ServerStarts \/ LeaseLapses \/ OtherDeclares \/ StreamOpens
             \/ StreamBreaks
  BY <1>4, <1>a DEF ServerStops, ServerStarts, LeaseLapses, OtherDeclares, StreamOpens,
                    StreamBreaks, app
<1>5. ASSUME NEW o \in objs \cup active, Reply(o) PROVE OnceInv'
  BY <1>5, <1>a DEF Reply
<1>6. CASE \/ WorkerRecv \/ WorkerStale \/ WorkerClosed \/ CallOk \/ CallAnswerLost
           \/ CallStale \/ CallRefused
  BY <1>6, <1>a DEF WorkerRecv, WorkerStale, WorkerClosed, CallOk, CallAnswerLost,
                    CallStale, CallRefused, app
<1>7. CASE UndeclareStart \/ UndeclareFlushed \/ UndeclareNotify \/ UndeclareCall
           \/ UNCHANGED vars
  BY <1>7, <1>a DEF UndeclareStart, UndeclareFlushed, UndeclareNotify, UndeclareCall, vars, app
<1>z. CASE LinkStep
  BY <1>z, LinkProp, <1>a DEF app
<1> QED BY <1>1, <1>2, <1>3, <1>4, <1>5, <1>6, <1>7, <1>z, NextSplit

(* The numbers of the queries in a queue, in its order. *)
Nums(s) == [i \in DOMAIN s |-> s[i].q]
Kept == {o.q : o \in objs}

LEMMA NumsType ==
    ASSUME NEW s \in Seq(Filed)
    PROVE  Nums(s) \in Seq(Queries) /\ Len(Nums(s)) = Len(s)
<1>1. DOMAIN s = 1..Len(s) /\ Len(s) \in Nat /\ \A i \in DOMAIN s : s[i] \in Filed
  OBVIOUS
<1>2. \A x \in Filed : x.q \in Queries
  BY DEF Filed
<1> QED BY <1>1, <1>2 DEF Nums

LEMMA NumsAppend ==
    ASSUME NEW s \in Seq(Filed), NEW x \in Filed
    PROVE  Nums(Append(s, x)) = Append(Nums(s), x.q)
<1>1. Append(s, x) \in Seq(Filed) /\ Len(Append(s, x)) = Len(s) + 1
      /\ \A i \in 1..(Len(s) + 1) : Append(s, x)[i] = IF i = Len(s) + 1 THEN x ELSE s[i]
  OBVIOUS
<1>2. Nums(s) \in Seq(Queries) /\ Len(Nums(s)) = Len(s) /\ x.q \in Queries
  BY NumsType DEF Filed
<1>3. Append(Nums(s), x.q) = [i \in 1..(Len(s) + 1) |->
                                IF i = Len(s) + 1 THEN x.q ELSE Nums(s)[i]]
  BY <1>2
<1>4. \A i \in 1..(Len(s) + 1) : i # Len(s) + 1 => Nums(s)[i] = s[i].q
  BY DEF Nums
<1>5. Nums(Append(s, x)) = [i \in 1..(Len(s) + 1) |-> Append(s, x)[i].q]
  BY <1>1 DEF Nums
<1> QED BY <1>1, <1>3, <1>4, <1>5

LEMMA NumsTail ==
    ASSUME NEW s \in Seq(Filed), s # << >>
    PROVE  /\ Nums(Tail(s)) = Tail(Nums(s)) /\ Head(Nums(s)) = Head(s).q
           /\ Nums(s) # << >>
<1>1. Tail(s) \in Seq(Filed) /\ Len(Tail(s)) = Len(s) - 1 /\ Len(s) > 0
      /\ \A i \in 1..(Len(s) - 1) : Tail(s)[i] = s[i + 1]
  OBVIOUS
<1>2. Nums(s) \in Seq(Queries) /\ Len(Nums(s)) = Len(s)
  BY NumsType
<1>3. \A i \in 1..(Len(s) - 1) : Nums(s)[i + 1] = s[i + 1].q
  BY <1>1 DEF Nums
<1>4. Nums(Tail(s)) \in Seq(Queries) /\ Len(Nums(Tail(s))) = Len(s) - 1
      /\ \A i \in 1..(Len(s) - 1) : Nums(Tail(s))[i] = Tail(s)[i].q
  <2>1. DOMAIN Tail(s) = 1..(Len(s) - 1)
    BY <1>1
  <2> QED BY <1>1, <2>1, NumsType DEF Nums
<1>5. Nums(Tail(s)) = Tail(Nums(s))
  <2> DEFINE u == Nums(s)
             v == Nums(Tail(s))
  <2>1. u \in Seq(Queries) /\ v \in Seq(Queries) /\ Len(u) > 0 /\ Len(v) = Len(u) - 1
        /\ \A i \in 1..(Len(u) - 1) : v[i] = u[i + 1]
    BY <1>1, <1>2, <1>3, <1>4
  <2> HIDE DEF u, v
  <2>2. Tail(u) \in Seq(Queries) /\ Len(Tail(u)) = Len(u) - 1
        /\ \A i \in 1..(Len(u) - 1) : Tail(u)[i] = u[i + 1]
    BY <2>1
  <2>3. v = Tail(u)
    BY <2>1, <2>2, SeqEqual
  <2> QED BY <2>3 DEF u, v
<1>6. Head(Nums(s)) = Head(s).q /\ Nums(s) # << >>
  BY <1>1, <1>2 DEF Nums
<1> QED BY <1>5, <1>6

LEMMA LifeStep ==
    ASSUME TypeOK, OnceInv, [Next]_vars
    PROVE  [QL!Next]_<<1..asked, Nums(events), Kept, given>>
<1>a. ASSUME UNCHANGED <<events, objs, asked, given>>
      PROVE  UNCHANGED <<1..asked, Nums(events), Kept, given>>
  BY <1>a DEF Nums, Kept
<1>1. CASE QueryArrives
  <2>1. PICK x \in Filed :
           /\ x.q = asked + 1 /\ asked' = asked + 1
           /\ events' = events \/ events' = Push(events, x)
    BY <1>1, ArrivesProp
  <2>2. UNCHANGED <<objs, given>> /\ Kept' = Kept
    BY <1>1 DEF QueryArrives, app, hist, Kept
  <2>3. PICK n \in Queries : n = asked + 1 /\ n = x.q
    BY <2>1 DEF Filed
  <2>4. n \notin 1..asked /\ 1..asked' = (1..asked) \cup {n}
    BY <2>1, <2>3, NumbersNat
  <2>5. CASE events' = events
    <3>1. QL!Miss(n)
      BY <2>2, <2>4, <2>5 DEF QL!Miss, QL!New, Kept
    <3> QED BY <3>1 DEF QL!Next
  <2>6. CASE events' = Push(events, x)
    <3>1. Len(Nums(events)) = Len(events) /\ events \in Seq(Filed)
      BY NumsType DEF TypeOK
    <3>2. Nums(events)' = Append(IF Len(Nums(events)) < Capacity THEN Nums(events)
                                 ELSE Tail(Nums(events)), n)
      <4>1. CASE Len(events) < Capacity
        BY <4>1, <2>3, <2>6, <3>1, NumsAppend DEF Push
      <4>2. CASE ~(Len(events) < Capacity)
        <5>1. events # << >>
          BY <4>2, <3>1, BoundsNat
        <5>2. Tail(events) \in Seq(Filed) /\ Nums(Tail(events)) = Tail(Nums(events))
          BY <5>1, <3>1, NumsTail, TailProp
        <5> QED BY <4>2, <5>2, <2>3, <2>6, <3>1, NumsAppend DEF Push
      <4> QED BY <4>1, <4>2
    <3>3. QL!Arrive(n)
      BY <2>2, <2>4, <3>2 DEF QL!Arrive, QL!New, Nums, Kept
    <3> QED BY <3>3 DEF QL!Next
  <2> QED BY <2>1, <2>5, <2>6
<1>2. CASE AppRecv
  <2>1. events \in Seq(Filed) /\ events # << >> /\ events' = Tail(events)
        /\ objs' = objs \cup {Head(events)} /\ UNCHANGED <<asked, given>>
    BY <1>2 DEF AppRecv, TypeOK, hist
  <2>2. Nums(events)' = Tail(Nums(events)) /\ Head(Nums(events)) = Head(events).q
        /\ Nums(events) # << >>
    BY <2>1, NumsTail
  <2>3. Kept' = Kept \cup {Head(events).q}
    BY <2>1 DEF Kept
  <2>4. QL!HandOut
    BY <2>1, <2>2, <2>3 DEF QL!HandOut, Nums, Kept
  <2> QED BY <2>4 DEF QL!Next
<1>3. ASSUME NEW o \in objs, Finish(o)
      PROVE  [QL!Next]_<<1..asked, Nums(events), Kept, given>>
  <2>1. objs' = objs \ {o} /\ given' = given \cup {o.q} /\ UNCHANGED <<events, asked>>
    BY <1>3 DEF Finish
  <2>2. PICK S \in SUBSET Kept : S = {o.q}
    BY DEF Kept
  <2>3. Kept' = Kept \ S
    BY <2>1, <2>2 DEF Kept, OnceInv
  <2>4. QL!Finish(S)
    BY <2>1, <2>2, <2>3 DEF QL!Finish, Kept
  <2> QED BY <2>4 DEF QL!Next, Kept
<1>4. CASE ServerStops \/ ServerStarts \/ LeaseLapses \/ OtherDeclares \/ StreamOpens
             \/ StreamBreaks
  BY <1>4, <1>a DEF ServerStops, ServerStarts, LeaseLapses, OtherDeclares, StreamOpens,
                    StreamBreaks, app, hist
<1>5. ASSUME NEW o \in objs \cup active, Reply(o)
      PROVE  UNCHANGED <<1..asked, Nums(events), Kept, given>>
  BY <1>5, <1>a DEF Reply
<1>6. CASE \/ WorkerRecv \/ WorkerStale \/ WorkerClosed \/ CallOk \/ CallAnswerLost
           \/ CallStale \/ CallRefused
  BY <1>6, <1>a DEF WorkerRecv, WorkerStale, WorkerClosed, CallOk, CallAnswerLost,
                    CallStale, CallRefused, Perform, app, hist
<1>7. CASE UndeclareStart \/ UndeclareFlushed \/ UndeclareNotify \/ UndeclareCall
           \/ UNCHANGED vars
  BY <1>7, <1>a DEF UndeclareStart, UndeclareFlushed, UndeclareNotify, UndeclareCall, vars, app, hist
<1>z. CASE LinkStep
  BY <1>z, LinkProp, <1>a DEF app, hist
<1> QED BY <1>1, <1>2, <1>3, <1>4, <1>5, <1>6, <1>7, <1>z, NextSplit

(* The Rust client implements QueryLife too, whatever becomes of the server, the       *)
(* stream and the ids meanwhile: each query reaches the application in order and at    *)
(* most once, and finish and drop together queue one finish for it.                    *)
THEOREM ImplementsQueryLife == Spec => IsQueryLife
<1>1. Init => QL!Init
  <2> SUFFICES ASSUME Init PROVE QL!Init
    OBVIOUS
  <2>1. asked = 0 /\ events = << >> /\ objs = {} /\ given = {}
    BY DEF Init
  <2>2. [i \in DOMAIN events |-> events[i].q] = << >> /\ 1..asked = {}
    BY <2>1
  <2> QED BY <2>1, <2>2 DEF QL!Init
<1>2. TypeOK /\ OnceInv /\ [Next]_vars
         => [QL!Next]_<<1..asked, [i \in DOMAIN events |-> events[i].q],
                        {o.q : o \in objs}, given>>
  <2> SUFFICES ASSUME TypeOK, OnceInv, [Next]_vars
               PROVE  [QL!Next]_<<1..asked, Nums(events), Kept, given>>
    BY DEF Nums, Kept
  <2> QED BY LifeStep
<1> QED BY <1>1, <1>2, TypeInit, TypeStep, OnceInit, OnceStep, PTL
       DEF Spec, IsQueryLife, QL!Spec
--------------------------------------------------------------------------------
(* No finish is lost *)

(* Records of one query name one handle, and no query is from the future. *)
Agree(y, n, S) == y.q <= n /\ \A x \in S : x.q = y.q => x.handle = y.handle
Agrees(y) == Agree(y, asked, inflight)
AgreeInv ==
    stops = 0 =>
        /\ \A y \in inflight \cup objs \cup active : Agrees(y)
        /\ \A i \in DOMAIN events : Agrees(events[i])
        /\ \A i \in DOMAIN cmds : Agrees(cmds[i])
        /\ \A i \in DOMAIN cur : Agrees(cur[i])

(* A query that the server has is not marked stale, and never will be by chance. *)
StaleInv ==
    stops = 0 =>
        /\ \A s \in stale : s.id <= asked
        /\ \A x \in inflight : \A s \in stale : s # Identity(x)
        /\ \A q \in given : q <= asked

(* FinishNotLost, by positions. *)
Queued(q) ==
    \/ \E i \in DOMAIN cmds : cmds[i].op = "finish" /\ cmds[i].q = q
    \/ \E i \in DOMAIN cur : cur[i].op = "finish" /\ cur[i].q = q
KeptInv == stops = 0 => \A q \in given : Ended(q) \/ Queued(q)

LEMMA KeptInit == Init => AgreeInv /\ StaleInv /\ KeptInv
  BY DEF Init, AgreeInv, StaleInv, KeptInv

LEMMA AgreeStep ==
    ASSUME TypeOK, AgreeInv, [Next]_vars
    PROVE  AgreeInv'
<1> SUFFICES ASSUME stops' = 0
             PROVE  AgreeInv'
  BY DEF AgreeInv
<1>0. stops = 0
  BY StopsStay
<1>a. ASSUME UNCHANGED <<asked, events, cmds>>, inflight' \subseteq inflight,
             objs' \subseteq objs, active' \subseteq active, cur' = cur \/ cur' = << >>
      PROVE  AgreeInv'
  BY <1>a, <1>0 DEF AgreeInv, Agrees, Agree
<1>f. ASSUME NEW id PROVE Forget(id) \subseteq active
  BY DEF Forget
<1>p. ASSUME Perform PROVE inflight' \subseteq inflight
  BY <1>p DEF Perform
<1>e. ASSUME NEW c \in Commands, Agrees(c), enqueue_command(c),
             UNCHANGED <<asked, events, inflight, active, cur>>, objs' \subseteq objs
      PROVE  AgreeInv'
  <2>1. Pushed(cmds', cmds, c, Commands)
    BY <1>e, PushProp DEF TypeOK, enqueue_command
  <2>2. cmds' \in Seq(Commands) /\ Len(cmds') \in Nat \ {0} /\ cmds'[Len(cmds')] = c
        /\ \A i \in 1..(Len(cmds') - 1) :
              i + Shift(cmds) \in DOMAIN cmds /\ cmds'[i] = cmds[i + Shift(cmds)]
    BY <2>1 DEF Pushed
  <2>3. \A i \in DOMAIN cmds' : i = Len(cmds') \/ i \in 1..(Len(cmds') - 1)
    BY <2>2
  <2>4. \A i \in DOMAIN cmds' : Agrees(cmds'[i])
    BY <1>0, <1>e, <2>2, <2>3 DEF AgreeInv
  <2> QED BY <1>0, <1>e, <2>4 DEF AgreeInv, Agrees, Agree
<1>c. ASSUME NEW o \in objs \cup active, NEW op \in {"reply", "finish"}
      PROVE  Command(op, o) \in Commands /\ Agrees(Command(op, o))
  <2>1. o \in Filed /\ Agrees(o)
    BY <1>0 DEF TypeOK, AgreeInv
  <2> QED BY <2>1, CommandType DEF Command, Agrees, Agree
<1>1. CASE ServerStops
  BY <1>1, <1>0 DEF ServerStops, TypeOK
<1>2. CASE ServerStarts \/ LeaseLapses \/ OtherDeclares \/ StreamOpens \/ StreamBreaks
  BY <1>2, <1>a DEF ServerStarts, LeaseLapses, OtherDeclares, StreamOpens, StreamBreaks,
                    srv, app, work
<1>3. CASE QueryArrives
  <2>1. PICK x \in Filed :
           /\ x.q = asked + 1 /\ asked' = asked + 1 /\ inflight' = inflight \cup {x}
           /\ events' = events \/ Pushed(events', events, x, Filed)
    BY <1>3, ArrivesProp
  <2>2. UNCHANGED <<objs, active, cmds, cur>>
    BY <1>3 DEF QueryArrives, app, work
  <2>3. ASSUME NEW y, y.q \in Nat, Agrees(y)
        PROVE  Agree(y, asked', inflight')
    BY <2>1, <2>3, NumbersNat DEF Agrees, Agree
  <2>4. Agree(x, asked', inflight')
    BY <1>0, <2>1, NumbersNat DEF Agrees, Agree, AgreeInv
  <2>5. \A i \in DOMAIN events' : Agree(events'[i], asked', inflight')
    <3>1. \A i \in DOMAIN events : Agree(events[i], asked', inflight')
      BY <1>0, <2>3, NumbersNat DEF AgreeInv
    <3>2. CASE events' = events
      BY <3>1, <3>2
    <3>3. CASE Pushed(events', events, x, Filed)
      <4>1. events' \in Seq(Filed) /\ Len(events') \in Nat \ {0} /\ events'[Len(events')] = x
            /\ \A i \in 1..(Len(events') - 1) :
                  i + Shift(events) \in DOMAIN events /\ events'[i] = events[i + Shift(events)]
        BY <3>3 DEF Pushed
      <4>2. \A i \in DOMAIN events' : i = Len(events') \/ i \in 1..(Len(events') - 1)
        BY <4>1
      <4>3. \A i \in 1..(Len(events') - 1) : Agree(events'[i], asked', inflight')
        BY <3>1, <4>1
      <4> QED BY <2>4, <4>1, <4>2, <4>3
    <3> QED BY <2>1, <3>2, <3>3
  <2>6. \A i \in DOMAIN cmds' : Agree(cmds'[i], asked', inflight')
    BY <1>0, <2>2, <2>3, NumbersNat DEF AgreeInv
  <2>7. \A i \in DOMAIN cur' : Agree(cur'[i], asked', inflight')
    BY <1>0, <2>2, <2>3, NumbersNat DEF AgreeInv
  <2>8. \A y \in (inflight \cup objs \cup active)' : Agree(y, asked', inflight')
    BY <1>0, <2>1, <2>2, <2>3, <2>4, NumbersNat DEF AgreeInv
  <2> QED BY <2>5, <2>6, <2>7, <2>8 DEF AgreeInv, Agrees
<1>4. CASE AppRecv
  <2>1. events \in Seq(Filed) /\ events # << >>
    BY <1>4 DEF AppRecv, TypeOK
  <2>2. Head(events) = events[1] /\ 1 \in DOMAIN events
        /\ \A i \in DOMAIN Tail(events) :
              i + 1 \in DOMAIN events /\ Tail(events)[i] = events[i + 1]
    BY <2>1, TailProp
  <2>3. events' = Tail(events) /\ objs' = objs \cup {Head(events)}
        /\ active' \subseteq active \cup {Head(events)}
        /\ UNCHANGED <<asked, inflight, cmds, cur>>
    BY <1>4 DEF AppRecv, Forget, srv, work
  <2>4. (\A i \in DOMAIN events' : Agrees(events'[i])) /\ Agrees(Head(events))
    BY <1>0, <2>2, <2>3 DEF AgreeInv
  <2> QED BY <1>0, <2>3, <2>4 DEF AgreeInv, Agrees, Agree
<1>5. ASSUME NEW o \in objs \cup active, Reply(o) PROVE AgreeInv'
  BY <1>5, <1>c, <1>e DEF Reply, srv, work
<1>6. ASSUME NEW o \in objs, Finish(o) PROVE AgreeInv'
  BY <1>6, <1>c, <1>e DEF Finish, srv, work
<1>7. CASE WorkerRecv
  <2>1. cmds \in Seq(Commands) /\ cmds # << >>
    BY <1>7 DEF WorkerRecv, TypeOK
  <2>2. Head(cmds) = cmds[1] /\ 1 \in DOMAIN cmds
        /\ \A i \in DOMAIN Tail(cmds) : i + 1 \in DOMAIN cmds /\ Tail(cmds)[i] = cmds[i + 1]
    BY <2>1, TailProp
  <2>3. cmds' = Tail(cmds) /\ DOMAIN cur' = {1} /\ cur'[1] = cmds[1]
        /\ UNCHANGED <<asked, inflight, objs, active, events>>
    BY <1>7, <2>2 DEF WorkerRecv, srv, app
  <2>4. (\A i \in DOMAIN cmds' : Agrees(cmds'[i])) /\ \A i \in DOMAIN cur' : Agrees(cur'[i])
    BY <1>0, <2>2, <2>3 DEF AgreeInv
  <2> QED BY <1>0, <2>3, <2>4 DEF AgreeInv, Agrees, Agree
<1>8. CASE WorkerStale \/ WorkerClosed \/ CallRefused
  BY <1>8, <1>a DEF WorkerStale, WorkerClosed, CallRefused, srv, app
<1>9. CASE CallOk \/ CallAnswerLost
  BY <1>9, <1>a, <1>f, <1>p DEF CallOk, CallAnswerLost, app, work
<1>10. CASE CallStale
  BY <1>10, <1>a, <1>f DEF CallStale, srv
<1>11. CASE UndeclareStart \/ UndeclareFlushed \/ UndeclareNotify \/ UndeclareCall
           \/ UNCHANGED vars
  BY <1>11, <1>a DEF UndeclareStart, UndeclareFlushed, UndeclareNotify, UndeclareCall, vars, srv, app, work
<1>z. CASE LinkStep
  BY <1>z, LinkProp, <1>a DEF srv, app, hist
<1> QED
  BY <1>1, <1>2, <1>3, <1>4, <1>5, <1>6, <1>7, <1>8, <1>9, <1>10, <1>11, <1>z, NextSplit

(* What the server has of the command's query is what it finds for the command. *)
LEMMA MineIsFound ==
    ASSUME TypeOK, IdInv, AgreeInv, stops = 0, pcC # "recv", NEW x \in inflight,
           x.q = cur[1].q
    PROVE  x \in Found /\ Identity(x) = Identity(cur[1])
<1>1. 1 \in DOMAIN cur /\ cur[1].id = cur[1].q /\ x.id = x.q
  BY CurProp DEF IdInv
<1>2. x.handle = cur[1].handle
  BY <1>1 DEF AgreeInv, Agrees, Agree
<1> QED BY <1>1, <1>2 DEF Found, Identity

LEMMA StaleStep ==
    ASSUME TypeOK, IdInv, AgreeInv, StaleInv, OnceInv, [Next]_vars
    PROVE  StaleInv'
<1> SUFFICES ASSUME stops' = 0
             PROVE  StaleInv'
  BY DEF StaleInv
<1>0. stops = 0
  BY StopsStay
<1>a. ASSUME UNCHANGED <<asked, given, stale>>, inflight' \subseteq inflight
      PROVE  StaleInv'
  BY <1>a, <1>0 DEF StaleInv
<1>1. CASE QueryArrives
  <2>1. PICK x \in Filed :
           /\ x.q = asked + 1 /\ x.id = nextQuery /\ asked' = asked + 1
           /\ inflight' = inflight \cup {x}
    BY <1>1, ArrivesProp
  <2>2. UNCHANGED <<given, stale>> /\ x.id = asked + 1
    BY <1>0, <1>1, <2>1 DEF QueryArrives, work, hist, IdInv
  <2>3. \A s \in stale : s.id \in Nat /\ s.id <= asked
    BY <1>0 DEF StaleInv, TypeOK, Identities
  <2>4. \A s \in stale : s # Identity(x)
    BY <2>2, <2>3, NumbersNat DEF Identity
  <2>5. \A q \in given : q \in Nat /\ q <= asked
    BY <1>0 DEF StaleInv, TypeOK, Queries
  <2> QED BY <1>0, <2>1, <2>2, <2>3, <2>4, <2>5, NumbersNat DEF StaleInv
<1>2. CASE CallStale
  <2>1. pcC = "call" /\ (\A x \in Found : x.handle # cur[1].handle)
        /\ stale' = stale \cup {Identity(cur[1])} /\ UNCHANGED <<asked, given, inflight>>
    BY <1>2 DEF CallStale, srv, hist
  <2>2. cur[1].id <= asked /\ Identity(cur[1]).id = cur[1].id
    BY <1>0, <2>1, CurProp DEF IdInv, AgreeInv, Agrees, Agree, Identity
  <2>3. ASSUME NEW x \in inflight, Identity(x) = Identity(cur[1])
        PROVE  FALSE
    <3>1. x.id = cur[1].id /\ x.handle = cur[1].handle
      BY <2>3 DEF Identity
    <3> QED BY <2>1, <3>1 DEF Found
  <2> QED BY <1>0, <2>1, <2>2, <2>3 DEF StaleInv
<1>3. ASSUME NEW o \in objs, Finish(o) PROVE StaleInv'
  <2>1. o.q <= asked /\ given' = given \cup {o.q} /\ UNCHANGED <<asked, stale, inflight>>
    BY <1>3 DEF Finish, srv, work, OnceInv
  <2> QED BY <1>0, <2>1 DEF StaleInv
<1>4. CASE ServerStops \/ ServerStarts \/ LeaseLapses \/ OtherDeclares \/ StreamOpens
             \/ StreamBreaks \/ AppRecv
  BY <1>4, <1>a DEF ServerStops, ServerStarts, LeaseLapses, OtherDeclares, StreamOpens,
                    StreamBreaks, AppRecv, srv, work, hist
<1>5. ASSUME NEW o \in objs \cup active, Reply(o) PROVE StaleInv'
  BY <1>5, <1>a DEF Reply, srv, work
<1>6. CASE WorkerRecv \/ WorkerStale \/ WorkerClosed \/ CallRefused
  BY <1>6, <1>a DEF WorkerRecv, WorkerStale, WorkerClosed, CallRefused, srv, hist
<1>7. CASE CallOk \/ CallAnswerLost
  <2>1. Perform /\ UNCHANGED <<asked, stale>>
    BY <1>7 DEF CallOk, CallAnswerLost, work
  <2>2. inflight' \subseteq inflight /\ given' = given
    BY <2>1 DEF Perform
  <2> QED BY <1>a, <2>1, <2>2
<1>8. CASE UndeclareStart \/ UndeclareFlushed \/ UndeclareNotify \/ UndeclareCall
           \/ UNCHANGED vars
  BY <1>8, <1>a DEF UndeclareStart, UndeclareFlushed, UndeclareNotify, UndeclareCall, vars, srv, work, hist
<1>z. CASE LinkStep
  BY <1>z, LinkProp, <1>a DEF srv, hist
<1> QED BY <1>1, <1>2, <1>3, <1>4, <1>5, <1>6, <1>7, <1>8, <1>z, NextSplit

(* A command is queued: each of the others is still queued or was evicted. *)
LEMMA PushKeeps ==
    ASSUME NEW T, NEW s \in Seq(T), NEW x \in T, NEW i \in DOMAIN s
    PROVE  s[i] \in Evicted(s) \/ \E j \in DOMAIN Push(s, x) : Push(s, x)[j] = s[i]
<1>1. CASE Len(s) < Capacity
  <2>1. Push(s, x) = Append(s, x)
    BY <1>1 DEF Push
  <2>2. i \in DOMAIN Append(s, x) /\ Append(s, x)[i] = s[i]
    OBVIOUS
  <2> QED BY <2>1, <2>2
<1>2. CASE ~(Len(s) < Capacity) /\ i = 1
  BY <1>2 DEF Evicted
<1>3. CASE ~(Len(s) < Capacity) /\ i # 1
  <2> DEFINE u == Tail(s)
  <2>1. u \in Seq(T) /\ i - 1 \in DOMAIN u /\ u[i - 1] = s[i]
    BY <1>3
  <2>2. Push(s, x) = Append(u, x)
    BY <1>3 DEF Push
  <2> HIDE DEF u
  <2>3. i - 1 \in DOMAIN Append(u, x) /\ Append(u, x)[i - 1] = u[i - 1]
    BY <2>1
  <2> QED BY <2>1, <2>2, <2>3
<1> QED BY <1>1, <1>2, <1>3

LEMMA PushHas ==
    ASSUME NEW T, NEW s \in Seq(T), NEW x \in T, Len(s) <= Capacity
    PROVE  \E j \in DOMAIN Push(s, x) : Push(s, x)[j] = x
<1> DEFINE u == Push(s, x)
<1>1. u \in Seq(T) /\ u[Len(u)] = x /\ Len(u) \in Nat \ {0}
  BY PushProp DEF Pushed
<1> HIDE DEF u
<1>2. Len(u) \in DOMAIN u
  BY <1>1
<1> QED BY <1>1, <1>2 DEF u

LEMMA KeptStep ==
    ASSUME TypeOK, IdInv, AgreeInv, StaleInv, KeptInv, [Next]_vars
    PROVE  KeptInv'
<1> SUFFICES ASSUME stops' = 0, NEW q \in given'
             PROVE  Ended(q)' \/ Queued(q)'
  BY DEF KeptInv
<1>0. stops = 0 /\ (q \in given => Ended(q) \/ Queued(q))
  BY StopsStay DEF KeptInv
\* The server takes up no query, and the worker's command is settled if it lets it go.
<1>a. ASSUME inflight' \subseteq inflight, evicted \subseteq evicted',
             closed => closed', q \in given,
             UNCHANGED cmds,
             cur' = cur \/ (cur[1].op = "finish" /\ cur[1].q = q => Ended(q)'),
             cur' = cur \/ pcC # "recv"
      PROVE  Ended(q)' \/ Queued(q)'
  <2>1. CASE Ended(q)
    BY <1>a, <2>1 DEF Ended
  <2>2. CASE Queued(q)
    <3>1. DOMAIN cur = {1} \/ cur' = cur
      BY <1>a, CurProp
    <3> QED BY <1>a, <2>2, <3>1 DEF Queued
  <2> QED BY <1>0, <1>a, <2>1, <2>2
\* What is settled by the server's having nothing of the command's query.
<1>g. ASSUME pcC # "recv", inflight' \subseteq inflight,
             \A x \in inflight' : x \notin Found \/ Identity(x) # Identity(cur[1]),
             cur[1].q = q
      PROVE  Ended(q)'
  BY <1>0, <1>g, MineIsFound DEF Ended
\* A command is queued.
<1>e. ASSUME NEW c \in Commands, enqueue_command(c), UNCHANGED <<cur, inflight, pcU>>,
             q \in given \/ (c.op = "finish" /\ c.q = q)
      PROVE  Ended(q)' \/ Queued(q)'
  <2>1. cmds \in Seq(Commands) /\ Len(cmds) <= Capacity /\ cmds' = Push(cmds, c)
        /\ evicted' = evicted \cup {d.q : d \in {e \in Evicted(cmds) : e.op = "finish"}}
    BY <1>e DEF TypeOK, enqueue_command
  <2>2. CASE c.op = "finish" /\ c.q = q
    <3>1. \E j \in DOMAIN cmds' : cmds'[j] = c
      BY <2>1, PushHas
    <3> QED BY <2>2, <3>1 DEF Queued
  <2>3. CASE q \in given /\ Ended(q)
    BY <1>e, <2>1, <2>3 DEF Ended, closed
  <2>4. ASSUME NEW i \in DOMAIN cmds, cmds[i].op = "finish", cmds[i].q = q
        PROVE  Ended(q)' \/ Queued(q)'
    <3>1. cmds[i] \in Evicted(cmds) \/ \E j \in DOMAIN cmds' : cmds'[j] = cmds[i]
      BY <2>1, PushKeeps
    <3>2. CASE cmds[i] \in Evicted(cmds)
      BY <2>1, <2>4, <3>2 DEF Ended
    <3>3. CASE \E j \in DOMAIN cmds' : cmds'[j] = cmds[i]
      BY <2>4, <3>3 DEF Queued
    <3> QED BY <3>1, <3>2, <3>3
  <2>5. ASSUME NEW i \in DOMAIN cur, cur[i].op = "finish", cur[i].q = q
        PROVE  Queued(q)'
    BY <1>e, <2>5 DEF Queued
  <2> QED BY <1>0, <1>e, <2>2, <2>3, <2>4, <2>5 DEF Queued
<1>1. CASE QueryArrives
  <2>1. PICK x \in Filed : x.q = asked + 1 /\ inflight' = inflight \cup {x}
    BY <1>1, ArrivesProp
  <2>2. UNCHANGED <<given, evicted, pcU, cmds, cur>>
    BY <1>1 DEF QueryArrives, work, hist
  <2>3. q \in Nat /\ q <= asked
    BY <1>0, <2>2 DEF StaleInv, TypeOK, Queries
  <2>4. x.q # q
    BY <2>1, <2>3, NumbersNat
  <2> QED BY <1>0, <2>1, <2>2, <2>4 DEF Ended, Queued, closed
<1>2. ASSUME NEW o \in objs \cup active, Reply(o) PROVE Ended(q)' \/ Queued(q)'
  <2>1. Command("reply", o) \in Commands
    BY CommandType DEF TypeOK
  <2> QED BY <1>2, <2>1, <1>e DEF Reply, srv, work
<1>3. ASSUME NEW o \in objs, Finish(o) PROVE Ended(q)' \/ Queued(q)'
  <2>1. Command("finish", o) \in Commands /\ Command("finish", o).op = "finish"
        /\ Command("finish", o).q = o.q
    BY CommandType DEF TypeOK, Command
  <2>2. q \in given \/ q = o.q
    BY <1>3 DEF Finish
  <2> QED BY <1>3, <2>1, <2>2, <1>e DEF Finish, srv, work
<1>4. CASE WorkerRecv
  <2>1. cmds \in Seq(Commands) /\ cmds # << >> /\ cur = << >>
    BY <1>4 DEF WorkerRecv, TypeOK
  <2>2. cmds' = Tail(cmds) /\ cur' = <<Head(cmds)>>
        /\ UNCHANGED <<inflight, given, evicted, pcU>>
    BY <1>4 DEF WorkerRecv, srv, hist
  <2>3. ASSUME NEW i \in DOMAIN cmds, cmds[i].op = "finish", cmds[i].q = q
        PROVE  Queued(q)'
    <3>1. CASE i = 1
      <4>1. 1 \in DOMAIN cur' /\ cur'[1] = cmds[i]
        BY <2>1, <2>2, <3>1
      <4> QED BY <2>3, <4>1 DEF Queued
    <3>2. CASE i # 1
      <4>1. i - 1 \in DOMAIN cmds' /\ cmds'[i - 1] = cmds[i]
        BY <2>1, <2>2, <3>2
      <4> QED BY <2>3, <4>1 DEF Queued
    <3> QED BY <3>1, <3>2
  <2>4. ASSUME Queued(q) PROVE Queued(q)'
    BY <2>1, <2>3, <2>4 DEF Queued
  <2> QED BY <1>0, <2>2, <2>4 DEF Ended, closed
<1>5. CASE WorkerStale
  <2>1. pcC = "taken" /\ UNCHANGED <<inflight, given, evicted, pcU, cmds>>
        /\ (cur' = cur \/ Identity(cur[1]) \in stale)
    BY <1>5 DEF WorkerStale, srv, hist
  <2>2. cur' # cur => \A x \in inflight : Identity(x) # Identity(cur[1])
    BY <1>0, <2>1 DEF StaleInv
  <2>3. cur' # cur /\ cur[1].q = q => Ended(q)'
    BY <1>g, <2>1, <2>2
  <2> QED BY <1>a, <2>1, <2>3 DEF closed
<1>6. CASE WorkerClosed
  <2>1. closed'
    BY <1>6 DEF WorkerClosed, closed
  <2> QED BY <2>1 DEF Ended
<1>7. CASE CallOk \/ CallAnswerLost
  <2>1. pcC = "call" /\ Perform /\ UNCHANGED <<cmds, pcU>>
    BY <1>7 DEF CallOk, CallAnswerLost
  <2>2. inflight' \subseteq inflight /\ UNCHANGED <<given, evicted>>
        /\ (cur[1].op # "reply" => inflight' = inflight \ Found)
    BY <2>1 DEF Perform
  <2>3. cur[1].op = "finish" /\ cur[1].q = q => Ended(q)'
    BY <1>g, <2>1, <2>2
  <2> QED BY <1>a, <2>1, <2>2, <2>3 DEF closed
<1>8. CASE CallStale
  <2>1. pcC = "call" /\ (\A x \in Found : x.handle # cur[1].handle)
        /\ UNCHANGED <<inflight, given, evicted, pcU, cmds>>
    BY <1>8 DEF CallStale, srv, hist
  <2>2. \A x \in Found : Identity(x) # Identity(cur[1])
    BY <2>1 DEF Identity
  <2>3. cur[1].q = q => Ended(q)'
    BY <1>g, <2>1, <2>2
  <2> QED BY <1>a, <2>1, <2>3 DEF closed
<1>9. CASE CallRefused
  <2>1. pcC = "call" /\ cur[1].op = "reply" /\ UNCHANGED <<inflight, given, evicted, pcU, cmds>>
    BY <1>9 DEF CallRefused, srv, hist
  <2> QED BY <1>a, <2>1 DEF closed
<1>10. CASE ServerStops
  BY <1>10, <1>0 DEF ServerStops, TypeOK
<1>11. CASE ServerStarts \/ LeaseLapses \/ OtherDeclares \/ StreamOpens \/ StreamBreaks
              \/ AppRecv
  BY <1>11, <1>a DEF ServerStarts, LeaseLapses, OtherDeclares, StreamOpens, StreamBreaks,
                     AppRecv, closed, srv, work, hist
<1>12. CASE UndeclareStart \/ UndeclareFlushed \/ UndeclareCall \/ UNCHANGED vars
  BY <1>12, <1>a DEF UndeclareStart, UndeclareFlushed, UndeclareCall, closed, vars, srv, work,
                     hist
<1>13. CASE UndeclareNotify
  <2>1. closed'
    BY <1>13 DEF UndeclareNotify, closed
  <2> QED BY <2>1 DEF Ended
<1>z. CASE LinkStep
  BY <1>z, LinkProp, <1>a DEF srv, hist
<1> QED
  BY <1>1, <1>2, <1>3, <1>4, <1>5, <1>6, <1>7, <1>8, <1>9, <1>10, <1>11, <1>12, <1>13,
     <1>z, NextSplit

(* Until a restart the worker never gives up the finish of a query that the server     *)
(* still holds: not when the query is marked stale, an answer is lost or a lease       *)
(* lapses.                                                                             *)
THEOREM FinishesAreKept == Spec => []FinishNotLost
<1>1. KeptInv => FinishNotLost
  BY DEF KeptInv, Queued, FinishNotLost, Range
<1>2. Init => TypeOK /\ IdInv /\ OnceInv /\ AgreeInv /\ StaleInv /\ KeptInv
  BY TypeInit, IdInit, OnceInit, KeptInit
<1>3. TypeOK /\ IdInv /\ OnceInv /\ AgreeInv /\ StaleInv /\ KeptInv /\ [Next]_vars
         => TypeOK' /\ IdInv' /\ OnceInv' /\ AgreeInv' /\ StaleInv' /\ KeptInv'
  BY TypeStep, IdStep, OnceStep, AgreeStep, StaleStep, KeptStep
<1> QED BY <1>1, <1>2, <1>3, PTL DEF Spec
================================================================================
