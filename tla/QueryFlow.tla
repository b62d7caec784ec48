-------------------------------- MODULE QueryFlow --------------------------------
(***************************************************************************)
(* A query on its way through a Rust client's queryable: filed by the      *)
(* server, streamed to the client, handed to the application as a          *)
(* GrpcQuery, answered by commands that a worker sends in order, and       *)
(* finished when the GrpcQuery is finished or dropped                      *)
(* (zenoh-grpc-client-rs/src/lib.rs and zenoh-plugin-grpc/src/lib.rs).     *)
(*                                                                         *)
(* A query on the wire is only an id and a handle.  `q` is the getter's    *)
(* query itself, which no code sees: it tells whose answer an answer is.   *)
(* Nor does code see `late`: the command was queued after the finish.      *)
(***************************************************************************)
EXTENDS Naturals, Sequences, Functions

CONSTANTS MaxQueries,   \* bound: queries ever made
          MaxReplies,   \* bound: replies to one query
          Capacity,     \* SEND_QUEUE_CAPACITY and RECV_QUEUE_CAPACITY
          MaxStops,     \* bound: times the server stops
          MaxFaults,    \* bound: connections broken, requests refused, leases lapsed
          MaxOther      \* bound: last handle that another client may be given

ASSUME BoundsNat ==
    /\ MaxQueries \in Nat /\ MaxReplies \in Nat /\ Capacity \in Nat \ {0}
    /\ MaxStops \in Nat /\ MaxFaults \in Nat /\ MaxOther \in Nat

Queries == 1..MaxQueries
Identity(x) == [id |-> x.id, handle |-> x.handle]
Identities == [id : Nat \ {0}, handle : Nat \ {0}]
Filed == [id : Nat \ {0}, handle : Nat \ {0}, q : Queries]
Commands == [op : {"reply", "finish"}, id : Nat \ {0}, handle : Nat \ {0}, q : Queries,
             late : BOOLEAN]

VARIABLES
    up, stops, faults,   \* the server answers; what has gone wrong so far
    conn,                \* the session has a channel
    ended,               \* the event worker has yet to notice the end of its stream
    nextHandle,          \* the server's next_handle
    nextQuery,           \* the server's next_query_id
    reg,                 \* the handle under which the server has the queryable, or 0
    inflight,            \* the server's inflight_queries
    asked,               \* queries made so far
    stream,              \* the handle whose events the client's stream carries, or 0
    events,              \* the queryable's local event queue
    objs,                \* the GrpcQuery objects the application holds
    active,              \* active_queries: the latest query received under each id
    replies,             \* how often each query was replied to
    cmds,                \* the queryable's command queue
    cur,                 \* the command the worker is at: << >> or <<command>>
    pcC,                 \* where the worker stands
    stale,               \* stale_queries
    pcU,                 \* where undeclare stands
    carried,             \* history: <<q, r>> if a command for q acted on query r
    finished,            \* history: the queries that the server finished
    given,               \* history: the queries whose GrpcQuery was finished or dropped
    evicted              \* history: the queries whose finish was evicted from the queue

fate == <<up, stops, faults, conn, ended>>
srv == <<nextHandle, nextQuery, reg, inflight>>
app == <<objs, active, replies>>
work == <<cur, pcC, stale>>
hist == <<carried, finished, given, evicted>>
vars == <<fate, srv, asked, stream, events, app, cmds, work, pcU, hist>>

Init ==
    /\ up \in BOOLEAN /\ stops = 0 /\ faults = 0 /\ conn \in {FALSE, up} /\ ended = FALSE
    /\ nextHandle = 1 /\ nextQuery = 1 /\ reg = 0 /\ inflight = {} /\ asked = 0
    /\ stream = 0 /\ events = << >>
    /\ objs = {} /\ active = {} /\ replies = [q \in Queries |-> 0]
    /\ cmds = << >> /\ cur = << >> /\ pcC = "recv" /\ stale = {} /\ pcU = "none"
    /\ carried = {} /\ finished = {} /\ given = {} /\ evicted = {}

\* DropOldestSender::push on a queue that nobody else is using meanwhile.
Push(s, x) == IF Len(s) < Capacity THEN Append(s, x) ELSE Append(Tail(s), x)
Evicted(s) == IF Len(s) < Capacity THEN {} ELSE {Head(s)}

Fault == faults < MaxFaults /\ faults' = faults + 1

--------------------------------------------------------------------------------
(* The server *)

\* The server, or the connection, ends the event stream.
EndStream == stream' = 0 /\ ended' = (ended \/ stream # 0)

ServerStops ==
    /\ up /\ stops < MaxStops
    /\ up' = FALSE /\ stops' = stops + 1 /\ EndStream
    /\ nextHandle' = 1 /\ nextQuery' = 1 /\ reg' = 0 /\ inflight' = {}
    /\ UNCHANGED <<faults, conn>>
    /\ UNCHANGED <<asked, events, app, cmds, work, pcU, hist>>

ServerStarts ==
    /\ \neg up /\ up' = TRUE
    /\ UNCHANGED <<stops, faults, conn, ended, srv, asked, stream, events, app, cmds, work,
                   pcU, hist>>

\* cleanup_client, for a client that has been away for too long.
LeaseLapses ==
    /\ up /\ Fault
    /\ reg' = 0 /\ inflight' = {} /\ EndStream
    /\ UNCHANGED <<up, stops, conn, nextHandle, nextQuery, asked, events, app, cmds, work,
                   pcU, hist>>

OtherDeclares ==
    /\ up /\ nextHandle <= MaxOther
    /\ nextHandle' = nextHandle + 1
    /\ UNCHANGED <<fate, nextQuery, reg, inflight, asked, stream, events, app, cmds,
                   work, pcU, hist>>

\* The event worker has declared the queryable, if need be, and opened its stream
\* (ClientBinding has the details).
StreamOpens ==
    /\ up /\ stream = 0 /\ \neg ended /\ pcU \in {"none", "flush", "empty"}
    /\ IF reg # 0 THEN stream' = reg /\ UNCHANGED <<reg, nextHandle>>
       ELSE stream' = nextHandle /\ reg' = nextHandle /\ nextHandle' = nextHandle + 1
    /\ UNCHANGED <<fate, nextQuery, inflight, asked, events, app, cmds, work, pcU,
                   hist>>

StreamBreaks ==
    /\ stream # 0 /\ Fault /\ EndStream
    /\ UNCHANGED <<up, stops, conn, srv, asked, events, app, cmds, work, pcU, hist>>

\* A query arrives: the background task files it and sends the event, which the
\* event worker queues.  Nobody gets it if no stream is open.
QueryArrives_SameId ==
    /\ up /\ reg # 0 /\ asked < MaxQueries
    /\ asked' = asked + 1
    /\ LET x == [id |-> nextQuery, handle |-> reg, q |-> asked + 1]
       IN  /\ inflight' = inflight \cup {x}
           /\ events' = IF stream = reg /\ pcU = "none" THEN Push(events, x) ELSE events
    /\ UNCHANGED <<fate, nextHandle, nextQuery, reg, stream, app, cmds, work, pcU,
                   hist>>
QueryArrives ==
    /\ up /\ reg # 0 /\ asked < MaxQueries
    /\ asked' = asked + 1 /\ nextQuery' = nextQuery + 1
    /\ LET x == [id |-> nextQuery, handle |-> reg, q |-> asked + 1]
       IN  /\ inflight' = inflight \cup {x}
           /\ events' = IF stream = reg /\ pcU = "none" THEN Push(events, x) ELSE events
    /\ UNCHANGED <<fate, nextHandle, reg, stream, app, cmds, work, pcU, hist>>

--------------------------------------------------------------------------------
(* The session's connection (ClientConnection has the details) *)

\* connection_notify.notify_waiters(): the worker, if registered, goes round its loop.
Woken(label) == IF label = "asleep" THEN "look" ELSE label

\* The reconnect worker has set a new channel; nothing says that it ever does.
SetConnected ==
    /\ up /\ \neg conn /\ conn' = TRUE /\ pcC' = Woken(pcC)
    /\ UNCHANGED <<up, stops, faults, ended, srv, asked, stream, events, app, cmds, cur,
                   stale, pcU, hist>>

\* mark_disconnected clears the channel, unless it has been replaced meanwhile, and
\* notifies; p is pcC after the caller's own move.
mark_disconnected(p) ==
    \/ UNCHANGED conn /\ pcC' = p
    \/ conn /\ conn' = FALSE /\ pcC' = Woken(p)

\* A request fails because the server is gone or the connection breaks.
Unanswered == (\neg up /\ UNCHANGED faults) \/ Fault

\* Another task of the session meets such a failure.
ConnectionLost ==
    /\ conn /\ Unanswered /\ mark_disconnected(pcC)
    /\ UNCHANGED <<up, stops, ended, srv, asked, stream, events, app, cmds, cur, stale, pcU,
                   hist>>

\* The event worker notices the end of its stream, which counts as a disconnection
\* unless the server says that the handle is stale.
StreamEnds ==
    /\ ended /\ ended' = FALSE /\ mark_disconnected(pcC)
    /\ UNCHANGED <<up, stops, faults, srv, asked, stream, events, app, cmds, cur, stale, pcU,
                   hist>>

--------------------------------------------------------------------------------
(* The application *)

\* forget_query.
Forget(id) == {x \in active : x.id # id}

\* recv, or the callback: query_from_event, remember_query.
AppRecv ==
    /\ events # << >>
    /\ objs' = objs \cup {Head(events)} /\ events' = Tail(events)
    /\ active' = Forget(Head(events).id) \cup {Head(events)}
    /\ UNCHANGED <<fate, srv, asked, stream, replies, cmds, work, pcU, hist>>

Command(op, o) ==
    [op |-> op, id |-> o.id, handle |-> o.handle, q |-> o.q, late |-> o.q \in given]

enqueue_command_Front(c) ==
    /\ cmds' = IF Len(cmds) < Capacity THEN <<c>> \o cmds ELSE <<c>> \o Tail(cmds)
    /\ evicted' = evicted \cup {d.q : d \in {e \in Evicted(cmds) : e.op = "finish"}}
enqueue_command(c) ==
    /\ cmds' = Push(cmds, c)
    /\ evicted' = evicted \cup {d.q : d \in {e \in Evicted(cmds) : e.op = "finish"}}

\* reply, reply_err or reply_delete: of a GrpcQuery, or of the queryable with the id
\* of a query that is still active.
Reply(o) ==
    /\ replies[o.q] < MaxReplies
    /\ replies' = [replies EXCEPT ![o.q] = @ + 1]
    /\ enqueue_command(Command("reply", o))
    /\ UNCHANGED <<fate, srv, asked, stream, events, objs, active, work, pcU, carried,
                   finished, given>>

\* finish, or the GrpcQuery is dropped: whichever comes first queues the finish.
Finish(o) ==
    /\ objs' = objs \ {o} /\ given' = given \cup {o.q}
    /\ enqueue_command(Command("finish", o))
    /\ UNCHANGED <<fate, srv, asked, stream, events, active, replies, work, pcU,
                   carried, finished>>

--------------------------------------------------------------------------------
(* The command worker *)

WorkerRecv ==
    /\ pcC = "recv" /\ cmds # << >>
    /\ cur' = <<Head(cmds)>> /\ cmds' = Tail(cmds) /\ pcC' = "taken"
    /\ UNCHANGED <<fate, srv, asked, stream, events, app, stale, pcU, hist>>

\* is_query_stale: the command is discarded.
WorkerStale ==
    /\ pcC = "taken"
    /\ IF Identity(cur[1]) \in stale THEN cur' = << >> /\ pcC' = "recv"
       ELSE pcC' = "look" /\ UNCHANGED cur
    /\ UNCHANGED <<fate, srv, asked, stream, events, app, cmds, stale, pcU, hist>>

\* is_closed(): so is every command of an undeclared queryable.
closed == pcU \in {"closed", "call", "done"}
WorkerClosed ==
    /\ pcC = "look" /\ closed
    /\ cur' = << >> /\ pcC' = "recv"
    /\ UNCHANGED <<fate, srv, asked, stream, events, app, cmds, stale, pcU, hist>>

\* current_connection(): without one, the worker waits to be notified of one.
WorkerLook ==
    /\ pcC = "look" /\ \neg closed
    /\ pcC' = IF conn THEN "call" ELSE "gap"
    /\ UNCHANGED <<fate, srv, asked, stream, events, app, cmds, cur, stale, pcU, hist>>

\* notified(), of the connection and of close_notify: only from here on is it told.
WorkerRegister ==
    /\ pcC = "gap" /\ pcC' = "asleep"
    /\ UNCHANGED <<fate, srv, asked, stream, events, app, cmds, cur, stale, pcU, hist>>

\* The query that the server finds under the command's id.
Found == {x \in inflight : x.id = cur[1].id}

\* The server carries the command out on it.
Perform ==
    /\ carried' = carried \cup {<<cur[1].q, x.q>> : x \in Found}
    /\ IF cur[1].op = "reply" THEN UNCHANGED <<inflight, finished>>
       ELSE inflight' = inflight \ Found /\ finished' = finished \cup {x.q : x \in Found}
    /\ UNCHANGED <<nextHandle, nextQuery, reg, given, evicted>>

CallOk ==
    /\ up /\ pcC = "call" /\ \E x \in Found : x.handle = cur[1].handle
    /\ Perform /\ cur' = << >> /\ pcC' = "recv"
    /\ active' = IF cur[1].op = "finish" THEN Forget(cur[1].id) ELSE active
    /\ UNCHANGED <<fate, asked, stream, events, objs, replies, cmds, stale, pcU>>

\* Carried out, but the answer is lost: is_disconnect_status, and it is sent again.
CallAnswerLost ==
    /\ up /\ pcC = "call" /\ \E x \in Found : x.handle = cur[1].handle
    /\ Fault /\ Perform /\ mark_disconnected("look")
    /\ UNCHANGED <<up, stops, ended, asked, stream, events, app, cmds, cur, stale, pcU>>

\* The same for a command that never got there.
CallDisconnected_GivesUp ==
    /\ pcC = "call" /\ Unanswered /\ cur' = << >> /\ pcC' = "recv"
    /\ UNCHANGED <<up, stops, conn, ended, srv, asked, stream, events, app, cmds, stale, pcU,
                   hist>>
CallDisconnected ==
    /\ pcC = "call" /\ Unanswered /\ mark_disconnected("look")
    /\ UNCHANGED <<up, stops, ended, srv, asked, stream, events, app, cmds, cur, stale, pcU,
                   hist>>

\* not_found, or permission_denied because the id is another queryable's query:
\* mark_query_stale.
CallStale ==
    /\ up /\ pcC = "call" /\ \A x \in Found : x.handle # cur[1].handle
    /\ stale' = stale \cup {Identity(cur[1])} /\ active' = Forget(cur[1].id)
    /\ cur' = << >> /\ pcC' = "recv"
    /\ UNCHANGED <<fate, srv, asked, stream, events, objs, replies, cmds, pcU, hist>>

\* zenoh refuses the reply: logged, and the command is given up.
CallRefused ==
    /\ up /\ pcC = "call" /\ cur[1].op = "reply"
    /\ \E x \in Found : x.handle = cur[1].handle
    /\ Fault /\ cur' = << >> /\ pcC' = "recv"
    /\ UNCHANGED <<up, stops, conn, ended, srv, asked, stream, events, app, cmds, stale, pcU,
                   hist>>

WorkerStep ==
    \/ WorkerRecv \/ WorkerStale \/ WorkerClosed \/ WorkerLook \/ WorkerRegister
    \/ CallOk \/ CallAnswerLost \/ CallDisconnected \/ CallStale \/ CallRefused

--------------------------------------------------------------------------------
(* undeclare *)

\* close_queue, then wait_empty.
UndeclareStart ==
    /\ pcU = "none" /\ pcU' = "flush"
    /\ UNCHANGED <<fate, srv, asked, stream, events, app, cmds, work, hist>>

UndeclareFlushed ==
    /\ pcU = "flush" /\ cmds = << >> /\ pcC = "recv" /\ pcU' = "empty"
    /\ UNCHANGED <<fate, srv, asked, stream, events, app, cmds, work, hist>>

UndeclareClose ==
    /\ pcU = "empty" /\ pcU' = "closed"
    /\ UNCHANGED <<fate, srv, asked, stream, events, app, cmds, work, hist>>

\* close_notify.notify_waiters(): the event worker leaves, and the command worker gives
\* its command up if it is registered.  Then current_connection().
UndeclareNotify ==
    /\ pcU = "closed" /\ pcU' = (IF conn THEN "call" ELSE "done") /\ stream' = 0
    /\ IF pcC = "asleep" THEN cur' = << >> /\ pcC' = "recv" ELSE UNCHANGED <<cur, pcC>>
    /\ UNCHANGED <<fate, srv, asked, events, app, cmds, stale, hist>>

\* The server drops the queryable and its queries, if it can be told.
UndeclareCall ==
    /\ pcU = "call" /\ pcU' = "done"
    /\ \/ up /\ reg' = 0 /\ inflight' = {x \in inflight : x.handle # reg}
          /\ UNCHANGED <<faults, conn, pcC>>
       \/ Unanswered /\ mark_disconnected(pcC) /\ UNCHANGED <<reg, inflight>>
    /\ UNCHANGED <<up, stops, ended, nextHandle, nextQuery, asked, stream, events, app, cmds,
                   cur, stale, hist>>

UndeclareStep == UndeclareFlushed \/ UndeclareClose \/ UndeclareNotify \/ UndeclareCall

--------------------------------------------------------------------------------
Next ==
    \/ ServerStops \/ ServerStarts \/ LeaseLapses \/ OtherDeclares
    \/ StreamOpens \/ StreamBreaks \/ StreamEnds \/ SetConnected \/ ConnectionLost
    \/ QueryArrives
    \/ AppRecv \/ (\E o \in objs \cup active : Reply(o)) \/ \E o \in objs : Finish(o)
    \/ WorkerStep \/ UndeclareStart \/ UndeclareStep

Spec == Init /\ [][Next]_vars

\* A stopped server comes back and the worker goes on, until it waits for a connection:
\* none need come, nor be noticed.  Whether and when the application replies, finishes
\* or undeclares is its own business.
Fairness == WF_vars(ServerStarts) /\ WF_vars(WorkerStep) /\ WF_vars(UndeclareStep)

FairSpec == Spec /\ Fairness

--------------------------------------------------------------------------------
(* Properties *)

\* Both queues stay within their capacity, and the worker has a command exactly
\* while it is not waiting for one.
TypeOK ==
    /\ up \in BOOLEAN /\ stops \in 0..MaxStops /\ faults \in 0..MaxFaults
    /\ conn \in BOOLEAN /\ ended \in BOOLEAN
    /\ nextHandle \in Nat \ {0} /\ nextQuery \in Nat \ {0} /\ reg \in Nat /\ stream \in Nat
    /\ asked \in 0..MaxQueries /\ inflight \subseteq Filed
    /\ events \in Seq(Filed) /\ Len(events) <= Capacity
    /\ objs \subseteq Filed /\ active \subseteq Filed
    /\ replies \in [Queries -> 0..MaxReplies]
    /\ cmds \in Seq(Commands) /\ Len(cmds) <= Capacity
    /\ cur \in Seq(Commands) /\ Len(cur) <= 1
    /\ pcC \in {"recv", "taken", "look", "gap", "asleep", "call"}
    /\ pcC = "recv" <=> cur = << >>
    /\ stale \subseteq Identities /\ pcU \in {"none", "flush", "empty", "closed", "call", "done"}
    /\ carried \subseteq Queries \X Queries /\ finished \subseteq Queries
    /\ given \subseteq Queries /\ evicted \subseteq Queries

(***************************************************************************)
(* README: commands "are retried across short disconnects for the original *)
(* in-flight query".  Whatever a reply or a finish acts on is the query    *)
(* that the application was answering.                                     *)
(***************************************************************************)
RepliesReachOriginal == \A p \in carried : p[1] = p[2]

(***************************************************************************)
(* They do as long as the server is not restarted, through lost answers,   *)
(* lapsed leases and new declarations: an id is never given out twice.     *)
(***************************************************************************)
OriginalUnlessRestarted == stops = 0 => RepliesReachOriginal

(***************************************************************************)
(* A finish never overtakes a reply: once the server has finished a query, *)
(* no reply made before the finish is queued or being sent.  Holds until a *)
(* restart, across retries and evictions.                                  *)
(***************************************************************************)
FinishIsLast ==
    stops = 0 => \A q \in finished : \A c \in Range(cmds) \cup Range(cur) :
                    c.q = q => c.op = "finish" \/ c.late

QL == INSTANCE QueryLife WITH
        Bound <- Capacity, known <- 1..asked,
        waiting <- [i \in DOMAIN events |-> events[i].q],
        held <- {o.q : o \in objs}, done <- given
(***************************************************************************)
(* Every query lives by QueryLife, across broken streams, lapsed leases    *)
(* and restarts that use its id again: it reaches the application in order *)
(* and once at most, and exactly one finish is queued for it.              *)
(***************************************************************************)
IsQueryLife == QL!Spec

\* The server has ended q, or is not asked to.
Ended(q) ==
    (\A x \in inflight : x.q # q) \/ q \in evicted \/ closed

(***************************************************************************)
(* Until a restart no finish is lost: a query whose GrpcQuery is finished  *)
(* or dropped has ended, or a finish for it is queued or in the worker's   *)
(* hands.  Refusals, lost answers, lapsed leases and the marking of stale  *)
(* queries never make the worker give up the finish of a query that the    *)
(* server still holds.                                                     *)
(***************************************************************************)
FinishNotLost ==
    stops = 0 => \A q \in given :
        Ended(q) \/ \E c \in Range(cmds) \cup Range(cur) : c.op = "finish" /\ c.q = q

\* The worker is left waiting for a connection for good: none comes, or it came in
\* the gap before the worker had registered (ClientConnection!WaitersSeeConnection).
WaitsForEver == <>[](pcC = "asleep")

(***************************************************************************)
(* README: if the server has dropped a query, its commands are discarded   *)
(* "instead of hanging forever"; the others are carried out.  A query      *)
(* whose GrpcQuery is finished or dropped ends at the server, unless the   *)
(* finish was evicted by newer commands, the queryable is undeclared or    *)
(* the worker gets no connection any more.                                 *)
(***************************************************************************)
QueriesFinish ==
    \A q \in Queries : (q \in given ~> Ended(q)) \/ WaitsForEver

(***************************************************************************)
(* It does as long as the server is not restarted, through lost answers,   *)
(* broken connections, lapsed leases and full queues: nothing but a wait   *)
(* that never ends keeps the finish from the server.                       *)
(***************************************************************************)
FinishUnlessRestarted ==
    \A q \in Queries : (q \in given ~> (Ended(q) \/ stops > 0)) \/ WaitsForEver
================================================================================
