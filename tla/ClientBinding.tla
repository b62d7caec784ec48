------------------------------ MODULE ClientBinding ------------------------------
(***************************************************************************)
(* How the entities of one Rust session (publishers, subscribers, queriers *)
(* in zenoh-grpc-client-rs/src/lib.rs) are bound to handles of the server, *)
(* used, rebound and undeclared, while the server stops, forgets or loses  *)
(* answers.                                                                *)
(*                                                                         *)
(* Each entity has a user (the publisher's worker, the subscriber's event  *)
(* worker, a task in the querier's get) and a task that undeclares it.  A  *)
(* step is one lock acquisition, one atomic access or one remote call.     *)
(***************************************************************************)
EXTENDS Naturals, FiniteSets

CONSTANTS Publishers, Subscribers, Queriers,  \* entities of this session
          Other,      \* an entity of another client
          MaxCalls,   \* bound: put, delete or get calls on one entity, no more than
                      \* SEND_QUEUE_CAPACITY holds, so that a publisher's evicts none
          MaxStops,   \* bound: times the server stops
          MaxFaults,  \* bound: answers lost, requests refused, leases lapsed
          MaxOther    \* bound: last handle that another client may be given

Entities == Publishers \cup Subscribers \cup Queriers

ASSUME ClassesApart ==
    /\ Publishers \cap Subscribers = {} /\ Publishers \cap Queriers = {}
    /\ Subscribers \cap Queriers = {} /\ Other \notin Entities
ASSUME BoundsNat ==
    MaxCalls \in 0..256 /\ MaxStops \in Nat /\ MaxFaults \in Nat /\ MaxOther \in Nat

VARIABLES
    up,         \* the server answers
    stops,      \* how often it has stopped
    faults,     \* how many other faults there have been
    table,      \* the server's entities: a set of [kind, handle, entity]
    nextHandle, \* the server's next_handle
    conn,       \* the session has a channel
    binding,    \* RemoteBinding.handle of each entity, 0 for None
    closed,     \* the entity's closed flag
    pc,         \* where the user of each entity stands
    use,        \* the handle that user works with
    src,        \* the handle whose events its stream carries, 0 if it has ended
    backlog,    \* calls asked for and not yet dealt with
    calls,      \* calls ever asked for
    pcU,        \* where the undeclaring task of each entity stands
    taken,      \* the handle it took
    lost        \* history: an answer to a declaration of this entity was lost

server == <<up, stops, table, nextHandle>>
undecl == <<closed, pcU, taken>>
vars == <<server, faults, conn, binding, undecl, pc, use, src, backlog, calls, lost>>

Kind(e) == CASE e \in Publishers -> "publisher" [] e \in Subscribers -> "subscriber"
             [] OTHER -> "querier"
\* The tables that this session's handles can reach.
Kinds == {Kind(e) : e \in Entities}
Entry(k, h) == {x \in table : x.kind = k /\ x.handle = h}

Init ==
    /\ up \in BOOLEAN /\ stops = 0 /\ faults = 0
    /\ table = {} /\ nextHandle = 1 /\ conn \in {FALSE, up}
    /\ binding = [e \in Entities |-> 0]
    /\ closed = [e \in Entities |-> FALSE]
    /\ pc = [e \in Entities |-> IF e \in Subscribers THEN "check" ELSE "idle"]
    /\ use = binding /\ src = binding /\ backlog = binding /\ calls = binding
    /\ pcU = [e \in Entities |-> "none"] /\ taken = binding
    /\ lost = [e \in Entities |-> FALSE]

--------------------------------------------------------------------------------
(* The server and the connection (external to this module: PluginServer and *)
(* ClientConnection have their details).                                    *)

\* A new server starts with empty tables and counts handles from 1 again.
ServerStops ==
    /\ up /\ stops < MaxStops
    /\ up' = FALSE /\ stops' = stops + 1 /\ table' = {} /\ nextHandle' = 1
    /\ src' = [e \in Entities |-> 0]
    /\ UNCHANGED <<faults, conn, binding, undecl, pc, use, backlog, calls, lost>>

ServerStarts ==
    /\ \neg up /\ up' = TRUE
    /\ UNCHANGED <<stops, table, nextHandle, faults, conn, binding, undecl, pc, use, src,
                   backlog, calls, lost>>

\* The heartbeat has been missing for too long: cleanup_client.
LeaseLapses ==
    /\ up /\ \neg conn /\ faults < MaxFaults
    /\ faults' = faults + 1
    /\ table' = {x \in table : x.entity = Other} /\ src' = [e \in Entities |-> 0]
    /\ UNCHANGED <<up, stops, nextHandle, conn, binding, undecl, pc, use, backlog, calls,
                   lost>>

\* The server declares entity e under a handle of its own.
AllocHandle_Reuses(k, e) ==
    LET h == CHOOSE n \in 1..nextHandle :
               Entry(k, n) = {} /\ \A i \in 1..(n - 1) : Entry(k, i) # {}
    IN  /\ table' = table \cup {[kind |-> k, handle |-> h, entity |-> e]}
        /\ nextHandle' = IF h = nextHandle THEN nextHandle + 1 ELSE nextHandle
AllocHandle(k, e) ==
    /\ table' = table \cup {[kind |-> k, handle |-> nextHandle, entity |-> e]}
    /\ nextHandle' = nextHandle + 1

OtherDeclares(k) ==
    /\ up /\ nextHandle <= MaxOther /\ AllocHandle(k, Other)
    /\ UNCHANGED <<up, stops, faults, conn, binding, undecl, pc, use, src, backlog, calls,
                   lost>>

\* An answer is lost, a request refused, a connection broken.
Fault == up /\ faults < MaxFaults /\ faults' = faults + 1

\* The connection that carries e's event stream breaks.
StreamBreaks(e) ==
    /\ src[e] # 0 /\ Fault
    /\ src' = [src EXCEPT ![e] = 0]
    /\ UNCHANGED <<server, conn, binding, undecl, pc, use, backlog, calls, lost>>

\* connection_notify.notify_waiters(): the users registered now go round their loop.
Woken(label) == IF label = "asleep" THEN "check" ELSE label

\* The reconnect worker has set a new channel.  Nothing says that it does: like the
\* users below, it may sleep over a disconnection (ClientConnection says when).
SetConnected ==
    /\ up /\ \neg conn /\ conn' = TRUE
    /\ pc' = [e \in Entities |-> Woken(pc[e])]
    /\ UNCHANGED <<server, faults, binding, undecl, use, src, backlog, calls, lost>>

\* mark_disconnected clears the channel, unless it has been replaced meanwhile, and
\* notifies; p is pc after the caller's own move.
mark_disconnected(p) ==
    \/ UNCHANGED conn /\ pc' = p
    \/ conn /\ conn' = FALSE /\ pc' = [e \in Entities |-> Woken(p[e])]

--------------------------------------------------------------------------------
(* The users *)

\* put and delete queue a command; a get is called.
Call(e) ==
    /\ e \notin Subscribers /\ calls[e] < MaxCalls
    /\ calls' = [calls EXCEPT ![e] = @ + 1]
    /\ backlog' = [backlog EXCEPT ![e] = @ + 1]
    /\ UNCHANGED <<server, faults, conn, binding, undecl, pc, use, src, lost>>

\* The worker takes the next command, the application's get starts.
Begin(e) ==
    /\ pc[e] = "idle" /\ backlog[e] > 0
    /\ pc' = [pc EXCEPT ![e] = "check"]
    /\ UNCHANGED <<server, faults, conn, binding, undecl, use, src, backlog, calls, lost>>

\* The user is done with its command (processed_one) or starts its loop again.
Finish(e) ==
    /\ pc' = [pc EXCEPT ![e] = IF e \in Subscribers THEN "check" ELSE "idle"]
    /\ backlog' = [backlog EXCEPT ![e] = IF e \in Subscribers THEN @ ELSE @ - 1]
\* get gives up where the workers try again.
Again(e) == IF e \in Queriers THEN "idle" ELSE "check"
GiveUp(e) == backlog' = [backlog EXCEPT ![e] = IF e \in Queriers THEN @ - 1 ELSE @]
Retry(e) == pc' = [pc EXCEPT ![e] = Again(e)] /\ GiveUp(e)
Disconnected(e) == mark_disconnected([pc EXCEPT ![e] = Again(e)]) /\ GiveUp(e)

\* is_closed() and current_connection(): without a connection the user waits to be
\* notified of one.  get waits for none and does not look at `closed`.
CheckClosed(e) ==
    /\ pc[e] = "check" /\ closed[e] /\ e \notin Queriers
    /\ IF e \in Subscribers THEN pc' = [pc EXCEPT ![e] = "ended"] /\ UNCHANGED backlog
       ELSE Finish(e)
    /\ UNCHANGED <<server, faults, conn, binding, undecl, use, src, calls, lost>>

HaveConnection(e) ==
    /\ pc[e] = "check" /\ conn /\ (closed[e] => e \in Queriers)
    /\ pc' = [pc EXCEPT ![e] = "bind"]
    /\ UNCHANGED <<server, faults, conn, binding, undecl, use, src, backlog, calls, lost>>

NoConnection(e) ==
    /\ pc[e] = "check" /\ \neg conn /\ (closed[e] => e \in Queriers)
    /\ IF e \in Queriers THEN Finish(e)
       ELSE pc' = [pc EXCEPT ![e] = "gap"] /\ UNCHANGED backlog
    /\ UNCHANGED <<server, faults, conn, binding, undecl, use, src, calls, lost>>

\* notified(), of the connection and of close_notify: only from here on is it told.
Register(e) ==
    /\ pc[e] = "gap"
    /\ pc' = [pc EXCEPT ![e] = "asleep"]
    /\ UNCHANGED <<server, faults, conn, binding, undecl, use, src, backlog, calls, lost>>

\* ensure_remote_handle: a handle is used as it is, whichever connection it is
\* from; without one the entity is declared, and the binding stays locked.
Bind(e) ==
    /\ pc[e] = "bind"
    /\ pc' = [pc EXCEPT ![e] = IF binding[e] = 0 THEN "declare" ELSE "call"]
    /\ use' = [use EXCEPT ![e] = binding[e]]
    /\ UNCHANGED <<server, faults, conn, binding, undecl, src, backlog, calls, lost>>

DeclareOk(e) ==
    /\ up /\ pc[e] = "declare" /\ AllocHandle(Kind(e), e)
    /\ \E x \in table' \ table :
         /\ binding' = [binding EXCEPT ![e] = x.handle]
         /\ use' = [use EXCEPT ![e] = x.handle]
    /\ pc' = [pc EXCEPT ![e] = "call"]
    /\ UNCHANGED <<up, stops, faults, conn, undecl, src, backlog, calls, lost>>

\* The server has declared it, but the connection breaks before the answer.
DeclareLost(e) ==
    /\ pc[e] = "declare" /\ Fault
    /\ lost' = [lost EXCEPT ![e] = TRUE]
    /\ AllocHandle(Kind(e), e)
    /\ Disconnected(e)
    /\ UNCHANGED <<up, stops, binding, undecl, use, src, calls>>

\* An error that is no disconnection: logged, and the command is given up.
DeclareRefused(e) ==
    /\ pc[e] = "declare" /\ Fault
    /\ Finish(e)
    /\ UNCHANGED <<server, conn, binding, undecl, use, src, calls, lost>>

\* A call, or a declaration, fails because the server is gone or the connection
\* breaks; a call that may have been carried out is tried again.
CallDisconnected_Unbinds(e) ==
    /\ pc[e] \in {"declare", "call"}
    /\ (\neg up /\ UNCHANGED faults) \/ Fault
    /\ Disconnected(e)
    /\ binding' = [binding EXCEPT ![e] = 0]
    /\ UNCHANGED <<server, undecl, use, src, calls, lost>>
CallDisconnected(e) ==
    /\ pc[e] \in {"declare", "call"}
    /\ (\neg up /\ UNCHANGED faults) \/ Fault
    /\ Disconnected(e)
    /\ UNCHANGED <<server, binding, undecl, use, src, calls, lost>>

\* The handle names an entity of this client, this one or not: the put is
\* published, the get starts, or the event stream opens.
CallOk(e) ==
    /\ up /\ pc[e] = "call"
    /\ \E x \in Entry(Kind(e), use[e]) : x.entity # Other
    /\ IF e \in Subscribers
       THEN /\ pc' = [pc EXCEPT ![e] = "open"] /\ src' = [src EXCEPT ![e] = use[e]]
            /\ UNCHANGED backlog
       ELSE Finish(e) /\ UNCHANGED src
    /\ UNCHANGED <<server, faults, conn, binding, undecl, use, calls, lost>>

\* zenoh refuses (internal): logged; the command is given up, the subscriber
\* sleeps and tries the same handle again.
CallRefused(e) ==
    /\ pc[e] = "call" /\ Fault
    /\ \E x \in Entry(Kind(e), use[e]) : x.entity # Other
    /\ Finish(e)
    /\ UNCHANGED <<server, conn, binding, undecl, use, src, calls, lost>>

\* not_found, or permission_denied from ensure_owner (is_stale_status):
\* invalidate_handle, if it is still that one.
CallStale_Keeps(e) ==
    /\ up /\ pc[e] = "call" /\ \A x \in Entry(Kind(e), use[e]) : x.entity = Other
    /\ Retry(e)
    /\ UNCHANGED <<server, faults, conn, binding, undecl, use, src, calls, lost>>
CallStale(e) ==
    /\ up /\ pc[e] = "call" /\ \A x \in Entry(Kind(e), use[e]) : x.entity = Other
    /\ binding' = [binding EXCEPT ![e] = IF @ = use[e] THEN 0 ELSE @]
    /\ Retry(e)
    /\ UNCHANGED <<server, faults, conn, undecl, use, src, calls, lost>>

\* The subscriber's stream: an event is taken and pushed to the local queue,
\* unless that is closed.
EventArrives(e) ==
    /\ pc[e] = "open" /\ src[e] # 0
    /\ pc' = [pc EXCEPT ![e] = "push"]
    /\ UNCHANGED <<server, faults, conn, binding, undecl, use, src, backlog, calls, lost>>
EventPushed(e) ==
    /\ pc[e] = "push"
    /\ pc' = [pc EXCEPT ![e] = IF pcU[e] \in {"take", "look", "call", "done"} THEN "check"
                               ELSE "open"]
    /\ UNCHANGED <<server, faults, conn, binding, undecl, use, src, backlog, calls, lost>>
\* The stream ends or fails.  Its end counts as a disconnection; an error that is
\* none, and not a stale handle, only starts the loop again, as a disconnection does
\* that is reported too late.
StreamEnds(e) ==
    /\ pc[e] = "open" /\ src[e] = 0
    /\ mark_disconnected([pc EXCEPT ![e] = "check"])
    /\ UNCHANGED <<server, faults, binding, undecl, use, src, backlog, calls, lost>>
\* The server may also say that the handle names nothing of this client any more.
StreamStale(e) ==
    /\ up /\ pc[e] = "open" /\ src[e] = 0
    /\ \A x \in Entry(Kind(e), use[e]) : x.entity = Other
    /\ binding' = [binding EXCEPT ![e] = IF @ = use[e] THEN 0 ELSE @]
    /\ pc' = [pc EXCEPT ![e] = "check"]
    /\ UNCHANGED <<server, faults, conn, undecl, use, src, backlog, calls, lost>>

UserStep(e) ==
    \/ CheckClosed(e) \/ HaveConnection(e) \/ NoConnection(e) \/ Register(e) \/ Bind(e)
    \/ DeclareOk(e) \/ DeclareLost(e) \/ DeclareRefused(e) \/ CallDisconnected(e)
    \/ CallOk(e) \/ CallRefused(e) \/ CallStale(e) \/ EventPushed(e)
    \/ StreamEnds(e) \/ StreamStale(e)

--------------------------------------------------------------------------------
(* undeclare *)

At(e, from, to) == pcU[e] = from /\ pcU' = [pcU EXCEPT ![e] = to]

\* A publisher first waits until its queue is empty and its worker idle.
UndeclareStart(e) ==
    /\ e \in Publishers => backlog[e] = 0
    /\ At(e, "none", "close")
    /\ UNCHANGED <<server, faults, conn, binding, closed, taken, pc, use, src, backlog,
                   calls, lost>>

UndeclareClose(e) ==
    /\ At(e, "close", "notify")
    /\ closed' = [closed EXCEPT ![e] = TRUE]
    /\ UNCHANGED <<server, faults, conn, binding, taken, pc, use, src, backlog, calls, lost>>

\* close_notify.notify_waiters() reaches a worker only where it waits: the event
\* worker leaves its stream, and one without a connection ends or drops its command.
UndeclareNotify(e) ==
    /\ At(e, "notify", IF e \in Subscribers THEN "queue" ELSE "take")
    /\ CASE pc[e] = "open" -> pc' = [pc EXCEPT ![e] = "check"] /\ UNCHANGED backlog
         [] pc[e] = "asleep" /\ e \in Subscribers ->
              pc' = [pc EXCEPT ![e] = "ended"] /\ UNCHANGED backlog
         [] pc[e] = "asleep" /\ e \notin Subscribers -> Finish(e)
         [] OTHER -> UNCHANGED <<pc, backlog>>
    /\ UNCHANGED <<server, faults, conn, binding, closed, taken, use, src, calls, lost>>

\* close_queue: no event can be pushed any more.
UndeclareCloseQueue(e) ==
    /\ At(e, "queue", "take")
    /\ UNCHANGED <<server, faults, conn, binding, closed, taken, pc, use, src, backlog,
                   calls, lost>>

\* take_handle waits for the lock, which a declaration in progress holds.
TakeHandle_Keeps(e) ==
    /\ pc[e] # "declare" /\ At(e, "take", "look")
    /\ taken' = [taken EXCEPT ![e] = binding[e]]
    /\ UNCHANGED <<server, faults, conn, binding, closed, pc, use, src, backlog, calls, lost>>
TakeHandle(e) ==
    /\ pc[e] # "declare" /\ At(e, "take", "look")
    /\ taken' = [taken EXCEPT ![e] = binding[e]]
    /\ binding' = [binding EXCEPT ![e] = 0]
    /\ UNCHANGED <<server, faults, conn, closed, pc, use, src, backlog, calls, lost>>

\* Without a handle or a connection there is nothing to tell the server.
UndeclareLook(e) ==
    /\ At(e, "look", IF taken[e] # 0 /\ conn THEN "call" ELSE "done")
    /\ UNCHANGED <<server, faults, conn, binding, closed, taken, pc, use, src, backlog,
                   calls, lost>>

\* The server removes what it finds under the handle; its event streams end.
UndeclareOk(e) ==
    /\ up /\ At(e, "call", "done")
    /\ table' = table \ Entry(Kind(e), taken[e])
    /\ src' = [f \in Entities |-> IF Kind(f) = Kind(e) /\ src[f] = taken[e] THEN 0 ELSE src[f]]
    /\ UNCHANGED <<up, stops, nextHandle, faults, conn, binding, closed, taken, pc, use,
                   backlog, calls, lost>>

UndeclareDisconnected(e) ==
    /\ (\neg up /\ UNCHANGED faults) \/ Fault
    /\ At(e, "call", "done")
    /\ mark_disconnected(pc)
    /\ UNCHANGED <<server, binding, closed, taken, use, src, backlog, calls, lost>>

UndeclareStep(e) ==
    \/ UndeclareClose(e) \/ UndeclareNotify(e) \/ UndeclareCloseQueue(e)
    \/ TakeHandle(e) \/ UndeclareLook(e) \/ UndeclareOk(e) \/ UndeclareDisconnected(e)

--------------------------------------------------------------------------------
Next ==
    \/ ServerStops \/ ServerStarts \/ LeaseLapses \/ SetConnected
    \/ \E k \in Kinds : OtherDeclares(k)
    \/ \E e \in Entities :
         \/ Call(e) \/ Begin(e) \/ UserStep(e) \/ EventArrives(e) \/ StreamBreaks(e)
         \/ UndeclareStart(e) \/ UndeclareStep(e)

Spec == Init /\ [][Next]_vars

\* A stopped server comes back and started tasks go on; nobody is obliged to call or
\* to undeclare anything, and no event, connection or notification need come.
Fairness ==
    /\ WF_vars(ServerStarts)
    /\ \A e \in Entities : /\ WF_vars(Begin(e)) /\ WF_vars(UserStep(e))
                           /\ WF_vars(UndeclareStep(e))

FairSpec == Spec /\ Fairness

--------------------------------------------------------------------------------
(* Properties *)

\* Handles are numbers from 1 (0 is None); only subscribers have streams; a worker is
\* busy only while the command is still counted in its queue.
TypeOK ==
    /\ up \in BOOLEAN /\ stops \in 0..MaxStops /\ faults \in 0..MaxFaults
    /\ table \subseteq [kind : Kinds, handle : Nat \ {0}, entity : Entities \cup {Other}]
    /\ nextHandle \in Nat \ {0} /\ conn \in BOOLEAN
    /\ binding \in [Entities -> Nat] /\ closed \in [Entities -> BOOLEAN]
    /\ pc \in [Entities -> {"idle", "check", "gap", "asleep", "bind", "declare", "call",
                            "open", "push", "ended"}]
    /\ \A e \in Entities : pc[e] \in {"open", "push", "ended"} => e \in Subscribers
    /\ use \in [Entities -> Nat] /\ src \in [Entities -> Nat]
    /\ backlog \in [Entities -> Nat] /\ calls \in [Entities -> Nat]
    /\ \A e \in Entities \ Subscribers : pc[e] # "idle" => backlog[e] > 0
    /\ pcU \in [Entities -> {"none", "close", "notify", "queue", "take", "look", "call",
                             "done"}]
    /\ taken \in [Entities -> Nat] /\ lost \in [Entities -> BOOLEAN]

\* The handles by which some task of e refers to the server.
Known(e) == {binding[e], use[e], src[e], taken[e]} \ {0}

(***************************************************************************)
(* ensure_remote_handle trusts a handle for ever.  As long as the server   *)
(* has not been restarted that is right: whatever leases lapsed, answers   *)
(* were lost and entities were undeclared meanwhile, a handle that an      *)
(* entity's tasks still hold names that entity or nothing, so no put, get, *)
(* stream or undeclare reaches another one.                                *)
(***************************************************************************)
OwnUnlessRestarted ==
    stops = 0 => \A e \in Entities : \A h \in Known(e) :
                   \A x \in Entry(Kind(e), h) : x.entity = e

(***************************************************************************)
(* An entity is not declared twice: until it is undeclared, and unless an  *)
(* answer to its declaration was lost, the server holds nothing of it that *)
(* the client is not bound to, through any number of failures and retries. *)
(***************************************************************************)
DeclaredOnce ==
    \A x \in table : x.entity # Other /\ \neg closed[x.entity] /\ \neg lost[x.entity] =>
        binding[x.entity] = x.handle

(***************************************************************************)
(* The server agrees: as long as nothing has gone wrong, it holds every    *)
(* entity under the very handle that the client is bound to, whatever is   *)
(* undeclared and declared again around it.  Only a call that had its      *)
(* handle before undeclare took it may still be refused as stale.          *)
(***************************************************************************)
BoundIsDeclared ==
    stops = 0 /\ faults = 0 => \A e \in Entities : binding[e] # 0 =>
        [kind |-> Kind(e), handle |-> binding[e], entity |-> e] \in table

(***************************************************************************)
(* tests/README: "publisher/subscriber restoration after a server          *)
(* restart".  A subscriber that is not undeclared always gets back to a    *)
(* stream of its own events, unless from some time on it waits for a       *)
(* connection for ever: because there is none, or because it was notified  *)
(* of the last one before it had registered.                               *)
(***************************************************************************)
Restored ==
    \A e \in Subscribers :
        \/ []<>(closed[e] \/ (/\ pc[e] \in {"open", "push"}
                              /\ [kind |-> "subscriber", handle |-> src[e], entity |-> e]
                                   \in table))
        \/ <>[](pc[e] = "asleep")

(***************************************************************************)
(* README of the C++ wrapper: "automatic undeclare/close on destruction".  *)
(* Once undeclare has returned and the entity's user has nothing to do,    *)
(* the server, which has been up and reachable all the time, has nothing   *)
(* of the entity.                                                          *)
(***************************************************************************)
UndeclareTakesEffect ==
    \A x \in table : x.entity # Other =>
        \neg (pcU[x.entity] = "done" /\ pc[x.entity] \in {"idle", "ended"}
              /\ stops = 0 /\ faults = 0)
================================================================================
