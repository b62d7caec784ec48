------------------------------ MODULE PluginServer ------------------------------
(***************************************************************************)
(* The gRPC server inside the zenoh plugin (zenoh-plugin-grpc/src/lib.rs): *)
(* the client leases, the four tables of declared entities, the in-flight  *)
(* queries, and the tasks that work on them.                               *)
(*                                                                         *)
(* Each request runs as a task of its own; a cleaner task reclaims clients *)
(* whose lease ran out; each queryable has a background task that files    *)
(* incoming queries.  A step is what a task does between two awaits: one   *)
(* lock acquisition, or one call into zenoh.  A request whose connection   *)
(* breaks is dropped between two of its steps.                             *)
(***************************************************************************)
EXTENDS Naturals, Sequences, FiniteSets

CONSTANTS Clients,      \* client ids
          Tasks,        \* requests that can be in progress at once
          Cleaner,      \* the task that run() spawns to reclaim stale clients
          Sweep,        \* the tables, in the order cleanup_client visits them
          MaxHandle,    \* bound: handles ever allocated
          MaxQuery,     \* bound: queries that ever arrive
          Breaks,       \* whether connections break while a request runs
          None          \* no client

\* The tables of PluginState in the order cleanup_client walks them.
AllKinds == <<"publisher", "subscriber", "queryable", "querier">>
Kinds == {Sweep[i] : i \in 1..Len(Sweep)}

ASSUME CleanerApart == Cleaner \notin Tasks
ASSUME NoneApart == None \notin Clients
ASSUME BoundsNat == MaxHandle \in Nat /\ MaxQuery \in Nat /\ Breaks \in BOOLEAN
\* A run may leave tables out; those it keeps are visited in the code's order.
ASSUME SweepOrder ==
    /\ Sweep \in Seq({AllKinds[i] : i \in 1..4}) /\ Len(Sweep) > 0
    /\ \A i, j \in 1..Len(Sweep) : i < j =>
         \E m, n \in 1..4 : m < n /\ Sweep[i] = AllKinds[m] /\ Sweep[j] = AllKinds[n]

Handles == 1..MaxHandle
AllTasks == Tasks \cup {Cleaner}

VARIABLES
    lastSeen,     \* live_clients: "none" (absent), "fresh" or "stale"
    nextHandle,   \* next_handle
    nextQuery,    \* next_query_id
    entries,      \* the four tables: a set of [kind, handle, owner]
    inflight,     \* inflight_queries: a set of [id, handle, owner]
    declared,     \* handles of the entities zenoh holds (external)
    channel,      \* queries waiting in each queryable's flume channel
    bg,           \* the background task of each queryable
    task,         \* the requests in progress and the cleaner
    staleList     \* clients the cleaner collected and still has to clean

vars == <<lastSeen, nextHandle, nextQuery, entries, inflight, declared, channel,
          bg, task, staleList>>

\* A task's locals; `at` and `todo` are those of cleanup_client: the position in
\* Sweep and the handles still to remove.  `quiet` is history: the client of
\* this cleanup has had no declaration in progress since the cleanup began.
Idle == [pc |-> "idle", client |-> None, kind |-> "", handle |-> 0, query |-> 0,
         at |-> 1, todo |-> {}, quiet |-> FALSE]

Goto(t, label) == task' = [task EXCEPT ![t].pc = label]
Return(t) == task' = [task EXCEPT ![t] = Idle]

Entry(k, h) == {e \in entries : e.kind = k /\ e.handle = h}
Owned(c) == {e \in entries : e.owner = c}

\* The zenoh entity that a task owns outside the tables, if any.
Holding == {"insert", "retain_handle", "undeclare", "drop"}
Held(t) == IF task[t].pc \in Holding THEN {task[t].handle} ELSE {}

Init ==
    /\ lastSeen = [c \in Clients |-> "none"]
    /\ nextHandle = 1 /\ nextQuery = 1
    /\ entries = {} /\ inflight = {} /\ declared = {}
    /\ channel = [h \in Handles |-> 0]
    /\ bg = [h \in Handles |-> [pc |-> "none", owner |-> None, query |-> 0]]
    /\ task = [t \in AllTasks |-> Idle]
    /\ staleList = {}

--------------------------------------------------------------------------------
(* Leases *)

touch_client(c) == lastSeen' = [lastSeen EXCEPT ![c] = "fresh"]

\* A request that only renews the lease: info, touch_client, the session's put,
\* delete and get, and the operations that use an entity under a lock.
TouchOnly(c) ==
    /\ touch_client(c)
    /\ UNCHANGED <<nextHandle, nextQuery, entries, inflight, declared, channel, bg,
                   task, staleList>>

\* The lease of c runs out: client_lease_duration since it was last seen.
LeaseExpires(c) ==
    /\ lastSeen[c] = "fresh"
    /\ lastSeen' = [lastSeen EXCEPT ![c] = "stale"]
    /\ UNCHANGED <<nextHandle, nextQuery, entries, inflight, declared, channel, bg,
                   task, staleList>>

--------------------------------------------------------------------------------
(* declare_publisher, declare_subscriber, declare_queryable, declare_querier *)

\* touch_client and alloc_handle.  A declaration of c ends the quiet of every
\* cleanup of c in progress.
DeclareStart(t, c, k) ==
    /\ task[t].pc = "idle" /\ nextHandle <= MaxHandle
    /\ touch_client(c)
    /\ nextHandle' = nextHandle + 1
    /\ task' = [u \in AllTasks |->
                 IF u = t THEN [Idle EXCEPT !.pc = "declare", !.client = c, !.kind = k,
                                            !.handle = nextHandle]
                 ELSE [task[u] EXCEPT !.quiet = @ /\ task[u].client # c]]
    /\ UNCHANGED <<nextQuery, entries, inflight, declared, channel, bg, staleList>>

\* zenoh has declared the entity; a queryable's background task is spawned.
DeclareZenoh(t) ==
    /\ task[t].pc = "declare"
    /\ declared' = declared \cup {task[t].handle}
    /\ bg' = IF task[t].kind = "queryable"
             THEN [bg EXCEPT ![task[t].handle] =
                     [pc |-> "recv", owner |-> task[t].client, query |-> 0]]
             ELSE bg
    /\ Goto(t, "insert")
    /\ UNCHANGED <<lastSeen, nextHandle, nextQuery, entries, inflight, channel,
                   staleList>>

\* zenoh refuses the declaration: internal_status; the handle is wasted.
DeclareFails(t) ==
    /\ task[t].pc = "declare"
    /\ Return(t)
    /\ UNCHANGED <<lastSeen, nextHandle, nextQuery, entries, inflight, declared,
                   channel, bg, staleList>>

DeclareInsert(t) ==
    /\ task[t].pc = "insert"
    /\ entries' = (entries \ Entry(task[t].kind, task[t].handle))
                    \cup {[kind |-> task[t].kind, handle |-> task[t].handle,
                           owner |-> task[t].client]}
    /\ Return(t)
    /\ UNCHANGED <<lastSeen, nextHandle, nextQuery, inflight, declared, channel, bg,
                   staleList>>

--------------------------------------------------------------------------------
(* undeclare, of each of the four services *)

\* A client may name any handle: it keeps its handles over a server restart,
\* after which they can be another client's.
UndeclareStart(t, c, k, h) ==
    /\ task[t].pc = "idle"
    /\ touch_client(c)
    /\ task' = [task EXCEPT ![t] = [Idle EXCEPT !.pc = "remove", !.client = c,
                                                !.kind = k, !.handle = h]]
    /\ UNCHANGED <<nextHandle, nextQuery, entries, inflight, declared, channel, bg,
                   staleList>>

\* remove(&req.handle) finds nothing: not_found.
UndeclareNotFound(t) ==
    /\ task[t].pc = "remove" /\ Entry(task[t].kind, task[t].handle) = {}
    /\ Return(t)
    /\ UNCHANGED <<lastSeen, nextHandle, nextQuery, entries, inflight, declared,
                   channel, bg, staleList>>

\* The entry is out of the table before ensure_owner looks at it ...
UndeclareRemove(t) ==
    /\ task[t].pc = "remove"
    /\ \E e \in Entry(task[t].kind, task[t].handle) :
         e.owner = task[t].client /\ entries' = entries \ {e}
    /\ Goto(t, IF task[t].kind = "queryable" THEN "retain_handle" ELSE "undeclare")
    /\ UNCHANGED <<lastSeen, nextHandle, nextQuery, inflight, declared, channel, bg,
                   staleList>>

\* ... and if that refuses, it is dropped, and zenoh undeclares the entity.
UndeclareRefused_Leaks(t) ==
    /\ task[t].pc = "remove"
    /\ \E e \in Entry(task[t].kind, task[t].handle) :
         e.owner # task[t].client /\ entries' = entries \ {e}
    /\ Return(t)
    /\ UNCHANGED <<lastSeen, nextHandle, nextQuery, inflight, declared, channel, bg,
                   staleList>>
UndeclareRefused(t) ==
    /\ task[t].pc = "remove"
    /\ \E e \in Entry(task[t].kind, task[t].handle) :
         e.owner # task[t].client /\ entries' = entries \ {e}
    /\ declared' = declared \ {task[t].handle}
    /\ Return(t)
    /\ UNCHANGED <<lastSeen, nextHandle, nextQuery, inflight, channel, bg, staleList>>

\* A queryable's pending queries are dropped, which ends them for the getters.
UndeclareRetain(t) ==
    /\ task[t].pc = "retain_handle"
    /\ inflight' = {q \in inflight : q.handle # task[t].handle}
    /\ Goto(t, "undeclare")
    /\ UNCHANGED <<lastSeen, nextHandle, nextQuery, entries, declared, channel, bg,
                   staleList>>

UndeclareZenoh(t) ==
    /\ task[t].pc = "undeclare"
    /\ declared' = declared \ {task[t].handle}
    /\ Return(t)
    /\ UNCHANGED <<lastSeen, nextHandle, nextQuery, entries, inflight, channel, bg,
                   staleList>>

--------------------------------------------------------------------------------
(* cleanup_client, as a request or by the cleaner *)

Declaring(c) == \E u \in AllTasks :
                  task[u].client = c /\ task[u].pc \in {"declare", "insert"}

BeginCleanup(t, c) ==
    /\ task[t].pc = "idle"
    /\ task' = [task EXCEPT ![t] = [Idle EXCEPT !.pc = "live", !.client = c,
                                                !.quiet = \neg Declaring(c)]]
    /\ UNCHANGED <<lastSeen, nextHandle, nextQuery, entries, inflight, declared,
                   channel, bg>>

\* The request does not renew the lease.
CleanupRequest(t, c) == BeginCleanup(t, c) /\ UNCHANGED staleList

CleanupLive(t) ==
    /\ task[t].pc = "live"
    /\ lastSeen' = [lastSeen EXCEPT ![task[t].client] = "none"]
    /\ Goto(t, "scan")
    /\ UNCHANGED <<nextHandle, nextQuery, entries, inflight, declared, channel, bg,
                   staleList>>

\* Where a cleanup is when `rest` is still to be removed from the table it is at.
\* A table with nothing left is followed by the next, the last by the queries.
Advance(t, rest) ==
    LET last == task[t].at = Len(Sweep)
    IN  [task[t] EXCEPT !.todo = rest, !.handle = 0,
                        !.pc = IF rest # {} THEN "sweep"
                               ELSE IF last THEN "retain_owner" ELSE "scan",
                        !.at = IF rest = {} /\ \neg last THEN @ + 1 ELSE @]

\* Under the read lock: the handles of this table that belong to the client.
CleanupScan_AnyOwner(t) ==
    /\ task[t].pc = "scan"
    /\ task' = [task EXCEPT ![t] =
                  Advance(t, {e.handle : e \in {f \in entries : f.kind = Sweep[task[t].at]}})]
    /\ UNCHANGED <<lastSeen, nextHandle, nextQuery, entries, inflight, declared,
                   channel, bg, staleList>>
CleanupScan(t) ==
    /\ task[t].pc = "scan"
    /\ task' = [task EXCEPT ![t] =
                  Advance(t, {e.handle : e \in {f \in Owned(task[t].client) :
                                                  f.kind = Sweep[task[t].at]}})]
    /\ UNCHANGED <<lastSeen, nextHandle, nextQuery, entries, inflight, declared,
                   channel, bg, staleList>>

\* Under the write lock: one of them is removed; it may be gone meanwhile.
CleanupRemove_OnlyOne(t) ==
    /\ task[t].pc = "sweep"
    /\ \E h \in task[t].todo :
         /\ entries' = entries \ Entry(Sweep[task[t].at], h)
         /\ task' = [task EXCEPT ![t] =
                       IF Entry(Sweep[task[t].at], h) = {} THEN Advance(t, {})
                       ELSE [@ EXCEPT !.pc = "drop", !.handle = h, !.todo = {}]]
    /\ UNCHANGED <<lastSeen, nextHandle, nextQuery, inflight, declared, channel, bg,
                   staleList>>
CleanupRemove(t) ==
    /\ task[t].pc = "sweep"
    /\ \E h \in task[t].todo :
         /\ entries' = entries \ Entry(Sweep[task[t].at], h)
         /\ task' = [task EXCEPT ![t] =
                       IF Entry(Sweep[task[t].at], h) = {} THEN Advance(t, @.todo \ {h})
                       ELSE [@ EXCEPT !.pc = "drop", !.handle = h,
                                      !.todo = task[t].todo \ {h}]]
    /\ UNCHANGED <<lastSeen, nextHandle, nextQuery, inflight, declared, channel, bg,
                   staleList>>

\* The removed entity is undeclared in zenoh.
CleanupDrop(t) ==
    /\ task[t].pc = "drop"
    /\ declared' = declared \ {task[t].handle}
    /\ task' = [task EXCEPT ![t] = Advance(t, @.todo)]
    /\ UNCHANGED <<lastSeen, nextHandle, nextQuery, entries, inflight, channel, bg,
                   staleList>>

\* Last, the client's in-flight queries.
CleanupRetain(t) ==
    /\ task[t].pc = "retain_owner"
    /\ inflight' = {q \in inflight : q.owner # task[t].client}
    /\ Return(t)
    /\ UNCHANGED <<lastSeen, nextHandle, nextQuery, entries, declared, channel, bg,
                   staleList>>

\* collect_stale_clients, on a tick of the cleaner.
CleanerTick_Inverted ==
    /\ task[Cleaner].pc = "idle" /\ staleList = {}
    /\ staleList' = {c \in Clients : lastSeen[c] = "fresh"}
    /\ UNCHANGED <<lastSeen, nextHandle, nextQuery, entries, inflight, declared,
                   channel, bg, task>>
CleanerTick ==
    /\ task[Cleaner].pc = "idle" /\ staleList = {}
    /\ staleList' = {c \in Clients : lastSeen[c] = "stale"}
    /\ UNCHANGED <<lastSeen, nextHandle, nextQuery, entries, inflight, declared,
                   channel, bg, task>>

\* The next client of that list, without a second look at its lease.
CleanerNext(c) ==
    /\ c \in staleList
    /\ staleList' = staleList \ {c}
    /\ BeginCleanup(Cleaner, c)

--------------------------------------------------------------------------------
(* Queries *)

\* Bound: queries waiting in one channel, flume::bounded(256) in the code.
ChannelCap == 1

\* External: zenoh hands a query to a declared queryable's channel.
QueryArrives(h) ==
    /\ h \in declared /\ bg[h].pc # "none" /\ channel[h] < ChannelCap
    /\ nextQuery + Cardinality({g \in Handles : channel[g] > 0}) <= MaxQuery
    /\ channel' = [channel EXCEPT ![h] = @ + 1]
    /\ UNCHANGED <<lastSeen, nextHandle, nextQuery, entries, inflight, declared, bg,
                   task, staleList>>

\* The background task takes a query and allocates its id.
BgRecv_SameId(h) ==
    /\ bg[h].pc = "recv" /\ channel[h] > 0
    /\ channel' = [channel EXCEPT ![h] = @ - 1]
    /\ bg' = [bg EXCEPT ![h].pc = "file", ![h].query = nextQuery]
    /\ UNCHANGED <<lastSeen, nextHandle, nextQuery, entries, inflight, declared,
                   task, staleList>>
BgRecv(h) ==
    /\ bg[h].pc = "recv" /\ channel[h] > 0
    /\ channel' = [channel EXCEPT ![h] = @ - 1]
    /\ bg' = [bg EXCEPT ![h].pc = "file", ![h].query = nextQuery]
    /\ nextQuery' = nextQuery + 1
    /\ UNCHANGED <<lastSeen, nextHandle, entries, inflight, declared, task, staleList>>

\* inflight_queries.lock().insert: no look at the tables or at the lease.
BgFile(h) ==
    /\ bg[h].pc = "file"
    /\ inflight' = {q \in inflight : q.id # bg[h].query}
                     \cup {[id |-> bg[h].query, handle |-> h, owner |-> bg[h].owner]}
    /\ bg' = [bg EXCEPT ![h].pc = "send"]
    /\ UNCHANGED <<lastSeen, nextHandle, nextQuery, entries, declared, channel, task,
                   staleList>>

\* The event is broadcast if the query is still filed, whether or not anybody
\* listens.
BgSend(h) ==
    /\ bg[h].pc = "send"
    /\ bg' = [bg EXCEPT ![h].pc = "recv", ![h].query = 0]
    /\ UNCHANGED <<lastSeen, nextHandle, nextQuery, entries, inflight, declared,
                   channel, task, staleList>>

\* The channel is closed with the entity and drained: recv_async fails.
BgEnd(h) ==
    /\ bg[h].pc = "recv" /\ channel[h] = 0 /\ h \notin declared
    /\ bg' = [bg EXCEPT ![h].pc = "ended", ![h].owner = None]
    /\ UNCHANGED <<lastSeen, nextHandle, nextQuery, entries, inflight, declared,
                   channel, task, staleList>>

FinishStart(t, c, h, i) ==
    /\ task[t].pc = "idle"
    /\ touch_client(c)
    /\ task' = [task EXCEPT ![t] = [Idle EXCEPT !.pc = "finish", !.client = c,
                                                !.handle = h, !.query = i]]
    /\ UNCHANGED <<nextHandle, nextQuery, entries, inflight, declared, channel, bg,
                   staleList>>

\* Under the lock: the query is found, owned by the client and of the handle,
\* or the request is refused.
Finish(t) ==
    /\ task[t].pc = "finish"
    /\ inflight' = inflight \ {[id |-> task[t].query, handle |-> task[t].handle,
                                owner |-> task[t].client]}
    /\ Return(t)
    /\ UNCHANGED <<lastSeen, nextHandle, nextQuery, entries, declared, channel, bg,
                   staleList>>

--------------------------------------------------------------------------------
\* External: the connection breaks and the server drops the request's future.
\* What the future owned is dropped with it: zenoh undeclares the entity.
Cancel(t) ==
    /\ Breaks /\ task[t].pc # "idle"
    /\ declared' = declared \ Held(t)
    /\ Return(t)
    /\ UNCHANGED <<lastSeen, nextHandle, nextQuery, entries, inflight, channel, bg,
                   staleList>>

Request(t, c) ==
    \/ \E k \in Kinds : DeclareStart(t, c, k)
    \/ \E k \in Kinds, h \in Handles : UndeclareStart(t, c, k, h)
    \/ \E h \in Handles, i \in 1..MaxQuery : FinishStart(t, c, h, i)
    \/ CleanupRequest(t, c)

TaskStep(t) ==
    \/ DeclareZenoh(t) \/ DeclareFails(t) \/ DeclareInsert(t)
    \/ UndeclareNotFound(t) \/ UndeclareRemove(t) \/ UndeclareRefused(t)
    \/ UndeclareRetain(t) \/ UndeclareZenoh(t) \/ Finish(t)
    \/ CleanupLive(t) \/ CleanupScan(t) \/ CleanupRemove(t) \/ CleanupDrop(t)
    \/ CleanupRetain(t)

CleanerStep == CleanerTick \/ \E c \in Clients : CleanerNext(c)

BgStep(h) == BgRecv(h) \/ BgFile(h) \/ BgSend(h) \/ BgEnd(h)

Next ==
    \/ \E c \in Clients : TouchOnly(c) \/ LeaseExpires(c)
    \/ \E t \in Tasks, c \in Clients : Request(t, c)
    \/ \E t \in AllTasks : TaskStep(t)
    \/ \E t \in Tasks : Cancel(t)
    \/ CleanerStep
    \/ \E h \in Handles : QueryArrives(h) \/ BgStep(h)

Spec == Init /\ [][Next]_vars

\* The runtime keeps running its tasks, the interval keeps ticking and time
\* passes; no client is obliged to ask for anything.
Fairness ==
    /\ \A t \in AllTasks : WF_vars(TaskStep(t))
    /\ WF_vars(CleanerStep)
    /\ \A c \in Clients : WF_vars(LeaseExpires(c))
    /\ \A h \in Handles : WF_vars(BgStep(h))

FairSpec == Spec /\ Fairness

--------------------------------------------------------------------------------
(* Properties *)

\* What a task's locals can be: those the label it stands at relies on are set.
Locals ==
    [pc : {"idle", "declare", "insert", "remove", "retain_handle", "undeclare",
           "finish", "live", "scan", "sweep", "drop", "retain_owner"},
     client : Clients \cup {None}, kind : Kinds \cup {""}, handle : Handles \cup {0},
     query : Nat, at : 1..Len(Sweep), todo : SUBSET Handles, quiet : BOOLEAN]
TaskType ==
    {r \in Locals :
       /\ r.pc # "idle" => r.client \in Clients
       /\ r.pc \in Holding \cup {"declare", "remove"} => r.handle \in Handles
       /\ r.pc \in {"declare", "insert", "remove"} => r.kind \in Kinds
       /\ r.todo # {} => r.pc \in {"sweep", "drop"}}

\* The tables hold entries of known clients, and a handler relies only on locals
\* that its earlier steps have set.
TypeOK ==
    /\ lastSeen \in [Clients -> {"none", "fresh", "stale"}]
    /\ nextHandle \in 1..(MaxHandle + 1) /\ nextQuery \in Nat
    /\ entries \subseteq [kind : Kinds, handle : Handles, owner : Clients]
    /\ inflight \subseteq [id : Nat, handle : Handles, owner : Clients \cup {None}]
    /\ declared \subseteq Handles
    /\ channel \in [Handles -> Nat]
    /\ bg \in [Handles -> [pc : {"none", "recv", "file", "send", "ended"},
                           owner : Clients \cup {None}, query : Nat]]
    /\ task \in [AllTasks -> TaskType]
    /\ staleList \subseteq Clients

(***************************************************************************)
(* Every entity declared in zenoh has exactly one keeper, a table or a     *)
(* task on its way into or out of one, so that it is undeclared exactly    *)
(* once: no interleaving of declare, undeclare, cleanup and broken         *)
(* connections leaks an entity or undeclares one twice.                    *)
(***************************************************************************)
OneKeeper ==
    /\ declared = {e.handle : e \in entries} \cup UNION {Held(t) : t \in AllTasks}
    /\ \A e, f \in entries : e.handle = f.handle => e = f
    /\ \A e \in entries, t \in AllTasks : e.handle \notin Held(t)
    /\ \A t, u \in AllTasks : t # u => Held(t) \cap Held(u) = {}

(***************************************************************************)
(* cleanup_client removes by handle, not by owner, after it has let go of  *)
(* the lock it collected the handles under.  Whatever it still has to      *)
(* remove, no other client's entity is among it.                           *)
(***************************************************************************)
CleanupSparesOthers ==
    \A t \in AllTasks, e \in entries :
        e.handle \in task[t].todo => e.owner = task[t].client

\* The tables a cleanup has dealt with.
Passed(t) ==
    CASE task[t].pc = "retain_owner" -> Kinds
      [] task[t].pc \in {"scan", "sweep", "drop"} -> {Sweep[i] : i \in 1..(task[t].at - 1)}
      [] OTHER -> {}

(***************************************************************************)
(* A cleanup that no declaration of its client overlaps leaves nothing of  *)
(* the client in the tables it has passed.                                 *)
(***************************************************************************)
CleanupIsComplete ==
    \A t \in AllTasks : task[t].quiet =>
        \A e \in Owned(task[t].client) : e.kind \notin Passed(t)

(***************************************************************************)
(* A query is filed under the client and handle that its queryable has in  *)
(* the table, and under an id of its own, so that finish, undeclare and    *)
(* cleanup_client, which look at different fields, agree on whose it is.   *)
(***************************************************************************)
QueriesAttributed ==
    /\ \A q, r \in inflight : q.id = r.id => q = r
    /\ \A g, h \in Handles : bg[g].pc \in {"file", "send"} /\ bg[h].pc \in {"file", "send"}
         /\ bg[g].query = bg[h].query => g = h
    /\ \A q \in inflight, e \in entries : q.handle = e.handle =>
          e.owner = q.owner /\ e.kind = "queryable"

\* No request of c is in progress, and none has renewed its lease lately.
Silent(c) == lastSeen[c] # "fresh" /\ \A t \in Tasks : task[t].client # c

(***************************************************************************)
(* A client whose lease has run out and that stays silent loses all it     *)
(* declared: the cleaner finds it and sweeps every table, whatever else    *)
(* the server is doing.                                                    *)
(***************************************************************************)
LeaseReclaims ==
    \A c \in Clients : lastSeen[c] = "stale" ~> (\neg Silent(c) \/ Owned(c) = {})

(***************************************************************************)
(* Leases exist "to ensure timely cleanup of dead clients": what a silent  *)
(* client declared is always reclaimed.                                    *)
(***************************************************************************)
DeadClientsReclaimed ==
    \A c \in Clients : []<>(\neg Silent(c) \/ Owned(c) = {})

\* What c declared is in the tables, but c has no lease that could run out, and no
\* cleanup of c is in progress: nothing will reclaim it before c is seen again.
Cleaning(t, c) ==
    /\ task[t].client = c
    /\ task[t].pc \in {"live", "scan", "sweep", "drop", "retain_owner"}
Orphaned(c) ==
    Owned(c) # {} /\ lastSeen[c] = "none" /\ \A t \in AllTasks : \neg Cleaning(t, c)

(***************************************************************************)
(* Only three steps can orphan what a client declared: a declaration that  *)
(* files its entity after a cleanup has removed the lease, the end of a    *)
(* cleanup that a declaration of the same client overlapped, and a broken  *)
(* connection that drops a cleanup_client request half way.                *)
(***************************************************************************)
OrphansOnlyByRace ==
    [][\A c \in Clients : \neg Orphaned(c) /\ Orphaned(c)' =>
         \E t \in AllTasks : task[t].client = c /\
            \/ DeclareInsert(t)
            \/ CleanupRetain(t) /\ \neg task[t].quiet
            \/ t \in Tasks /\ Cancel(t) /\ Cleaning(t, c)]_vars

(***************************************************************************)
(* A request refused because the "handle belongs to another client"        *)
(* changes nothing: an entity leaves its table only in a request or a      *)
(* cleanup made for its owner.                                             *)
(***************************************************************************)
OnlyOwnersRemove ==
    [][\A e \in entries \ entries' :
         \E t \in AllTasks : task[t].pc \in {"remove", "sweep"} /\ task[t].client = e.owner]_vars

(***************************************************************************)
(* Undeclaring a queryable drops its unanswered queries, which closes the  *)
(* getters' reply streams: none is left once its background task has       *)
(* ended.                                                                  *)
(***************************************************************************)
UndeclareClosesQueries ==
    \A q \in inflight :
        bg[q.handle].pc # "ended" \/ \E t \in AllTasks : task[t].client = q.owner
================================================================================
