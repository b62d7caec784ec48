------------------------------ MODULE CQueryable ------------------------------
(***************************************************************************)
(* A queryable or a callback subscriber of the C wrapper                   *)
(* (zenoh-grpc-c/src/lib.rs).  The wrapper keeps every query that the      *)
(* application has not finished in active_queries and lets the application *)
(* name it by its id.  In callback mode the client's dispatcher thread     *)
(* reaches that table through self_ptr, a raw pointer that the declaration *)
(* stores once the queryable exists and that undeclare takes back.         *)
(*                                                                         *)
(* A query is its id and `q`, which no code sees: ids start again when the *)
(* server does.  Dereferencing self_ptr after the queryable was freed is   *)
(* undefined; the model stops there and claims nothing of what follows.    *)
(* A query or sample with a NUL in one of its strings makes into_c_string  *)
(* panic: the dispatcher thread catches that, but in a call of the         *)
(* application it ends the process, for which the model has no step.       *)
(* The application keeps C's rule for its own threads: nobody is in a call *)
(* on the handle when undeclare is called on it, and nobody calls later.   *)
(***************************************************************************)
EXTENDS Naturals, Sequences, Functions

CONSTANTS Threads,      \* the application's threads
          Dispatcher,   \* the client's dispatcher thread, which runs the callback
          Unfit,        \* the queries or samples whose strings may hold a NUL
          Capacity,     \* RECV_QUEUE_CAPACITY
          MaxQueries,   \* bound: queries or samples that arrive
          MaxRestarts   \* bound: restarts of the server

ASSUME DispatcherApart == Dispatcher \notin Threads
ASSUME UnfitNumbers == Unfit \subseteq Nat
ASSUME WrapperBounds ==
    Capacity \in Nat \ {0} /\ MaxQueries \in Nat /\ MaxRestarts \in Nat

Runners == Threads \cup {Dispatcher}
QueryNums == 1..MaxQueries
Query == [id : Nat \ {0}, q : QueryNums]
Numbers(S) == {x.q : x \in S}

VARIABLES
    kind,        \* "pull" or "callback" for a queryable, "subscriber" with a callback
    nextId,      \* the server's next query id
    restarts,    \* restarts of the server so far
    asked,       \* queries that have arrived so far
    events,      \* the client's event queue
    open,        \* event_tx is still there
    pcM,         \* the thread that declares and undeclares
    box,         \* the zgrpc_queryable_t: "none", "live" or "freed"
    ptr,         \* self_ptr is not null
    map,         \* active_queries
    pc, hand,    \* where a thread stands, and the query in its hands, if any
    curId,       \* the dispatcher's query_id
    batch,       \* what finish_all_active_queries took and has not finished
    arcs,        \* who holds the callback state: "closure", "object"
    drops,       \* history: calls of on_drop
    taken,       \* history: numbers of the queries that left the event queue
    seen,        \* history: those the callback was called with, and unfit samples
    finished,    \* history: those whose Finish was queued
    late,        \* history: a reply was queued after its query's Finish
    overlap,     \* history: undeclare nulled self_ptr while the dispatcher was using it
    undefined    \* the dispatcher has used a freed queryable

env == <<kind, nextId, restarts, asked>>
life == <<pcM, box, ptr, batch, overlap>>
run == <<pc, hand, curId>>
hist == <<taken, seen, finished, late>>
vars == <<env, events, open, life, map, run, arcs, drops, hist, undefined>>

\* zgrpc_declare_queryable*, zgrpc_declare_subscriber_with_callback: the callback
\* state has two owners, and the dispatcher and the workers run before they return.
Init ==
    /\ kind \in {"pull", "callback", "subscriber"}
    /\ nextId = 1 /\ restarts = 0 /\ asked = 0 /\ events = << >> /\ open = TRUE
    /\ pcM = "declare" /\ box = "none" /\ ptr = FALSE /\ batch = {} /\ overlap = FALSE
    /\ map = {} /\ curId = 0
    /\ pc = [r \in Runners |-> IF r = Dispatcher /\ kind # "pull" THEN "recv" ELSE "idle"]
    /\ hand = [r \in Runners |-> {}]
    /\ arcs = (IF kind = "pull" THEN {} ELSE {"closure", "object"}) /\ drops = 0
    /\ taken = {} /\ seen = {} /\ finished = {} /\ late = FALSE /\ undefined = FALSE

\* Drop of QueryableCallbackState and SubscriberCallbackState, when the last Arc goes.
DropArc(owner) ==
    /\ arcs' = arcs \ {owner}
    /\ drops' = IF arcs = {owner} THEN drops + 1 ELSE drops

At(r, label) == pc[r] = label /\ ~undefined
Goto(r, label) == pc' = [pc EXCEPT ![r] = label]
Hold(r, S) == hand' = [hand EXCEPT ![r] = S]

\* (*self_ptr): what the dispatcher does with the queryable, or what it must not do.
Dangling == box = "freed"
Undefined ==
    /\ Dangling
    /\ undefined' = TRUE
    /\ UNCHANGED <<env, events, open, life, map, run, arcs, drops, hist>>

--------------------------------------------------------------------------------
(* The client and the server *)

\* DropOldestSender::push.
Push(s, x) == IF Len(s) < Capacity THEN Append(s, x) ELSE Append(Tail(s), x)

Arrive ==
    /\ ~undefined /\ open /\ asked < MaxQueries
    /\ asked' = asked + 1 /\ nextId' = nextId + 1
    /\ events' = Push(events, [id |-> nextId, q |-> asked + 1])
    /\ UNCHANGED <<kind, restarts, open, life, map, run, arcs, drops, hist, undefined>>

ServerRestarts ==
    /\ ~undefined /\ restarts < MaxRestarts
    /\ restarts' = restarts + 1 /\ nextId' = 1
    /\ UNCHANGED <<kind, asked, events, open, life, map, run, arcs, drops, hist, undefined>>

--------------------------------------------------------------------------------
(* The table of active queries *)

Under(id) == {x \in map : x.id = id}

\* HashMap::insert: a query that it replaces is dropped, which queues its Finish.
Insert_Forget(x) ==
    /\ map' = (map \ Under(x.id)) \cup {x}
    /\ UNCHANGED finished
Insert(x) ==
    /\ map' = (map \ Under(x.id)) \cup {x}
    /\ finished' = finished \cup Numbers(Under(x.id))

--------------------------------------------------------------------------------
(* The dispatcher thread and the callback closure *)

\* rx.recv and query_from_event; a sample goes to the callback at once, if
\* fill_subscriber_event does not panic.
DispatchTake ==
    /\ At(Dispatcher, "recv") /\ events # << >>
    /\ events' = Tail(events)
    /\ \/ /\ kind = "callback" /\ Goto(Dispatcher, "taken")
          /\ Hold(Dispatcher, {Head(events)}) /\ taken' = taken \cup {Head(events).q}
          /\ UNCHANGED seen
       \/ /\ kind = "subscriber"
          /\ \/ Goto(Dispatcher, "call")
             \/ Head(events).q \in Unfit /\ Goto(Dispatcher, "recv")
          /\ seen' = seen \cup {Head(events).q}
          /\ UNCHANGED <<hand, taken>>
    /\ UNCHANGED <<env, open, life, map, curId, arcs, drops, finished, late, undefined>>

\* The queue is empty and closed: the thread ends and drops the closure.
DispatchEnd ==
    /\ At(Dispatcher, "recv") /\ events = << >> /\ ~open
    /\ Goto(Dispatcher, "ended") /\ DropArc("closure")
    /\ UNCHANGED <<env, events, open, life, map, hand, curId, hist, undefined>>

\* self_ptr is null: the closure returns and drops the query.
LoadNull ==
    /\ At(Dispatcher, "taken") /\ ~ptr
    /\ finished' = finished \cup Numbers(hand[Dispatcher])
    /\ Hold(Dispatcher, {}) /\ Goto(Dispatcher, "recv")
    /\ UNCHANGED <<env, events, open, life, map, curId, arcs, drops, taken, seen, late,
                   undefined>>

LoadPtr ==
    /\ At(Dispatcher, "taken") /\ ptr
    /\ Goto(Dispatcher, "insert")
    /\ UNCHANGED <<env, events, open, life, map, hand, curId, arcs, drops, hist, undefined>>

\* query_to_owned panics: the query is dropped, which queues its Finish.
DispatchPanics ==
    /\ At(Dispatcher, "insert") /\ Numbers(hand[Dispatcher]) \subseteq Unfit
    /\ finished' = finished \cup Numbers(hand[Dispatcher])
    /\ Hold(Dispatcher, {}) /\ Goto(Dispatcher, "recv")
    /\ UNCHANGED <<env, events, open, life, map, curId, arcs, drops, taken, seen, late,
                   undefined>>

\* The query goes into the table and the callback is called.
DispatchInsert ==
    /\ At(Dispatcher, "insert")
    /\ \/ Undefined
       \/ /\ ~Dangling
          /\ \E x \in hand[Dispatcher] :
                Insert(x) /\ curId' = x.id /\ seen' = seen \cup {x.q}
          /\ Hold(Dispatcher, {}) /\ Goto(Dispatcher, "call")
          /\ UNCHANGED <<env, events, open, life, arcs, drops, taken, late, undefined>>

CallbackReturns ==
    /\ At(Dispatcher, "call")
    /\ Goto(Dispatcher, IF kind = "subscriber" THEN "recv" ELSE "remove")
    /\ UNCHANGED <<env, events, open, life, map, hand, curId, arcs, drops, hist, undefined>>

\* What the application has not finished is taken out again, to be finished.
DispatchRemove_Skip ==
    /\ At(Dispatcher, "remove") /\ Goto(Dispatcher, "recv")
    /\ UNCHANGED <<env, events, open, life, map, hand, curId, arcs, drops, hist, undefined>>
DispatchRemove ==
    /\ At(Dispatcher, "remove")
    /\ \/ Undefined
       \/ /\ ~Dangling
          /\ map' = map \ Under(curId) /\ Hold(Dispatcher, Under(curId))
          /\ Goto(Dispatcher, IF Under(curId) = {} THEN "recv" ELSE "finish")
          /\ UNCHANGED <<env, events, open, life, curId, arcs, drops, hist, undefined>>

DispatchFinish ==
    /\ At(Dispatcher, "finish")
    /\ \/ Undefined
       \/ /\ ~Dangling
          /\ finished' = finished \cup Numbers(hand[Dispatcher])
          /\ Hold(Dispatcher, {}) /\ Goto(Dispatcher, "recv")
          /\ UNCHANGED <<env, events, open, life, map, curId, arcs, drops, taken, seen,
                         late, undefined>>

--------------------------------------------------------------------------------
(* Calls by id, from the application's threads and from inside the callback *)

MayCall(r) ==
    \/ r \in Threads /\ kind # "subscriber" /\ pcM = "ready" /\ At(r, "idle")
    \/ r = Dispatcher /\ kind = "callback" /\ At(r, "call")

\* zgrpc_queryable_reply, reply_err, reply_delete: the reply is queued under the
\* lock.  A call with an id that is not in the table returns -1.
Reply(r, id) ==
    /\ MayCall(r)
    /\ \/ Undefined
       \/ /\ ~Dangling /\ Under(id) # {}
          /\ late' = (late \/ Numbers(Under(id)) \cap finished # {})
          /\ UNCHANGED <<env, events, open, life, map, run, arcs, drops, taken, seen,
                         finished, undefined>>

\* zgrpc_queryable_finish: remove_query, and then finish without the lock.
FinishRemove_Late(r, id) ==
    /\ MayCall(r) /\ ~Dangling /\ Under(id) # {}
    /\ finished' = finished \cup Numbers(Under(id))
    /\ Goto(r, IF r = Dispatcher THEN "cbfinish" ELSE "finish") /\ Hold(r, {})
    /\ UNCHANGED <<env, events, open, life, map, curId, arcs, drops, taken, seen, late,
                   undefined>>
FinishRemove(r, id) ==
    /\ MayCall(r)
    /\ \/ Undefined
       \/ /\ ~Dangling /\ Under(id) # {}
          /\ map' = map \ Under(id) /\ Hold(r, Under(id))
          /\ Goto(r, IF r = Dispatcher THEN "cbfinish" ELSE "finish")
          /\ UNCHANGED <<env, events, open, life, curId, arcs, drops, hist, undefined>>

FinishPush(r) ==
    /\ IF r = Dispatcher THEN At(r, "cbfinish") ELSE At(r, "finish")
    /\ \/ Undefined
       \/ /\ ~Dangling
          /\ finished' = finished \cup Numbers(hand[r]) /\ Hold(r, {})
          /\ Goto(r, IF r = Dispatcher THEN "call" ELSE "idle")
          /\ UNCHANGED <<env, events, open, life, map, curId, arcs, drops, taken, seen,
                         late, undefined>>

--------------------------------------------------------------------------------
(* Pull mode *)

\* zgrpc_queryable_recv, try_recv and their _ex forms: the query is received, then
\* recv_query_into_map.  In callback mode they return -1.
RecvTake(t) ==
    /\ MayCall(t) /\ kind = "pull" /\ events # << >>
    /\ events' = Tail(events) /\ Hold(t, {Head(events)}) /\ Goto(t, "received")
    /\ taken' = taken \cup {Head(events).q}
    /\ UNCHANGED <<env, open, life, map, curId, arcs, drops, seen, finished, late, undefined>>

RecvInsert(t) ==
    /\ At(t, "received")
    /\ \E x \in hand[t] : Insert(x)
    /\ Hold(t, {}) /\ Goto(t, "idle")
    /\ UNCHANGED <<env, events, open, life, curId, arcs, drops, taken, seen, late, undefined>>

--------------------------------------------------------------------------------
(* The thread that declares and undeclares *)

\* The queryable exists, self_ptr is stored, and the declaration returns.
DeclareReturns_NoPtr ==
    /\ ~undefined /\ pcM = "declare"
    /\ pcM' = "ready" /\ box' = "live"
    /\ UNCHANGED <<env, events, open, ptr, batch, overlap, map, run, arcs, drops, hist,
                   undefined>>
DeclareReturns ==
    /\ ~undefined /\ pcM = "declare"
    /\ pcM' = "ready" /\ box' = "live" /\ ptr' = (kind = "callback")
    /\ UNCHANGED <<env, events, open, batch, overlap, map, run, arcs, drops, hist, undefined>>

\* zgrpc_queryable_undeclare: finish_all_active_queries takes the table...
UndeclareTake ==
    /\ ~undefined /\ pcM = "ready" /\ \A t \in Threads : pc[t] = "idle"
    /\ pcM' = "finishing" /\ batch' = map /\ map' = {}
    /\ UNCHANGED <<env, events, open, box, ptr, overlap, run, arcs, drops, hist, undefined>>

\* ...and finishes what it took, one by one.
UndeclareFinish ==
    /\ ~undefined /\ pcM = "finishing"
    /\ \E x \in batch : batch' = batch \ {x} /\ finished' = finished \cup {x.q}
    /\ UNCHANGED <<env, events, open, pcM, box, ptr, overlap, map, run, arcs, drops, taken,
                   seen, late, undefined>>

UsingPtr ==
    kind = "callback" /\ pc[Dispatcher] \in {"insert", "call", "cbfinish", "remove", "finish"}

UndeclareNull_Skip ==
    /\ ~undefined /\ pcM = "finishing" /\ batch = {}
    /\ pcM' = "inner" /\ overlap' = UsingPtr
    /\ UNCHANGED <<env, events, open, box, ptr, batch, map, run, arcs, drops, hist, undefined>>
UndeclareNull ==
    /\ ~undefined /\ pcM = "finishing" /\ batch = {}
    /\ pcM' = "inner" /\ ptr' = FALSE /\ overlap' = UsingPtr
    /\ UNCHANGED <<env, events, open, box, batch, map, run, arcs, drops, hist, undefined>>

\* The client's undeclare: close_queue, and the rest of it.
UndeclareClose_Not ==
    /\ ~undefined /\ pcM = "inner" /\ pcM' = "free"
    /\ UNCHANGED <<env, events, open, box, ptr, batch, overlap, map, run, arcs, drops, hist,
                   undefined>>
UndeclareClose ==
    /\ ~undefined /\ pcM = "inner" /\ pcM' = "free" /\ open' = FALSE
    /\ UNCHANGED <<env, events, box, ptr, batch, overlap, map, run, arcs, drops, hist,
                   undefined>>

\* The box goes, with its share of the callback state and with what a dispatcher has
\* put into the table since: a query dropped there is finished too.
UndeclareFree_DropState ==
    /\ ~undefined /\ pcM = "free" /\ pcM' = "gone" /\ box' = "freed"
    /\ arcs' = {} /\ drops' = IF arcs # {} THEN drops + 1 ELSE drops
    /\ finished' = finished \cup Numbers(map) /\ map' = {}
    /\ UNCHANGED <<env, events, open, ptr, batch, overlap, run, taken, seen, late, undefined>>
UndeclareFree ==
    /\ ~undefined /\ pcM = "free" /\ pcM' = "gone" /\ box' = "freed"
    /\ DropArc("object")
    /\ finished' = finished \cup Numbers(map) /\ map' = {}
    /\ UNCHANGED <<env, events, open, ptr, batch, overlap, run, taken, seen, late, undefined>>

--------------------------------------------------------------------------------
Ids == 1..MaxQueries

DispatchStep ==
    \/ DispatchTake \/ DispatchEnd \/ LoadNull \/ LoadPtr \/ DispatchPanics
    \/ DispatchInsert \/ CallbackReturns \/ DispatchRemove \/ DispatchFinish

OwnerStep ==
    \/ DeclareReturns \/ UndeclareTake \/ UndeclareFinish \/ UndeclareNull
    \/ UndeclareClose \/ UndeclareFree

Next ==
    \/ Arrive \/ ServerRestarts \/ DispatchStep \/ OwnerStep
    \/ \E r \in Runners, id \in Ids : Reply(r, id) \/ FinishRemove(r, id)
    \/ \E r \in Runners : FinishPush(r)
    \/ \E t \in Threads : RecvTake(t) \/ RecvInsert(t)

Spec == Init /\ [][Next]_vars

\* The dispatcher thread runs, and a call that the application has begun goes on until
\* it waits for others: a callback returns, and undeclare finishes what it has taken.
FairSpec ==
    /\ Spec /\ WF_vars(DispatchStep) /\ WF_vars(UndeclareFinish)
    /\ \A r \in Runners : WF_vars(FinishPush(r))
    /\ \A t \in Threads : WF_vars(RecvInsert(t))

--------------------------------------------------------------------------------
(* Properties *)

TypeOK ==
    /\ kind \in {"pull", "callback", "subscriber"}
    /\ nextId \in Nat \ {0} /\ restarts \in Nat /\ asked \in 0..MaxQueries
    /\ events \in Seq(Query) /\ open \in BOOLEAN
    /\ pcM \in {"declare", "ready", "finishing", "inner", "free", "gone"}
    /\ box \in {"none", "live", "freed"} /\ ptr \in BOOLEAN
    /\ map \subseteq Query /\ batch \subseteq Query /\ curId \in Nat
    /\ pc \in [Runners -> {"idle", "recv", "taken", "insert", "call", "cbfinish", "remove",
                           "finish", "received", "ended"}]
    /\ hand \in [Runners -> SUBSET Query]
    /\ arcs \subseteq {"closure", "object"} /\ drops \in Nat
    /\ taken \subseteq QueryNums /\ seen \subseteq QueryNums /\ finished \subseteq QueryNums
    /\ late \in BOOLEAN /\ overlap \in BOOLEAN /\ undefined \in BOOLEAN

\* Every query that the wrapper has received is held in exactly one place (the table,
\* a thread's hands, undeclare's batch) or has been finished: none is lost unfinished
\* and none can be finished twice, whatever the threads, ids used again and undeclare
\* do meanwhile.
Held == Numbers(map) \cup Numbers(batch) \cup UNION {Numbers(hand[r]) : r \in Runners}
HeldOrFinished ==
    /\ taken = Held \cup finished
    /\ Held \cap finished = {}
    /\ Numbers(map) \cap Numbers(batch) = {}
    /\ \A r \in Runners :
          /\ Numbers(hand[r]) \cap (Numbers(map) \cup Numbers(batch)) = {}
          /\ \A s \in Runners \ {r} : Numbers(hand[r]) \cap Numbers(hand[s]) = {}

\* No reply is queued for a query whose Finish has been queued: finish takes the query
\* out of the table before it queues the Finish, and reply queues under the lock.
NoReplyAfterFinish == ~late

\* The dispatcher uses a freed queryable only if it was already inside the closure
\* when undeclare took self_ptr back; a query dispatched later finds null.
DanglingOnlyIfOverlap == undefined => overlap

\* on_drop is called once at most, when the queryable is gone and the dispatcher will
\* call the callback no more: the context outlives every callback.
ContextOutlivesCallbacks ==
    drops > 0 => drops = 1 /\ pcM = "gone" /\ pc[Dispatcher] = "ended"

\* After undeclare every query received is finished in the end and the context is
\* given back, unless undeclare overlapped a callback.
UndeclareSettles ==
    (pcM = "gone") ~>
        (undefined \/ (taken = finished /\ (kind = "pull" \/ drops = 1)))

\* A query or sample that waits in the queue of a declared callback queryable or
\* subscriber reaches the callback, unless it is evicted, undeclare begins or one of its
\* strings may hold a NUL; that others do not get through does not hold it up.
Waiting(q) == \E i \in DOMAIN events : events[i].q = q
CallbackSeesQueries ==
    \A q \in QueryNums \ Unfit :
        (Waiting(q) /\ pcM = "ready" /\ kind # "pull") ~>
            (q \in seen \/ pcM # "ready" \/ (q \notin taken /\ ~Waiting(q)))

\* Every query that the dispatcher takes is finished in the end, by the application or,
\* when the callback has returned without, by the wrapper.
CallbackQueriesFinish ==
    \A q \in QueryNums :
        (q \in taken /\ kind = "callback") ~> (q \in finished \/ undefined)

QL == INSTANCE QueryLife WITH
        Queries <- QueryNums, Bound <- Capacity, known <- 1..asked,
        waiting <- [i \in DOMAIN events |-> events[i].q], held <- Held,
        done <- finished \cup IF kind = "subscriber" THEN seen ELSE {}
\* However recv, the dispatcher, reply, finish and undeclare overlap, and whatever ids
\* the server uses again, each query lives by QueryLife: it is handed out in order and
\* once at most, is then held, and its one Finish is queued while it is held.
IsQueryLife == QL!Spec

\* Refuted by the code, and stated here to be tried: undeclare does not wait for a
\* running callback, whose closure then uses the freed queryable.
NeverDangling == ~undefined
================================================================================
