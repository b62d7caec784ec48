---------------------------- MODULE DropOldestQueue ----------------------------
(***************************************************************************)
(* The bounded drop-oldest queue of the Rust client (queue.rs): a flume    *)
(* channel plus two atomic counters and a tokio Notify.                    *)
(*                                                                         *)
(* Any number of threads push; one worker takes items and acknowledges     *)
(* each with processed_one; any number of tasks flush with wait_empty.     *)
(* Every flume call, every atomic access and every notify_waiters call is  *)
(* one step, so a thread can be preempted between any two of them.         *)
(***************************************************************************)
EXTENDS Integers, Sequences, FiniteSets, Functions

CONSTANTS Producers,    \* threads that call push
          Waiters,      \* tasks that call wait_empty
          Capacity,     \* bounded_drop_oldest(capacity)
          Modulus,      \* number of values of an AtomicU64
          MaxPush       \* bound: pushes made by one producer

ASSUME ProducersFinite == IsFiniteSet(Producers)
ASSUME CapacityPositive == Capacity \in Nat \ {0}
ASSUME MaxPushNat == MaxPush \in Nat
\* 2^64 exceeds the number of items the machine holds by far.
ASSUME ModulusLarge ==
    Modulus \in Nat /\ Modulus > Capacity + Cardinality(Producers) + 1

VARIABLES
    queue,      \* content of the flume channel, oldest first
    pending,    \* the `pending` counter, a machine word
    dropped,    \* the `dropped` counter
    pcP,        \* where each producer stands in push
    pushes,     \* how many pushes each producer has started
    pcC,        \* where the worker stands
    held,       \* the item the worker is processing: << >> or <<item>>
    pcW,        \* where each waiter stands in wait_empty
    entered,    \* history: the items try_send accepted
    delivered,  \* history: the items the worker took, in order
    evicted,    \* history: the items push discarded
    returned,   \* history: the items whose push returned Ok
    snapshot    \* history: `returned` when each waiter called wait_empty

prodVars == <<pcP, pushes>>
workVars == <<pcC, held>>
histVars == <<entered, delivered, evicted, returned, snapshot>>
vars == <<queue, pending, dropped, prodVars, workVars, pcW, histVars>>

\* The n-th item that producer p pushes.
Items == Producers \X (1..MaxPush)
Item(p) == <<p, pushes[p]>>

\* fetch_add(1) and fetch_sub(1) wrap at the word boundary.
Inc(x) == IF x + 1 = Modulus THEN 0 ELSE x + 1
Dec(x) == IF x = 0 THEN Modulus - 1 ELSE x - 1

\* Notify::notify_waiters wakes the tasks registered now and stores no permit.
notify_waiters ==
    pcW' = [w \in Waiters |-> IF pcW[w] = "waiting" THEN "load" ELSE pcW[w]]

Init ==
    /\ queue = << >> /\ pending = 0 /\ dropped = 0
    /\ pcP = [p \in Producers |-> "idle"] /\ pushes = [p \in Producers |-> 0]
    /\ pcC = "recv" /\ held = << >>
    /\ pcW = [w \in Waiters |-> "idle"]
    /\ entered = {} /\ delivered = << >> /\ evicted = {} /\ returned = {}
    /\ snapshot = [w \in Waiters |-> {}]

--------------------------------------------------------------------------------
(* push *)

PushCall(p) ==
    /\ pcP[p] = "idle" /\ pushes[p] < MaxPush
    /\ pcP' = [pcP EXCEPT ![p] = "send"]
    /\ pushes' = [pushes EXCEPT ![p] = @ + 1]
    /\ UNCHANGED <<queue, pending, dropped, workVars, pcW, histVars>>

\* tx.try_send(item) finds room.
TrySendOk_Unbounded(p) ==
    /\ pcP[p] = "send"
    /\ queue' = Append(queue, Item(p))
    /\ entered' = entered \cup {Item(p)}
    /\ pcP' = [pcP EXCEPT ![p] = "add"]
    /\ UNCHANGED <<pending, dropped, pushes, workVars, pcW, delivered, evicted,
                   returned, snapshot>>
TrySendOk(p) ==
    /\ pcP[p] = "send" /\ Len(queue) < Capacity
    /\ queue' = Append(queue, Item(p))
    /\ entered' = entered \cup {Item(p)}
    /\ pcP' = [pcP EXCEPT ![p] = "add"]
    /\ UNCHANGED <<pending, dropped, pushes, workVars, pcW, delivered, evicted,
                   returned, snapshot>>

\* pending.fetch_add(1), and push returns Ok(()).
AddPending(p) ==
    /\ pcP[p] = "add"
    /\ pending' = Inc(pending)
    /\ pcP' = [pcP EXCEPT ![p] = "idle"]
    /\ returned' = returned \cup {Item(p)}
    /\ UNCHANGED <<queue, dropped, pushes, workVars, pcW, entered, delivered,
                   evicted, snapshot>>

\* tx.try_send(item) reports Full.
TrySendFull(p) ==
    /\ pcP[p] = "send" /\ Len(queue) >= Capacity
    /\ pcP' = [pcP EXCEPT ![p] = "evict"]
    /\ UNCHANGED <<queue, pending, dropped, pushes, workVars, pcW, histVars>>

\* drop_rx.try_recv() takes the oldest item, whoever put it there.
EvictOldest_Uncounted(p) ==
    /\ pcP[p] = "evict" /\ queue # << >>
    /\ queue' = Tail(queue)
    /\ evicted' = evicted \cup {Head(queue)}
    /\ pcP' = [pcP EXCEPT ![p] = "sub"]
    /\ UNCHANGED <<pending, dropped, pushes, workVars, pcW, entered, delivered,
                   returned, snapshot>>
EvictOldest(p) ==
    /\ pcP[p] = "evict" /\ queue # << >>
    /\ queue' = Tail(queue)
    /\ evicted' = evicted \cup {Head(queue)}
    /\ pcP' = [pcP EXCEPT ![p] = "count"]
    /\ UNCHANGED <<pending, dropped, pushes, workVars, pcW, entered, delivered,
                   returned, snapshot>>

\* drop_rx.try_recv() reports Empty: the worker has drained the channel.
EvictNothing(p) ==
    /\ pcP[p] = "evict" /\ queue = << >>
    /\ pcP' = [pcP EXCEPT ![p] = "send"]
    /\ UNCHANGED <<queue, pending, dropped, pushes, workVars, pcW, histVars>>

\* dropped.fetch_add(1)
CountDropped(p) ==
    /\ pcP[p] = "count"
    /\ dropped' = dropped + 1
    /\ pcP' = [pcP EXCEPT ![p] = "sub"]
    /\ UNCHANGED <<queue, pending, pushes, workVars, pcW, histVars>>

\* pending.fetch_sub(1)
SubPending_Skipped(p) ==
    /\ pcP[p] = "sub"
    /\ pcP' = [pcP EXCEPT ![p] = "notify"]
    /\ UNCHANGED <<queue, pending, dropped, pushes, workVars, pcW, histVars>>
SubPending(p) ==
    /\ pcP[p] = "sub"
    /\ pending' = Dec(pending)
    /\ pcP' = [pcP EXCEPT ![p] = "notify"]
    /\ UNCHANGED <<queue, dropped, pushes, workVars, pcW, histVars>>

\* notify.notify_waiters(), and the loop tries to send again.
NotifyDropped(p) ==
    /\ pcP[p] = "notify"
    /\ notify_waiters
    /\ pcP' = [pcP EXCEPT ![p] = "send"]
    /\ UNCHANGED <<queue, pending, dropped, pushes, workVars, histVars>>

push(p) ==
    \/ PushCall(p) \/ TrySendOk(p) \/ AddPending(p) \/ TrySendFull(p)
    \/ EvictOldest(p) \/ EvictNothing(p) \/ CountDropped(p) \/ SubPending(p)
    \/ NotifyDropped(p)

--------------------------------------------------------------------------------
(* The worker: recv_async, then processed_one when the item is dealt with. *)

recv_Newest ==
    /\ pcC = "recv" /\ queue # << >>
    /\ queue' = SubSeq(queue, 1, Len(queue) - 1)
    /\ held' = <<queue[Len(queue)]>>
    /\ delivered' = Append(delivered, queue[Len(queue)])
    /\ pcC' = "busy"
    /\ UNCHANGED <<pending, dropped, prodVars, pcW, entered, evicted, returned,
                   snapshot>>
recv_KeepsLast ==
    /\ pcC = "recv" /\ Len(queue) > 1
    /\ queue' = Tail(queue)
    /\ held' = <<Head(queue)>>
    /\ delivered' = Append(delivered, Head(queue))
    /\ pcC' = "busy"
    /\ UNCHANGED <<pending, dropped, prodVars, pcW, entered, evicted, returned,
                   snapshot>>
recv ==
    /\ pcC = "recv" /\ queue # << >>
    /\ queue' = Tail(queue)
    /\ held' = <<Head(queue)>>
    /\ delivered' = Append(delivered, Head(queue))
    /\ pcC' = "busy"
    /\ UNCHANGED <<pending, dropped, prodVars, pcW, entered, evicted, returned,
                   snapshot>>

\* processed_one: pending.fetch_sub(1), then notify_waiters().
ProcessedSub ==
    /\ pcC = "busy"
    /\ pending' = Dec(pending)
    /\ held' = << >>
    /\ pcC' = "notify"
    /\ UNCHANGED <<queue, dropped, prodVars, pcW, histVars>>

ProcessedNotify ==
    /\ pcC = "notify"
    /\ notify_waiters
    /\ pcC' = "recv"
    /\ UNCHANGED <<queue, pending, dropped, prodVars, held, histVars>>

processed_one == ProcessedSub \/ ProcessedNotify

--------------------------------------------------------------------------------
(* wait_empty *)

WaitCall(w) ==
    /\ pcW[w] = "idle"
    /\ pcW' = [pcW EXCEPT ![w] = "load"]
    /\ snapshot' = [snapshot EXCEPT ![w] = returned]
    /\ UNCHANGED <<queue, pending, dropped, prodVars, workVars, entered,
                   delivered, evicted, returned>>

\* The loop's test: pending.load() != 0.
LoadPending_OffByOne(w) ==
    /\ pcW[w] = "load"
    /\ pcW' = [pcW EXCEPT ![w] = IF pending <= 1 THEN "done" ELSE "gap"]
    /\ UNCHANGED <<queue, pending, dropped, prodVars, workVars, histVars>>
LoadPending(w) ==
    /\ pcW[w] = "load"
    /\ pcW' = [pcW EXCEPT ![w] = IF pending = 0 THEN "done" ELSE "gap"]
    /\ UNCHANGED <<queue, pending, dropped, prodVars, workVars, histVars>>

\* notify.notified(): only from here on does notify_waiters reach this task.
Register(w) ==
    /\ pcW[w] = "gap"
    /\ pcW' = [pcW EXCEPT ![w] = "waiting"]
    /\ UNCHANGED <<queue, pending, dropped, prodVars, workVars, histVars>>

wait_empty(w) == WaitCall(w) \/ LoadPending(w) \/ Register(w)

--------------------------------------------------------------------------------
Next ==
    \/ \E p \in Producers : push(p)
    \/ recv
    \/ processed_one
    \/ \E w \in Waiters : wait_empty(w)

Spec == Init /\ [][Next]_vars

\* The runtime keeps scheduling a push, a flush and the worker once started;
\* nothing obliges the application to start one.
Fairness ==
    /\ \A p \in Producers : WF_vars(push(p) /\ pcP[p] # "idle")
    /\ WF_vars(recv) /\ WF_vars(processed_one)
    /\ \A w \in Waiters : WF_vars(LoadPending(w) \/ Register(w))

FairSpec == Spec /\ Fairness

--------------------------------------------------------------------------------
(* Properties *)

\* The channel stays within its capacity and the counters within a word; a producer
\* is inside push only for an item of its own, the worker holds an item iff busy.
TypeOK ==
    /\ queue \in Seq(Items) /\ Len(queue) <= Capacity
    /\ pending \in 0..(Modulus - 1)
    /\ dropped \in Nat
    /\ pcP \in [Producers -> {"idle", "send", "add", "evict", "count", "sub",
                              "notify"}]
    /\ pushes \in [Producers -> 0..MaxPush]
    /\ \A p \in Producers : pcP[p] # "idle" => pushes[p] > 0
    /\ pcC \in {"recv", "busy", "notify"}
    /\ held \in {<< >>} \cup {<<i>> : i \in Items}
    /\ pcC = "busy" <=> held # << >>
    /\ pcW \in [Waiters -> {"idle", "load", "gap", "waiting", "done"}]
    /\ entered \subseteq Items /\ evicted \subseteq Items
    /\ returned \subseteq Items
    /\ delivered \in Seq(Items)
    /\ snapshot \in [Waiters -> SUBSET Items]

\* How many producers stand at one of the labels L when f says where each is.
Count(f, L) == Cardinality({p \in Producers : f[p] \in L})

\* Items sent and not yet acknowledged, corrected by the counter updates that
\* are still to come; negative when an item is processed before it is counted.
Balance ==
    Len(queue) + Len(held) + Count(pcP, {"count", "sub"}) - Count(pcP, {"add"})

(***************************************************************************)
(* push counts an item only after the channel holds it, and uncounts an    *)
(* evicted one in a separate step.  Through every interleaving, and across *)
(* the wrap below zero, the counter differs from the number of items in    *)
(* flight by exactly the updates that are still to come.                   *)
(***************************************************************************)
PendingExact == pending = IF Balance < 0 THEN Balance + Modulus ELSE Balance

(***************************************************************************)
(* dropped_count() tells the truth: every item try_send accepted is queued,*)
(* was delivered once, or is counted as dropped (up to evictions whose     *)
(* fetch_add is still to come).                                            *)
(***************************************************************************)
DropsAccounted ==
    Cardinality(entered) =
        Len(queue) + Len(delivered) + dropped + Count(pcP, {"count"})

(***************************************************************************)
(* A wait_empty that returns has flushed: every item whose push returned   *)
(* before the call is processed or evicted by then.  undeclare and cleanup *)
(* rely on it to send everything before they tear the handle down.  The    *)
(* exception is a push that is just between its try_send and its count:    *)
(* the counter is then too low and the flush may return early.             *)
(***************************************************************************)
FlushOnDone ==
    [][\A w \in Waiters : pcW[w] # "done" /\ pcW'[w] = "done" /\ Count(pcP, {"add"}) = 0 =>
          snapshot[w] \cap (Range(queue) \cup Range(held)) = {}]_vars

\* The queue is a bounded FIFO that loses only its oldest item.
LF == INSTANCE LossyFifo WITH
        Bound <- Capacity, q <- queue, out <- delivered,
        lost <- dropped + Count(pcP, {"count"})
\* push, recv and the counters implement that contract: no item is repeated,
\* reordered or taken from the middle, and each loss is counted.
IsLossyFifo == LF!Spec

(***************************************************************************)
(* Every item that try_send accepted is in exactly one place, once: in the *)
(* channel, with those delivered or with those evicted.                    *)
(***************************************************************************)
OnePlaceEach ==
    /\ entered = Range(queue) \cup Range(delivered) \cup evicted
    /\ Range(queue) \cap Range(delivered) = {}
    /\ evicted \cap (Range(queue) \cup Range(delivered)) = {}
    /\ \A i, j \in DOMAIN queue : queue[i] = queue[j] => i = j
    /\ \A i, j \in DOMAIN delivered : delivered[i] = delivered[j] => i = j

(***************************************************************************)
(* The worker gets the items of one producer in the order in which it      *)
(* pushed them, however many pushes run at once and whatever is evicted.   *)
(***************************************************************************)
ProducerOrder ==
    \A i, j \in DOMAIN delivered :
        i < j /\ delivered[i][1] = delivered[j][1] => delivered[i][2] < delivered[j][2]

(***************************************************************************)
(* Nothing stays queued: an item that try_send accepted is eventually      *)
(* processed or evicted, as long as the worker keeps running.              *)
(***************************************************************************)
ItemsSettle ==
    \A i \in Items : i \in entered ~>
        i \in evicted \cup (Range(delivered) \ Range(held))

(***************************************************************************)
(* README: "When the local send queue is full, the oldest queued item is   *)
(* dropped."  An item is dropped from a full queue only.                   *)
(***************************************************************************)
DropsOnlyWhenFull == [][evicted' # evicted => Len(queue) = Capacity]_vars

(***************************************************************************)
(* A flush ends once nothing is left to flush: wait_empty returns.         *)
(***************************************************************************)
WaitEmptyReturns == \A w \in Waiters : pcW[w] = "load" ~> pcW[w] = "done"
================================================================================
