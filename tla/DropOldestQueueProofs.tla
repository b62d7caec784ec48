------------------------- MODULE DropOldestQueueProofs -------------------------
(***************************************************************************)
(* What holds of the drop-oldest queue for any number of producers and     *)
(* waiters, any capacity and any word size that can count the items.       *)
(***************************************************************************)
EXTENDS DropOldestQueue, FiniteSetTheorems, TLAPS

Labels == {"idle", "send", "add", "evict", "count", "sub", "notify"}

(* Cardinality after one element joins or leaves a finite set. *)
LEMMA CardStep ==
    ASSUME NEW S, IsFiniteSet(S), NEW x
    PROVE  /\ Cardinality(S) \in Nat
           /\ x \notin S => Cardinality(S \cup {x}) = Cardinality(S) + 1
           /\ x \in S => Cardinality(S \ {x}) = Cardinality(S) - 1
<1>1. Cardinality(S) \in Nat
  BY FS_CardinalityType
<1>2. ASSUME x \notin S PROVE Cardinality(S \cup {x}) = Cardinality(S) + 1
  BY <1>2, FS_AddElement
<1>3. ASSUME x \in S PROVE Cardinality(S \ {x}) = Cardinality(S) - 1
  BY <1>3, FS_RemoveElement
<1> QED BY <1>1, <1>2, <1>3

(* The number of producers at some labels is a number. *)
LEMMA CountType ==
    ASSUME NEW f, NEW L
    PROVE  /\ Count(f, L) \in Nat /\ Cardinality(Producers) \in Nat
           /\ Count(f, L) <= Cardinality(Producers)
<1> DEFINE S == {r \in Producers : f[r] \in L}
<1>1. S \subseteq Producers
  OBVIOUS
<1> HIDE DEF S
<1>2. Cardinality(S) \in Nat /\ Cardinality(Producers) \in Nat
      /\ Cardinality(S) <= Cardinality(Producers)
  BY <1>1, ProducersFinite, FS_Subset, FS_CardinalityType
<1> QED BY <1>2 DEF S, Count

(* A producer that moves changes how many stand in L by at most itself.    *)
LEMMA CountMove ==
    ASSUME NEW f, NEW g, NEW p \in Producers,
           \A r \in Producers : r # p => g[r] = f[r]
    PROVE  \A L :
             /\ g[p] \in L /\ f[p] \notin L => Count(g, L) = Count(f, L) + 1
             /\ g[p] \notin L /\ f[p] \in L => Count(g, L) = Count(f, L) - 1
             /\ (g[p] \in L) = (f[p] \in L) => Count(g, L) = Count(f, L)
<1> TAKE L
<1> DEFINE S == {r \in Producers : f[r] \in L}
           T == {r \in Producers : g[r] \in L}
<1>1. IsFiniteSet(S)
  BY ProducersFinite, FS_Subset
<1>2. CASE g[p] \in L /\ f[p] \notin L
  <2>1. T = S \cup {p} /\ p \notin S
    BY <1>2
  <2> HIDE DEF S, T
  <2>2. Cardinality(T) = Cardinality(S) + 1
    BY <1>1, <2>1, CardStep
  <2> QED BY <1>2, <2>2 DEF S, T, Count
<1>3. CASE g[p] \notin L /\ f[p] \in L
  <2>1. T = S \ {p} /\ p \in S
    BY <1>3
  <2> HIDE DEF S, T
  <2>2. Cardinality(T) = Cardinality(S) - 1
    BY <1>1, <2>1, CardStep
  <2> QED BY <1>3, <2>2 DEF S, T, Count
<1>4. CASE (g[p] \in L) = (f[p] \in L)
  <2>1. T = S
    BY <1>4
  <2> QED BY <1>4, <2>1 DEF Count
<1> QED BY <1>2, <1>3, <1>4

(* The same for the groups of producers that the invariants count.         *)
LEMMA GroupMove ==
    ASSUME NEW f, NEW g, NEW p \in Producers,
           \A r \in Producers : r # p => g[r] = f[r]
    PROVE  /\ Count(g, {"add"}) = Count(f, {"add"})
                + (IF g[p] = "add" THEN 1 ELSE 0) - (IF f[p] = "add" THEN 1 ELSE 0)
           /\ Count(g, {"count"}) = Count(f, {"count"})
                + (IF g[p] = "count" THEN 1 ELSE 0)
                - (IF f[p] = "count" THEN 1 ELSE 0)
           /\ Count(g, {"count", "sub"}) = Count(f, {"count", "sub"})
                + (IF g[p] \in {"count", "sub"} THEN 1 ELSE 0)
                - (IF f[p] \in {"count", "sub"} THEN 1 ELSE 0)
<1>1. \A L : Count(f, L) \in Nat
  BY CountType
<1>2. \A L : /\ g[p] \in L /\ f[p] \notin L => Count(g, L) = Count(f, L) + 1
             /\ g[p] \notin L /\ f[p] \in L => Count(g, L) = Count(f, L) - 1
             /\ (g[p] \in L) = (f[p] \in L) => Count(g, L) = Count(f, L)
  BY CountMove
<1>3. \A L : Count(g, L) = Count(f, L) + (IF g[p] \in L THEN 1 ELSE 0)
                                       - (IF f[p] \in L THEN 1 ELSE 0)
  BY <1>1, <1>2
<1> QED BY <1>3

(***************************************************************************)
(* Every variable keeps its type; in particular no interleaving of pushes  *)
(* makes the channel exceed its capacity or the counter leave its word.    *)
(***************************************************************************)
THEOREM TypeCorrect == Spec => []TypeOK
<1> USE CapacityPositive, MaxPushNat, ModulusLarge
<1>1. Cardinality(Producers) \in Nat
  BY ProducersFinite, FS_CardinalityType
<1>2. Init => TypeOK
  BY <1>1 DEF Init, TypeOK
<1>3. TypeOK /\ [Next]_vars => TypeOK'
  <2> SUFFICES ASSUME TypeOK, [Next]_vars PROVE TypeOK'
    OBVIOUS
  <2> USE <1>1 DEF TypeOK, prodVars, workVars, histVars
  <2>1. ASSUME NEW p \in Producers, push(p) PROVE TypeOK'
    <3> Item(p) \in Items \/ pcP[p] = "idle"
      BY DEF Item, Items
    <3>1. CASE PushCall(p)
      BY <3>1 DEF PushCall
    <3>2. CASE TrySendOk(p)
      BY <3>2 DEF TrySendOk
    <3>3. CASE AddPending(p)
      BY <3>3 DEF AddPending, Inc
    <3>4. CASE TrySendFull(p)
      BY <3>4 DEF TrySendFull
    <3>5. CASE EvictOldest(p)
      BY <3>5 DEF EvictOldest
    <3>6. CASE EvictNothing(p)
      BY <3>6 DEF EvictNothing
    <3>7. CASE CountDropped(p)
      BY <3>7 DEF CountDropped
    <3>8. CASE SubPending(p)
      BY <3>8 DEF SubPending, Dec
    <3>9. CASE NotifyDropped(p)
      BY <3>9 DEF NotifyDropped, notify_waiters
    <3> QED BY <2>1, <3>1, <3>2, <3>3, <3>4, <3>5, <3>6, <3>7, <3>8, <3>9
            DEF push
  <2>2. CASE recv
    BY <2>2 DEF recv
  <2>3. CASE ProcessedSub
    BY <2>3 DEF ProcessedSub, Dec
  <2>4. CASE ProcessedNotify
    BY <2>4 DEF ProcessedNotify, notify_waiters
  <2>5. ASSUME NEW w \in Waiters, wait_empty(w) PROVE TypeOK'
    BY <2>5 DEF wait_empty, WaitCall, LoadPending, Register
  <2>6. CASE UNCHANGED vars
    BY <2>6 DEF vars
  <2> QED BY <2>1, <2>2, <2>3, <2>4, <2>5, <2>6 DEF Next, processed_one
<1> QED BY <1>2, <1>3, PTL DEF Spec

(***************************************************************************)
(* The pending counter is exact (PendingExact): wait_empty can be trusted  *)
(* to read zero exactly when the counted items are settled, whatever the   *)
(* interleaving of pushes, evictions and acknowledgements.                 *)
(***************************************************************************)
THEOREM PendingIsExact == Spec => []PendingExact
<1> USE CapacityPositive, ModulusLarge
<1> DEFINE D == Count(pcP, {"count", "sub"})
           A == Count(pcP, {"add"})
<1>1. Init => PendingExact
  <2> SUFFICES ASSUME Init PROVE PendingExact
    OBVIOUS
  <2>1. {p \in Producers : pcP[p] \in {"count", "sub"}} = {}
        /\ {p \in Producers : pcP[p] \in {"add"}} = {}
    BY DEF Init
  <2>2. D = 0 /\ A = 0
    BY <2>1, FS_EmptySet DEF Count
  <2> QED BY <2>2 DEF Init, PendingExact, Balance
<1>2. TypeOK /\ PendingExact /\ [Next]_vars => PendingExact'
  <2> SUFFICES ASSUME TypeOK, PendingExact, [Next]_vars PROVE PendingExact'
    OBVIOUS
  <2>1. /\ pending \in 0..(Modulus - 1) /\ queue \in Seq(Items)
        /\ Len(queue) \in 0..Capacity
        /\ Len(held) \in 0..1 /\ (pcC = "busy" => Len(held) = 1)
        /\ (pcC # "busy" => Len(held) = 0)
        /\ pcP \in [Producers -> Labels]
        /\ Modulus \in Nat /\ Capacity \in Nat
    BY DEF TypeOK, Labels
  <2> DEFINE lq == Len(queue)
             lh == Len(held)
             N == Cardinality(Producers)
  <2>2. Balance = lq + lh + D - A /\ Balance' = lq' + lh' + D' - A'
    BY DEF Balance
  <2>3. /\ D \in Nat /\ A \in Nat /\ D' \in Nat /\ A' \in Nat /\ N \in Nat
        /\ D <= N /\ A <= N /\ D' <= N /\ A' <= N
    BY CountType
  <2>4. lq \in 0..Capacity /\ lh \in 0..1 /\ Capacity \in Nat
        /\ Modulus \in Nat /\ Modulus > Capacity + N + 1
        /\ pending \in 0..(Modulus - 1)
    BY <2>1
  <2>5. ASSUME NEW p \in Producers, \A r \in Producers : r # p => pcP'[r] = pcP[r]
        PROVE  /\ A' = A + (IF pcP'[p] = "add" THEN 1 ELSE 0)
                         - (IF pcP[p] = "add" THEN 1 ELSE 0)
               /\ D' = D + (IF pcP'[p] \in {"count", "sub"} THEN 1 ELSE 0)
                         - (IF pcP[p] \in {"count", "sub"} THEN 1 ELSE 0)
    BY <2>5, GroupMove
  <2> HIDE DEF D, A, N, lq, lh
  <2>6. ASSUME lq' + lh' + D' - A' = lq + lh + D - A, pending' = pending
        PROVE  PendingExact'
    BY <2>2, <2>6 DEF PendingExact
  <2>7. ASSUME lq' = lq, lh' = lh, D' = D, A' = A - 1, pending' = Inc(pending)
        PROVE  PendingExact'
    BY <2>2, <2>3, <2>4, <2>7 DEF PendingExact, Inc
  <2>8. ASSUME lq' + lh' + D' - A' = lq + lh + D - A - 1, pending' = Dec(pending)
        PROVE  PendingExact'
    <3>1. Balance \in Int /\ Balance' = Balance - 1 /\ Balance >= - N
      BY <2>2, <2>3, <2>4, <2>8
    <3> QED BY <2>3, <2>4, <2>8, <3>1 DEF PendingExact, Dec
  <2>9. ASSUME NEW p \in Producers, push(p) PROVE PendingExact'
    <3>1. CASE PushCall(p)
      <4>1. lq' = lq /\ lh' = lh /\ D' = D /\ A' = A
        BY <2>1, <2>3, <2>5, <3>1 DEF PushCall, workVars, lq, lh
      <4> QED BY <2>3, <2>4, <2>6, <3>1, <4>1 DEF PushCall
    <3>2. CASE TrySendOk(p)
      <4>1. lq' = lq + 1 /\ lh' = lh /\ D' = D /\ A' = A + 1
        BY <2>1, <2>3, <2>5, <3>2 DEF TrySendOk, workVars, lq, lh
      <4> QED BY <2>3, <2>4, <2>6, <3>2, <4>1 DEF TrySendOk
    <3>3. CASE AddPending(p)
      <4>1. lq' = lq /\ lh' = lh /\ D' = D /\ A' = A - 1
        BY <2>1, <2>3, <2>5, <3>3 DEF AddPending, workVars, lq, lh
      <4> QED BY <2>3, <2>4, <2>7, <3>3, <4>1 DEF AddPending
    <3>4. CASE TrySendFull(p)
      <4>1. lq' = lq /\ lh' = lh /\ D' = D /\ A' = A
        BY <2>1, <2>3, <2>5, <3>4 DEF TrySendFull, workVars, lq, lh
      <4> QED BY <2>3, <2>4, <2>6, <3>4, <4>1 DEF TrySendFull
    <3>5. CASE EvictOldest(p)
      <4>1. lq' = lq - 1 /\ lh' = lh /\ D' = D + 1 /\ A' = A
        BY <2>1, <2>3, <2>5, <3>5 DEF EvictOldest, workVars, lq, lh
      <4> QED BY <2>3, <2>4, <2>6, <3>5, <4>1 DEF EvictOldest
    <3>6. CASE EvictNothing(p)
      <4>1. lq' = lq /\ lh' = lh /\ D' = D /\ A' = A
        BY <2>1, <2>3, <2>5, <3>6 DEF EvictNothing, workVars, lq, lh
      <4> QED BY <2>3, <2>4, <2>6, <3>6, <4>1 DEF EvictNothing
    <3>7. CASE CountDropped(p)
      <4>1. lq' = lq /\ lh' = lh /\ D' = D /\ A' = A
        BY <2>1, <2>3, <2>5, <3>7 DEF CountDropped, workVars, lq, lh
      <4> QED BY <2>3, <2>4, <2>6, <3>7, <4>1 DEF CountDropped
    <3>8. CASE SubPending(p)
      <4>1. lq' = lq /\ lh' = lh /\ D' = D - 1 /\ A' = A
        BY <2>1, <2>3, <2>5, <3>8 DEF SubPending, workVars, lq, lh
      <4> QED BY <2>3, <2>4, <2>8, <3>8, <4>1 DEF SubPending
    <3>9. CASE NotifyDropped(p)
      <4>1. lq' = lq /\ lh' = lh /\ D' = D /\ A' = A
        BY <2>1, <2>3, <2>5, <3>9 DEF NotifyDropped, workVars, lq, lh
      <4> QED BY <2>3, <2>4, <2>6, <3>9, <4>1 DEF NotifyDropped
    <3> QED BY <2>9, <3>1, <3>2, <3>3, <3>4, <3>5, <3>6, <3>7, <3>8, <3>9
            DEF push
  <2>10. CASE recv
    <3>1. lq' = lq - 1 /\ lh' = lh + 1 /\ D' = D /\ A' = A
      BY <2>1, <2>10 DEF recv, prodVars, D, A, lq, lh
    <3> QED BY <2>3, <2>4, <2>6, <2>10, <3>1 DEF recv
  <2>11. CASE ProcessedSub
    <3>1. lq' = lq /\ lh' = 0 /\ lh = 1 /\ D' = D /\ A' = A
      BY <2>1, <2>11 DEF ProcessedSub, prodVars, D, A, lq, lh
    <3> QED BY <2>3, <2>4, <2>8, <2>11, <3>1 DEF ProcessedSub
  <2>12. CASE ProcessedNotify
    BY <2>6, <2>12 DEF ProcessedNotify, prodVars, lq, lh, D, A
  <2>13. ASSUME NEW w \in Waiters, wait_empty(w) PROVE PendingExact'
    BY <2>6, <2>13 DEF wait_empty, WaitCall, LoadPending, Register, prodVars,
                       workVars, lq, lh, D, A
  <2>14. CASE UNCHANGED vars
    BY <2>6, <2>14 DEF vars, prodVars, workVars, lq, lh, D, A
  <2> QED BY <2>9, <2>10, <2>11, <2>12, <2>13, <2>14 DEF Next, processed_one
<1> QED BY <1>1, <1>2, TypeCorrect, PTL DEF Spec

(***************************************************************************)
(* A wait_empty that returns while no push is between its try_send and its *)
(* count has flushed: a counter of zero then means an empty queue and an   *)
(* idle worker.                                                            *)
(***************************************************************************)
THEOREM FlushMeansFlushed == Spec => FlushOnDone
<1>1. ASSUME TypeOK, PendingExact, pending = 0, Count(pcP, {"add"}) = 0
      PROVE  queue = << >> /\ held = << >>
  <2>1. Count(pcP, {"count", "sub"}) \in Nat
    BY CountType
  <2>2. Len(queue) \in Nat /\ Len(held) \in 0..1 /\ (held # << >> => Len(held) = 1)
    BY <1>1 DEF TypeOK
  <2>3. Balance = Len(queue) + Len(held) + Count(pcP, {"count", "sub"})
    BY <1>1, <2>1, <2>2 DEF Balance
  <2>4. Balance = 0
    BY <1>1, <2>1, <2>2, <2>3 DEF PendingExact
  <2>5. Len(queue) = 0 /\ Len(held) = 0
    BY <2>1, <2>2, <2>3, <2>4
  <2> QED BY <1>1, <2>5 DEF TypeOK
<1>2. ASSUME TypeOK, [Next]_vars, NEW w \in Waiters, pcW[w] # "done", pcW'[w] = "done"
      PROVE  pending = 0
  <2>1. pcW \in [Waiters -> {"idle", "load", "gap", "waiting", "done"}]
    BY <1>2 DEF TypeOK
  <2>2. pcW' # pcW
    BY <1>2
  <2>3. ~ notify_waiters
    BY <1>2, <2>1 DEF notify_waiters
  <2>4. PICK v \in Waiters : wait_empty(v)
    BY <1>2, <2>2, <2>3 DEF Next, push, PushCall, TrySendOk, AddPending, TrySendFull,
         EvictOldest, EvictNothing, CountDropped, SubPending, NotifyDropped, recv,
         processed_one, ProcessedSub, ProcessedNotify, vars
  <2> QED BY <1>2, <2>1, <2>4 DEF wait_empty, WaitCall, LoadPending, Register
<1>3. TypeOK /\ PendingExact /\ [Next]_vars =>
        [\A w \in Waiters : pcW[w] # "done" /\ pcW'[w] = "done" /\ Count(pcP, {"add"}) = 0
            => snapshot[w] \cap (Range(queue) \cup Range(held)) = {}]_vars
  <2> SUFFICES ASSUME TypeOK, PendingExact, [Next]_vars, NEW w \in Waiters,
                      pcW[w] # "done", pcW'[w] = "done", Count(pcP, {"add"}) = 0
               PROVE  snapshot[w] \cap (Range(queue) \cup Range(held)) = {}
    OBVIOUS
  <2>1. queue = << >> /\ held = << >>
    BY <1>1, <1>2
  <2>2. Range(queue) = {} /\ Range(held) = {}
    BY <2>1 DEF Range
  <2> QED BY <2>2
<1> QED BY <1>3, TypeCorrect, PendingIsExact, PTL DEF Spec, FlushOnDone

(* The items of a producer that entered the channel are those it pushed,   *)
(* without the one it is still trying to send.                             *)
Fresh ==
    \A p \in Producers, n \in Nat :
        <<p, n>> \in entered =>
            /\ n <= pushes[p]
            /\ pcP[p] \notin {"idle", "add"} => n < pushes[p]

(***************************************************************************)
(* An item is sent at most once: what a producer has not yet handed to     *)
(* try_send has never entered the channel.                                 *)
(***************************************************************************)
LEMMA SentOnce == Spec => []Fresh
<1>1. Init => Fresh
  BY DEF Init, Fresh
<1>2. TypeOK /\ Fresh /\ [Next]_vars => Fresh'
  <2> SUFFICES ASSUME TypeOK, Fresh, [Next]_vars PROVE Fresh'
    OBVIOUS
  <2>1. pushes \in [Producers -> Nat] /\ pcP \in [Producers -> Labels]
    BY MaxPushNat DEF TypeOK, Labels
  <2>2. ASSUME NEW p \in Producers, PushCall(p) PROVE Fresh'
    BY <2>1, <2>2 DEF PushCall, Fresh, histVars
  <2>3. ASSUME NEW p \in Producers, TrySendOk(p) PROVE Fresh'
    BY <2>1, <2>3 DEF TrySendOk, Fresh, Item
  <2>4. ASSUME NEW p \in Producers,
               \/ AddPending(p) \/ TrySendFull(p) \/ EvictOldest(p)
               \/ EvictNothing(p) \/ CountDropped(p) \/ SubPending(p)
               \/ NotifyDropped(p)
        PROVE  Fresh'
    BY <2>1, <2>4 DEF AddPending, TrySendFull, EvictOldest, EvictNothing,
         CountDropped, SubPending, NotifyDropped, Fresh, histVars
  <2>5. ASSUME NEW w \in Waiters, wait_empty(w) PROVE Fresh'
    BY <2>5 DEF wait_empty, WaitCall, LoadPending, Register, Fresh, prodVars,
                histVars
  <2>6. CASE recv \/ processed_one \/ UNCHANGED vars
    BY <2>6 DEF recv, processed_one, ProcessedSub, ProcessedNotify, vars,
                prodVars, histVars, Fresh
  <2> QED BY <2>2, <2>3, <2>4, <2>5, <2>6 DEF Next, push
<1> QED BY <1>1, <1>2, TypeCorrect, PTL DEF Spec

(* The losses so far, the one not yet added to `dropped` included.         *)
Lost == dropped + Count(pcP, {"count"})

(* What one step does to the channel, its history and its loss count: it   *)
(* accepts a new item, delivers or evicts the oldest, or nothing.          *)
LEMMA ChannelSteps ==
    ASSUME TypeOK, Fresh, [Next]_vars
    PROVE  \/ \E i \in Items :
                 /\ i \notin entered /\ Len(queue) < Capacity
                 /\ queue' = Append(queue, i) /\ entered' = entered \cup {i}
                 /\ delivered' = delivered /\ Lost' = Lost
           \/ /\ queue # << >> /\ queue' = Tail(queue)
              /\ delivered' = Append(delivered, Head(queue))
              /\ entered' = entered /\ Lost' = Lost
           \/ /\ queue # << >> /\ queue' = Tail(queue)
              /\ Lost' = Lost + 1
              /\ entered' = entered /\ delivered' = delivered
           \/ UNCHANGED <<queue, entered, delivered, Lost>>
<1> DEFINE C == Count(pcP, {"count"})
<1>1. Lost = dropped + C /\ Lost' = dropped' + C'
  BY DEF Lost
<1>2. C \in Nat /\ dropped \in Nat
  BY CountType DEF TypeOK
<1>3. pushes \in [Producers -> 0..MaxPush] /\ pcP \in [Producers -> Labels]
      /\ (\A p \in Producers : pcP[p] # "idle" => pushes[p] > 0)
  BY DEF TypeOK, Labels
<1>4. ASSUME NEW p \in Producers, \A r \in Producers : r # p => pcP'[r] = pcP[r]
      PROVE  C' = C + (IF pcP'[p] = "count" THEN 1 ELSE 0)
                    - (IF pcP[p] = "count" THEN 1 ELSE 0)
  BY <1>4, GroupMove
<1>5. ASSUME pcP' = pcP PROVE C' = C
  BY <1>5
<1> HIDE DEF C
<1>6. ASSUME NEW p \in Producers, TrySendOk(p) PROVE
          /\ Item(p) \in Items /\ Item(p) \notin entered /\ Len(queue) < Capacity
          /\ queue' = Append(queue, Item(p)) /\ entered' = entered \cup {Item(p)}
          /\ delivered' = delivered /\ Lost' = Lost
  <2>1. pcP[p] = "send" /\ pushes[p] \in 1..MaxPush /\ pushes[p] \in Nat
    BY <1>3, <1>6, MaxPushNat DEF TrySendOk
  <2>2. Item(p) \in Items /\ Item(p) \notin entered
    BY <2>1 DEF Fresh, Item, Items
  <2>3. Lost' = Lost
    BY <1>1, <1>2, <1>3, <1>4, <1>6 DEF TrySendOk
  <2> QED BY <1>6, <2>2, <2>3 DEF TrySendOk
<1>7. ASSUME NEW p \in Producers, EvictOldest(p) PROVE
          /\ queue # << >> /\ queue' = Tail(queue) /\ Lost' = Lost + 1
          /\ entered' = entered /\ delivered' = delivered
  <2>0. C' = C + 1 /\ dropped' = dropped
    BY <1>2, <1>3, <1>4, <1>7 DEF EvictOldest
  <2>1. Lost' = Lost + 1
    BY <1>1, <1>2, <2>0
  <2> QED BY <1>7, <2>1 DEF EvictOldest
<1>8. ASSUME NEW p \in Producers,
             \/ PushCall(p) \/ AddPending(p) \/ TrySendFull(p) \/ EvictNothing(p)
             \/ CountDropped(p) \/ SubPending(p) \/ NotifyDropped(p)
      PROVE  UNCHANGED <<queue, entered, delivered, Lost>>
  <2>1. UNCHANGED <<queue, entered, delivered>>
    BY <1>8 DEF PushCall, AddPending, TrySendFull, EvictNothing, CountDropped,
                SubPending, NotifyDropped, histVars
  <2>2. CASE CountDropped(p)
    <3>1. C' = C - 1 /\ dropped' = dropped + 1
      BY <1>2, <1>3, <1>4, <2>2 DEF CountDropped
    <3> QED BY <1>1, <1>2, <2>1, <3>1
  <2>3. CASE PushCall(p) \/ AddPending(p) \/ TrySendFull(p) \/ EvictNothing(p)
             \/ SubPending(p) \/ NotifyDropped(p)
    <3>1. C' = C /\ dropped' = dropped
      BY <1>2, <1>3, <1>4, <2>3
         DEF PushCall, AddPending, TrySendFull, EvictNothing, SubPending,
             NotifyDropped
    <3> QED BY <1>1, <2>1, <3>1
  <2> QED BY <1>8, <2>1, <2>2, <2>3
<1>9. CASE recv
  BY <1>1, <1>5, <1>9 DEF recv, prodVars
<1>10. CASE processed_one \/ (\E w \in Waiters : wait_empty(w)) \/ UNCHANGED vars
  BY <1>1, <1>5, <1>10 DEF processed_one, ProcessedSub, ProcessedNotify,
       wait_empty, WaitCall, LoadPending, Register, vars, prodVars, histVars
<1> QED BY <1>6, <1>7, <1>8, <1>9, <1>10 DEF Next, push

(***************************************************************************)
(* push, recv and processed_one implement the lossy FIFO contract: only    *)
(* the oldest item is ever lost, nothing is reordered or delivered twice,  *)
(* and every loss is counted, whatever the interleaving.                   *)
(***************************************************************************)
THEOREM ImplementsLossyFifo == Spec => IsLossyFifo
<1>1. Init => LF!Init
  <2> SUFFICES ASSUME Init PROVE LF!Init
    OBVIOUS
  <2>1. {p \in Producers : pcP[p] \in {"count"}} = {}
    BY DEF Init
  <2>2. Count(pcP, {"count"}) = 0
    BY <2>1, FS_EmptySet DEF Count
  <2> QED BY <2>2 DEF Init, LF!Init
<1>2. TypeOK /\ Fresh /\ [Next]_vars
        => [LF!Next]_<<queue, entered, delivered, dropped + Count(pcP, {"count"})>>
  BY ChannelSteps DEF Lost, LF!Next, LF!Accept, LF!Deliver, LF!LoseOldest
<1> QED BY <1>1, <1>2, TypeCorrect, SentOnce, PTL DEF Spec, LF!Spec, IsLossyFifo

(***************************************************************************)
(* dropped_count() is truthful (DropsAccounted): with the items queued and *)
(* delivered it adds up to the items accepted.                             *)
(***************************************************************************)
THEOREM DropsAreAccounted == Spec => []DropsAccounted
<1>1. Init => DropsAccounted
  <2> SUFFICES ASSUME Init PROVE DropsAccounted
    OBVIOUS
  <2>1. {p \in Producers : pcP[p] \in {"count"}} = {}
    BY DEF Init
  <2>2. Count(pcP, {"count"}) = 0 /\ Cardinality({}) = 0
    BY <2>1, FS_EmptySet DEF Count
  <2> QED BY <2>2 DEF Init, DropsAccounted
<1>2. TypeOK /\ TypeOK' /\ Fresh /\ DropsAccounted /\ [Next]_vars
        => DropsAccounted'
  <2> SUFFICES ASSUME TypeOK, TypeOK', Fresh, DropsAccounted, [Next]_vars
               PROVE  DropsAccounted'
    OBVIOUS
  <2> DEFINE E == Cardinality(entered)
  <2>1. IsFiniteSet(Items)
    <3>1. IsFiniteSet(1..MaxPush)
      BY FS_Interval, MaxPushNat
    <3> QED BY <3>1, ProducersFinite, FS_Product DEF Items
  <2>2. IsFiniteSet(entered) /\ E \in Nat
    BY <2>1, FS_Subset, FS_CardinalityType DEF TypeOK
  <2>3. \A i : i \notin entered => Cardinality(entered \cup {i}) = E + 1
    BY <2>2, CardStep
  <2>4. queue \in Seq(Items) /\ delivered \in Seq(Items)
    BY DEF TypeOK
  <2>5. /\ Len(queue) \in Nat /\ Len(delivered) \in Nat
        /\ dropped \in Nat /\ Count(pcP, {"count"}) \in Nat
        /\ Len(queue') \in Nat /\ Len(delivered') \in Nat
        /\ dropped' \in Nat /\ Count(pcP, {"count"})' \in Nat
    BY CountType DEF TypeOK
  <2>6. E = Len(queue) + Len(delivered) + Lost /\ Lost \in Nat
    BY <2>5 DEF DropsAccounted, Lost
  <2>7. E' = Len(queue') + Len(delivered') + Lost'
    <3>1. CASE \E i \in Items :
                 /\ i \notin entered
                 /\ queue' = Append(queue, i) /\ entered' = entered \cup {i}
                 /\ delivered' = delivered /\ Lost' = Lost
      <4>1. E' = E + 1 /\ Len(queue') = Len(queue) + 1
        BY <2>3, <2>4, <3>1
      <4> QED BY <2>5, <2>6, <3>1, <4>1
    <3>2. CASE /\ queue # << >> /\ queue' = Tail(queue)
               /\ delivered' = Append(delivered, Head(queue))
               /\ entered' = entered /\ Lost' = Lost
      <4>1. E' = E /\ Len(queue') = Len(queue) - 1
            /\ Len(delivered') = Len(delivered) + 1
        BY <2>4, <3>2
      <4> QED BY <2>5, <2>6, <3>2, <4>1
    <3>3. CASE /\ queue # << >> /\ queue' = Tail(queue)
               /\ Lost' = Lost + 1
               /\ entered' = entered /\ delivered' = delivered
      <4>1. E' = E /\ Len(queue') = Len(queue) - 1
        BY <2>4, <3>3
      <4> QED BY <2>5, <2>6, <3>3, <4>1
    <3>4. CASE UNCHANGED <<queue, entered, delivered, Lost>>
      BY <2>6, <3>4
    <3> QED BY <3>1, <3>2, <3>3, <3>4, ChannelSteps
  <2> QED BY <2>5, <2>7 DEF DropsAccounted, Lost
<1> QED BY <1>1, <1>2, TypeCorrect, SentOnce, PTL DEF Spec

--------------------------------------------------------------------------------
(* Where the items are, and in which order *)

(* Of two items of one producer, the first was pushed first.               *)
Before(x, y) == x[1] = y[1] => x[2] < y[2]
PlaceInv ==
    /\ entered = Range(queue) \cup Range(delivered) \cup evicted
    /\ evicted \cap (Range(queue) \cup Range(delivered)) = {}
LineInv ==
    /\ \A i, j \in DOMAIN queue : i < j => Before(queue[i], queue[j])
    /\ \A i, j \in DOMAIN delivered : i < j => Before(delivered[i], delivered[j])
    /\ \A x \in Range(delivered), y \in Range(queue) : Before(x, y)

LEMMA RangeAppend ==
    ASSUME NEW s \in Seq(Items), NEW x \in Items
    PROVE  /\ Append(s, x) \in Seq(Items) /\ Range(Append(s, x)) = Range(s) \cup {x}
           /\ \A i \in DOMAIN Append(s, x) :
                 \/ i \in DOMAIN s /\ Append(s, x)[i] = s[i]
                 \/ i = Len(s) + 1 /\ Append(s, x)[i] = x
<1> DEFINE u == Append(s, x)
<1>1. u \in Seq(Items) /\ DOMAIN u = 1..(Len(s) + 1) /\ DOMAIN s = 1..Len(s)
      /\ Len(s) \in Nat /\ u[Len(s) + 1] = x /\ \A i \in 1..Len(s) : u[i] = s[i]
  OBVIOUS
<1> HIDE DEF u
<1>2. \A i \in 1..(Len(s) + 1) : i \in 1..Len(s) \/ i = Len(s) + 1
  BY <1>1
<1>3. Len(s) + 1 \in DOMAIN u /\ \A i \in DOMAIN s : i \in DOMAIN u
  BY <1>1
<1>4. Range(u) = Range(s) \cup {x}
  BY <1>1, <1>2, <1>3 DEF Range
<1> QED BY <1>1, <1>2, <1>4 DEF u

LEMMA RangeTail ==
    ASSUME NEW s \in Seq(Items), s # << >>
    PROVE  /\ Tail(s) \in Seq(Items) /\ Head(s) \in Items /\ Head(s) = s[1] /\ 1 \in DOMAIN s
           /\ Range(s) = {Head(s)} \cup Range(Tail(s))
           /\ \A i \in DOMAIN Tail(s) : i \in Nat /\ i + 1 \in DOMAIN s /\ 1 < i + 1
                                           /\ Tail(s)[i] = s[i + 1]
<1> DEFINE u == Tail(s)
<1>1. u \in Seq(Items) /\ DOMAIN u = 1..(Len(s) - 1) /\ DOMAIN s = 1..Len(s)
      /\ Len(s) \in Nat /\ Len(s) > 0 /\ Head(s) = s[1] /\ s[1] \in Items
      /\ \A i \in 1..(Len(s) - 1) : u[i] = s[i + 1]
  OBVIOUS
<1> HIDE DEF u
<1>2. 1 \in DOMAIN s /\ \A i \in DOMAIN u : i \in Nat /\ i + 1 \in DOMAIN s /\ 1 < i + 1
  BY <1>1
<1>3. \A i \in DOMAIN s : i # 1 => i - 1 \in DOMAIN u /\ (i - 1) + 1 = i
  BY <1>1
<1>4. \A i \in DOMAIN s : i # 1 => u[i - 1] = s[i]
  BY <1>1, <1>3
<1>5. Range(s) = {Head(s)} \cup Range(u)
  <2>1. \A i \in DOMAIN u : u[i] = s[i + 1]
    BY <1>1
  <2>2. \A x \in Range(s) : x \in {Head(s)} \cup Range(u)
    BY <1>1, <1>3, <1>4 DEF Range
  <2>3. \A x \in {Head(s)} \cup Range(u) : x \in Range(s)
    BY <1>1, <1>2, <2>1 DEF Range
  <2> QED BY <2>2, <2>3
<1> QED BY <1>1, <1>2, <1>5 DEF u

(* What one step does to the items: the newest one of its producer enters, *)
(* the oldest in the channel is delivered or evicted, or nothing.          *)
LEMMA ItemSteps ==
    ASSUME TypeOK, Fresh, [Next]_vars
    PROVE  \/ \E x \in Items :
                 /\ x \notin entered /\ \A y \in entered : Before(y, x)
                 /\ queue' = Append(queue, x) /\ entered' = entered \cup {x}
                 /\ UNCHANGED <<delivered, evicted>>
           \/ /\ queue # << >> /\ queue' = Tail(queue)
              /\ delivered' = Append(delivered, Head(queue))
              /\ UNCHANGED <<entered, evicted>>
           \/ /\ queue # << >> /\ queue' = Tail(queue)
              /\ evicted' = evicted \cup {Head(queue)}
              /\ UNCHANGED <<entered, delivered>>
           \/ UNCHANGED <<queue, entered, delivered, evicted>>
<1>1. ASSUME NEW p \in Producers, TrySendOk(p)
      PROVE  /\ Item(p) \in Items /\ Item(p) \notin entered
             /\ \A y \in entered : Before(y, Item(p))
             /\ queue' = Append(queue, Item(p)) /\ entered' = entered \cup {Item(p)}
             /\ UNCHANGED <<delivered, evicted>>
  <2>1. pcP[p] = "send" /\ pushes[p] \in 1..MaxPush /\ pushes[p] \in Nat
    BY <1>1, MaxPushNat DEF TrySendOk, TypeOK
  <2>2. Item(p) \in Items /\ Item(p) \notin entered
    BY <2>1 DEF Fresh, Item, Items
  <2>3. ASSUME NEW y \in entered PROVE Before(y, Item(p))
    <3>1. y = <<y[1], y[2]>> /\ y[2] \in Nat
      BY MaxPushNat DEF TypeOK, Items
    <3> QED BY <2>1, <3>1 DEF Fresh, Item, Before
  <2> QED BY <1>1, <2>2, <2>3 DEF TrySendOk
<1>2. ASSUME NEW p \in Producers, EvictOldest(p)
      PROVE  /\ queue # << >> /\ queue' = Tail(queue)
             /\ evicted' = evicted \cup {Head(queue)} /\ UNCHANGED <<entered, delivered>>
  BY <1>2 DEF EvictOldest
<1>3. ASSUME NEW p \in Producers,
             \/ PushCall(p) \/ AddPending(p) \/ TrySendFull(p) \/ EvictNothing(p)
             \/ CountDropped(p) \/ SubPending(p) \/ NotifyDropped(p)
      PROVE  UNCHANGED <<queue, entered, delivered, evicted>>
  BY <1>3 DEF PushCall, AddPending, TrySendFull, EvictNothing, CountDropped, SubPending,
              NotifyDropped, histVars
<1>4. CASE recv
  BY <1>4 DEF recv
<1>5. CASE processed_one \/ (\E w \in Waiters : wait_empty(w)) \/ UNCHANGED vars
  BY <1>5 DEF processed_one, ProcessedSub, ProcessedNotify, wait_empty, WaitCall,
              LoadPending, Register, vars, histVars
<1> QED BY <1>1, <1>2, <1>3, <1>4, <1>5 DEF Next, push

(* Items in line differ. *)
LEMMA BeforeDiffers ==
    ASSUME NEW x \in Items, NEW y, Before(x, y)
    PROVE  x # y
<1>1. x[2] \in Nat
  BY MaxPushNat DEF Items
<1> QED BY <1>1 DEF Before

LEMMA LineStep ==
    ASSUME TypeOK, Fresh, PlaceInv, LineInv, [Next]_vars
    PROVE  PlaceInv' /\ LineInv'
<1>0. queue \in Seq(Items) /\ delivered \in Seq(Items)
      /\ (\A i \in DOMAIN queue : i \in Nat /\ i <= Len(queue) /\ queue[i] \in Range(queue))
      /\ (\A i \in DOMAIN delivered : i \in Nat /\ i <= Len(delivered)
                                        /\ delivered[i] \in Range(delivered))
      /\ Len(queue) \in Nat /\ Len(delivered) \in Nat
  BY DEF TypeOK, Range
<1>1. ASSUME NEW x \in Items, x \notin entered, \A y \in entered : Before(y, x),
             queue' = Append(queue, x), entered' = entered \cup {x},
             UNCHANGED <<delivered, evicted>>
      PROVE  PlaceInv' /\ LineInv'
  <2>1. Range(queue') = Range(queue) \cup {x}
        /\ \A i \in DOMAIN queue' : \/ i \in DOMAIN queue /\ queue'[i] = queue[i]
                                    \/ i = Len(queue) + 1 /\ queue'[i] = x
    BY <1>0, <1>1, RangeAppend
  <2>2. PlaceInv'
    BY <1>1, <2>1 DEF PlaceInv
  <2>3. \A i, j \in DOMAIN queue' : i < j => Before(queue'[i], queue'[j])
    <3> SUFFICES ASSUME NEW i \in DOMAIN queue', NEW j \in DOMAIN queue', i < j
                 PROVE  Before(queue'[i], queue'[j])
      OBVIOUS
    <3>1. i \in DOMAIN queue /\ queue'[i] = queue[i]
      BY <1>0, <2>1
    <3>2. CASE j \in DOMAIN queue /\ queue'[j] = queue[j]
      BY <3>1, <3>2 DEF LineInv
    <3>3. CASE queue'[j] = x
      BY <1>0, <1>1, <3>1, <3>3 DEF PlaceInv
    <3> QED BY <2>1, <3>2, <3>3
  <2>4. \A a \in Range(delivered'), y \in Range(queue') : Before(a, y)
    BY <1>1, <2>1 DEF LineInv, PlaceInv
  <2> QED BY <1>1, <2>2, <2>3, <2>4 DEF LineInv
<1>2. ASSUME queue # << >>, queue' = Tail(queue)
      PROVE  /\ Head(queue) \in Items /\ Range(queue) = {Head(queue)} \cup Range(queue')
             /\ (\A i, j \in DOMAIN queue' : i < j => Before(queue'[i], queue'[j]))
             /\ \A y \in Range(queue') : Before(Head(queue), y)
  <2>1. Head(queue) \in Items /\ Head(queue) = queue[1] /\ 1 \in DOMAIN queue
        /\ Range(queue) = {Head(queue)} \cup Range(queue')
        /\ \A i \in DOMAIN queue' : i \in Nat /\ i + 1 \in DOMAIN queue /\ 1 < i + 1
                                       /\ queue'[i] = queue[i + 1]
    BY <1>0, <1>2, RangeTail
  <2>2. \A i, j \in DOMAIN queue' : i < j => i + 1 < j + 1
    BY <2>1
  <2>3. \A i, j \in DOMAIN queue' : i < j => Before(queue'[i], queue'[j])
    BY <2>1, <2>2 DEF LineInv
  <2>4. \A i \in DOMAIN queue' : Before(queue[1], queue'[i])
    BY <2>1 DEF LineInv
  <2>5. \A y \in Range(queue') : \E i \in DOMAIN queue' : y = queue'[i]
    BY DEF Range
  <2> QED BY <2>1, <2>3, <2>4, <2>5
<1>3. ASSUME queue # << >>, queue' = Tail(queue),
             delivered' = Append(delivered, Head(queue)), UNCHANGED <<entered, evicted>>
      PROVE  PlaceInv' /\ LineInv'
  <2>1. Range(delivered') = Range(delivered) \cup {Head(queue)}
        /\ \A i \in DOMAIN delivered' :
              \/ i \in DOMAIN delivered /\ delivered'[i] = delivered[i]
              \/ i = Len(delivered) + 1 /\ delivered'[i] = Head(queue)
    BY <1>0, <1>2, <1>3, RangeAppend
  <2>2. PlaceInv'
    BY <1>2, <1>3, <2>1 DEF PlaceInv
  <2>3. \A i, j \in DOMAIN delivered' : i < j => Before(delivered'[i], delivered'[j])
    <3> SUFFICES ASSUME NEW i \in DOMAIN delivered', NEW j \in DOMAIN delivered', i < j
                 PROVE  Before(delivered'[i], delivered'[j])
      OBVIOUS
    <3>1. i \in DOMAIN delivered /\ delivered'[i] = delivered[i]
      BY <1>0, <2>1
    <3>2. CASE j \in DOMAIN delivered /\ delivered'[j] = delivered[j]
      BY <3>1, <3>2 DEF LineInv
    <3>3. CASE delivered'[j] = Head(queue)
      BY <1>0, <1>2, <1>3, <3>1, <3>3 DEF LineInv
    <3> QED BY <2>1, <3>2, <3>3
  <2>4. \A a \in Range(delivered'), y \in Range(queue') : Before(a, y)
    BY <1>2, <1>3, <2>1 DEF LineInv
  <2> QED BY <1>2, <1>3, <2>2, <2>3, <2>4 DEF LineInv
<1>4. ASSUME queue # << >>, queue' = Tail(queue),
             evicted' = evicted \cup {Head(queue)}, UNCHANGED <<entered, delivered>>
      PROVE  PlaceInv' /\ LineInv'
  <2>1. Head(queue) \notin Range(queue')
    BY <1>2, <1>4, BeforeDiffers
  <2>2. Head(queue) \notin Range(delivered)
    BY <1>2, <1>4, BeforeDiffers DEF LineInv
  <2>3. PlaceInv'
    BY <1>2, <1>4, <2>1, <2>2 DEF PlaceInv
  <2> QED BY <1>2, <1>4, <2>3 DEF LineInv
<1>5. CASE UNCHANGED <<queue, entered, delivered, evicted>>
  BY <1>5 DEF PlaceInv, LineInv
<1> QED BY <1>1, <1>3, <1>4, <1>5, ItemSteps

LEMMA InLine == Spec => [](TypeOK /\ PlaceInv /\ LineInv)
<1>1. Init => PlaceInv /\ LineInv
  BY DEF Init, PlaceInv, LineInv, Range
<1> QED BY <1>1, TypeCorrect, SentOnce, LineStep, PTL DEF Spec

(***************************************************************************)
(* No interleaving of pushes, evictions and the worker loses an item       *)
(* unnoticed or keeps it twice: each accepted item is in the channel,      *)
(* delivered or evicted, and only one of these.                            *)
(***************************************************************************)
THEOREM ItemsHaveOnePlace == Spec => []OnePlaceEach
<1>1. ASSUME TypeOK, PlaceInv, LineInv PROVE OnePlaceEach
  <2>1. (\A x \in Range(delivered) : x \in Items) /\ queue \in Seq(Items) /\ delivered \in Seq(Items)
    BY <1>1 DEF TypeOK, Range
  <2>2. Range(queue) \cap Range(delivered) = {}
    BY <1>1, <2>1, BeforeDiffers DEF LineInv
  <2>3. ASSUME NEW i \in DOMAIN queue, NEW j \in DOMAIN queue, queue[i] = queue[j]
        PROVE  i = j
    <3>1. queue[i] \in Items /\ i \in Nat /\ j \in Nat
      BY <2>1
    <3>2. \neg (i < j) /\ \neg (j < i)
      BY <1>1, <2>3, <3>1, BeforeDiffers DEF LineInv
    <3> QED BY <3>1, <3>2
  <2>4. ASSUME NEW i \in DOMAIN delivered, NEW j \in DOMAIN delivered,
               delivered[i] = delivered[j]
        PROVE  i = j
    <3>1. delivered[i] \in Items /\ i \in Nat /\ j \in Nat
      BY <2>1
    <3>2. \neg (i < j) /\ \neg (j < i)
      BY <1>1, <2>4, <3>1, BeforeDiffers DEF LineInv
    <3> QED BY <3>1, <3>2
  <2> QED BY <1>1, <2>2, <2>3, <2>4 DEF PlaceInv, OnePlaceEach
<1> QED BY <1>1, InLine, PTL

(***************************************************************************)
(* However many threads push at once and whatever is evicted, the worker   *)
(* gets the items of one producer in the order in which it pushed them.    *)
(***************************************************************************)
THEOREM ProducersKeepOrder == Spec => []ProducerOrder
<1>1. LineInv => ProducerOrder
  BY DEF LineInv, ProducerOrder, Before
<1> QED BY <1>1, InLine, PTL
================================================================================
