--------------------------- MODULE CQueryableProofs ---------------------------
(***************************************************************************)
(* What holds of a queryable of the C wrapper, for any number of threads,  *)
(* queries and server restarts.                                            *)
(***************************************************************************)
EXTENDS CQueryable, SequenceTheorems, TLAPS

(* The disjuncts of Next. *)
LEMMA NextSplit ==
    ASSUME [Next]_vars
    PROVE  \/ Arrive \/ ServerRestarts
           \/ DispatchTake \/ DispatchEnd \/ LoadNull \/ LoadPtr \/ DispatchPanics
           \/ DispatchInsert \/ CallbackReturns \/ DispatchRemove \/ DispatchFinish
           \/ \E r \in Runners, id \in Ids : Reply(r, id)
           \/ \E r \in Runners, id \in Ids : FinishRemove(r, id)
           \/ \E r \in Runners : FinishPush(r)
           \/ \E t \in Threads : RecvTake(t)
           \/ \E t \in Threads : RecvInsert(t)
           \/ DeclareReturns \/ UndeclareTake \/ UndeclareFinish \/ UndeclareNull
           \/ UndeclareClose \/ UndeclareFree
           \/ UNCHANGED vars
  BY DEF Next, DispatchStep, OwnerStep

LEMMA DispatcherRuns == Dispatcher \in Runners /\ Threads \subseteq Runners
  BY DEF Runners

(* What Push makes of the event queue: a queue of queries whose last element is the  *)
(* new one and whose other elements were queued before, in the same order.           *)
LEMMA PushProp ==
    ASSUME NEW s \in Seq(Query), NEW x \in Query
    PROVE  /\ Push(s, x) \in Seq(Query) /\ Push(s, x) # << >>
           /\ Push(s, x)[Len(Push(s, x))] = x
           /\ \E d \in {0, 1} : \A i \in 1..(Len(Push(s, x)) - 1) :
                 i + d \in DOMAIN s /\ Push(s, x)[i] = s[i + d]
<1>1. CASE Len(s) < Capacity
  <2>1. Push(s, x) = Append(s, x)
    BY <1>1 DEF Push
  <2>2. Append(s, x) \in Seq(Query) /\ Append(s, x) # << >> /\ Len(Append(s, x)) = Len(s) + 1
        /\ Append(s, x)[Len(s) + 1] = x /\ \A i \in 1..Len(s) : Append(s, x)[i] = s[i]
    OBVIOUS
  <2>3. \A i \in 1..(Len(Append(s, x)) - 1) :
           i + 0 \in DOMAIN s /\ Append(s, x)[i] = s[i + 0]
    BY <2>2
  <2> QED BY <2>1, <2>2, <2>3
<1>2. CASE ~(Len(s) < Capacity)
  <2>1. Len(s) # 0 /\ s # << >>
    BY <1>2, WrapperBounds
  <2>2. Push(s, x) = Append(Tail(s), x)
    BY <1>2 DEF Push
  <2>3. Tail(s) \in Seq(Query) /\ Len(Tail(s)) = Len(s) - 1
        /\ \A i \in 1..(Len(s) - 1) : Tail(s)[i] = s[i + 1]
    BY <2>1
  <2>4. \A i \in 1..(Len(Append(Tail(s), x)) - 1) :
           i + 1 \in DOMAIN s /\ Append(Tail(s), x)[i] = s[i + 1]
    BY <2>1, <2>3
  <2>5. Append(Tail(s), x)[Len(Append(Tail(s), x))] = x /\ Append(Tail(s), x) # << >>
        /\ Append(Tail(s), x) \in Seq(Query)
    <3> DEFINE u == Tail(s)
    <3>1. u \in Seq(Query)
      BY <2>3
    <3> HIDE DEF u
    <3>2. Append(u, x) \in Seq(Query) /\ Len(Append(u, x)) = Len(u) + 1
          /\ Append(u, x)[Len(u) + 1] = x /\ Append(u, x) # << >>
      BY <3>1
    <3> QED BY <3>2 DEF u
  <2> QED BY <2>2, <2>4, <2>5
<1> QED BY <1>1, <1>2

LEMMA TailProp ==
    ASSUME NEW s \in Seq(Query), s # << >>
    PROVE  /\ Tail(s) \in Seq(Query) /\ Head(s) \in Query /\ Head(s) = s[1]
           /\ 1 \in DOMAIN s
           /\ \A i \in DOMAIN Tail(s) : i + 1 \in DOMAIN s /\ Tail(s)[i] = s[i + 1]
  OBVIOUS

LEMMA NumbersType == \A S \in SUBSET Query : Numbers(S) \subseteq QueryNums
  BY DEF Numbers, Query

Labels == {"idle", "recv", "taken", "insert", "call", "cbfinish", "remove", "finish",
           "received", "ended"}

(* Every action keeps the types. *)
LEMMA TypeStep ==
    ASSUME TypeOK, [Next]_vars
    PROVE  TypeOK'
<1> USE DispatcherRuns
<1>0. WrapperBounds /\ \A id : Under(id) \subseteq map
  BY WrapperBounds DEF Under
<1>a. ASSUME Undefined PROVE TypeOK'
  BY <1>a DEF TypeOK, Undefined, env, life, run, hist
<1>1. CASE Arrive
  <2>1. [id |-> nextId, q |-> asked + 1] \in Query /\ asked + 1 \in 0..MaxQueries
    BY <1>1, WrapperBounds DEF Arrive, TypeOK, Query, QueryNums
  <2>2. events' \in Seq(Query)
    BY <1>1, <2>1, PushProp DEF Arrive, TypeOK
  <2>3. nextId' \in Nat \ {0} /\ asked' \in 0..MaxQueries
    BY <1>1, <2>1 DEF Arrive, TypeOK
  <2> QED BY <1>1, <2>2, <2>3 DEF Arrive, TypeOK, life, run, hist
<1>2. CASE ServerRestarts
  BY <1>2 DEF ServerRestarts, TypeOK, life, run, hist
<1>3. CASE DispatchTake
  <2>1. Tail(events) \in Seq(Query) /\ Head(events) \in Query
        /\ Head(events).q \in QueryNums
    BY <1>3, TailProp DEF DispatchTake, TypeOK, Query
  <2>2. hand' \in [Runners -> SUBSET Query] /\ taken' \subseteq QueryNums
        /\ seen' \subseteq QueryNums
    BY <1>3, <2>1 DEF DispatchTake, TypeOK, Hold
  <2>3. pc' \in [Runners -> Labels]
    BY <1>3 DEF DispatchTake, TypeOK, Goto, Labels
  <2> QED BY <1>3, <2>1, <2>2, <2>3 DEF DispatchTake, TypeOK, env, life, Labels
<1>4. CASE DispatchEnd
  BY <1>4 DEF DispatchEnd, DropArc, TypeOK, env, life, hist, Goto
<1>5. CASE LoadNull \/ DispatchPanics
  <2>1. Numbers(hand[Dispatcher]) \subseteq QueryNums
    BY NumbersType DEF TypeOK
  <2>2. pc' \in [Runners -> Labels] /\ hand' \in [Runners -> SUBSET Query]
    BY <1>5 DEF LoadNull, DispatchPanics, TypeOK, Labels, Goto, Hold
  <2>3. finished' \subseteq QueryNums
    BY <1>5, <2>1 DEF LoadNull, DispatchPanics, TypeOK
  <2>4. CASE LoadNull
    <3>1. UNCHANGED <<env, events, open, life, map, curId, arcs, drops, taken, seen, late,
                      undefined>>
      BY <2>4 DEF LoadNull
    <3> QED BY <2>2, <2>3, <3>1 DEF TypeOK, Labels, env, life
  <2>5. CASE DispatchPanics
    <3>1. UNCHANGED <<env, events, open, life, map, curId, arcs, drops, taken, seen, late,
                      undefined>>
      BY <2>5 DEF DispatchPanics
    <3> QED BY <2>2, <2>3, <3>1 DEF TypeOK, Labels, env, life
  <2> QED BY <1>5, <2>4, <2>5
<1>6. CASE LoadPtr
  BY <1>6 DEF LoadPtr, TypeOK, env, life, hist, Goto
<1>7. CASE DispatchInsert
  <2>1. ASSUME NEW x \in hand[Dispatcher], Insert(x)
        PROVE  x \in Query /\ x.id \in Nat /\ x.q \in QueryNums
               /\ map' \subseteq Query /\ finished' \subseteq QueryNums
    <3>1. Numbers(Under(x.id)) \subseteq QueryNums
      BY <1>0, NumbersType DEF TypeOK
    <3> QED BY <2>1, <3>1 DEF Insert, TypeOK, Query
  <2>2. CASE Undefined
    BY <2>2, <1>a
  <2>3. ASSUME NEW x \in hand[Dispatcher], Insert(x), ~Undefined,
               curId' = x.id, seen' = seen \cup {x.q}
        PROVE  map' \subseteq Query /\ finished' \subseteq QueryNums
               /\ seen' \subseteq QueryNums /\ curId' \in Nat
    BY <2>1, <2>3 DEF TypeOK
  <2>4. CASE ~Undefined
    <3>1. map' \subseteq Query /\ finished' \subseteq QueryNums
          /\ seen' \subseteq QueryNums /\ curId' \in Nat
      BY <1>7, <2>3, <2>4 DEF DispatchInsert
    <3>2. hand' \in [Runners -> SUBSET Query] /\ pc' \in [Runners -> Labels]
      <4>1. hand' = [hand EXCEPT ![Dispatcher] = {}] /\ pc' = [pc EXCEPT ![Dispatcher] = "call"]
        BY <1>7, <2>4 DEF DispatchInsert, Goto, Hold
      <4> QED BY <4>1 DEF TypeOK, Labels
    <3>3. UNCHANGED <<env, events, open, life, arcs, drops, taken, late, undefined>>
      BY <1>7, <2>4 DEF DispatchInsert
    <3> QED BY <3>1, <3>2, <3>3 DEF TypeOK, env, life, Labels
  <2> QED BY <2>2, <2>4
<1>8. CASE CallbackReturns
  BY <1>8 DEF CallbackReturns, TypeOK, env, life, hist, Goto
<1>9. CASE DispatchRemove
  <2>1. CASE Undefined
    BY <2>1, <1>a
  <2>2. CASE ~Undefined
    <3>1. hand' \in [Runners -> SUBSET Query] /\ map' \subseteq Query
      <4>1. hand' = [hand EXCEPT ![Dispatcher] = Under(curId)] /\ map' = map \ Under(curId)
        BY <1>9, <2>2 DEF DispatchRemove, Hold
      <4> QED BY <1>0, <4>1 DEF TypeOK
    <3>2. pc' \in [Runners -> Labels]
      <4>1. PICK l \in Labels : pc' = [pc EXCEPT ![Dispatcher] = l]
        BY <1>9, <2>2 DEF DispatchRemove, Goto, Labels
      <4> QED BY <4>1 DEF TypeOK, Labels
    <3>3. UNCHANGED <<env, events, open, life, curId, arcs, drops, hist, undefined>>
      BY <1>9, <2>2 DEF DispatchRemove
    <3> QED BY <3>1, <3>2, <3>3 DEF TypeOK, env, life, hist, Labels
  <2> QED BY <2>1, <2>2
<1>10. CASE DispatchFinish
  <2>1. Numbers(hand[Dispatcher]) \subseteq QueryNums
    BY NumbersType DEF TypeOK
  <2>2. CASE Undefined
    BY <2>2, <1>a
  <2>3. CASE ~Undefined
    <3>1. /\ hand' = [hand EXCEPT ![Dispatcher] = {}] /\ pc' = [pc EXCEPT ![Dispatcher] = "recv"]
          /\ finished' = finished \cup Numbers(hand[Dispatcher])
      BY <1>10, <2>3 DEF DispatchFinish, Goto, Hold
    <3>2. UNCHANGED <<env, events, open, life, map, curId, arcs, drops, taken, seen, late,
                      undefined>>
      BY <1>10, <2>3 DEF DispatchFinish
    <3> QED BY <2>1, <3>1, <3>2 DEF TypeOK, env, life
  <2> QED BY <2>2, <2>3
<1>11. ASSUME NEW r \in Runners, NEW id \in Ids, Reply(r, id) PROVE TypeOK'
  <2>1. CASE Undefined
    BY <2>1, <1>a
  <2>2. CASE ~Undefined
    <3>1. /\ late' \in BOOLEAN
          /\ UNCHANGED <<env, events, open, life, map, run, arcs, drops, taken, seen,
                         finished, undefined>>
      BY <1>11, <2>2 DEF Reply, TypeOK
    <3> QED BY <3>1 DEF TypeOK, env, life, run
  <2> QED BY <2>1, <2>2
<1>12. ASSUME NEW r \in Runners, NEW id \in Ids, FinishRemove(r, id) PROVE TypeOK'
  <2>1. CASE Undefined
    BY <2>1, <1>a
  <2>2. CASE ~Undefined
    <3>1. hand' \in [Runners -> SUBSET Query] /\ map' \subseteq Query
      <4>1. hand' = [hand EXCEPT ![r] = Under(id)] /\ map' = map \ Under(id)
        BY <1>12, <2>2 DEF FinishRemove, Hold
      <4> QED BY <1>0, <4>1 DEF TypeOK
    <3>2. pc' \in [Runners -> Labels]
      <4>1. PICK l \in Labels : pc' = [pc EXCEPT ![r] = l]
        BY <1>12, <2>2 DEF FinishRemove, Goto, Labels
      <4> QED BY <4>1 DEF TypeOK, Labels
    <3>3. UNCHANGED <<env, events, open, life, curId, arcs, drops, hist, undefined>>
      BY <1>12, <2>2 DEF FinishRemove
    <3> QED BY <3>1, <3>2, <3>3 DEF TypeOK, env, life, hist, Labels
  <2> QED BY <2>1, <2>2
<1>13. ASSUME NEW r \in Runners, FinishPush(r) PROVE TypeOK'
  <2>1. Numbers(hand[r]) \subseteq QueryNums
    BY NumbersType DEF TypeOK
  <2>2. CASE Undefined
    BY <2>2, <1>a
  <2>3. CASE ~Undefined
    <3>1. /\ hand' = [hand EXCEPT ![r] = {}]
          /\ finished' = finished \cup Numbers(hand[r])
      BY <1>13, <2>3 DEF FinishPush, Hold
    <3>2. PICK l \in {"call", "idle"} : pc' = [pc EXCEPT ![r] = l]
      BY <1>13, <2>3 DEF FinishPush, Goto
    <3>3. UNCHANGED <<env, events, open, life, map, curId, arcs, drops, taken, seen, late,
                      undefined>>
      BY <1>13, <2>3 DEF FinishPush
    <3> QED BY <2>1, <3>1, <3>2, <3>3 DEF TypeOK, env, life
  <2> QED BY <2>2, <2>3
<1>14. ASSUME NEW t \in Threads, RecvTake(t) PROVE TypeOK'
  <2>1. Tail(events) \in Seq(Query) /\ Head(events) \in Query
        /\ Head(events).q \in QueryNums
    BY <1>14, TailProp DEF RecvTake, TypeOK, Query
  <2>2. hand' \in [Runners -> SUBSET Query] /\ taken' \subseteq QueryNums
    BY <1>14, <2>1 DEF RecvTake, TypeOK, Hold
  <2>3. pc' \in [Runners -> Labels]
    BY <1>14 DEF RecvTake, TypeOK, Goto, Labels
  <2> QED BY <1>14, <2>1, <2>2, <2>3 DEF RecvTake, TypeOK, env, life, Labels
<1>15. ASSUME NEW t \in Threads, RecvInsert(t) PROVE TypeOK'
  <2>1. ASSUME NEW x \in hand[t], Insert(x)
        PROVE  map' \subseteq Query /\ finished' \subseteq QueryNums
    <3>1. Numbers(Under(x.id)) \subseteq QueryNums
      BY <1>0, NumbersType DEF TypeOK
    <3> QED BY <2>1, <3>1 DEF Insert, TypeOK, Query
  <2> QED BY <1>15, <2>1 DEF RecvInsert, TypeOK, env, life, Goto, Hold
<1>16. CASE DeclareReturns
  BY <1>16 DEF DeclareReturns, TypeOK, env, run, hist
<1>17. CASE UndeclareTake
  BY <1>17 DEF UndeclareTake, TypeOK, env, run, hist
<1>18. CASE UndeclareFinish
  BY <1>18 DEF UndeclareFinish, TypeOK, env, run, Query
<1>19. CASE UndeclareNull
  BY <1>19 DEF UndeclareNull, UsingPtr, TypeOK, env, run, hist
<1>20. CASE UndeclareClose
  BY <1>20 DEF UndeclareClose, TypeOK, env, run, hist
<1>21. CASE UndeclareFree
  <2>1. Numbers(map) \subseteq QueryNums
    BY NumbersType DEF TypeOK
  <2> QED BY <1>21, <2>1 DEF UndeclareFree, DropArc, TypeOK, env, run
<1>22. CASE UNCHANGED vars
  BY <1>22 DEF TypeOK, vars, env, life, run, hist
<1> QED
  BY <1>1, <1>2, <1>3, <1>4, <1>5, <1>6, <1>7, <1>8, <1>9, <1>10, <1>11, <1>12, <1>13,
     <1>14, <1>15, <1>16, <1>17, <1>18, <1>19, <1>20, <1>21, <1>22, NextSplit

LEMMA TypeInit == Init => TypeOK
<1> SUFFICES ASSUME Init PROVE TypeOK
  OBVIOUS
<1>1. << >> \in Seq(Query)
  OBVIOUS
<1>2. pc \in [Runners -> Labels] /\ hand \in [Runners -> SUBSET Query]
  BY DEF Init, Labels
<1>3. asked \in 0..MaxQueries /\ nextId \in Nat \ {0} /\ restarts \in Nat
  BY WrapperBounds DEF Init
<1> QED BY <1>1, <1>2, <1>3 DEF Init, TypeOK, Labels

(* The wrapper's state keeps its types in every behaviour: queries, ids, the places   *)
(* they are held in and the labels of the threads.                                    *)
THEOREM TypeCorrect == Spec => []TypeOK
<1> QED BY TypeInit, TypeStep, PTL DEF Spec

-------------------------------------------------------------------------------
(* Lifetimes: of the queryable and of the callback's context *)

(* Which threads may be where, given how far the declaring thread has come; who      *)
(* still uses self_ptr once it has been taken back; and who owns the context.         *)
Inside == {"insert", "call", "cbfinish", "remove", "finish"}
Owners ==
    IF kind = "pull" THEN {}
    ELSE (IF pc[Dispatcher] = "ended" THEN {} ELSE {"closure"})
            \cup (IF pcM = "gone" THEN {} ELSE {"object"})
LifeInv ==
    /\ kind = "pull" => pc[Dispatcher] = "idle" /\ ~ptr
    /\ kind = "callback" => pc[Dispatcher] \notin {"idle", "received"}
    /\ kind = "subscriber" => pc[Dispatcher] \in {"recv", "call", "ended"}
    /\ \A t \in Threads :
          /\ pc[t] \in {"idle", "finish", "received"}
          /\ pc[t] # "idle" => pcM = "ready"
    /\ box = "freed" <=> pcM = "gone"
    /\ pcM \in {"inner", "free", "gone"} =>
          ~ptr /\ (kind = "callback" /\ pc[Dispatcher] \in Inside => overlap)
    /\ arcs = Owners
    /\ drops = IF kind # "pull" /\ arcs = {} THEN 1 ELSE 0
    /\ undefined => overlap

LEMMA LifeInit == Init => LifeInv
<1> SUFFICES ASSUME Init PROVE LifeInv
  OBVIOUS
<1>1. \A t \in Threads : pc[t] = "idle"
  BY DispatcherRuns, DispatcherApart DEF Init
<1>2. pc[Dispatcher] = IF kind # "pull" THEN "recv" ELSE "idle"
  BY DispatcherRuns DEF Init
<1>3. arcs = Owners /\ drops = 0 /\ (kind # "pull" => arcs # {})
  <2>1. CASE kind = "pull"
    BY <2>1 DEF Init, Owners
  <2>2. CASE kind # "pull"
    BY <2>2, <1>2 DEF Init, Owners
  <2> QED BY <2>1, <2>2
<1>4. kind \in {"pull", "callback", "subscriber"} /\ pcM = "declare" /\ box = "none"
      /\ ~ptr /\ ~undefined
  BY DEF Init
<1> QED BY <1>1, <1>2, <1>3, <1>4 DEF LifeInv

LEMMA LifeStep ==
    ASSUME TypeOK, LifeInv, [Next]_vars
    PROVE  LifeInv'
<1> USE DispatcherRuns, DispatcherApart
<1>t. pc \in [Runners -> Labels]
  BY DEF TypeOK, Labels
\* Using the queryable when it is freed: only a dispatcher that overlaps undeclare.
<1>a. ASSUME Undefined, kind = "callback", pc[Dispatcher] \in Inside PROVE LifeInv'
  BY <1>a DEF LifeInv, Undefined, Dangling, Owners, env, life, run
\* A step that changes only the table, the queue or the histories.
<1>b. ASSUME UNCHANGED <<kind, pcM, box, ptr, overlap, pc, arcs, drops, undefined>>
      PROVE  LifeInv'
  BY <1>b DEF LifeInv, Owners
\* A step of the dispatcher to a label that is not the end.
<1>c. ASSUME NEW l, Goto(Dispatcher, l), pc[Dispatcher] # "ended",
             l \in Labels \ {"idle", "received", "ended"}, kind # "pull",
             kind = "subscriber" => l \in {"recv", "call"},
             l \in Inside => kind = "subscriber" \/ pc[Dispatcher] \in Inside \/ ptr,
             UNCHANGED <<kind, pcM, box, ptr, overlap, arcs, drops, undefined>>
      PROVE  LifeInv'
  <2>1. pc'[Dispatcher] = l /\ \A t \in Threads : pc'[t] = pc[t]
    BY <1>c, <1>t DEF Goto
  <2> QED BY <1>c, <2>1 DEF LifeInv, Owners
\* A step of one of the application's threads.
<1>d. ASSUME NEW t \in Threads, NEW l \in {"idle", "finish", "received"}, Goto(t, l),
             pcM = "ready",
             UNCHANGED <<kind, pcM, box, ptr, overlap, arcs, drops, undefined>>
      PROVE  LifeInv'
  <2>1. pc'[Dispatcher] = pc[Dispatcher] /\ pc'[t] = l
        /\ \A u \in Threads : u # t => pc'[u] = pc[u]
    BY <1>d, <1>t DEF Goto
  <2> QED BY <1>d, <2>1 DEF LifeInv, Owners
<1>1. CASE Arrive
  BY <1>1, <1>b DEF Arrive, life, run
<1>2. CASE ServerRestarts
  BY <1>2, <1>b DEF ServerRestarts, life, run
<1>3. CASE DispatchTake
  <2>1. CASE kind = "callback" /\ Goto(Dispatcher, "taken")
    BY <1>3, <2>1, <1>c DEF DispatchTake, At, env, life, Labels, Inside
  <2>2. CASE kind = "subscriber" /\ Goto(Dispatcher, "call")
    BY <1>3, <2>2, <1>c DEF DispatchTake, At, env, life, Labels
  <2>3. CASE kind = "subscriber" /\ Goto(Dispatcher, "recv")
    BY <1>3, <2>3, <1>c DEF DispatchTake, At, env, life, Labels
  <2> QED BY <1>3, <2>1, <2>2, <2>3 DEF DispatchTake
<1>4. CASE DispatchEnd
  <2>1. pc[Dispatcher] = "recv" /\ pc'[Dispatcher] = "ended" /\ kind # "pull"
        /\ \A t \in Threads : pc'[t] = pc[t]
    BY <1>4, <1>t DEF DispatchEnd, At, Goto, LifeInv
  <2>2. arcs' = Owners' /\ drops' = IF kind' # "pull" /\ arcs' = {} THEN 1 ELSE 0
    BY <1>4, <2>1 DEF DispatchEnd, DropArc, LifeInv, Owners, env, life
  <2> QED BY <1>4, <2>1, <2>2 DEF DispatchEnd, LifeInv, Inside, env, life
<1>5. CASE LoadNull \/ DispatchPanics
  <2>1. kind = "callback"
    BY <1>5 DEF LoadNull, DispatchPanics, At, LifeInv, TypeOK
  <2> QED BY <1>5, <2>1, <1>c DEF LoadNull, DispatchPanics, At, env, life, Labels, Inside
<1>6. CASE LoadPtr
  <2>1. kind = "callback"
    BY <1>6 DEF LoadPtr, At, LifeInv, TypeOK
  <2> QED BY <1>6, <2>1, <1>c DEF LoadPtr, At, env, life, Labels
<1>7. CASE DispatchInsert
  <2>1. kind = "callback" /\ pc[Dispatcher] = "insert"
    BY <1>7 DEF DispatchInsert, At, LifeInv, TypeOK
  <2> QED BY <1>7, <2>1, <1>a, <1>c DEF DispatchInsert, env, life, Labels, Inside
<1>8. CASE CallbackReturns
  <2>1. kind # "pull" /\ pc[Dispatcher] = "call"
    BY <1>8 DEF CallbackReturns, At, LifeInv
  <2> QED BY <1>8, <2>1, <1>c DEF CallbackReturns, env, life, Labels, Inside
<1>9. CASE DispatchRemove
  <2>1. kind = "callback" /\ pc[Dispatcher] = "remove"
    BY <1>9 DEF DispatchRemove, At, LifeInv, TypeOK
  <2> QED BY <1>9, <2>1, <1>a, <1>c DEF DispatchRemove, env, life, Labels, Inside
<1>10. CASE DispatchFinish
  <2>1. kind = "callback" /\ pc[Dispatcher] = "finish"
    BY <1>10 DEF DispatchFinish, At, LifeInv, TypeOK
  <2> QED BY <1>10, <2>1, <1>a, <1>c DEF DispatchFinish, env, life, Labels, Inside
<1>r. ASSUME NEW r \in Runners, MayCall(r)
      PROVE  \/ r = Dispatcher /\ kind = "callback" /\ pc[r] = "call"
             \/ r \in Threads /\ pcM = "ready" /\ pc[r] = "idle" /\ ~Dangling
  BY <1>r DEF MayCall, At, LifeInv, Dangling
<1>11. ASSUME NEW r \in Runners, NEW id \in Ids, Reply(r, id) PROVE LifeInv'
  BY <1>11, <1>r, <1>a, <1>b DEF Reply, Undefined, Inside, env, life, run
<1>12. ASSUME NEW r \in Runners, NEW id \in Ids, FinishRemove(r, id) PROVE LifeInv'
  <2>1. CASE r = Dispatcher
    <3>1. kind = "callback" /\ pc[Dispatcher] = "call"
      BY <1>12, <1>r, <2>1 DEF FinishRemove
    <3> QED BY <1>12, <2>1, <3>1, <1>a, <1>c DEF FinishRemove, env, life, Labels, Inside
  <2>2. CASE r # Dispatcher
    <3>1. r \in Threads /\ pcM = "ready" /\ ~Dangling
      BY <1>12, <1>r, <2>2 DEF FinishRemove
    <3> QED BY <1>12, <2>2, <3>1, <1>d DEF FinishRemove, Undefined, env, life
  <2> QED BY <2>1, <2>2
<1>13. ASSUME NEW r \in Runners, FinishPush(r) PROVE LifeInv'
  <2>1. CASE r = Dispatcher
    <3>1. kind = "callback" /\ pc[Dispatcher] = "cbfinish"
      BY <1>13, <2>1 DEF FinishPush, At, LifeInv, TypeOK
    <3> QED BY <1>13, <2>1, <3>1, <1>a, <1>c DEF FinishPush, env, life, Labels, Inside
  <2>2. CASE r # Dispatcher
    <3>1. r \in Threads /\ pcM = "ready" /\ ~Dangling
      BY <1>13, <2>2 DEF FinishPush, At, LifeInv, Dangling, Runners
    <3> QED BY <1>13, <2>2, <3>1, <1>d DEF FinishPush, Undefined, env, life
  <2> QED BY <2>1, <2>2
<1>14. ASSUME NEW t \in Threads, RecvTake(t) PROVE LifeInv'
  <2>1. pcM = "ready"
    BY <1>14, <1>r DEF RecvTake
  <2> QED BY <1>14, <2>1, <1>d DEF RecvTake, env, life
<1>15. ASSUME NEW t \in Threads, RecvInsert(t) PROVE LifeInv'
  <2>1. pcM = "ready"
    BY <1>15 DEF RecvInsert, At, LifeInv
  <2> QED BY <1>15, <2>1, <1>d DEF RecvInsert, env, life
<1>16. CASE DeclareReturns
  BY <1>16 DEF DeclareReturns, LifeInv, Owners, env, run
<1>17. CASE UndeclareTake
  BY <1>17 DEF UndeclareTake, LifeInv, Owners, env, run
<1>18. CASE UndeclareFinish
  BY <1>18, <1>b DEF UndeclareFinish, env, run
<1>19. CASE UndeclareNull
  BY <1>19 DEF UndeclareNull, UsingPtr, LifeInv, Owners, Inside, env, run
<1>20. CASE UndeclareClose
  BY <1>20 DEF UndeclareClose, LifeInv, Owners, env, run
<1>21. CASE UndeclareFree
  <2>1. arcs' = Owners' /\ drops' = IF kind' # "pull" /\ arcs' = {} THEN 1 ELSE 0
    BY <1>21 DEF UndeclareFree, DropArc, LifeInv, Owners, env, run
  <2> QED BY <1>21, <2>1 DEF UndeclareFree, LifeInv, env, run
<1>22. CASE UNCHANGED vars
  BY <1>22, <1>b DEF vars, env, life, run
<1> QED
  BY <1>1, <1>2, <1>3, <1>4, <1>5, <1>6, <1>7, <1>8, <1>9, <1>10, <1>11, <1>12, <1>13,
     <1>14, <1>15, <1>16, <1>17, <1>18, <1>19, <1>20, <1>21, <1>22, NextSplit

(* The dispatcher uses a freed queryable only if it was inside the closure when       *)
(* zgrpc_queryable_undeclare took self_ptr back.                                      *)
THEOREM FreedUseIsOverlap == Spec => []DanglingOnlyIfOverlap
<1>1. TypeOK /\ LifeInv => DanglingOnlyIfOverlap
  BY DEF LifeInv, DanglingOnlyIfOverlap
<1> QED BY <1>1, TypeInit, TypeStep, LifeInit, LifeStep, PTL DEF Spec

(* on_drop is called at most once, after undeclare and after the last callback: the   *)
(* callback state is dropped with the later of its two owners.                        *)
THEOREM ContextSafe == Spec => []ContextOutlivesCallbacks
<1>1. TypeOK /\ LifeInv => ContextOutlivesCallbacks
  BY DEF LifeInv, Owners, ContextOutlivesCallbacks
<1> QED BY <1>1, TypeInit, TypeStep, LifeInit, LifeStep, PTL DEF Spec
-------------------------------------------------------------------------------
(* Where the queries are *)

(* A set of queries holds no two of the same number. *)
Single(S) == \A x, y \in S : x.q = y.q => x = y

(* Nothing that S holds is held in T. *)
Apart(S, T) == \A x \in S, y \in T : x.q # y.q

(* Nothing that S holds is finished, and all of it has left the queue. *)
Open(S) == \A x \in S : x.q \in taken /\ x.q \notin finished

Has(S, q) == \E x \in S : x.q = q

(* The queue holds queries that are new: of different numbers, not yet taken, and     *)
(* none from the future.                                                              *)
QueueInv ==
    /\ \A i, j \in DOMAIN events : events[i].q = events[j].q => i = j
    /\ \A i \in DOMAIN events : events[i].q \notin taken /\ events[i].q <= asked
    /\ \A q \in taken : q <= asked

(* A thread has one query in its hands at the labels where it has received one, and   *)
(* none where it is about to receive or to take one; undeclare's batch is empty       *)
(* before it takes the table.                                                         *)
HandInv ==
    /\ \A r \in Runners :
          /\ pc[r] \in {"taken", "insert", "received"} => \E x \in Query : hand[r] = {x}
          /\ pc[r] \in {"idle", "recv", "call", "remove", "ended"} => hand[r] = {}
    /\ pcM # "finishing" => batch = {}

PlaceInv ==
    /\ Single(map) /\ Single(batch) /\ Apart(map, batch)
    /\ Open(map) /\ Open(batch)
    /\ \A r \in Runners :
          /\ Single(hand[r]) /\ Apart(hand[r], map) /\ Apart(hand[r], batch) /\ Open(hand[r])
          /\ \A s \in Runners \ {r} : Apart(hand[r], hand[s])
    /\ finished \subseteq taken
    /\ \A q \in taken :
          q \in finished \/ Has(map, q) \/ Has(batch, q) \/ \E r \in Runners : Has(hand[r], q)

LEMMA QueueInit == Init => QueueInv
  BY DEF Init, QueueInv

LEMMA HandInit == Init => HandInv
<1> SUFFICES ASSUME Init PROVE HandInv
  OBVIOUS
<1>1. \A r \in Runners : hand[r] = {} /\ pc[r] \in {"recv", "idle"}
  BY DEF Init
<1> QED BY <1>1 DEF Init, HandInv

LEMMA PlaceInit == Init => PlaceInv
  BY DEF Init, PlaceInv, Single, Apart, Open

(* Taking the first event keeps the queue's rules. *)
LEMMA QueueTake ==
    ASSUME TypeOK, QueueInv, events # << >>, events' = Tail(events), asked' = asked,
           taken' = taken \/ taken' = taken \cup {Head(events).q}
    PROVE  QueueInv'
<1>1. \A i \in DOMAIN events' : i \in Nat /\ i + 1 \in DOMAIN events /\ events'[i] = events[i + 1]
      /\ i + 1 # 1
  BY TailProp DEF TypeOK
<1>2. Head(events) = events[1] /\ 1 \in DOMAIN events
  BY TailProp DEF TypeOK
<1>3. \A i, j \in DOMAIN events' : events'[i].q = events'[j].q => i = j
  BY <1>1 DEF QueueInv
<1>4. \A i \in DOMAIN events' : events'[i].q \notin taken' /\ events'[i].q <= asked'
  BY <1>1, <1>2 DEF QueueInv
<1>5. \A q \in taken' : q <= asked'
  BY <1>2 DEF QueueInv
<1> QED BY <1>3, <1>4, <1>5 DEF QueueInv

LEMMA QueueStep ==
    ASSUME TypeOK, QueueInv, [Next]_vars
    PROVE  QueueInv'
<1>a. ASSUME UNCHANGED <<events, asked, taken>> PROVE QueueInv'
  BY <1>a DEF QueueInv
<1>b. ASSUME Undefined PROVE QueueInv'
  BY <1>a, <1>b DEF Undefined, env, hist
<1>1. CASE Arrive
  <2> DEFINE x == [id |-> nextId, q |-> asked + 1]
  <2>1. x \in Query /\ asked' = asked + 1 /\ taken' = taken /\ events' = Push(events, x)
        /\ asked \in Nat
    BY <1>1, WrapperBounds DEF Arrive, TypeOK, Query, QueryNums, hist
  <2>2. x.q = asked + 1
    OBVIOUS
  <2> HIDE DEF x
  <2>3. events' \in Seq(Query) /\ events' # << >> /\ events'[Len(events')] = x
    BY <2>1, PushProp DEF TypeOK
  <2>4. PICK d \in {0, 1} : \A i \in 1..(Len(events') - 1) :
           i + d \in DOMAIN events /\ events'[i] = events[i + d]
    <3>1. events \in Seq(Query)
      BY DEF TypeOK
    <3>2. \E d \in {0, 1} : \A i \in 1..(Len(Push(events, x)) - 1) :
             i + d \in DOMAIN events /\ Push(events, x)[i] = events[i + d]
      BY <2>1, <3>1, PushProp, Zenon
    <3> QED BY <2>1, <3>2, Zenon
  <2>5. \A i \in DOMAIN events' : i = Len(events') \/ i \in 1..(Len(events') - 1)
    BY <2>3
  <2>6. \A q \in taken : q \in Nat /\ q <= asked
    BY WrapperBounds DEF QueueInv, TypeOK, QueryNums
  <2>7. \A i \in DOMAIN events : events[i].q \in Nat /\ events[i].q <= asked
    <3>1. events \in Seq(Query) /\ \A y \in Query : y.q \in Nat
      BY WrapperBounds DEF TypeOK, Query, QueryNums
    <3>2. \A i \in DOMAIN events : events[i] \in Query
      BY <3>1
    <3> QED BY <3>1, <3>2 DEF QueueInv
  <2>8. \A i \in DOMAIN events' : events'[i].q \notin taken' /\ events'[i].q <= asked'
    <3> SUFFICES ASSUME NEW i \in DOMAIN events'
                 PROVE  events'[i].q \notin taken' /\ events'[i].q <= asked'
      OBVIOUS
    <3>1. CASE i = Len(events')
      BY <3>1, <2>1, <2>2, <2>3, <2>6
    <3>2. CASE i \in 1..(Len(events') - 1)
      BY <3>2, <2>1, <2>4, <2>7 DEF QueueInv
    <3> QED BY <3>1, <3>2, <2>5
  <2>9. \A i, j \in DOMAIN events' : events'[i].q = events'[j].q => i = j
    <3> SUFFICES ASSUME NEW i \in DOMAIN events', NEW j \in DOMAIN events',
                        events'[i].q = events'[j].q
                 PROVE  i = j
      OBVIOUS
    <3>1. CASE i = Len(events') /\ j \in 1..(Len(events') - 1)
      BY <3>1, <2>1, <2>2, <2>3, <2>4, <2>7
    <3>2. CASE j = Len(events') /\ i \in 1..(Len(events') - 1)
      BY <3>2, <2>1, <2>2, <2>3, <2>4, <2>7
    <3>3. CASE i \in 1..(Len(events') - 1) /\ j \in 1..(Len(events') - 1)
      <4>1. i + d = j + d
        BY <3>3, <2>4 DEF QueueInv
      <4> QED BY <3>3, <4>1
    <3> QED BY <3>1, <3>2, <3>3, <2>5
  <2>10. \A q \in taken' : q <= asked'
    BY <2>1, <2>6
  <2> QED BY <2>8, <2>9, <2>10 DEF QueueInv
<1>2. CASE ServerRestarts
  BY <1>2, <1>a DEF ServerRestarts, hist
<1>3. CASE DispatchTake
  BY <1>3, QueueTake DEF DispatchTake, env
<1>4. CASE DispatchEnd
  BY <1>4, <1>a DEF DispatchEnd, env, hist
<1>5. CASE LoadNull \/ DispatchPanics
  BY <1>5, <1>a DEF LoadNull, DispatchPanics, env
<1>6. CASE LoadPtr
  BY <1>6, <1>a DEF LoadPtr, env, hist
<1>7. CASE DispatchInsert
  BY <1>7, <1>a, <1>b DEF DispatchInsert, env
<1>8. CASE CallbackReturns
  BY <1>8, <1>a DEF CallbackReturns, env, hist
<1>9. CASE DispatchRemove
  BY <1>9, <1>a, <1>b DEF DispatchRemove, env, hist
<1>10. CASE DispatchFinish
  BY <1>10, <1>a, <1>b DEF DispatchFinish, env
<1>11. ASSUME NEW r \in Runners, NEW id \in Ids, Reply(r, id) PROVE QueueInv'
  BY <1>11, <1>a, <1>b DEF Reply, env
<1>12. ASSUME NEW r \in Runners, NEW id \in Ids, FinishRemove(r, id) PROVE QueueInv'
  BY <1>12, <1>a, <1>b DEF FinishRemove, env, hist
<1>13. ASSUME NEW r \in Runners, FinishPush(r) PROVE QueueInv'
  BY <1>13, <1>a, <1>b DEF FinishPush, env
<1>14. ASSUME NEW t \in Threads, RecvTake(t) PROVE QueueInv'
  BY <1>14, QueueTake DEF RecvTake, env
<1>15. ASSUME NEW t \in Threads, RecvInsert(t) PROVE QueueInv'
  BY <1>15, <1>a DEF RecvInsert, env
<1>16. CASE DeclareReturns
  BY <1>16, <1>a DEF DeclareReturns, env, hist
<1>17. CASE UndeclareTake
  BY <1>17, <1>a DEF UndeclareTake, env, hist
<1>18. CASE UndeclareFinish
  BY <1>18, <1>a DEF UndeclareFinish, env
<1>19. CASE UndeclareNull
  BY <1>19, <1>a DEF UndeclareNull, env, hist
<1>20. CASE UndeclareClose
  BY <1>20, <1>a DEF UndeclareClose, env, hist
<1>21. CASE UndeclareFree
  BY <1>21, <1>a DEF UndeclareFree, env
<1>22. CASE UNCHANGED vars
  BY <1>22, <1>a DEF vars, env, hist
<1> QED
  BY <1>1, <1>2, <1>3, <1>4, <1>5, <1>6, <1>7, <1>8, <1>9, <1>10, <1>11, <1>12, <1>13,
     <1>14, <1>15, <1>16, <1>17, <1>18, <1>19, <1>20, <1>21, <1>22, NextSplit
LEMMA HandStep ==
    ASSUME TypeOK, LifeInv, HandInv, [Next]_vars
    PROVE  HandInv'
<1> USE DispatcherRuns
<1>t. pc \in [Runners -> Labels] /\ hand \in [Runners -> SUBSET Query]
  BY DEF TypeOK, Labels
<1>a. ASSUME UNCHANGED <<pc, hand, pcM, batch>> PROVE HandInv'
  BY <1>a DEF HandInv
<1>b. ASSUME Undefined PROVE HandInv'
  BY <1>a, <1>b DEF Undefined, life, run
\* One thread moves to a label that fits what it then has in its hands.
<1>c. ASSUME NEW r \in Runners, NEW l, Goto(r, l), NEW S, hand'[r] = S,
             \A s \in Runners \ {r} : hand'[s] = hand[s],
             l \in {"taken", "insert", "received"} => \E x \in Query : S = {x},
             l \in {"idle", "recv", "call", "remove", "ended"} => S = {},
             UNCHANGED <<pcM, batch>>
      PROVE  HandInv'
  <2>1. pc'[r] = l /\ \A s \in Runners \ {r} : pc'[s] = pc[s]
    BY <1>c, <1>t DEF Goto
  <2> QED BY <1>c, <2>1 DEF HandInv
<1>h. ASSUME NEW r \in Runners, NEW S, Hold(r, S)
      PROVE  hand'[r] = S /\ \A s \in Runners \ {r} : hand'[s] = hand[s]
  BY <1>h, <1>t DEF Hold
<1>1. CASE Arrive
  BY <1>1, <1>a DEF Arrive, life, run
<1>2. CASE ServerRestarts
  BY <1>2, <1>a DEF ServerRestarts, life, run
<1>3. CASE DispatchTake
  <2>1. Head(events) \in Query /\ hand[Dispatcher] = {}
    BY <1>3, TailProp DEF DispatchTake, TypeOK, HandInv, At
  <2>2. CASE Goto(Dispatcher, "taken") /\ Hold(Dispatcher, {Head(events)})
    BY <1>3, <2>1, <2>2, <1>c, <1>h DEF DispatchTake, life
  <2>3. CASE Goto(Dispatcher, "call") /\ UNCHANGED hand
    BY <1>3, <2>1, <2>3, <1>c DEF DispatchTake, life
  <2>4. CASE Goto(Dispatcher, "recv") /\ UNCHANGED hand
    BY <1>3, <2>1, <2>4, <1>c DEF DispatchTake, life
  <2> QED BY <1>3, <2>2, <2>3, <2>4 DEF DispatchTake
<1>4. CASE DispatchEnd
  <2>1. hand[Dispatcher] = {}
    BY <1>4 DEF DispatchEnd, HandInv, At
  <2> QED BY <1>4, <2>1, <1>c DEF DispatchEnd, life
<1>5. CASE LoadNull \/ DispatchPanics
  BY <1>5, <1>c, <1>h DEF LoadNull, DispatchPanics, life
<1>6. CASE LoadPtr
  <2>1. \E x \in Query : hand[Dispatcher] = {x}
    BY <1>6 DEF LoadPtr, HandInv, At
  <2> QED BY <1>6, <2>1, <1>c DEF LoadPtr, life
<1>7. CASE DispatchInsert
  BY <1>7, <1>b, <1>c, <1>h DEF DispatchInsert, life
<1>8. CASE CallbackReturns
  <2>1. hand[Dispatcher] = {}
    BY <1>8 DEF CallbackReturns, HandInv, At
  <2> QED BY <1>8, <2>1, <1>c DEF CallbackReturns, life
<1>9. CASE DispatchRemove
  <2>1. CASE Undefined
    BY <2>1, <1>b
  <2>2. CASE ~Undefined /\ Under(curId) = {}
    BY <1>9, <2>2, <1>c, <1>h DEF DispatchRemove, life
  <2>3. CASE ~Undefined /\ Under(curId) # {}
    BY <1>9, <2>3, <1>c, <1>h DEF DispatchRemove, life
  <2> QED BY <2>1, <2>2, <2>3
<1>10. CASE DispatchFinish
  BY <1>10, <1>b, <1>c, <1>h DEF DispatchFinish, life
<1>11. ASSUME NEW r \in Runners, NEW id \in Ids, Reply(r, id) PROVE HandInv'
  BY <1>11, <1>a, <1>b DEF Reply, life, run
<1>12. ASSUME NEW r \in Runners, NEW id \in Ids, FinishRemove(r, id) PROVE HandInv'
  <2>1. CASE Undefined
    BY <2>1, <1>b
  <2>2. CASE ~Undefined
    <3>1. Goto(r, IF r = Dispatcher THEN "cbfinish" ELSE "finish") /\ Hold(r, Under(id))
          /\ UNCHANGED <<pcM, batch>>
      BY <1>12, <2>2 DEF FinishRemove, life
    <3> QED BY <3>1, <1>c, <1>h
  <2> QED BY <2>1, <2>2
<1>13. ASSUME NEW r \in Runners, FinishPush(r) PROVE HandInv'
  <2>1. CASE Undefined
    BY <2>1, <1>b
  <2>2. CASE ~Undefined
    <3>1. Goto(r, IF r = Dispatcher THEN "call" ELSE "idle") /\ Hold(r, {})
          /\ UNCHANGED <<pcM, batch>>
      BY <1>13, <2>2 DEF FinishPush, life
    <3> QED BY <3>1, <1>c, <1>h
  <2> QED BY <2>1, <2>2
<1>14. ASSUME NEW t \in Threads, RecvTake(t) PROVE HandInv'
  <2>1. Head(events) \in Query
    BY <1>14, TailProp DEF RecvTake, TypeOK
  <2> QED BY <1>14, <2>1, <1>c, <1>h DEF RecvTake, life
<1>15. ASSUME NEW t \in Threads, RecvInsert(t) PROVE HandInv'
  BY <1>15, <1>c, <1>h DEF RecvInsert, life
<1>16. CASE DeclareReturns
  BY <1>16 DEF DeclareReturns, HandInv, run
<1>17. CASE UndeclareTake
  BY <1>17 DEF UndeclareTake, HandInv, run
<1>18. CASE UndeclareFinish
  BY <1>18 DEF UndeclareFinish, HandInv, run
<1>19. CASE UndeclareNull
  BY <1>19 DEF UndeclareNull, HandInv, run
<1>20. CASE UndeclareClose
  BY <1>20 DEF UndeclareClose, HandInv, run
<1>21. CASE UndeclareFree
  BY <1>21 DEF UndeclareFree, HandInv, run
<1>22. CASE UNCHANGED vars
  BY <1>22, <1>a DEF vars, life, run
<1> QED
  BY <1>1, <1>2, <1>3, <1>4, <1>5, <1>6, <1>7, <1>8, <1>9, <1>10, <1>11, <1>12, <1>13,
     <1>14, <1>15, <1>16, <1>17, <1>18, <1>19, <1>20, <1>21, <1>22, NextSplit

(* The ways in which a query changes its place. *)
LEMMA NumbersHas == \A S, q : q \in Numbers(S) <=> Has(S, q)
  BY DEF Numbers, Has

LEMMA MoveTake ==
    ASSUME TypeOK, PlaceInv, NEW r \in Runners, hand[r] = {}, NEW x, x.q \notin taken,
           Hold(r, {x}), taken' = taken \cup {x.q}, UNCHANGED <<map, batch, finished>>
    PROVE  PlaceInv'
<1>1. hand'[r] = {x} /\ \A s \in Runners \ {r} : hand'[s] = hand[s]
  BY DEF TypeOK, Hold
<1>2. \A s \in Runners \ {r} : \A y \in hand[s] : y.q # x.q
  BY DEF PlaceInv, Open
<1>3. \A y \in map \cup batch : y.q # x.q
  BY DEF PlaceInv, Open
<1>4. Single(map)' /\ Single(batch)' /\ Apart(map, batch)' /\ Open(map)' /\ Open(batch)'
      /\ (finished \subseteq taken)'
  BY DEF PlaceInv, Single, Apart, Open
<1>5. \A s \in Runners :
         /\ Single(hand'[s]) /\ Apart(hand'[s], map') /\ Apart(hand'[s], batch')
         /\ Open(hand[s])'
         /\ \A u \in Runners \ {s} : Apart(hand'[s], hand'[u])
  <2> SUFFICES ASSUME NEW s \in Runners
               PROVE  /\ Single(hand'[s]) /\ Apart(hand'[s], map') /\ Apart(hand'[s], batch')
                      /\ Open(hand[s])'
                      /\ \A u \in Runners \ {s} : Apart(hand'[s], hand'[u])
    OBVIOUS
  <2>1. CASE s = r
    BY <1>1, <1>2, <1>3, <2>1 DEF PlaceInv, Single, Apart, Open
  <2>2. CASE s # r
    BY <1>1, <1>2, <1>3, <2>2 DEF PlaceInv, Single, Apart, Open
  <2> QED BY <2>1, <2>2
<1>6. \A q \in taken' : q \in finished' \/ Has(map', q) \/ Has(batch', q)
                           \/ \E s \in Runners : Has(hand'[s], q)
  <2>1. Has(hand'[r], x.q)
    BY <1>1 DEF Has
  <2>2. \A q \in taken : q \in finished \/ Has(map, q) \/ Has(batch, q)
                           \/ \E s \in Runners \ {r} : Has(hand[s], q)
    BY DEF PlaceInv, Has
  <2> QED BY <1>1, <2>1, <2>2
<1> QED BY <1>4, <1>5, <1>6 DEF PlaceInv

(* What a thread held is finished. *)
LEMMA MoveFinish ==
    ASSUME TypeOK, PlaceInv, NEW r \in Runners, Hold(r, {}),
           finished' = finished \cup Numbers(hand[r]), UNCHANGED <<map, batch, taken>>
    PROVE  PlaceInv'
<1>1. hand'[r] = {} /\ \A s \in Runners \ {r} : hand'[s] = hand[s]
  BY DEF TypeOK, Hold
<1>2. \A q : q \in finished' <=> q \in finished \/ Has(hand[r], q)
  BY NumbersHas
<1>3. Open(map)' /\ Open(batch)' /\ (finished \subseteq taken)'
  BY <1>2 DEF PlaceInv, Apart, Open, Has
<1>4. \A s \in Runners :
         /\ Single(hand'[s]) /\ Apart(hand'[s], map') /\ Apart(hand'[s], batch')
         /\ Open(hand[s])'
         /\ \A u \in Runners \ {s} : Apart(hand'[s], hand'[u])
  BY <1>1, <1>2 DEF PlaceInv, Single, Apart, Open, Has
<1>5. \A q \in taken' : q \in finished' \/ Has(map', q) \/ Has(batch', q)
                           \/ \E s \in Runners : Has(hand'[s], q)
  BY <1>1, <1>2 DEF PlaceInv
<1> QED BY <1>3, <1>4, <1>5 DEF PlaceInv

(* The one query that a thread held goes into the table, and what it replaces there   *)
(* is finished.                                                                       *)
LEMMA MoveInsert ==
    ASSUME TypeOK, PlaceInv, NEW r \in Runners, NEW x, hand[r] = {x}, Insert(x), Hold(r, {}),
           UNCHANGED <<batch, taken>>
    PROVE  PlaceInv'
<1>1. hand'[r] = {} /\ \A s \in Runners \ {r} : hand'[s] = hand[s]
  BY DEF TypeOK, Hold
<1>2. \A q : q \in finished' <=> q \in finished \/ Has(Under(x.id), q)
  BY NumbersHas DEF Insert
<1>3. \A y : y \in map' <=> (y \in map /\ y \notin Under(x.id)) \/ y = x
  BY DEF Insert
<1>u. Under(x.id) \subseteq map
  BY DEF Under
<1>4. x.q \in taken /\ x.q \notin finished /\ (\A y \in map \cup batch : y.q # x.q)
      /\ \A s \in Runners \ {r} : \A y \in hand[s] : y.q # x.q
  BY DEF PlaceInv, Open, Apart
<1>5. Single(map') /\ Apart(map', batch')
  BY <1>3, <1>4 DEF PlaceInv, Single, Apart
<1>6. Open(map)'
  BY <1>2, <1>3, <1>4, <1>u DEF PlaceInv, Single, Open, Has
<1>7. Open(batch)'
  BY <1>2, <1>u DEF PlaceInv, Apart, Open, Has
<1>8. (finished \subseteq taken)'
  BY <1>2, <1>u DEF PlaceInv, Open, Has
<1>9. \A s \in Runners :
         /\ Single(hand'[s]) /\ Apart(hand'[s], map') /\ Apart(hand'[s], batch')
         /\ Open(hand[s])'
         /\ \A u \in Runners \ {s} : Apart(hand'[s], hand'[u])
  <2> SUFFICES ASSUME NEW s \in Runners \ {r}
               PROVE  /\ Single(hand'[s]) /\ Apart(hand'[s], map') /\ Apart(hand'[s], batch')
                      /\ Open(hand[s])'
                      /\ \A u \in Runners \ {s} : Apart(hand'[s], hand'[u])
    BY <1>1 DEF Single, Apart, Open
  <2>1. Single(hand'[s]) /\ Apart(hand'[s], map') /\ Apart(hand'[s], batch')
    BY <1>1, <1>3, <1>4 DEF PlaceInv, Apart
  <2>2. Open(hand[s])'
    BY <1>1, <1>2, <1>u DEF PlaceInv, Apart, Open, Has
  <2>3. \A u \in Runners \ {s} : Apart(hand'[s], hand'[u])
    BY <1>1 DEF PlaceInv, Apart
  <2> QED BY <2>1, <2>2, <2>3
<1>10. \A q \in taken' : q \in finished' \/ Has(map', q) \/ Has(batch', q)
                           \/ \E s \in Runners : Has(hand'[s], q)
  <2> SUFFICES ASSUME NEW q \in taken,
                      ~(q \in finished' \/ Has(batch', q) \/ \E s \in Runners : Has(hand'[s], q))
               PROVE  Has(map', q)
    OBVIOUS
  <2>1. CASE Has(map, q)
    BY <2>1, <1>2, <1>3 DEF Has
  <2>2. CASE Has(hand[r], q)
    BY <2>2, <1>3 DEF Has
  <2> QED BY <2>1, <2>2, <1>1, <1>2 DEF PlaceInv
<1> QED BY <1>5, <1>6, <1>7, <1>8, <1>9, <1>10 DEF PlaceInv

(* What the table holds under an id goes into the hands of a thread. *)
LEMMA MoveRemove ==
    ASSUME TypeOK, PlaceInv, NEW r \in Runners, hand[r] = {}, NEW id,
           map' = map \ Under(id), Hold(r, Under(id)), UNCHANGED <<batch, taken, finished>>
    PROVE  PlaceInv'
<1>1. hand'[r] = Under(id) /\ \A s \in Runners \ {r} : hand'[s] = hand[s]
  BY DEF TypeOK, Hold
<1>2. Under(id) \subseteq map /\ map' \subseteq map /\ map = map' \cup Under(id)
      /\ map' \cap Under(id) = {}
  BY DEF Under
<1>3. Single(map') /\ Apart(map', batch') /\ Open(map)' /\ Open(batch)'
      /\ (finished \subseteq taken)'
  BY <1>2 DEF PlaceInv, Single, Apart, Open
<1>4. Single(Under(id)) /\ Apart(Under(id), map') /\ Apart(Under(id), batch)
      /\ (\A x \in Under(id) : x.q \in taken /\ x.q \notin finished)
      /\ \A s \in Runners : Apart(hand[s], Under(id)) /\ Apart(Under(id), hand[s])
  BY <1>2 DEF PlaceInv, Single, Apart, Open
<1>5. \A s \in Runners :
         /\ Single(hand'[s]) /\ Apart(hand'[s], map') /\ Apart(hand'[s], batch')
         /\ Open(hand[s])'
         /\ \A u \in Runners \ {s} : Apart(hand'[s], hand'[u])
  <2> SUFFICES ASSUME NEW s \in Runners
               PROVE  /\ Single(hand'[s]) /\ Apart(hand'[s], map') /\ Apart(hand'[s], batch')
                      /\ Open(hand[s])'
                      /\ \A u \in Runners \ {s} : Apart(hand'[s], hand'[u])
    OBVIOUS
  <2>1. CASE s = r
    BY <1>1, <1>4, <2>1 DEF Open
  <2>2. CASE s # r
    <3>1. Single(hand'[s]) /\ Apart(hand'[s], map') /\ Apart(hand'[s], batch')
          /\ Open(hand[s])'
      BY <1>1, <1>2, <2>2 DEF PlaceInv, Apart, Open
    <3>2. \A u \in Runners \ {s} : Apart(hand'[s], hand'[u])
      BY <1>1, <1>4, <2>2 DEF PlaceInv
    <3> QED BY <3>1, <3>2
  <2> QED BY <2>1, <2>2
<1>6. \A q \in taken' : q \in finished' \/ Has(map', q) \/ Has(batch', q)
                           \/ \E s \in Runners : Has(hand'[s], q)
  <2>1. \A q : Has(map, q) => Has(map', q) \/ Has(hand'[r], q)
    BY <1>1, <1>2 DEF Has
  <2>2. \A q : ~Has(hand[r], q)
    BY DEF Has
  <2> QED BY <1>1, <2>1, <2>2 DEF PlaceInv
<1> QED BY <1>3, <1>5, <1>6 DEF PlaceInv
LEMMA PlaceStep ==
    ASSUME TypeOK, QueueInv, HandInv, PlaceInv, [Next]_vars
    PROVE  PlaceInv'
<1> USE DispatcherRuns
<1>a. ASSUME UNCHANGED <<map, batch, hand, taken, finished>> PROVE PlaceInv'
  BY <1>a DEF PlaceInv, Open
<1>b. ASSUME Undefined PROVE PlaceInv'
  BY <1>a, <1>b DEF Undefined, life, run, hist
<1>e. ASSUME events # << >> PROVE Head(events).q \notin taken
  BY <1>e, TailProp DEF TypeOK, QueueInv
<1>1. CASE Arrive
  BY <1>1, <1>a DEF Arrive, life, run, hist
<1>2. CASE ServerRestarts
  BY <1>2, <1>a DEF ServerRestarts, life, run, hist
<1>3. CASE DispatchTake
  <2>1. hand[Dispatcher] = {}
    BY <1>3 DEF DispatchTake, At, HandInv
  <2>2. CASE UNCHANGED <<hand, taken>>
    BY <1>3, <2>2, <1>a DEF DispatchTake, life
  <2>3. CASE Hold(Dispatcher, {Head(events)}) /\ taken' = taken \cup {Head(events).q}
    BY <1>3, <2>1, <2>3, <1>e, MoveTake DEF DispatchTake, life
  <2> QED BY <1>3, <2>2, <2>3 DEF DispatchTake
<1>4. CASE DispatchEnd
  BY <1>4, <1>a DEF DispatchEnd, life, hist
<1>5. CASE LoadNull \/ DispatchPanics
  BY <1>5, MoveFinish DEF LoadNull, DispatchPanics, life
<1>6. CASE LoadPtr
  BY <1>6, <1>a DEF LoadPtr, life, hist
<1>7. CASE DispatchInsert
  <2>1. CASE Undefined
    BY <2>1, <1>b
  <2>2. CASE ~Undefined
    <3>1. PICK x \in hand[Dispatcher] : Insert(x)
      BY <1>7, <2>2 DEF DispatchInsert
    <3>2. hand[Dispatcher] = {x}
      BY <1>7, <3>1 DEF DispatchInsert, At, HandInv
    <3> QED BY <1>7, <2>2, <3>1, <3>2, MoveInsert DEF DispatchInsert, life
  <2> QED BY <2>1, <2>2
<1>8. CASE CallbackReturns
  BY <1>8, <1>a DEF CallbackReturns, life, hist
<1>9. CASE DispatchRemove
  <2>1. hand[Dispatcher] = {}
    BY <1>9 DEF DispatchRemove, At, HandInv
  <2> QED BY <1>9, <1>b, <2>1, MoveRemove DEF DispatchRemove, life, hist
<1>10. CASE DispatchFinish
  BY <1>10, <1>b, MoveFinish DEF DispatchFinish, life
<1>11. ASSUME NEW r \in Runners, NEW id \in Ids, Reply(r, id) PROVE PlaceInv'
  BY <1>11, <1>a, <1>b DEF Reply, life, run
<1>12. ASSUME NEW r \in Runners, NEW id \in Ids, FinishRemove(r, id) PROVE PlaceInv'
  <2>1. hand[r] = {}
    BY <1>12 DEF FinishRemove, MayCall, At, HandInv
  <2> QED BY <1>12, <1>b, <2>1, MoveRemove DEF FinishRemove, life, hist
<1>13. ASSUME NEW r \in Runners, FinishPush(r) PROVE PlaceInv'
  BY <1>13, <1>b, MoveFinish DEF FinishPush, life
<1>14. ASSUME NEW t \in Threads, RecvTake(t) PROVE PlaceInv'
  <2>1. hand[t] = {}
    BY <1>14 DEF RecvTake, MayCall, At, HandInv
  <2> QED BY <1>14, <2>1, <1>e, MoveTake DEF RecvTake, life
<1>15. ASSUME NEW t \in Threads, RecvInsert(t) PROVE PlaceInv'
  <2>1. PICK x \in hand[t] : Insert(x)
    BY <1>15 DEF RecvInsert
  <2>2. hand[t] = {x}
    BY <1>15, <2>1 DEF RecvInsert, At, HandInv
  <2> QED BY <1>15, <2>1, <2>2, MoveInsert DEF RecvInsert, life
<1>16. CASE DeclareReturns
  BY <1>16, <1>a DEF DeclareReturns, run, hist
<1>17. CASE UndeclareTake
  <2>1. batch = {} /\ batch' = map /\ map' = {} /\ UNCHANGED <<hand, taken, finished>>
    BY <1>17 DEF UndeclareTake, HandInv, run, hist
  <2> QED BY <2>1 DEF PlaceInv, Single, Apart, Open, Has
<1>18. CASE UndeclareFinish
  <2>1. PICK x \in batch : batch' = batch \ {x} /\ finished' = finished \cup {x.q}
    BY <1>18 DEF UndeclareFinish
  <2>2. UNCHANGED <<map, hand, taken>>
    BY <1>18 DEF UndeclareFinish, run
  <2>3. Single(map)' /\ Single(batch)' /\ Apart(map, batch)' /\ Open(map)' /\ Open(batch)'
        /\ (finished \subseteq taken)'
    BY <2>1, <2>2 DEF PlaceInv, Single, Apart, Open
  <2>4. \A r \in Runners :
           /\ Single(hand'[r]) /\ Apart(hand'[r], map') /\ Apart(hand'[r], batch')
           /\ Open(hand[r])'
           /\ \A s \in Runners \ {r} : Apart(hand'[r], hand'[s])
    BY <2>1, <2>2 DEF PlaceInv, Single, Apart, Open
  <2>5. \A q \in taken' : q \in finished' \/ Has(map', q) \/ Has(batch', q)
                             \/ \E r \in Runners : Has(hand'[r], q)
    BY <2>1, <2>2 DEF PlaceInv, Has
  <2> QED BY <2>3, <2>4, <2>5 DEF PlaceInv
<1>19. CASE UndeclareNull
  BY <1>19, <1>a DEF UndeclareNull, run, hist
<1>20. CASE UndeclareClose
  BY <1>20, <1>a DEF UndeclareClose, run, hist
<1>21. CASE UndeclareFree
  <2>1. map' = {} /\ UNCHANGED <<batch, hand, taken>>
        /\ \A q : q \in finished' <=> q \in finished \/ Has(map, q)
    BY <1>21, NumbersHas DEF UndeclareFree, run
  <2>2. Single(map)' /\ Single(batch)' /\ Apart(map, batch)' /\ Open(map)' /\ Open(batch)'
        /\ (finished \subseteq taken)'
    BY <2>1 DEF PlaceInv, Single, Apart, Open, Has
  <2>3. \A r \in Runners :
           /\ Single(hand'[r]) /\ Apart(hand'[r], map') /\ Apart(hand'[r], batch')
           /\ Open(hand[r])'
           /\ \A s \in Runners \ {r} : Apart(hand'[r], hand'[s])
    BY <2>1 DEF PlaceInv, Single, Apart, Open, Has
  <2>4. \A q \in taken' : q \in finished' \/ Has(map', q) \/ Has(batch', q)
                             \/ \E r \in Runners : Has(hand'[r], q)
    BY <2>1 DEF PlaceInv
  <2> QED BY <2>2, <2>3, <2>4 DEF PlaceInv
<1>22. CASE UNCHANGED vars
  BY <1>22, <1>a DEF vars, life, run, hist
<1> QED
  BY <1>1, <1>2, <1>3, <1>4, <1>5, <1>6, <1>7, <1>8, <1>9, <1>10, <1>11, <1>12, <1>13,
     <1>14, <1>15, <1>16, <1>17, <1>18, <1>19, <1>20, <1>21, <1>22, NextSplit

LEMMA PlaceHeld ==
    ASSUME PlaceInv
    PROVE  HeldOrFinished
<1>1. \A q : q \in Held <=> Has(map, q) \/ Has(batch, q) \/ \E r \in Runners : Has(hand[r], q)
  BY NumbersHas DEF Held
<1>2. taken = Held \cup finished
  <2>1. \A q \in Held : q \in taken
    BY <1>1 DEF PlaceInv, Open, Has
  <2> QED BY <1>1, <2>1 DEF PlaceInv
<1>3. Held \cap finished = {}
  BY <1>1 DEF PlaceInv, Open, Has
<1>4. \A S, T : Apart(S, T) => Numbers(S) \cap Numbers(T) = {}
  BY NumbersHas DEF Apart, Has
<1>5. \A r \in Runners :
         /\ Numbers(hand[r]) \cap (Numbers(map) \cup Numbers(batch)) = {}
         /\ \A s \in Runners \ {r} : Numbers(hand[r]) \cap Numbers(hand[s]) = {}
  BY <1>4 DEF PlaceInv
<1> QED BY <1>2, <1>3, <1>4, <1>5 DEF PlaceInv, HeldOrFinished

(* Every query that the wrapper has received is in exactly one place or finished, for *)
(* any number of threads that receive, reply and finish, any reuse of ids and any      *)
(* moment of undeclare.                                                               *)
THEOREM QueriesHeldOrFinished == Spec => []HeldOrFinished
<1> DEFINE All == TypeOK /\ LifeInv /\ QueueInv /\ HandInv /\ PlaceInv
<1>1. Init => All
  BY TypeInit, LifeInit, QueueInit, HandInit, PlaceInit
<1>2. All /\ [Next]_vars => All'
  BY TypeStep, LifeStep, QueueStep, HandStep, PlaceStep
<1>3. All => HeldOrFinished
  BY PlaceHeld
<1> QED BY <1>1, <1>2, <1>3, PTL DEF Spec

(* A reply finds its query in the table, and what is in the table is not finished.    *)
LEMMA LateStep ==
    ASSUME TypeOK, PlaceInv, NoReplyAfterFinish, [Next]_vars
    PROVE  NoReplyAfterFinish'
<1>a. ASSUME Undefined PROVE NoReplyAfterFinish'
  BY <1>a DEF Undefined, NoReplyAfterFinish, hist
<1>1. ASSUME NEW r \in Runners, NEW id \in Ids, Reply(r, id) PROVE NoReplyAfterFinish'
  <2>1. Numbers(Under(id)) \cap finished = {}
    BY NumbersHas DEF PlaceInv, Open, Has, Under
  <2> QED BY <1>1, <1>a, <2>1 DEF Reply, NoReplyAfterFinish
<1>2. ASSUME NEW r \in Runners, NEW id \in Ids, FinishRemove(r, id) PROVE NoReplyAfterFinish'
  BY <1>2, <1>a DEF FinishRemove, NoReplyAfterFinish, hist
<1>3. ASSUME NEW r \in Runners, FinishPush(r) PROVE NoReplyAfterFinish'
  BY <1>3, <1>a DEF FinishPush, NoReplyAfterFinish
<1>4. CASE DispatchInsert \/ DispatchRemove \/ DispatchFinish
  BY <1>4, <1>a DEF DispatchInsert, DispatchRemove, DispatchFinish, NoReplyAfterFinish, hist
<1>5. CASE \/ Arrive \/ ServerRestarts \/ DispatchTake \/ DispatchEnd \/ LoadNull \/ LoadPtr
           \/ DispatchPanics \/ CallbackReturns \/ UNCHANGED vars
  BY <1>5 DEF Arrive, ServerRestarts, DispatchTake, DispatchEnd, LoadNull, LoadPtr,
              DispatchPanics, CallbackReturns, NoReplyAfterFinish, vars, hist
<1>6. CASE \/ DeclareReturns \/ UndeclareTake \/ UndeclareFinish \/ UndeclareNull
           \/ UndeclareClose \/ UndeclareFree
  BY <1>6 DEF DeclareReturns, UndeclareTake, UndeclareFinish, UndeclareNull,
              UndeclareClose, UndeclareFree, NoReplyAfterFinish, hist
<1>7. CASE \E t \in Threads : RecvTake(t) \/ RecvInsert(t)
  BY <1>7 DEF RecvTake, RecvInsert, NoReplyAfterFinish
<1> QED BY <1>1, <1>2, <1>3, <1>4, <1>5, <1>6, <1>7, NextSplit

(* No reply is queued after its query's Finish, whichever threads reply and finish by  *)
(* the same id.                                                                       *)
THEOREM RepliesBeforeFinish == Spec => []NoReplyAfterFinish
<1> DEFINE All == TypeOK /\ LifeInv /\ QueueInv /\ HandInv /\ PlaceInv
<1>1. Init => All /\ NoReplyAfterFinish
  BY TypeInit, LifeInit, QueueInit, HandInit, PlaceInit DEF Init, NoReplyAfterFinish
<1>2. All /\ NoReplyAfterFinish /\ [Next]_vars => All' /\ NoReplyAfterFinish'
  BY TypeStep, LifeStep, QueueStep, HandStep, PlaceStep, LateStep
<1> QED BY <1>1, <1>2, PTL DEF Spec
-------------------------------------------------------------------------------
(* Each query lives by QueryLife *)

(* The numbers of the queries in a queue, in its order. *)
Nums(s) == [i \in DOMAIN s |-> s[i].q]

LEMMA NumsType ==
    ASSUME NEW s \in Seq(Query)
    PROVE  Nums(s) \in Seq(QueryNums) /\ Len(Nums(s)) = Len(s)
<1>1. DOMAIN s = 1..Len(s) /\ Len(s) \in Nat /\ \A i \in DOMAIN s : s[i] \in Query
  OBVIOUS
<1>2. \A x \in Query : x.q \in QueryNums
  BY DEF Query
<1> QED BY <1>1, <1>2 DEF Nums

LEMMA NumsAppend ==
    ASSUME NEW s \in Seq(Query), NEW x \in Query
    PROVE  Nums(Append(s, x)) = Append(Nums(s), x.q)
<1>1. Append(s, x) \in Seq(Query) /\ Len(Append(s, x)) = Len(s) + 1
      /\ \A i \in 1..(Len(s) + 1) : Append(s, x)[i] = IF i = Len(s) + 1 THEN x ELSE s[i]
  OBVIOUS
<1>2. Nums(s) \in Seq(QueryNums) /\ Len(Nums(s)) = Len(s) /\ x.q \in QueryNums
  BY NumsType DEF Query
<1>3. Append(Nums(s), x.q) = [i \in 1..(Len(s) + 1) |->
                                IF i = Len(s) + 1 THEN x.q ELSE Nums(s)[i]]
  BY <1>2
<1>4. \A i \in 1..(Len(s) + 1) : i # Len(s) + 1 => Nums(s)[i] = s[i].q
  BY DEF Nums
<1>5. Nums(Append(s, x)) = [i \in 1..(Len(s) + 1) |-> Append(s, x)[i].q]
  BY <1>1 DEF Nums
<1> QED BY <1>1, <1>3, <1>4, <1>5

LEMMA NumsTail ==
    ASSUME NEW s \in Seq(Query), s # << >>
    PROVE  /\ Nums(Tail(s)) = Tail(Nums(s)) /\ Head(Nums(s)) = Head(s).q
           /\ Nums(s) # << >>
<1>1. Tail(s) \in Seq(Query) /\ Len(Tail(s)) = Len(s) - 1 /\ Len(s) > 0
      /\ \A i \in 1..(Len(s) - 1) : Tail(s)[i] = s[i + 1]
  OBVIOUS
<1>2. Nums(s) \in Seq(QueryNums) /\ Len(Nums(s)) = Len(s)
  BY NumsType
<1>3. \A i \in 1..(Len(s) - 1) : Nums(s)[i + 1] = s[i + 1].q
  BY <1>1 DEF Nums
<1>4. Nums(Tail(s)) \in Seq(QueryNums) /\ Len(Nums(Tail(s))) = Len(s) - 1
      /\ \A i \in 1..(Len(s) - 1) : Nums(Tail(s))[i] = Tail(s)[i].q
  <2>1. DOMAIN Tail(s) = 1..(Len(s) - 1)
    BY <1>1
  <2> QED BY <1>1, <2>1, NumsType DEF Nums
<1>5. Nums(Tail(s)) = Tail(Nums(s))
  <2> DEFINE u == Nums(s)
             v == Nums(Tail(s))
  <2>1. u \in Seq(QueryNums) /\ v \in Seq(QueryNums) /\ Len(u) > 0 /\ Len(v) = Len(u) - 1
        /\ \A i \in 1..(Len(u) - 1) : v[i] = u[i + 1]
    BY <1>1, <1>2, <1>3, <1>4
  <2> HIDE DEF u, v
  <2>2. Tail(u) \in Seq(QueryNums) /\ Len(Tail(u)) = Len(u) - 1
        /\ \A i \in 1..(Len(u) - 1) : Tail(u)[i] = u[i + 1]
    BY <2>1
  <2>3. v = Tail(u)
    BY <2>1, <2>2, SeqEqual
  <2> QED BY <2>3 DEF u, v
<1>6. Head(Nums(s)) = Head(s).q /\ Nums(s) # << >>
  BY <1>1, <1>2 DEF Nums
<1> QED BY <1>5, <1>6

(* What is done with: finished, or a sample that the callback has got. *)
Done == finished \cup IF kind = "subscriber" THEN seen ELSE {}

(* Being held is having left the queue and not being finished, wherever it is. *)
LEMMA HeldIsOpen ==
    ASSUME HeldOrFinished, HeldOrFinished'
    PROVE  /\ Held = taken \ finished /\ finished \subseteq taken
           /\ Held' = taken' \ finished' /\ finished' \subseteq taken'
  BY DEF HeldOrFinished

(* A step that takes nothing from the queue finishes what is held, or nothing. *)
LEMMA LifeFinish ==
    ASSUME HeldOrFinished, HeldOrFinished', UNCHANGED <<asked, events, taken, kind>>,
           finished \subseteq finished', kind = "subscriber" => UNCHANGED seen
    PROVE  QL!Next \/ UNCHANGED <<1..asked, Nums(events), Held, Done>>
<1> DEFINE S == finished' \ finished
<1>1. S \subseteq Held /\ Held' = Held \ S
  BY HeldIsOpen
<1>2. Done' = Done \cup S
  BY DEF Done
<1>3. CASE S = {}
  <2>1. finished' = finished /\ Held' = Held /\ Done' = Done
    BY <1>1, <1>2, <1>3
  <2> QED BY <2>1 DEF Nums
<1>4. CASE S # {}
  <2>1. QL!Finish(S)
    BY <1>1, <1>2, <1>4 DEF QL!Finish, Done
  <2> QED BY <1>1, <2>1 DEF QL!Next
<1> QED BY <1>3, <1>4

LEMMA LifeStepQL ==
    ASSUME TypeOK, LifeInv, QueueInv, HandInv, PlaceInv, [Next]_vars, HeldOrFinished,
           HeldOrFinished'
    PROVE  [QL!Next]_<<1..asked, Nums(events), Held, Done>>
<1> USE DispatcherRuns
<1>a. ASSUME UNCHANGED <<asked, events, taken, kind>>, finished \subseteq finished',
             kind = "subscriber" => UNCHANGED seen
      PROVE  [QL!Next]_<<1..asked, Nums(events), Held, Done>>
  BY <1>a, LifeFinish
<1>b. ASSUME Undefined PROVE [QL!Next]_<<1..asked, Nums(events), Held, Done>>
  BY <1>a, <1>b DEF Undefined, env, hist
<1>n. ASSUME NEW x, Insert(x) PROVE finished \subseteq finished'
  BY <1>n DEF Insert
<1>t. ASSUME events # << >>, events' = Tail(events), UNCHANGED <<asked, kind, finished>>
      PROVE  /\ Nums(events) # << >> /\ Nums(events)' = Tail(Nums(events))
             /\ Head(Nums(events)) = Head(events).q
  BY <1>t, NumsTail DEF TypeOK
<1>h. ASSUME events # << >>, events' = Tail(events), UNCHANGED <<asked, kind, finished>>,
             taken' = taken \cup {Head(events).q}, kind # "subscriber"
      PROVE  [QL!Next]_<<1..asked, Nums(events), Held, Done>>
  <2>1. Head(events).q \notin taken
    BY <1>h, TailProp DEF TypeOK, QueueInv
  <2>2. Held' = Held \cup {Head(events).q}
    BY <1>h, <2>1, HeldIsOpen
  <2>3. QL!HandOut
    BY <1>h, <1>t, <2>2 DEF QL!HandOut, Nums, Done
  <2> QED BY <2>3 DEF QL!Next
<1>1. CASE Arrive
  <2> DEFINE x == [id |-> nextId, q |-> asked + 1]
  <2>1. x \in Query /\ asked' = asked + 1 /\ events' = Push(events, x) /\ asked \in Nat
        /\ UNCHANGED <<kind, taken, finished, seen>>
    BY <1>1, WrapperBounds DEF Arrive, TypeOK, Query, QueryNums, hist
  <2>2. x.q = asked + 1 /\ asked + 1 \in QueryNums
    BY <2>1 DEF Query
  <2> HIDE DEF x
  <2>3. Held' = Held /\ Done' = Done
    BY <2>1, HeldIsOpen DEF Done
  <2>4. Len(Nums(events)) = Len(events) /\ events \in Seq(Query)
    BY NumsType DEF TypeOK
  <2>5. Nums(events)' = Append(IF Len(Nums(events)) < Capacity THEN Nums(events)
                               ELSE Tail(Nums(events)), asked + 1)
    <3>1. CASE Len(events) < Capacity
      BY <3>1, <2>1, <2>2, <2>4, NumsAppend DEF Push
    <3>2. CASE ~(Len(events) < Capacity)
      <4>1. events # << >>
        BY <3>2, <2>4, WrapperBounds
      <4>2. Tail(events) \in Seq(Query) /\ Nums(Tail(events)) = Tail(Nums(events))
        BY <4>1, <2>4, NumsTail, TailProp
      <4> QED BY <3>2, <4>2, <2>1, <2>2, <2>4, NumsAppend DEF Push
    <3> QED BY <3>1, <3>2
  <2>6. asked + 1 \notin 1..asked /\ 1..asked' = (1..asked) \cup {asked + 1}
    BY <2>1
  <2>7. PICK n \in QueryNums : n = asked + 1
    BY <2>2
  <2>8. QL!Arrive(n)
    BY <2>3, <2>5, <2>6, <2>7 DEF QL!Arrive, QL!New, Nums, Done
  <2> QED BY <2>8 DEF QL!Next
<1>2. CASE ServerRestarts
  BY <1>2, <1>a DEF ServerRestarts, hist
<1>3. CASE DispatchTake
  <2>1. CASE kind = "callback"
    BY <1>3, <2>1, <1>h DEF DispatchTake, env
  <2>2. CASE kind # "callback"
    <3>1. events # << >> /\ events' = Tail(events) /\ UNCHANGED <<asked, kind, finished, taken>>
          /\ kind = "subscriber" /\ seen' = seen \cup {Head(events).q}
      BY <1>3, <2>2 DEF DispatchTake, env
    <3>2. Held' = Held /\ Done' = Done \cup {Head(events).q}
      BY <3>1, HeldIsOpen DEF Done
    <3>3. QL!Consume
      BY <3>1, <3>2, <1>t DEF QL!Consume, Nums, Done
    <3> QED BY <3>3 DEF QL!Next
  <2> QED BY <2>1, <2>2
<1>4. CASE DispatchEnd
  BY <1>4, <1>a DEF DispatchEnd, env, hist
<1>5. CASE LoadNull \/ DispatchPanics
  BY <1>5, <1>a DEF LoadNull, DispatchPanics, env
<1>6. CASE LoadPtr
  BY <1>6, <1>a DEF LoadPtr, env, hist
<1>7. CASE DispatchInsert
  <2>1. kind # "subscriber"
    BY <1>7 DEF DispatchInsert, At, LifeInv
  <2> QED BY <1>7, <2>1, <1>a, <1>b, <1>n DEF DispatchInsert, env
<1>8. CASE CallbackReturns
  BY <1>8, <1>a DEF CallbackReturns, env, hist
<1>9. CASE DispatchRemove
  BY <1>9, <1>a, <1>b DEF DispatchRemove, env, hist
<1>10. CASE DispatchFinish
  BY <1>10, <1>a, <1>b DEF DispatchFinish, env
<1>11. ASSUME NEW r \in Runners, NEW id \in Ids, Reply(r, id)
       PROVE  [QL!Next]_<<1..asked, Nums(events), Held, Done>>
  BY <1>11, <1>a, <1>b DEF Reply, env
<1>12. ASSUME NEW r \in Runners, NEW id \in Ids, FinishRemove(r, id)
       PROVE  [QL!Next]_<<1..asked, Nums(events), Held, Done>>
  BY <1>12, <1>a, <1>b DEF FinishRemove, env, hist
<1>13. ASSUME NEW r \in Runners, FinishPush(r)
       PROVE  [QL!Next]_<<1..asked, Nums(events), Held, Done>>
  BY <1>13, <1>a, <1>b DEF FinishPush, env
<1>14. ASSUME NEW t \in Threads, RecvTake(t)
       PROVE  [QL!Next]_<<1..asked, Nums(events), Held, Done>>
  BY <1>14, <1>h DEF RecvTake, env
<1>15. ASSUME NEW t \in Threads, RecvInsert(t)
       PROVE  [QL!Next]_<<1..asked, Nums(events), Held, Done>>
  BY <1>15, <1>a, <1>n DEF RecvInsert, env
<1>16. CASE DeclareReturns
  BY <1>16, <1>a DEF DeclareReturns, env, hist
<1>17. CASE UndeclareTake
  BY <1>17, <1>a DEF UndeclareTake, env, hist
<1>18. CASE UndeclareFinish
  BY <1>18, <1>a DEF UndeclareFinish, env
<1>19. CASE UndeclareNull
  BY <1>19, <1>a DEF UndeclareNull, env, hist
<1>20. CASE UndeclareClose
  BY <1>20, <1>a DEF UndeclareClose, env, hist
<1>21. CASE UndeclareFree
  BY <1>21, <1>a DEF UndeclareFree, env
<1>22. CASE UNCHANGED vars
  BY <1>22, <1>a DEF vars, env, hist
<1> QED
  BY <1>1, <1>2, <1>3, <1>4, <1>5, <1>6, <1>7, <1>8, <1>9, <1>10, <1>11, <1>12, <1>13,
     <1>14, <1>15, <1>16, <1>17, <1>18, <1>19, <1>20, <1>21, <1>22, NextSplit

LEMMA LifeInitQL == Init => QL!Init
<1> SUFFICES ASSUME Init PROVE QL!Init
  OBVIOUS
<1>1. asked = 0 /\ events = << >> /\ finished = {} /\ seen = {} /\ map = {} /\ batch = {}
      /\ \A r \in Runners : hand[r] = {}
  BY DEF Init
<1>2. Held = {}
  BY <1>1 DEF Held, Numbers
<1>3. [i \in DOMAIN events |-> events[i].q] = << >>
  BY <1>1
<1>4. 1..asked = {}
  BY <1>1
<1> QED BY <1>1, <1>2, <1>3, <1>4 DEF QL!Init

(* The wrapper implements QueryLife, for any number of threads that receive, reply and *)
(* finish by id, for ids used again and for undeclare at any moment: a query is handed *)
(* out in order and at most once, and it is finished once, by whoever held it.         *)
THEOREM ImplementsQueryLife == Spec => IsQueryLife
<1> DEFINE All == TypeOK /\ LifeInv /\ QueueInv /\ HandInv /\ PlaceInv
<1>1. Init => All
  BY TypeInit, LifeInit, QueueInit, HandInit, PlaceInit
<1>2. All /\ [Next]_vars => All'
  BY TypeStep, LifeStep, QueueStep, HandStep, PlaceStep
<1>3. All => HeldOrFinished
  BY PlaceHeld
<1>4. All /\ HeldOrFinished /\ HeldOrFinished' /\ [Next]_vars
         => [QL!Next]_<<1..asked, [i \in DOMAIN events |-> events[i].q], Held,
                        finished \cup IF kind = "subscriber" THEN seen ELSE {}>>
  <2> SUFFICES ASSUME All, HeldOrFinished, HeldOrFinished', [Next]_vars
               PROVE  [QL!Next]_<<1..asked, Nums(events), Held, Done>>
    BY DEF Nums, Done
  <2> QED BY LifeStepQL
<1> QED BY <1>1, <1>2, <1>3, <1>4, LifeInitQL, PTL DEF Spec, IsQueryLife, QL!Spec
===============================================================================
