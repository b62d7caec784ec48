-------------------------- MODULE ClientBindingProofs --------------------------
(***************************************************************************)
(* What holds of the binding of a session's entities to the server's       *)
(* handles, for any number of entities, calls, restarts and faults.        *)
(***************************************************************************)
EXTENDS ClientBinding, TLAPS

\* The steps of undeclare that touch only the entity's own flags.
UndeclareLocal(e) ==
    \/ UndeclareStart(e) \/ UndeclareClose(e) \/ UndeclareNotify(e)
    \/ UndeclareCloseQueue(e) \/ UndeclareLook(e)

(* The disjuncts of Next. *)
LEMMA NextSplit ==
    ASSUME [Next]_vars
    PROVE  \/ ServerStops \/ ServerStarts \/ LeaseLapses \/ SetConnected
           \/ \E k \in Kinds : OtherDeclares(k)
           \/ \E e \in Entities :
                 \/ Call(e) \/ Begin(e) \/ CheckClosed(e) \/ HaveConnection(e)
                 \/ NoConnection(e) \/ Register(e) \/ Bind(e) \/ DeclareOk(e)
                 \/ DeclareLost(e) \/ DeclareRefused(e) \/ CallDisconnected(e) \/ CallOk(e)
                 \/ CallRefused(e) \/ CallStale(e) \/ EventArrives(e) \/ EventPushed(e)
                 \/ StreamEnds(e) \/ StreamStale(e) \/ StreamBreaks(e)
           \/ \E e \in Entities :
                 \/ UndeclareLocal(e) \/ TakeHandle(e) \/ UndeclareOk(e)
                 \/ UndeclareDisconnected(e)
           \/ UNCHANGED vars
  BY DEF Next, UserStep, UndeclareStep, UndeclareLocal

LEMMA KindType == \A e \in Entities : Kind(e) \in Kinds
  BY DEF Kind, Kinds

\* The labels of the users, and how they agree with the backlogs.
Labels == {"idle", "check", "gap", "asleep", "bind", "declare", "call", "open", "push",
           "ended"}
UserOK(p, b) ==
    /\ p \in [Entities -> Labels] /\ b \in [Entities -> Nat]
    /\ \A e \in Entities : p[e] \in {"open", "push", "ended"} => e \in Subscribers
    /\ \A e \in Entities \ Subscribers : p[e] # "idle" => b[e] > 0
UserType == UserOK(pc, backlog)

LabelsU == {"none", "close", "notify", "queue", "take", "look", "call", "done"}
Closing == LabelsU \ {"none", "close"}

LEMMA FinishType ==
    ASSUME UserType, NEW e \in Entities, pc[e] # "idle", Finish(e)
    PROVE  UserType'
  BY DEF UserType, UserOK, Finish, Labels

\* One user moves to a label that it may have, and its command stays counted.
LEMMA MoveType ==
    ASSUME UserType, NEW e \in Entities, NEW l \in Labels, pc' = [pc EXCEPT ![e] = l],
           l \in {"open", "push", "ended"} => e \in Subscribers,
           UNCHANGED backlog, pc[e] # "idle" \/ l = "idle" \/ backlog[e] > 0
    PROVE  UserType'
  BY DEF UserType, UserOK

LEMMA WokenType ==
    ASSUME NEW p, NEW b, UserOK(p, b)
    PROVE  UserOK([e \in Entities |-> Woken(p[e])], b)
  BY DEF UserOK, Woken, Labels

LEMMA MarkType ==
    ASSUME TypeOK, NEW p, UserOK(p, backlog'), mark_disconnected(p)
    PROVE  UserType' /\ conn' \in BOOLEAN
<1>1. UserType'
  BY WokenType DEF mark_disconnected, UserType
<1> QED BY <1>1 DEF mark_disconnected, TypeOK

\* A notification starts no declaration.
LEMMA MarkDeclare ==
    ASSUME NEW p, mark_disconnected(p), NEW f \in Entities, pc'[f] = "declare"
    PROVE  p[f] = "declare"
  BY DEF mark_disconnected, Woken

LEMMA RetryOK ==
    ASSUME UserType, NEW e \in Entities, pc[e] # "idle", GiveUp(e)
    PROVE  UserOK([pc EXCEPT ![e] = Again(e)], backlog')
<1>1. CASE e \in Queriers
  <2>1. e \notin Subscribers
    BY <1>1, ClassesApart
  <2> QED BY <1>1, <2>1 DEF UserType, UserOK, GiveUp, Again, Labels
<1>2. CASE e \notin Queriers
  BY <1>2 DEF UserType, UserOK, GiveUp, Again, Labels
<1> QED BY <1>1, <1>2

LEMMA RetryType ==
    ASSUME UserType, NEW e \in Entities, pc[e] # "idle", Retry(e)
    PROVE  UserType'
  BY RetryOK DEF Retry, UserType

LEMMA DisconnectedType ==
    ASSUME TypeOK, UserType, NEW e \in Entities, pc[e] # "idle", Disconnected(e)
    PROVE  UserType' /\ conn' \in BOOLEAN
<1>1. UserOK([pc EXCEPT ![e] = Again(e)], backlog')
  BY RetryOK DEF Disconnected
<1> QED BY <1>1, MarkType DEF Disconnected

LEMMA AllocType ==
    ASSUME TypeOK, NEW e \in Entities, AllocHandle(Kind(e), e)
    PROVE  /\ table' \subseteq [kind : Kinds, handle : Nat \ {0},
                                entity : Entities \cup {Other}]
           /\ nextHandle' \in Nat \ {0}
  BY KindType DEF TypeOK, AllocHandle

LEMMA FaultType ==
    ASSUME TypeOK, Fault \/ UNCHANGED faults
    PROVE  faults' \in 0..MaxFaults
  BY BoundsNat DEF TypeOK, Fault

LEMMA TypeStep == TypeOK /\ [Next]_vars => TypeOK'
<1> SUFFICES ASSUME TypeOK, [Next]_vars PROVE TypeOK'
  OBVIOUS
<1>0. UserType
  BY DEF TypeOK, UserType, UserOK, Labels
<1>1. ASSUME ServerStops PROVE TypeOK'
  <2>1. stops' \in 0..MaxStops
    BY <1>1, BoundsNat DEF TypeOK, ServerStops
  <2>2. src' \in [Entities -> Nat] /\ nextHandle' \in Nat \ {0}
    BY <1>1 DEF ServerStops
  <2>3. up' \in BOOLEAN
    BY <1>1, Zenon DEF ServerStops
  <2> QED BY <1>1, <2>1, <2>2, <2>3 DEF TypeOK, ServerStops, undecl
<1>2. ASSUME ServerStarts PROVE TypeOK'
  BY <1>2 DEF TypeOK, ServerStarts, undecl
<1>3. ASSUME LeaseLapses PROVE TypeOK'
  <2>1. faults' \in 0..MaxFaults
    BY <1>3, FaultType DEF LeaseLapses, Fault
  <2>2. src' \in [Entities -> Nat] /\ table' \subseteq table
    BY <1>3 DEF LeaseLapses
  <2> QED BY <1>3, <2>1, <2>2 DEF TypeOK, LeaseLapses, undecl
<1>4. ASSUME SetConnected PROVE TypeOK'
  <2>1. UserType'
    BY <1>0, <1>4, WokenType DEF SetConnected, UserType
  <2>2. conn' \in BOOLEAN
    BY <1>4, Zenon DEF SetConnected
  <2> QED BY <1>4, <2>1, <2>2 DEF TypeOK, UserType, UserOK, Labels, SetConnected, server, undecl
<1>5. ASSUME NEW k \in Kinds, OtherDeclares(k) PROVE TypeOK'
  BY <1>5 DEF TypeOK, OtherDeclares, AllocHandle, undecl
<1>6. ASSUME NEW e \in Entities, Call(e) PROVE TypeOK'
  <2>1. backlog' \in [Entities -> Nat] /\ calls' \in [Entities -> Nat]
    BY <1>6 DEF TypeOK, Call
  <2>2. \A f \in Entities : backlog'[f] >= backlog[f]
    BY <1>6 DEF TypeOK, Call
  <2> QED BY <1>6, <2>1, <2>2 DEF TypeOK, Call, server, undecl
<1>7. ASSUME NEW e \in Entities, Begin(e) \/ HaveConnection(e) \/ Register(e) PROVE TypeOK'
  <2>1. UserType'
    BY <1>0, <1>7, MoveType DEF Begin, HaveConnection, Register, Labels
  <2> QED BY <1>7, <2>1 DEF TypeOK, UserType, UserOK, Labels, Begin, HaveConnection, Register,
                            server, undecl
<1>8. ASSUME NEW e \in Entities, CheckClosed(e) \/ NoConnection(e) PROVE TypeOK'
  <2>1. UserType'
    <3>1. CASE CheckClosed(e)
      BY <1>0, <3>1, MoveType, FinishType DEF CheckClosed, Labels
    <3>2. CASE NoConnection(e)
      BY <1>0, <3>2, MoveType, FinishType DEF NoConnection, Labels
    <3> QED BY <1>8, <3>1, <3>2
  <2> QED BY <1>8, <2>1 DEF TypeOK, UserType, UserOK, Labels, CheckClosed, NoConnection, server,
                            undecl
<1>9. ASSUME NEW e \in Entities, Bind(e) PROVE TypeOK'
  BY <1>9 DEF TypeOK, Bind, server, undecl
<1>10. ASSUME NEW e \in Entities, DeclareOk(e) PROVE TypeOK'
  <2>1. PICK x \in table' \ table :
          /\ binding' = [binding EXCEPT ![e] = x.handle]
          /\ use' = [use EXCEPT ![e] = x.handle]
    BY <1>10 DEF DeclareOk
  <2>2. table' \subseteq [kind : Kinds, handle : Nat \ {0}, entity : Entities \cup {Other}]
        /\ nextHandle' \in Nat \ {0}
    BY <1>10, AllocType DEF DeclareOk
  <2>3. x.handle \in Nat
    BY <2>1, <2>2
  <2>4. binding' \in [Entities -> Nat] /\ use' \in [Entities -> Nat]
    BY <2>1, <2>3 DEF TypeOK
  <2>5. UserType'
    BY <1>0, <1>10, MoveType DEF DeclareOk, Labels
  <2> QED BY <1>10, <2>2, <2>4, <2>5 DEF TypeOK, UserType, UserOK, Labels, DeclareOk, undecl
<1>11. ASSUME NEW e \in Entities, DeclareLost(e) PROVE TypeOK'
  <2>1. UserType'
    BY <1>0, <1>11, DisconnectedType DEF DeclareLost
  <2>2. faults' \in 0..MaxFaults
    BY <1>11, FaultType DEF DeclareLost
  <2>3. table' \subseteq [kind : Kinds, handle : Nat \ {0}, entity : Entities \cup {Other}]
        /\ nextHandle' \in Nat \ {0}
    BY <1>11, AllocType DEF DeclareLost
  <2>4. lost' \in [Entities -> BOOLEAN] /\ conn' \in BOOLEAN
    BY <1>0, <1>11, DisconnectedType DEF TypeOK, DeclareLost
  <2> QED BY <1>11, <2>1, <2>2, <2>3, <2>4 DEF TypeOK, UserType, UserOK, Labels, DeclareLost, undecl
<1>12. ASSUME NEW e \in Entities, DeclareRefused(e) PROVE TypeOK'
  <2>1. UserType'
    BY <1>0, <1>12, FinishType DEF DeclareRefused
  <2>2. faults' \in 0..MaxFaults
    BY <1>12, FaultType DEF DeclareRefused
  <2> QED BY <1>12, <2>1, <2>2 DEF TypeOK, UserType, UserOK, Labels, DeclareRefused, server, undecl
<1>13. ASSUME NEW e \in Entities, CallDisconnected(e) PROVE TypeOK'
  <2>1. UserType'
    BY <1>0, <1>13, DisconnectedType DEF CallDisconnected
  <2>2. faults' \in 0..MaxFaults
    BY <1>13, FaultType DEF CallDisconnected
  <2>3. conn' \in BOOLEAN
    BY <1>0, <1>13, DisconnectedType DEF CallDisconnected
  <2> QED BY <1>13, <2>1, <2>2, <2>3 DEF TypeOK, UserType, UserOK, Labels, CallDisconnected, server,
                                         undecl
<1>14. ASSUME NEW e \in Entities, CallOk(e) PROVE TypeOK'
  <2>1. UserType'
    <3>1. CASE e \in Subscribers
      BY <1>0, <1>14, <3>1, MoveType DEF CallOk, Labels
    <3>2. CASE e \notin Subscribers
      BY <1>0, <1>14, <3>2, FinishType DEF CallOk
    <3> QED BY <3>1, <3>2
  <2>2. src' \in [Entities -> Nat]
    BY <1>14 DEF TypeOK, CallOk
  <2> QED BY <1>14, <2>1, <2>2 DEF TypeOK, UserType, UserOK, Labels, CallOk, server, undecl
<1>15. ASSUME NEW e \in Entities, CallRefused(e) PROVE TypeOK'
  <2>1. UserType'
    BY <1>0, <1>15, FinishType DEF CallRefused
  <2>2. faults' \in 0..MaxFaults
    BY <1>15, FaultType DEF CallRefused
  <2> QED BY <1>15, <2>1, <2>2 DEF TypeOK, UserType, UserOK, Labels, CallRefused, server, undecl
<1>16. ASSUME NEW e \in Entities, CallStale(e) PROVE TypeOK'
  <2>1. UserType'
    BY <1>0, <1>16, RetryType DEF CallStale
  <2>2. binding' \in [Entities -> Nat]
    BY <1>16 DEF TypeOK, CallStale
  <2> QED BY <1>16, <2>1, <2>2 DEF TypeOK, UserType, UserOK, Labels, CallStale, server, undecl
<1>17. ASSUME NEW e \in Entities, EventArrives(e) \/ EventPushed(e) PROVE TypeOK'
  <2>1. e \in Subscribers
    BY <1>17 DEF EventArrives, EventPushed, TypeOK
  <2>2. UserType'
    BY <1>0, <1>17, <2>1, MoveType DEF EventArrives, EventPushed, Labels
  <2> QED BY <1>17, <2>2 DEF TypeOK, UserType, UserOK, Labels, EventArrives, EventPushed,
                             server, undecl
<1>a. ASSUME NEW e \in Entities, StreamEnds(e) PROVE TypeOK'
  <2>1. UserOK([pc EXCEPT ![e] = "check"], backlog')
    BY <1>0, <1>a DEF StreamEnds, UserType, UserOK, Labels
  <2>2. UserType' /\ conn' \in BOOLEAN
    BY <1>a, <2>1, MarkType DEF StreamEnds
  <2> QED BY <1>a, <2>2 DEF TypeOK, UserType, UserOK, Labels, StreamEnds, server, undecl
<1>b. ASSUME NEW e \in Entities, StreamStale(e) PROVE TypeOK'
  <2>1. UserType'
    BY <1>0, <1>b, MoveType DEF StreamStale, Labels
  <2>2. binding' \in [Entities -> Nat]
    BY <1>b DEF TypeOK, StreamStale
  <2> QED BY <1>b, <2>1, <2>2 DEF TypeOK, UserType, UserOK, Labels, StreamStale, server, undecl
<1>c. ASSUME NEW e \in Entities, StreamBreaks(e) PROVE TypeOK'
  <2>1. faults' \in 0..MaxFaults
    BY <1>c, FaultType DEF StreamBreaks
  <2>2. src' \in [Entities -> Nat]
    BY <1>c DEF StreamBreaks, TypeOK
  <2> QED BY <1>c, <2>1, <2>2 DEF TypeOK, StreamBreaks, server, undecl
<1>18. ASSUME NEW e \in Entities, UndeclareLocal(e) PROVE TypeOK'
  <2>1. UserType'
    <3>1. CASE UndeclareNotify(e)
      BY <1>0, <3>1, MoveType, FinishType DEF UndeclareNotify, Labels, UserType
    <3>2. CASE UNCHANGED <<pc, backlog>>
      BY <1>0, <3>2 DEF UserType
    <3> QED BY <1>18, <3>1, <3>2 DEF UndeclareLocal, UndeclareStart, UndeclareClose,
                                     UndeclareCloseQueue, UndeclareLook
  <2>2. /\ closed' \in [Entities -> BOOLEAN]
        /\ pcU' \in [Entities -> LabelsU]
    BY <1>18 DEF TypeOK, LabelsU, UndeclareLocal, UndeclareStart, UndeclareClose,
                UndeclareNotify, UndeclareCloseQueue, UndeclareLook, At
  <2>3. UNCHANGED <<server, faults, conn, binding, taken, use, src, calls, lost>>
    BY <1>18 DEF UndeclareLocal, UndeclareStart, UndeclareClose,
                 UndeclareNotify, UndeclareCloseQueue, UndeclareLook
  <2> QED BY <2>1, <2>2, <2>3 DEF TypeOK, UserType, UserOK, Labels, LabelsU, server
<1>19. ASSUME NEW e \in Entities, TakeHandle(e) PROVE TypeOK'
  BY <1>19 DEF TypeOK, TakeHandle, At, server
<1>20. ASSUME NEW e \in Entities, UndeclareOk(e) PROVE TypeOK'
  <2>1. src' \in [Entities -> Nat] /\ table' \subseteq table
    BY <1>20 DEF TypeOK, LabelsU, UndeclareOk
  <2>2. pcU' \in [Entities -> LabelsU]
    BY <1>20 DEF TypeOK, LabelsU, UndeclareOk, At
  <2> QED BY <1>20, <2>1, <2>2 DEF TypeOK, LabelsU, UndeclareOk
<1>21. ASSUME NEW e \in Entities, UndeclareDisconnected(e) PROVE TypeOK'
  <2>1. faults' \in 0..MaxFaults
    BY <1>21, FaultType DEF UndeclareDisconnected
  <2>2. UserOK(pc, backlog')
    BY <1>0, <1>21 DEF UndeclareDisconnected, UserType
  <2>3. UserType' /\ conn' \in BOOLEAN
    BY <1>21, <2>2, MarkType DEF UndeclareDisconnected
  <2>4. pcU' \in [Entities -> LabelsU]
    BY <1>21 DEF TypeOK, LabelsU, UndeclareDisconnected, At
  <2> QED BY <1>21, <2>1, <2>3, <2>4
          DEF TypeOK, UserType, UserOK, Labels, LabelsU, UndeclareDisconnected, server
<1>22. CASE UNCHANGED vars
  BY <1>22 DEF TypeOK, vars, server, undecl
<1> QED
  BY <1>1, <1>2, <1>3, <1>4, <1>5, <1>6, <1>7, <1>8, <1>9, <1>10, <1>11, <1>12, <1>13,
     <1>14, <1>15, <1>16, <1>17, <1>a, <1>b, <1>c, <1>18, <1>19, <1>20, <1>21, <1>22,
     NextSplit

(***************************************************************************)
(* The state stays well typed; in particular a worker is busy only with a  *)
(* command that is still counted, so wait_empty waits for it.              *)
(***************************************************************************)
THEOREM TypeCorrect == Spec => []TypeOK
<1>1. Init => TypeOK
  <2> SUFFICES ASSUME Init PROVE TypeOK
    OBVIOUS
  <2>1. stops \in 0..MaxStops /\ faults \in 0..MaxFaults
    BY BoundsNat DEF Init
  <2>2. conn \in BOOLEAN /\ up \in BOOLEAN
    BY DEF Init
  <2> QED BY <2>1, <2>2 DEF Init, TypeOK
<1> QED BY <1>1, TypeStep, PTL DEF Spec

--------------------------------------------------------------------------------
(* Handles before the first restart *)

\* While the server has not stopped, it has given out every handle in its tables
\* and every handle an entity's tasks know, and those name their entity.
OwnInv ==
    stops = 0 =>
      /\ \A x \in table : x.handle < nextHandle
      /\ \A e \in Entities : \A h \in Known(e) :
           h < nextHandle /\ \A x \in Entry(Kind(e), h) : x.entity = e

\* A step that tells no task a new handle, and adds no entity, keeps it.
LEMMA OwnFrame ==
    ASSUME TypeOK, OwnInv, stops' = stops, nextHandle' = nextHandle,
           table' \subseteq table, \A e \in Entities : Known(e)' \subseteq Known(e)
    PROVE  OwnInv'
  BY DEF OwnInv, Entry

\* Neither does a new entity, if only its own tasks learn its handle.
LEMMA OwnAlloc ==
    ASSUME TypeOK, OwnInv, stops' = stops, nextHandle' = nextHandle + 1,
           NEW k \in Kinds, NEW n \in Entities \cup {Other},
           table' = table \cup {[kind |-> k, handle |-> nextHandle, entity |-> n]},
           \A e \in Entities : Known(e)' \subseteq
               Known(e) \cup (IF e = n THEN {nextHandle} ELSE {})
    PROVE  OwnInv'
<1> SUFFICES ASSUME stops = 0 PROVE OwnInv'
  BY DEF OwnInv
<1> DEFINE new == [kind |-> k, handle |-> nextHandle, entity |-> n]
<1>1. nextHandle \in Nat /\ \A x \in table : x.handle \in Nat
  BY DEF TypeOK
<1>2. \A x \in table : x.handle < nextHandle
  BY DEF OwnInv
<1>3. \A x \in table' : x.handle < nextHandle'
  <2> SUFFICES ASSUME NEW x \in table' PROVE x.handle < nextHandle'
    OBVIOUS
  <2>1. CASE x \in table
    BY <1>1, <1>2, <2>1
  <2>2. CASE x = new
    BY <1>1, <2>2
  <2> QED BY <2>1, <2>2
<1>4. ASSUME NEW e \in Entities, NEW h \in Known(e)'
      PROVE  h < nextHandle' /\ \A x \in Entry(Kind(e), h)' : x.entity = e
  <2>1. CASE h \in Known(e)
    <3>1. h < nextHandle /\ \A x \in Entry(Kind(e), h) : x.entity = e
      BY <2>1 DEF OwnInv
    <3>2. h \in Nat
      BY <2>1 DEF TypeOK, Known
    <3>3. \A x \in Entry(Kind(e), h)' : x \in Entry(Kind(e), h)
      BY <1>1, <3>1, <3>2 DEF Entry
    <3> QED BY <1>1, <3>1, <3>2, <3>3
  <2>2. CASE h = nextHandle /\ e = n
    <3>1. \A x \in Entry(Kind(e), h)' : x = new
      BY <1>1, <1>2, <2>2 DEF Entry
    <3> QED BY <1>1, <2>2, <3>1
  <2> QED BY <1>4, <2>1, <2>2
<1> QED BY <1>3, <1>4 DEF OwnInv

LEMMA OwnStep == TypeOK /\ OwnInv /\ [Next]_vars => OwnInv'
<1> SUFFICES ASSUME TypeOK, OwnInv, [Next]_vars PROVE OwnInv'
  OBVIOUS
<1>1. CASE ServerStops
  <2>1. stops' # 0
    BY <1>1 DEF ServerStops, TypeOK
  <2> QED BY <2>1 DEF OwnInv
<1>2. CASE ServerStarts \/ SetConnected \/ UNCHANGED vars
  BY <1>2, OwnFrame DEF ServerStarts, SetConnected, vars, server, undecl, Known
<1>3. CASE LeaseLapses
  <2>1. \A e \in Entities : Known(e)' \subseteq Known(e)
    BY <1>3 DEF LeaseLapses, undecl, Known
  <2> QED BY <1>3, <2>1, OwnFrame DEF LeaseLapses
<1>4. ASSUME NEW k \in Kinds, OtherDeclares(k) PROVE OwnInv'
  <2>1. \A e \in Entities : Known(e)' \subseteq Known(e)
    BY <1>4 DEF OtherDeclares, AllocHandle, undecl, Known
  <2> QED BY <1>4, <2>1, OwnAlloc DEF OtherDeclares, AllocHandle
<1>5. ASSUME NEW e \in Entities,
             \/ Call(e) \/ Begin(e) \/ CheckClosed(e) \/ HaveConnection(e) \/ NoConnection(e)
             \/ Register(e) \/ DeclareRefused(e) \/ CallDisconnected(e) \/ CallRefused(e)
             \/ EventArrives(e) \/ EventPushed(e) \/ StreamEnds(e)
      PROVE  OwnInv'
  <2>1. UNCHANGED <<stops, table, nextHandle, binding, use, src, taken>>
    BY <1>5 DEF Call, Begin, CheckClosed, HaveConnection, NoConnection, Register, DeclareRefused,
                CallDisconnected, CallRefused, EventArrives, EventPushed, StreamEnds,
                server, undecl
  <2> QED BY <2>1, OwnFrame DEF Known
<1>6. ASSUME NEW e \in Entities,
             Bind(e) \/ CallOk(e) \/ CallStale(e) \/ StreamStale(e) \/ StreamBreaks(e)
      PROVE  OwnInv'
  <2>1. UNCHANGED <<stops, table, nextHandle, taken>>
    BY <1>6 DEF Bind, CallOk, CallStale, StreamStale, StreamBreaks, server, undecl
  <2>2. \A f \in Entities : Known(f)' \subseteq Known(f)
    <3>1. CASE Bind(e)
      BY <3>1 DEF Bind, Known, TypeOK, undecl
    <3>2. CASE CallOk(e)
      BY <3>2 DEF CallOk, Known, TypeOK, undecl
    <3>3. CASE CallStale(e) \/ StreamStale(e)
      BY <3>3 DEF CallStale, StreamStale, Known, TypeOK, undecl
    <3>4. CASE StreamBreaks(e)
      BY <3>4 DEF StreamBreaks, Known, TypeOK, undecl
    <3> QED BY <1>6, <3>1, <3>2, <3>3, <3>4
  <2> QED BY <2>1, <2>2, OwnFrame
<1>7. ASSUME NEW e \in Entities, DeclareOk(e) PROVE OwnInv'
  <2> DEFINE new == [kind |-> Kind(e), handle |-> nextHandle, entity |-> e]
  <2>1. table' = table \cup {new} /\ nextHandle' = nextHandle + 1 /\ stops' = stops
    BY <1>7 DEF DeclareOk, AllocHandle
  <2>2. PICK x \in table' \ table :
          /\ binding' = [binding EXCEPT ![e] = x.handle]
          /\ use' = [use EXCEPT ![e] = x.handle]
    BY <1>7 DEF DeclareOk
  <2>3. x.handle = nextHandle
    BY <2>1, <2>2
  <2>4. UNCHANGED <<src, taken>>
    BY <1>7 DEF DeclareOk, undecl
  <2>5. \A f \in Entities : Known(f)' \subseteq
               Known(f) \cup (IF f = e THEN {nextHandle} ELSE {})
    BY <2>2, <2>3, <2>4 DEF Known, TypeOK
  <2>6. Kind(e) \in Kinds
    BY KindType
  <2> HIDE DEF new
  <2> QED BY <2>1, <2>5, <2>6, OwnAlloc DEF new
<1>8. ASSUME NEW e \in Entities, DeclareLost(e) PROVE OwnInv'
  <2>1. /\ table' = table \cup {[kind |-> Kind(e), handle |-> nextHandle, entity |-> e]}
        /\ nextHandle' = nextHandle + 1 /\ stops' = stops
    BY <1>8 DEF DeclareLost, AllocHandle
  <2>2. \A f \in Entities : Known(f)' \subseteq Known(f)
    BY <1>8 DEF DeclareLost, Known, undecl
  <2>3. \A f \in Entities : Known(f)' \subseteq
               Known(f) \cup (IF f = e THEN {nextHandle} ELSE {})
    BY <2>2
  <2> QED BY <2>1, <2>3, KindType, OwnAlloc
<1>9. ASSUME NEW e \in Entities,
             UndeclareLocal(e) \/ UndeclareDisconnected(e)
      PROVE  OwnInv'
  <2>1. UNCHANGED <<stops, table, nextHandle, binding, use, src, taken>>
    BY <1>9 DEF UndeclareLocal, UndeclareStart, UndeclareClose,
                UndeclareNotify, UndeclareCloseQueue, UndeclareLook,
                UndeclareDisconnected, server
  <2> QED BY <2>1, OwnFrame DEF Known
<1>10. ASSUME NEW e \in Entities, TakeHandle(e) \/ UndeclareOk(e) PROVE OwnInv'
  <2>1. stops' = stops /\ nextHandle' = nextHandle /\ table' \subseteq table
    BY <1>10 DEF TakeHandle, UndeclareOk, server
  <2>2. \A f \in Entities : Known(f)' \subseteq Known(f)
    <3>1. CASE TakeHandle(e)
      BY <3>1 DEF TakeHandle, Known, TypeOK
    <3>2. CASE UndeclareOk(e)
      BY <3>2 DEF UndeclareOk, Known, TypeOK
    <3> QED BY <1>10, <3>1, <3>2
  <2> QED BY <2>1, <2>2, OwnFrame
<1> QED BY <1>1, <1>2, <1>3, <1>4, <1>5, <1>6, <1>7, <1>8, <1>9, <1>10, NextSplit

(***************************************************************************)
(* Until the server is restarted, a handle that any task of an entity      *)
(* still holds names that entity or nothing: next_handle only grows, so    *)
(* neither lapsed leases nor lost answers make a cached handle dangerous.  *)
(***************************************************************************)
THEOREM HandlesAreOwnUntilRestart == Spec => []OwnUnlessRestarted
<1>1. Init => OwnInv
  BY DEF Init, OwnInv, Known
<1>2. OwnInv => OwnUnlessRestarted
  BY DEF OwnInv, OwnUnlessRestarted
<1> QED BY <1>1, <1>2, TypeCorrect, OwnStep, PTL DEF Spec

--------------------------------------------------------------------------------
(* Declarations *)

\* Why a declaration finds nothing to repeat: the binding is locked and empty
\* while one is in progress, an entity is in the table of its kind, and a handle
\* is taken away only after `closed` is set.
DeclInv ==
    /\ DeclaredOnce
    /\ \A x \in table : x.entity # Other => x.kind = Kind(x.entity)
    /\ \A e \in Entities : pc[e] = "declare" => binding[e] = 0
    /\ \A e \in Entities : pcU[e] \in Closing => closed[e]

\* A step that leaves bindings alone, adds no entity and starts no declaration.
LEMMA DeclFrame ==
    ASSUME TypeOK, DeclInv, table' \subseteq table, UNCHANGED <<binding, closed, pcU>>,
           \A e \in Entities : lost[e] => lost'[e],
           \A e \in Entities : pc'[e] = "declare" => pc[e] = "declare"
    PROVE  DeclInv'
  BY DEF DeclInv, DeclaredOnce, Kind, TypeOK

LEMMA DeclStep == TypeOK /\ DeclInv /\ [Next]_vars => DeclInv'
<1> SUFFICES ASSUME TypeOK, DeclInv, [Next]_vars PROVE DeclInv'
  OBVIOUS
<1>1. CASE ServerStops \/ ServerStarts \/ LeaseLapses \/ SetConnected \/ UNCHANGED vars
  <2>1. table' \subseteq table /\ UNCHANGED <<binding, closed, pcU, lost>>
    BY <1>1 DEF ServerStops, ServerStarts, LeaseLapses, SetConnected, vars, server, undecl
  <2>2. \A f \in Entities : pc'[f] = "declare" => pc[f] = "declare"
    BY <1>1 DEF ServerStops, ServerStarts, LeaseLapses, SetConnected, Woken, vars
  <2> QED BY <2>1, <2>2, DeclFrame
<1>2. ASSUME NEW k \in Kinds, OtherDeclares(k) PROVE DeclInv'
  <2>1. /\ table' = table \cup {[kind |-> k, handle |-> nextHandle, entity |-> Other]}
        /\ UNCHANGED <<binding, closed, pcU, pc, lost>>
    BY <1>2 DEF OtherDeclares, AllocHandle, undecl
  <2> QED BY <2>1 DEF DeclInv, DeclaredOnce, Kind, TypeOK
<1>3. ASSUME NEW e \in Entities,
             \/ Call(e) \/ Begin(e) \/ CheckClosed(e) \/ HaveConnection(e) \/ NoConnection(e)
             \/ Register(e) \/ DeclareRefused(e) \/ CallDisconnected(e) \/ CallOk(e)
             \/ CallRefused(e) \/ EventArrives(e) \/ EventPushed(e) \/ StreamEnds(e)
             \/ StreamBreaks(e)
      PROVE  DeclInv'
  <2>1. UNCHANGED <<table, binding, closed, pcU, lost>>
    BY <1>3 DEF Call, Begin, CheckClosed, HaveConnection, NoConnection, Register,
                DeclareRefused, CallDisconnected, CallOk, CallRefused, EventArrives,
                EventPushed, StreamEnds, StreamBreaks, server, undecl
  <2>2. ASSUME NEW f \in Entities, pc'[f] = "declare" PROVE pc[f] = "declare"
    <3>1. CASE Call(e) \/ Begin(e) \/ CheckClosed(e) \/ HaveConnection(e) \/ NoConnection(e)
               \/ Register(e)
      BY <2>2, <3>1 DEF Call, Begin, CheckClosed, HaveConnection, NoConnection, Register,
                        Finish, TypeOK
    <3>2. CASE DeclareRefused(e) \/ CallOk(e) \/ CallRefused(e)
      BY <2>2, <3>2 DEF DeclareRefused, CallOk, CallRefused, Finish, TypeOK
    <3>3. CASE CallDisconnected(e)
      <4>1. [pc EXCEPT ![e] = Again(e)][f] = "declare"
        BY <2>2, <3>3, MarkDeclare DEF CallDisconnected, Disconnected
      <4> QED BY <4>1 DEF Again, TypeOK
    <3>4. CASE StreamEnds(e)
      <4>1. [pc EXCEPT ![e] = "check"][f] = "declare"
        BY <2>2, <3>4, MarkDeclare DEF StreamEnds
      <4> QED BY <4>1 DEF TypeOK
    <3>5. CASE EventArrives(e) \/ EventPushed(e) \/ StreamBreaks(e)
      BY <2>2, <3>5 DEF EventArrives, EventPushed, StreamBreaks, TypeOK
    <3> QED BY <1>3, <3>1, <3>2, <3>3, <3>4, <3>5
  <2> QED BY <2>1, <2>2, DeclFrame
<1>4. ASSUME NEW e \in Entities, Bind(e) PROVE DeclInv'
  <2>1. UNCHANGED <<table, binding, closed, pcU, lost>>
    BY <1>4 DEF Bind, server, undecl
  <2>2. \A f \in Entities : pc'[f] = "declare" => binding[f] = 0
    BY <1>4 DEF Bind, TypeOK, DeclInv
  <2> QED BY <2>1, <2>2 DEF DeclInv, DeclaredOnce, Kind
<1>5. ASSUME NEW e \in Entities, DeclareOk(e) PROVE DeclInv'
  <2> DEFINE new == [kind |-> Kind(e), handle |-> nextHandle, entity |-> e]
  <2>1. table' = table \cup {new} /\ UNCHANGED <<closed, pcU, lost>>
    BY <1>5 DEF DeclareOk, AllocHandle, undecl
  <2>2. PICK x \in table' \ table : binding' = [binding EXCEPT ![e] = x.handle]
    BY <1>5 DEF DeclareOk
  <2>3. x = new
    BY <2>1, <2>2
  <2>4. binding[e] = 0 /\ pc[e] = "declare"
    BY <1>5 DEF DeclareOk, DeclInv
  <2>5. \A y \in table : y.entity = e => closed[e] \/ lost[e]
    BY <2>4, ClassesApart DEF DeclInv, DeclaredOnce, TypeOK
  <2>6. \A f \in Entities : pc'[f] = "declare" => f # e /\ pc[f] = "declare"
    BY <1>5 DEF DeclareOk, TypeOK
  <2>7. \A f \in Entities : binding'[f] = IF f = e THEN nextHandle ELSE binding[f]
    BY <2>2, <2>3 DEF TypeOK
  <2>8. DeclaredOnce'
    <3> SUFFICES ASSUME NEW y \in table', y.entity # Other, \neg closed'[y.entity],
                        \neg lost'[y.entity]
                 PROVE  binding'[y.entity] = y.handle
      BY DEF DeclaredOnce
    <3>1. CASE y = new
      BY <2>7, <3>1
    <3>2. CASE y \in table
      <4>1. y.entity \in Entities /\ y.entity # e
        BY <2>1, <2>5, <3>2 DEF TypeOK
      <4>2. binding[y.entity] = y.handle
        BY <2>1, <3>2 DEF DeclInv, DeclaredOnce
      <4> QED BY <2>7, <4>1, <4>2
    <3> QED BY <2>1, <3>1, <3>2
  <2>9. \A y \in table' : y.entity # Other => y.kind = Kind(y.entity)
    BY <2>1 DEF DeclInv
  <2> QED BY <2>1, <2>6, <2>7, <2>8, <2>9 DEF DeclInv, Kind
<1>6. ASSUME NEW e \in Entities, DeclareLost(e) PROVE DeclInv'
  <2>1. /\ table' = table \cup {[kind |-> Kind(e), handle |-> nextHandle, entity |-> e]}
        /\ UNCHANGED <<binding, closed, pcU>> /\ lost' = [lost EXCEPT ![e] = TRUE]
    BY <1>6 DEF DeclareLost, AllocHandle, undecl
  <2>2. ASSUME NEW f \in Entities, pc'[f] = "declare" PROVE pc[f] = "declare"
    <3>1. [pc EXCEPT ![e] = Again(e)][f] = "declare"
      BY <1>6, <2>2, MarkDeclare DEF DeclareLost, Disconnected
    <3> QED BY <3>1 DEF Again, TypeOK
  <2>3. \A f \in Entities : lost'[f] = (lost[f] \/ f = e)
    BY <2>1 DEF TypeOK
  <2>4. DeclaredOnce'
    BY <2>1, <2>3 DEF DeclInv, DeclaredOnce, TypeOK
  <2>5. \A y \in table' : y.entity # Other => y.kind = Kind(y.entity)
    BY <2>1 DEF DeclInv
  <2> QED BY <2>1, <2>2, <2>4, <2>5 DEF DeclInv, Kind
<1>7. ASSUME NEW e \in Entities, CallStale(e) \/ StreamStale(e) PROVE DeclInv'
  <2>1. UNCHANGED <<table, closed, pcU, lost>>
    BY <1>7 DEF CallStale, StreamStale, server, undecl
  <2>2. \A f \in Entities : pc'[f] = "declare" => f # e /\ pc[f] = "declare"
    BY <1>7 DEF CallStale, StreamStale, Retry, Again, TypeOK
  <2>3. \A f \in Entities : f # e => binding'[f] = binding[f]
    BY <1>7 DEF CallStale, StreamStale, TypeOK
  <2>4. binding'[e] = IF binding[e] = use[e] THEN 0 ELSE binding[e]
    BY <1>7 DEF CallStale, StreamStale, TypeOK
  <2>5. \A y \in table : y.entity = e => y.handle # use[e]
    BY <1>7, ClassesApart DEF CallStale, StreamStale, Entry, DeclInv
  <2>6. DeclaredOnce'
    BY <2>1, <2>3, <2>4, <2>5 DEF DeclInv, DeclaredOnce, TypeOK
  <2> QED BY <2>1, <2>2, <2>3, <2>6 DEF DeclInv, Kind
<1>8. ASSUME NEW e \in Entities, UndeclareLocal(e) PROVE DeclInv'
  <2>1. UNCHANGED <<table, binding, lost>>
    BY <1>8 DEF UndeclareLocal, UndeclareStart, UndeclareClose,
                UndeclareNotify, UndeclareCloseQueue, UndeclareLook, server
  <2>2. \A f \in Entities : pc'[f] = "declare" => pc[f] = "declare"
    BY <1>8 DEF UndeclareLocal, UndeclareStart, UndeclareClose,
                UndeclareNotify, UndeclareCloseQueue, UndeclareLook, Finish, TypeOK
  <2>3. \A f \in Entities : closed[f] => closed'[f]
    BY <1>8 DEF UndeclareLocal, UndeclareStart, UndeclareClose,
                UndeclareNotify, UndeclareCloseQueue, UndeclareLook, TypeOK
  <2>4. \A f \in Entities  : pcU'[f] \in Closing => closed'[f]
    BY <1>8 DEF UndeclareLocal, UndeclareStart, UndeclareClose,
                UndeclareNotify, UndeclareCloseQueue, UndeclareLook, At, TypeOK,
                DeclInv, Closing, LabelsU
  <2>5. DeclaredOnce'
    BY <2>1, <2>3 DEF DeclInv, DeclaredOnce, TypeOK
  <2> QED BY <2>1, <2>2, <2>4, <2>5 DEF DeclInv, Kind
<1>9. ASSUME NEW e \in Entities, TakeHandle(e) PROVE DeclInv'
  <2>1. UNCHANGED <<table, closed, lost, pc>> /\ closed[e] /\ pc[e] # "declare"
    BY <1>9 DEF TakeHandle, At, server, DeclInv, Closing, LabelsU
  <2>2. \A f \in Entities : f # e => binding'[f] = binding[f]
    BY <1>9 DEF TakeHandle, TypeOK
  <2>3. \A f \in Entities  : pcU'[f] \in Closing => closed'[f]
    BY <1>9, <2>1 DEF TakeHandle, At, TypeOK, DeclInv, Closing, LabelsU
  <2>4. DeclaredOnce'
    BY <2>1, <2>2 DEF DeclInv, DeclaredOnce, TypeOK
  <2> QED BY <2>1, <2>2, <2>3, <2>4 DEF DeclInv, Kind
<1>10. ASSUME NEW e \in Entities, UndeclareOk(e) \/ UndeclareDisconnected(e) PROVE DeclInv'
  <2>1. table' \subseteq table /\ UNCHANGED <<binding, closed, lost>>
    BY <1>10 DEF UndeclareOk, UndeclareDisconnected, server
  <2>2. \A f \in Entities  : pcU'[f] \in Closing => closed'[f]
    BY <1>10, <2>1 DEF UndeclareOk, UndeclareDisconnected, At, TypeOK, DeclInv, Closing,
                      LabelsU
  <2>3. \A f \in Entities : pc'[f] = "declare" => pc[f] = "declare"
    BY <1>10, MarkDeclare DEF UndeclareOk, UndeclareDisconnected
  <2> QED BY <2>1, <2>2, <2>3 DEF DeclInv, DeclaredOnce, Kind
<1> QED BY <1>1, <1>2, <1>3, <1>4, <1>5, <1>6, <1>7, <1>8, <1>9, <1>10, NextSplit

(***************************************************************************)
(* No failure, retry or restart makes the client declare an entity a       *)
(* second time while the first declaration stands, except when the answer  *)
(* to the first was lost.                                                  *)
(***************************************************************************)
THEOREM EntitiesAreDeclaredOnce == Spec => []DeclaredOnce
<1>1. Init => DeclInv
  BY DEF Init, DeclInv, DeclaredOnce, Closing, LabelsU
<1>2. DeclInv => DeclaredOnce
  BY DEF DeclInv
<1> QED BY <1>1, <1>2, TypeCorrect, DeclStep, PTL DEF Spec

--------------------------------------------------------------------------------
(* The server agrees with the bindings *)

Entered(e, h) == [kind |-> Kind(e), handle |-> h, entity |-> e]

\* BoundIsDeclared, and why an undeclare removes nothing that is bound: what it took
\* is no binding any more, and never becomes one again.
BoundInv ==
    stops = 0 =>
      /\ \A e \in Entities : pcU[e] = "call" => taken[e] # 0
      /\ \A e \in Entities : pcU[e] \in {"look", "call"} /\ taken[e] # 0 =>
                                binding[e] # taken[e]
      /\ faults = 0 => \A e \in Entities : binding[e] # 0 => Entered(e, binding[e]) \in table

\* A step that undeclares and binds nothing, and that a fault may make.
LEMMA BoundFrame ==
    ASSUME TypeOK, BoundInv, stops' = stops, UNCHANGED <<binding, taken, pcU>>,
           faults' = faults + 1 \/ (faults' = faults /\ table \subseteq table')
    PROVE  BoundInv'
<1>1. faults' = 0 => faults = 0 /\ table \subseteq table'
  BY DEF TypeOK
<1> QED BY <1>1 DEF BoundInv, Entered, Kind

LEMMA BoundStep == TypeOK /\ OwnInv /\ BoundInv /\ [Next]_vars => BoundInv'
<1> SUFFICES ASSUME TypeOK, OwnInv, BoundInv, [Next]_vars PROVE BoundInv'
  OBVIOUS
<1>1. CASE ServerStops
  <2>1. stops' # 0
    BY <1>1 DEF ServerStops, TypeOK
  <2> QED BY <2>1 DEF BoundInv
<1>2. CASE ServerStarts \/ LeaseLapses \/ SetConnected \/ UNCHANGED vars
  <2>1. stops' = stops /\ UNCHANGED <<binding, taken, pcU>>
    BY <1>2 DEF ServerStarts, LeaseLapses, SetConnected, vars, server, undecl
  <2>2. faults' = faults + 1 \/ (faults' = faults /\ table' = table)
    BY <1>2 DEF ServerStarts, LeaseLapses, SetConnected, vars, server
  <2> QED BY <2>1, <2>2, BoundFrame
<1>3. ASSUME NEW k \in Kinds, OtherDeclares(k) PROVE BoundInv'
  <2>1. stops' = stops /\ UNCHANGED <<binding, taken, pcU, faults>> /\ table \subseteq table'
    BY <1>3 DEF OtherDeclares, AllocHandle, undecl
  <2> QED BY <2>1, BoundFrame
<1>4. ASSUME NEW e \in Entities,
             \/ Call(e) \/ Begin(e) \/ CheckClosed(e) \/ HaveConnection(e) \/ NoConnection(e)
             \/ Register(e) \/ Bind(e) \/ DeclareRefused(e) \/ CallDisconnected(e) \/ CallOk(e)
             \/ CallRefused(e) \/ EventArrives(e) \/ EventPushed(e) \/ StreamEnds(e)
             \/ StreamBreaks(e)
      PROVE  BoundInv'
  <2>1. UNCHANGED <<stops, table, binding, taken, pcU>>
    BY <1>4 DEF Call, Begin, CheckClosed, HaveConnection, NoConnection, Register, Bind,
                DeclareRefused, CallDisconnected, CallOk, CallRefused, EventArrives,
                EventPushed, StreamEnds, StreamBreaks, server, undecl
  <2>2. faults' = faults + 1 \/ faults' = faults
    BY <1>4 DEF Call, Begin, CheckClosed, HaveConnection, NoConnection, Register, Bind,
                DeclareRefused, CallDisconnected, CallOk, CallRefused, EventArrives,
                EventPushed, StreamEnds, StreamBreaks, Fault
  <2> QED BY <2>1, <2>2, BoundFrame
<1>5. ASSUME NEW e \in Entities, DeclareLost(e) PROVE BoundInv'
  <2>1. stops' = stops /\ UNCHANGED <<binding, taken, pcU>> /\ faults' = faults + 1
    BY <1>5 DEF DeclareLost, Fault, undecl
  <2> QED BY <2>1, BoundFrame
<1>6. ASSUME NEW e \in Entities, DeclareOk(e) PROVE BoundInv'
  <2> SUFFICES ASSUME stops = 0 PROVE BoundInv'
    BY <1>6 DEF BoundInv, DeclareOk
  <2>1. table' = table \cup {Entered(e, nextHandle)} /\ UNCHANGED <<stops, faults, taken, pcU>>
    BY <1>6 DEF DeclareOk, AllocHandle, Entered, undecl
  <2>2. PICK x \in table' \ table : binding' = [binding EXCEPT ![e] = x.handle]
    BY <1>6 DEF DeclareOk
  <2>3. x.handle = nextHandle
    BY <2>1, <2>2 DEF Entered
  <2>4. \A f \in Entities : binding'[f] = IF f = e THEN nextHandle ELSE binding[f]
    BY <2>2, <2>3 DEF TypeOK
  <2>5. taken[e] # 0 => taken[e] # nextHandle
    BY DEF OwnInv, Known, TypeOK
  <2> QED BY <2>1, <2>4, <2>5 DEF BoundInv, Entered, Kind
<1>7. ASSUME NEW e \in Entities, CallStale(e) \/ StreamStale(e) PROVE BoundInv'
  <2>1. UNCHANGED <<stops, faults, table, taken, pcU>>
    BY <1>7 DEF CallStale, StreamStale, server, undecl
  <2>2. \A f \in Entities : binding'[f] \in {binding[f], 0}
    BY <1>7 DEF CallStale, StreamStale, TypeOK
  <2> QED BY <2>1, <2>2 DEF BoundInv, Entered, Kind
<1>8. ASSUME NEW e \in Entities, UndeclareLocal(e) PROVE BoundInv'
  <2>1. UNCHANGED <<stops, faults, table, binding, taken>>
    BY <1>8 DEF UndeclareLocal, UndeclareStart, UndeclareClose, UndeclareNotify,
                UndeclareCloseQueue, UndeclareLook, server
  <2>2. \A f \in Entities : f # e => pcU'[f] = pcU[f]
    BY <1>8 DEF UndeclareLocal, UndeclareStart, UndeclareClose, UndeclareNotify,
                UndeclareCloseQueue, UndeclareLook, At, TypeOK
  <2>3. \/ pcU'[e] \notin {"look", "call"}
        \/ pcU[e] = "look" /\ taken[e] # 0
    BY <1>8 DEF UndeclareLocal, UndeclareStart, UndeclareClose, UndeclareNotify,
                UndeclareCloseQueue, UndeclareLook, At, TypeOK
  <2> QED BY <2>1, <2>2, <2>3 DEF BoundInv, Entered, Kind
<1>9. ASSUME NEW e \in Entities, TakeHandle(e) PROVE BoundInv'
  <2>1. UNCHANGED <<stops, faults, table>>
    BY <1>9 DEF TakeHandle, server
  <2>2. binding'[e] = 0 /\ pcU'[e] = "look"
        /\ \A f \in Entities : f # e => /\ binding'[f] = binding[f] /\ pcU'[f] = pcU[f]
                                        /\ taken'[f] = taken[f]
    BY <1>9 DEF TakeHandle, At, TypeOK
  <2> QED BY <2>1, <2>2 DEF BoundInv, Entered, Kind
<1>10. ASSUME NEW e \in Entities, UndeclareOk(e) PROVE BoundInv'
  <2> SUFFICES ASSUME stops = 0 PROVE BoundInv'
    BY <1>10 DEF BoundInv, UndeclareOk
  <2>1. table' = table \ Entry(Kind(e), taken[e]) /\ UNCHANGED <<stops, faults, binding, taken>>
    BY <1>10 DEF UndeclareOk
  <2>2. pcU[e] = "call" /\ \A f \in Entities : f # e => pcU'[f] = pcU[f]
    BY <1>10 DEF UndeclareOk, At, TypeOK
  <2>3. pcU'[e] = "done"
    BY <1>10 DEF UndeclareOk, At, TypeOK
  <2>4. taken[e] # 0 /\ binding[e] # taken[e]
    BY <2>2 DEF BoundInv
  <2>5. \A x \in Entry(Kind(e), taken[e]) : x.entity = e /\ x.handle = taken[e]
    BY <2>4 DEF OwnInv, Known, Entry
  <2>6. ASSUME NEW f \in Entities, Entered(f, binding[f]) \in Entry(Kind(e), taken[e])
        PROVE  FALSE
    <3>1. Entered(f, binding[f]).entity = f /\ Entered(f, binding[f]).handle = binding[f]
      BY DEF Entered
    <3> QED BY <2>4, <2>5, <2>6, <3>1
  <2> QED BY <2>1, <2>2, <2>3, <2>6 DEF BoundInv, Entered, Kind
<1>11. ASSUME NEW e \in Entities, UndeclareDisconnected(e) PROVE BoundInv'
  <2>1. UNCHANGED <<stops, table, binding, taken>>
    BY <1>11 DEF UndeclareDisconnected, server
  <2>2. pcU'[e] = "done" /\ \A f \in Entities : f # e => pcU'[f] = pcU[f]
    BY <1>11 DEF UndeclareDisconnected, At, TypeOK
  <2>3. faults' = 0 => faults = 0
    BY <1>11 DEF UndeclareDisconnected, Fault, TypeOK
  <2> QED BY <2>1, <2>2, <2>3 DEF BoundInv, Entered, Kind
<1> QED BY <1>1, <1>2, <1>3, <1>4, <1>5, <1>6, <1>7, <1>8, <1>9, <1>10, <1>11, NextSplit

(***************************************************************************)
(* As long as nothing goes wrong the server holds each entity under the    *)
(* handle that it is bound to, whatever is undeclared and declared again   *)
(* meanwhile: an undeclare never takes away what a later use has bound.    *)
(***************************************************************************)
THEOREM BindingsAreDeclared == Spec => []BoundIsDeclared
<1>1. Init => OwnInv /\ BoundInv
  BY DEF Init, OwnInv, Known, BoundInv
<1>2. BoundInv => BoundIsDeclared
  BY DEF BoundInv, BoundIsDeclared, Entered
<1> QED BY <1>1, <1>2, TypeCorrect, OwnStep, BoundStep, PTL DEF Spec
================================================================================
