--------------------------- MODULE PluginServerProofs ---------------------------
(***************************************************************************)
(* What holds of the plugin's server for any number of clients, concurrent *)
(* requests, handles and queries.                                          *)
(***************************************************************************)
EXTENDS PluginServer, TLAPS

(* The constants in the form the provers use. *)
LEMMA ConstantFacts ==
    /\ MaxHandle \in Nat /\ Len(Sweep) \in Nat /\ Len(Sweep) >= 1
    /\ \A i \in 1..Len(Sweep) : Sweep[i] \in Kinds
    /\ Cleaner \in AllTasks /\ Tasks \subseteq AllTasks
    /\ 1 \in 1..Len(Sweep)
<1>1. MaxHandle \in Nat
  BY BoundsNat
<1>2. Len(Sweep) \in Nat /\ Len(Sweep) >= 1
  BY SweepOrder
<1>3. \A i \in 1..Len(Sweep) : Sweep[i] \in Kinds
  BY DEF Kinds
<1> QED BY <1>1, <1>2, <1>3 DEF AllTasks

(* The locals of a task that is not running. *)
LEMMA IdleType == Idle \in TaskType
<1>1. 1 \in 1..Len(Sweep)
  BY ConstantFacts
<1>2. Idle \in Locals
  BY <1>1 DEF Idle, Locals
<1> QED BY <1>2 DEF Idle, TaskType, Holding

(* A cleanup that advances keeps the type of its locals and its client.    *)
LEMMA AdvanceType ==
    ASSUME NEW t \in AllTasks, task[t] \in TaskType, NEW rest \in SUBSET Handles,
           task[t].client \in Clients
    PROVE  /\ Advance(t, rest) \in TaskType
           /\ Advance(t, rest).client = task[t].client
           /\ Advance(t, rest).quiet = task[t].quiet
           /\ Advance(t, rest).todo = rest
           /\ Advance(t, rest).pc = IF rest # {} THEN "sweep"
                 ELSE IF task[t].at = Len(Sweep) THEN "retain_owner" ELSE "scan"
           /\ Advance(t, rest).at = IF rest = {} /\ task[t].at # Len(Sweep)
                 THEN task[t].at + 1 ELSE task[t].at
<1> DEFINE r == task[t]
           a == IF rest = {} /\ r.at # Len(Sweep) THEN r.at + 1 ELSE r.at
           p == IF rest # {} THEN "sweep"
                ELSE IF r.at = Len(Sweep) THEN "retain_owner" ELSE "scan"
<1>1. r \in Locals
  BY DEF TaskType
<1>2. a \in 1..Len(Sweep)
  <2> DEFINE n == Len(Sweep)
             x == r.at
  <2>1. n \in Nat /\ x \in 1..n
    BY <1>1, ConstantFacts DEF Locals
  <2>2. a = IF rest = {} /\ x # n THEN x + 1 ELSE x
    OBVIOUS
  <2> HIDE DEF n, x, a
  <2>3. a \in 1..n
    BY <2>1, <2>2
  <2> QED BY <2>3 DEF n
<1>3. Advance(t, rest) = [r EXCEPT !.todo = rest, !.handle = 0, !.pc = p, !.at = a]
  BY <1>1 DEF Advance, Locals
<1> HIDE DEF a
<1>4. Advance(t, rest) \in Locals
  BY <1>1, <1>2, <1>3 DEF Locals
<1>5. /\ Advance(t, rest).client = r.client /\ Advance(t, rest).quiet = r.quiet
      /\ Advance(t, rest).todo = rest /\ Advance(t, rest).pc = p
      /\ Advance(t, rest).at = a
  BY <1>1, <1>3 DEF Locals
<1> QED BY <1>4, <1>5 DEF TaskType, a, Holding

(* One task's locals are replaced. *)
LEMMA TaskUpdate ==
    ASSUME task \in [AllTasks -> TaskType], NEW t \in AllTasks, NEW r \in TaskType,
           task' = [task EXCEPT ![t] = r]
    PROVE  task' \in [AllTasks -> TaskType]
  OBVIOUS

LEMMA ReturnType ==
    ASSUME task \in [AllTasks -> TaskType], NEW t \in AllTasks, Return(t)
    PROVE  task' \in [AllTasks -> TaskType]
  BY IdleType, TaskUpdate DEF Return

(* A task moves on within a request; what its next label relies on is set. *)
LEMMA GotoType ==
    ASSUME task \in [AllTasks -> TaskType], NEW t \in AllTasks,
           NEW l \in {"insert", "retain_handle", "undeclare", "scan"}, Goto(t, l),
           task[t].pc \in {"declare", "remove", "retain_handle", "live"},
           l # "scan" => task[t].pc \in {"declare", "remove", "retain_handle"},
           l = "insert" => task[t].pc = "declare"
    PROVE  task' \in [AllTasks -> TaskType]
<1> DEFINE r == [task[t] EXCEPT !.pc = l]
<1>1. task[t] \in TaskType
  OBVIOUS
<1>2. task[t] \in Locals
  BY <1>1 DEF TaskType
<1>3. r \in Locals /\ r.pc = l /\ r.client = task[t].client /\ r.kind = task[t].kind
      /\ r.handle = task[t].handle /\ r.todo = task[t].todo
  BY <1>2 DEF Locals
<1>4. /\ task[t].client \in Clients /\ task[t].todo = {}
      /\ l # "scan" => task[t].handle \in Handles
      /\ l = "insert" => task[t].kind \in Kinds
  BY <1>1 DEF TaskType, Holding
<1>5. r \in TaskType
  BY <1>3, <1>4 DEF TaskType, Holding
<1>6. task' = [task EXCEPT ![t] = r]
  BY DEF Goto
<1> HIDE DEF r
<1> QED BY <1>5, <1>6, TaskUpdate

(* The locals of a request that begins. *)
LEMMA BeginType ==
    ASSUME NEW r \in Locals, r.pc \in {"declare", "remove", "finish", "live"},
           r.client \in Clients, r.todo = {},
           r.pc \in {"declare", "remove"} => r.kind \in Kinds /\ r.handle \in Handles
    PROVE  r \in TaskType
  BY DEF TaskType, Holding

(* Every step keeps the types. *)
LEMMA TypeStep == TypeOK /\ [Next]_vars => TypeOK'
<1> SUFFICES ASSUME TypeOK, [Next]_vars PROVE TypeOK'
  OBVIOUS
<1> USE ConstantFacts
<1>a. task \in [AllTasks -> TaskType] /\ \A t \in AllTasks : task[t] \in TaskType
  BY DEF TypeOK
<1>b. \A t \in AllTasks : task[t] \in Locals
  BY <1>a DEF TaskType
<1>c. \A t \in AllTasks :
        /\ task[t].pc # "idle" => task[t].client \in Clients
        /\ task[t].pc \in Holding \cup {"declare", "remove"} => task[t].handle \in Handles
        /\ task[t].pc \in {"declare", "insert", "remove"} => task[t].kind \in Kinds
  BY <1>a DEF TaskType
<1>1. ASSUME NEW c \in Clients, TouchOnly(c) PROVE TypeOK'
  BY <1>1 DEF TypeOK, TouchOnly, touch_client
<1>2. ASSUME NEW c \in Clients, LeaseExpires(c) PROVE TypeOK'
  BY <1>2 DEF TypeOK, LeaseExpires
<1>3. ASSUME NEW t \in AllTasks, NEW c \in Clients, NEW k \in Kinds, DeclareStart(t, c, k)
      PROVE  TypeOK'
  <2>1. nextHandle \in Handles /\ nextHandle' \in 1..(MaxHandle + 1)
    BY <1>3 DEF TypeOK, DeclareStart, Handles
  <2>2. [Idle EXCEPT !.pc = "declare", !.client = c, !.kind = k, !.handle = nextHandle]
          \in TaskType
    <3> DEFINE r == [Idle EXCEPT !.pc = "declare", !.client = c, !.kind = k, !.handle = nextHandle]
    <3>1. r \in Locals
      BY <2>1 DEF Idle, Locals
    <3>2. r.pc = "declare" /\ r.client = c /\ r.todo = {} /\ r.kind = k /\ r.handle = nextHandle
      BY DEF Idle
    <3> HIDE DEF r
    <3>3. r \in TaskType
      BY <2>1, <3>1, <3>2, BeginType
    <3> QED BY <3>3 DEF r
  <2>3. ASSUME NEW u \in AllTasks, u # t PROVE task'[u] \in TaskType
    <3> DEFINE r == [task[u] EXCEPT !.quiet = task[u].quiet /\ task[u].client # c]
    <3>1. task'[u] = r
      BY <1>3, <2>3 DEF DeclareStart
    <3>2. r \in Locals /\ r.pc = task[u].pc /\ r.client = task[u].client
          /\ r.kind = task[u].kind /\ r.handle = task[u].handle /\ r.todo = task[u].todo
      BY <1>b DEF Locals
    <3>3. task[u] \in TaskType
      BY <1>a
    <3> HIDE DEF r
    <3> QED BY <3>1, <3>2, <3>3 DEF TaskType
  <2>4. task' \in [AllTasks -> TaskType]
    <3>1. task'[t] \in TaskType
      BY <1>3, <2>2 DEF DeclareStart
    <3>2. \A u \in AllTasks : task'[u] \in TaskType
      BY <2>3, <3>1
    <3>3. task' = [u \in AllTasks |-> task'[u]]
      BY <1>3 DEF DeclareStart
    <3> QED BY <3>2, <3>3
  <2> QED BY <1>3, <2>1, <2>4 DEF TypeOK, DeclareStart, touch_client
<1>4. ASSUME NEW t \in AllTasks, DeclareZenoh(t) PROVE TypeOK'
  <2>1. task' \in [AllTasks -> TaskType]
    BY <1>4, <1>a, GotoType DEF DeclareZenoh
  <2>2. task[t].handle \in Handles /\ task[t].client \in Clients
    BY <1>4, <1>c DEF DeclareZenoh
  <2> QED BY <1>4, <2>1, <2>2 DEF TypeOK, DeclareZenoh
<1>5. ASSUME NEW t \in AllTasks, DeclareFails(t) PROVE TypeOK'
  <2>1. task' \in [AllTasks -> TaskType]
    BY <1>5, <1>a, ReturnType DEF DeclareFails
  <2> QED BY <1>5, <2>1 DEF TypeOK, DeclareFails
<1>6. ASSUME NEW t \in AllTasks, DeclareInsert(t) PROVE TypeOK'
  <2>1. task' \in [AllTasks -> TaskType]
    BY <1>6, <1>a, ReturnType DEF DeclareInsert
  <2>2. task[t].handle \in Handles /\ task[t].client \in Clients /\ task[t].kind \in Kinds
    BY <1>6, <1>c DEF DeclareInsert, Holding
  <2> QED BY <1>6, <2>1, <2>2 DEF TypeOK, DeclareInsert
<1>7. ASSUME NEW t \in AllTasks, NEW c \in Clients, NEW k \in Kinds, NEW h \in Handles,
             UndeclareStart(t, c, k, h)
      PROVE  TypeOK'
  <2>1. [Idle EXCEPT !.pc = "remove", !.client = c, !.kind = k, !.handle = h] \in TaskType
    <3> DEFINE r == [Idle EXCEPT !.pc = "remove", !.client = c, !.kind = k, !.handle = h]
    <3>1. r \in Locals
      BY DEF Idle, Locals
    <3>2. r.pc = "remove" /\ r.client = c /\ r.todo = {} /\ r.kind = k /\ r.handle = h
      BY DEF Idle
    <3> HIDE DEF r
    <3>3. r \in TaskType
      BY <3>1, <3>2, BeginType
    <3> QED BY <3>3 DEF r
  <2>2. task' \in [AllTasks -> TaskType]
    BY <1>7, <1>a, <2>1, TaskUpdate DEF UndeclareStart
  <2> QED BY <1>7, <2>2 DEF TypeOK, UndeclareStart, touch_client
<1>8. ASSUME NEW t \in AllTasks, UndeclareNotFound(t) PROVE TypeOK'
  <2>1. task' \in [AllTasks -> TaskType]
    BY <1>8, <1>a, ReturnType DEF UndeclareNotFound
  <2> QED BY <1>8, <2>1 DEF TypeOK, UndeclareNotFound
<1>9. ASSUME NEW t \in AllTasks, UndeclareRemove(t) PROVE TypeOK'
  <2>1. task' \in [AllTasks -> TaskType]
    BY <1>9, <1>a, GotoType DEF UndeclareRemove
  <2> QED BY <1>9, <2>1 DEF TypeOK, UndeclareRemove
<1>10. ASSUME NEW t \in AllTasks, UndeclareRefused(t) PROVE TypeOK'
  <2>1. task' \in [AllTasks -> TaskType]
    BY <1>10, <1>a, ReturnType DEF UndeclareRefused
  <2> QED BY <1>10, <2>1 DEF TypeOK, UndeclareRefused
<1>11. ASSUME NEW t \in AllTasks, UndeclareRetain(t) PROVE TypeOK'
  <2>1. task' \in [AllTasks -> TaskType]
    BY <1>11, <1>a, GotoType DEF UndeclareRetain
  <2> QED BY <1>11, <2>1 DEF TypeOK, UndeclareRetain
<1>12. ASSUME NEW t \in AllTasks, UndeclareZenoh(t) PROVE TypeOK'
  <2>1. task' \in [AllTasks -> TaskType]
    BY <1>12, <1>a, ReturnType DEF UndeclareZenoh
  <2> QED BY <1>12, <2>1 DEF TypeOK, UndeclareZenoh
<1>13. ASSUME NEW t \in AllTasks, NEW c \in Clients, BeginCleanup(t, c), staleList' \subseteq Clients
       PROVE  TypeOK'
  <2> DEFINE b == \neg Declaring(c)
  <2>1. b \in BOOLEAN
    BY DEF Declaring
  <2>2. task' = [task EXCEPT ![t] = [Idle EXCEPT !.pc = "live", !.client = c, !.quiet = b]]
    BY <1>13 DEF BeginCleanup
  <2> HIDE DEF b
  <2>3. [Idle EXCEPT !.pc = "live", !.client = c, !.quiet = b] \in TaskType
    <3> DEFINE r == [Idle EXCEPT !.pc = "live", !.client = c, !.quiet = b]
    <3>1. r \in Locals
      BY <2>1 DEF Idle, Locals
    <3>2. r.pc = "live" /\ r.client = c /\ r.todo = {}
      BY DEF Idle
    <3> HIDE DEF r
    <3>3. r \in TaskType
      BY <3>1, <3>2, BeginType
    <3> QED BY <3>3 DEF r
  <2>4. task' \in [AllTasks -> TaskType]
    BY <1>a, <2>2, <2>3, TaskUpdate
  <2> QED BY <1>13, <2>4 DEF TypeOK, BeginCleanup
<1>14. ASSUME NEW t \in AllTasks, CleanupLive(t) PROVE TypeOK'
  <2>1. task' \in [AllTasks -> TaskType]
    BY <1>14, <1>a, GotoType DEF CleanupLive
  <2>2. task[t].client \in Clients
    BY <1>14, <1>c DEF CleanupLive
  <2> QED BY <1>14, <2>1, <2>2 DEF TypeOK, CleanupLive
<1>15. ASSUME NEW t \in AllTasks, CleanupScan(t) PROVE TypeOK'
  <2> DEFINE S == {e.handle : e \in {f \in Owned(task[t].client) :
                                       f.kind = Sweep[task[t].at]}}
  <2>1. S \in SUBSET Handles
    BY DEF TypeOK, Owned
  <2>2. task' = [task EXCEPT ![t] = Advance(t, S)] /\ task[t].client \in Clients
    BY <1>15, <1>c DEF CleanupScan
  <2> HIDE DEF S
  <2>3. task' \in [AllTasks -> TaskType]
    BY <1>a, <2>1, <2>2, AdvanceType, TaskUpdate
  <2> QED BY <1>15, <2>3 DEF TypeOK, CleanupScan
<1>16. ASSUME NEW t \in AllTasks, CleanupRemove(t) PROVE TypeOK'
  <2>1. PICK h \in task[t].todo :
          /\ entries' = entries \ Entry(Sweep[task[t].at], h)
          /\ task' = [task EXCEPT ![t] =
               IF Entry(Sweep[task[t].at], h) = {} THEN Advance(t, @.todo \ {h})
               ELSE [@ EXCEPT !.pc = "drop", !.handle = h, !.todo = task[t].todo \ {h}]]
    BY <1>16 DEF CleanupRemove
  <2> DEFINE d == [task[t] EXCEPT !.pc = "drop", !.handle = h,
                                  !.todo = task[t].todo \ {h}]
             R == task[t].todo \ {h}
  <2>2. task[t].todo \in SUBSET Handles /\ h \in Handles /\ R \in SUBSET Handles
        /\ task[t].client \in Clients
    BY <1>16, <1>b, <1>c DEF CleanupRemove, Locals
  <2>3. d \in TaskType
    <3>1. d \in Locals /\ d.pc = "drop" /\ d.client = task[t].client /\ d.handle = h
      BY <1>b, <2>2 DEF Locals
    <3> HIDE DEF d
    <3> QED BY <2>2, <3>1 DEF TaskType
  <2>4. Advance(t, R) \in TaskType
    BY <1>a, <2>2, AdvanceType
  <2>5. \/ task' = [task EXCEPT ![t] = Advance(t, R)]
        \/ task' = [task EXCEPT ![t] = d]
    BY <2>1
  <2> HIDE DEF d, R
  <2>6. task' \in [AllTasks -> TaskType]
    BY <1>a, <2>3, <2>4, <2>5, TaskUpdate
  <2> QED BY <1>16, <2>1, <2>6 DEF TypeOK, CleanupRemove
<1>17. ASSUME NEW t \in AllTasks, CleanupDrop(t) PROVE TypeOK'
  <2>1. task[t].todo \in SUBSET Handles /\ task[t].client \in Clients
    BY <1>17, <1>b, <1>c DEF CleanupDrop, Locals
  <2>2. task' = [task EXCEPT ![t] = Advance(t, task[t].todo)]
    BY <1>17 DEF CleanupDrop
  <2>3. task' \in [AllTasks -> TaskType]
    BY <1>a, <2>1, <2>2, AdvanceType, TaskUpdate
  <2> QED BY <1>17, <2>3 DEF TypeOK, CleanupDrop
<1>18. ASSUME NEW t \in AllTasks, CleanupRetain(t) PROVE TypeOK'
  <2>1. task' \in [AllTasks -> TaskType]
    BY <1>18, <1>a, ReturnType DEF CleanupRetain
  <2> QED BY <1>18, <2>1 DEF TypeOK, CleanupRetain
<1>19. ASSUME CleanerTick PROVE TypeOK'
  BY <1>19 DEF TypeOK, CleanerTick
<1>20. ASSUME NEW h \in Handles, QueryArrives(h) PROVE TypeOK'
  BY <1>20 DEF TypeOK, QueryArrives
<1>21. ASSUME NEW h \in Handles, BgRecv(h) PROVE TypeOK'
  <2>1. channel' \in [Handles -> Nat]
    <3>1. channel[h] \in Nat /\ channel[h] > 0
      BY <1>21 DEF TypeOK, BgRecv
    <3>2. channel[h] - 1 \in Nat
      BY <3>1
    <3> QED BY <1>21, <3>2 DEF TypeOK, BgRecv
  <2>2. bg' \in [Handles -> [pc : {"none", "recv", "file", "send", "ended"},
                             owner : Clients \cup {None}, query : Nat]]
    <3>1. [bg[h] EXCEPT !.pc = "file", !.query = nextQuery]
            \in [pc : {"none", "recv", "file", "send", "ended"},
                 owner : Clients \cup {None}, query : Nat]
      BY DEF TypeOK
    <3>2. bg' = [bg EXCEPT ![h] = [bg[h] EXCEPT !.pc = "file", !.query = nextQuery]]
      BY <1>21 DEF TypeOK, BgRecv
    <3> QED BY <3>1, <3>2 DEF TypeOK
  <2> QED BY <1>21, <2>1, <2>2 DEF TypeOK, BgRecv
<1>22. ASSUME NEW h \in Handles, BgFile(h) PROVE TypeOK'
  <2>1. bg' \in [Handles -> [pc : {"none", "recv", "file", "send", "ended"},
                             owner : Clients \cup {None}, query : Nat]]
    BY <1>22 DEF TypeOK, BgFile
  <2>2. inflight' \subseteq [id : Nat, handle : Handles, owner : Clients \cup {None}]
    BY <1>22 DEF TypeOK, BgFile
  <2> QED BY <1>22, <2>1, <2>2 DEF TypeOK, BgFile
<1>23. ASSUME NEW h \in Handles, BgSend(h) PROVE TypeOK'
  <2>1. [bg[h] EXCEPT !.pc = "recv", !.query = 0]
          \in [pc : {"none", "recv", "file", "send", "ended"},
               owner : Clients \cup {None}, query : Nat]
    BY DEF TypeOK
  <2>2. bg' = [bg EXCEPT ![h] = [bg[h] EXCEPT !.pc = "recv", !.query = 0]]
    BY <1>23 DEF TypeOK, BgSend
  <2>3. bg' \in [Handles -> [pc : {"none", "recv", "file", "send", "ended"},
                             owner : Clients \cup {None}, query : Nat]]
    BY <2>1, <2>2 DEF TypeOK
  <2> QED BY <1>23, <2>3 DEF TypeOK, BgSend
<1>24. ASSUME NEW h \in Handles, BgEnd(h) PROVE TypeOK'
  <2>1. [bg[h] EXCEPT !.pc = "ended", !.owner = None]
          \in [pc : {"none", "recv", "file", "send", "ended"},
               owner : Clients \cup {None}, query : Nat]
    BY DEF TypeOK
  <2>2. bg' = [bg EXCEPT ![h] = [bg[h] EXCEPT !.pc = "ended", !.owner = None]]
    BY <1>24 DEF TypeOK, BgEnd
  <2>3. bg' \in [Handles -> [pc : {"none", "recv", "file", "send", "ended"},
                             owner : Clients \cup {None}, query : Nat]]
    BY <2>1, <2>2 DEF TypeOK
  <2> QED BY <1>24, <2>3 DEF TypeOK, BgEnd
<1>25. ASSUME NEW t \in AllTasks, NEW c \in Clients, NEW h \in Handles,
              NEW i \in 1..MaxQuery, FinishStart(t, c, h, i)
       PROVE  TypeOK'
  <2>0. i \in Nat
    BY BoundsNat
  <2>1. [Idle EXCEPT !.pc = "finish", !.client = c, !.handle = h, !.query = i] \in TaskType
    <3> DEFINE r == [Idle EXCEPT !.pc = "finish", !.client = c, !.handle = h, !.query = i]
    <3>1. r \in Locals
      BY <2>0 DEF Idle, Locals
    <3>2. r.pc = "finish" /\ r.client = c /\ r.todo = {}
      BY DEF Idle
    <3> HIDE DEF r
    <3>3. r \in TaskType
      BY <3>1, <3>2, BeginType
    <3> QED BY <3>3 DEF r
  <2>2. task' \in [AllTasks -> TaskType]
    BY <1>25, <1>a, <2>1, TaskUpdate DEF FinishStart
  <2> QED BY <1>25, <2>2 DEF TypeOK, FinishStart, touch_client
<1>26. ASSUME NEW t \in AllTasks, Finish(t) PROVE TypeOK'
  <2>1. task' \in [AllTasks -> TaskType]
    BY <1>26, <1>a, ReturnType DEF Finish
  <2> QED BY <1>26, <2>1 DEF TypeOK, Finish
<1>27. ASSUME NEW t \in AllTasks, Cancel(t) PROVE TypeOK'
  <2>1. task' \in [AllTasks -> TaskType]
    BY <1>27, <1>a, ReturnType DEF Cancel
  <2> QED BY <1>27, <2>1 DEF TypeOK, Cancel
<1>28. CASE UNCHANGED vars
  BY <1>28 DEF TypeOK, vars
<1>29. ASSUME NEW t \in Tasks, NEW c \in Clients, Request(t, c) PROVE TypeOK'
  <2>1. t \in AllTasks
    OBVIOUS
  <2>2. ASSUME CleanupRequest(t, c) PROVE TypeOK'
    BY <1>13, <2>1, <2>2 DEF CleanupRequest, TypeOK
  <2> QED BY <1>29, <2>1, <2>2, <1>3, <1>7, <1>25 DEF Request
<1>30. ASSUME NEW t \in AllTasks, TaskStep(t) PROVE TypeOK'
  BY <1>30, <1>4, <1>5, <1>6, <1>8, <1>9, <1>10, <1>11, <1>12, <1>14, <1>15, <1>16,
     <1>17, <1>18, <1>26 DEF TaskStep
<1>31. ASSUME CleanerStep PROVE TypeOK'
  <2>1. ASSUME NEW c \in Clients, CleanerNext(c) PROVE TypeOK'
    BY <1>13, <2>1 DEF CleanerNext, TypeOK
  <2> QED BY <1>19, <1>31, <2>1 DEF CleanerStep
<1>32. ASSUME NEW h \in Handles, BgStep(h) PROVE TypeOK'
  BY <1>21, <1>22, <1>23, <1>24, <1>32 DEF BgStep
<1> QED
  BY <1>1, <1>2, <1>20, <1>27, <1>28, <1>29, <1>30, <1>31, <1>32 DEF Next

(***************************************************************************)
(* The server's state stays well typed: handles and tables stay within     *)
(* their domains, and a task at a label has the locals that the rest of    *)
(* its handler reads, whatever requests interleave or break.               *)
(***************************************************************************)
THEOREM TypeCorrect == Spec => []TypeOK
<1>1. Init => TypeOK
  <2> SUFFICES ASSUME Init PROVE TypeOK
    OBVIOUS
  <2>1. task \in [AllTasks -> TaskType]
    BY IdleType DEF Init
  <2> QED BY <2>1, ConstantFacts DEF Init, TypeOK
<1> QED BY <1>1, TypeStep, PTL DEF Spec

--------------------------------------------------------------------------------
(* Entities have one keeper *)

\* The labels at which a task has a handle of its own: Holding, and "declare".
Uses(t) == task[t].pc \in {"declare", "insert", "retain_handle", "undeclare", "drop"}
Holds(t) == task[t].pc \in {"insert", "retain_handle", "undeclare", "drop"}

\* zenoh holds what a table or a task keeps.
KDeclared ==
    \A h \in Handles : h \in declared <=>
        \/ \E e \in entries : e.handle = h
        \/ \E t \in AllTasks : Holds(t) /\ task[t].handle = h
KUnique == \A e, f \in entries : e.handle = f.handle => e = f
KApart == \A e \in entries, t \in AllTasks : Uses(t) => task[t].handle # e.handle
KSingle == \A t, u \in AllTasks :
             t # u /\ Uses(t) /\ Uses(u) => task[t].handle # task[u].handle
\* Handles in use were allocated, so that alloc_handle gives a new one.
KOld ==
    /\ \A e \in entries : e.handle < nextHandle
    /\ \A t \in AllTasks : Uses(t) => task[t].handle < nextHandle
KeeperInv == KDeclared /\ KUnique /\ KApart /\ KSingle /\ KOld

(* Steps of one task t, by what they do to the handle it has. *)

LEMMA KeepsHandle ==
    ASSUME KeeperInv, NEW t \in AllTasks, UNCHANGED <<entries, declared, nextHandle>>,
           \A u \in AllTasks : u # t =>
               task'[u].pc = task[u].pc /\ task'[u].handle = task[u].handle,
           \/ \neg Uses(t) /\ \neg Uses(t)'
           \/ Holds(t) /\ Holds(t)' /\ task'[t].handle = task[t].handle
    PROVE  KeeperInv'
  BY DEF KeeperInv, KDeclared, KUnique, KApart, KSingle, KOld, Uses, Holds

LEMMA GivesUpHandle ==
    ASSUME KeeperInv, TypeOK, NEW t \in AllTasks, UNCHANGED <<entries, nextHandle>>,
           \A u \in AllTasks : u # t =>
               task'[u].pc = task[u].pc /\ task'[u].handle = task[u].handle,
           Uses(t), \neg Uses(t)', task[t].handle \in Handles,
           declared' = IF Holds(t) THEN declared \ {task[t].handle} ELSE declared
    PROVE  KeeperInv'
<1>1. KDeclared'
  <2> SUFFICES ASSUME NEW h \in Handles
               PROVE  h \in declared' <=>
                        \/ \E e \in entries : e.handle = h
                        \/ \E u \in AllTasks : Holds(u)' /\ task'[u].handle = h
    BY DEF KDeclared
  <2>1. h \in declared <=> \/ \E e \in entries : e.handle = h
                           \/ \E u \in AllTasks : Holds(u) /\ task[u].handle = h
    BY DEF KeeperInv, KDeclared
  <2>2. \A u \in AllTasks : (Holds(u)' /\ task'[u].handle = h)
                              <=> (u # t /\ Holds(u) /\ task[u].handle = h)
    BY DEF Holds, Uses
  <2>3. CASE h = task[t].handle
    BY <2>1, <2>2, <2>3 DEF KeeperInv, KApart, KSingle, Uses, Holds
  <2>4. CASE h # task[t].handle
    BY <2>1, <2>2, <2>4
  <2> QED BY <2>3, <2>4
<1>2. KUnique' /\ KApart' /\ KSingle' /\ KOld'
  BY DEF KeeperInv, KUnique, KApart, KSingle, KOld, Uses
<1> QED BY <1>1, <1>2 DEF KeeperInv

LEMMA TakesEntry ==
    ASSUME KeeperInv, TypeOK, NEW t \in AllTasks, UNCHANGED <<declared, nextHandle>>,
           \A u \in AllTasks : u # t =>
               task'[u].pc = task[u].pc /\ task'[u].handle = task[u].handle,
           NEW e \in entries, entries' = entries \ {e},
           \neg Uses(t), Holds(t)', task'[t].handle = e.handle
    PROVE  KeeperInv'
<1>1. KDeclared'
  <2> SUFFICES ASSUME NEW h \in Handles
               PROVE  h \in declared <=>
                        \/ \E f \in entries' : f.handle = h
                        \/ \E u \in AllTasks : Holds(u)' /\ task'[u].handle = h
    BY DEF KDeclared
  <2>1. h \in declared <=> \/ \E f \in entries : f.handle = h
                           \/ \E u \in AllTasks : Holds(u) /\ task[u].handle = h
    BY DEF KeeperInv, KDeclared
  <2>2. \A u \in AllTasks : (Holds(u)' /\ task'[u].handle = h)
           <=> (u # t /\ Holds(u) /\ task[u].handle = h) \/ (u = t /\ e.handle = h)
    BY DEF Holds
  <2>3. \A u \in AllTasks : Holds(u) => u # t
    BY DEF Holds, Uses
  <2> QED BY <2>1, <2>2, <2>3
<1>2. KUnique' /\ KApart' /\ KSingle' /\ KOld'
  BY DEF KeeperInv, KUnique, KApart, KSingle, KOld, Uses, Holds
<1> QED BY <1>1, <1>2 DEF KeeperInv

LEMMA DropsEntry ==
    ASSUME KeeperInv, TypeOK, NEW t \in AllTasks, UNCHANGED nextHandle,
           \A u \in AllTasks : u # t =>
               task'[u].pc = task[u].pc /\ task'[u].handle = task[u].handle,
           NEW e \in entries, entries' = entries \ {e}, declared' = declared \ {e.handle},
           \neg Uses(t), \neg Uses(t)'
    PROVE  KeeperInv'
<1>1. KDeclared'
  <2> SUFFICES ASSUME NEW h \in Handles
               PROVE  h \in declared' <=>
                        \/ \E f \in entries' : f.handle = h
                        \/ \E u \in AllTasks : Holds(u)' /\ task'[u].handle = h
    BY DEF KDeclared
  <2>1. h \in declared <=> \/ \E f \in entries : f.handle = h
                           \/ \E u \in AllTasks : Holds(u) /\ task[u].handle = h
    BY DEF KeeperInv, KDeclared
  <2>2. \A u \in AllTasks : (Holds(u)' /\ task'[u].handle = h)
           <=> (Holds(u) /\ task[u].handle = h)
    BY DEF Holds, Uses
  <2>3. CASE h = e.handle
    BY <2>1, <2>2, <2>3 DEF KeeperInv, KApart, KUnique, Uses, Holds
  <2>4. CASE h # e.handle
    BY <2>1, <2>2, <2>4
  <2> QED BY <2>3, <2>4
<1>2. KUnique' /\ KApart' /\ KSingle' /\ KOld'
  BY DEF KeeperInv, KUnique, KApart, KSingle, KOld, Uses
<1> QED BY <1>1, <1>2 DEF KeeperInv

LEMMA KeeperStep == TypeOK /\ KeeperInv /\ [Next]_vars => KeeperInv'
<1> SUFFICES ASSUME TypeOK, KeeperInv, [Next]_vars PROVE KeeperInv'
  OBVIOUS
<1> USE ConstantFacts
<1>a. task \in [AllTasks -> TaskType] /\ \A t \in AllTasks : task[t] \in TaskType
  BY DEF TypeOK
<1>b. \A t \in AllTasks : task[t] \in Locals
  BY <1>a DEF TaskType
<1>c. \A t \in AllTasks :
        /\ task[t].pc # "idle" => task[t].client \in Clients
        /\ Uses(t) \/ task[t].pc = "remove" => task[t].handle \in Handles
        /\ task[t].todo \in SUBSET Handles
  <2> TAKE t \in AllTasks
  <2>1. task[t] \in TaskType /\ task[t] \in Locals
    BY <1>a, <1>b
  <2>2. task[t].todo \in SUBSET Handles
    BY <2>1 DEF Locals
  <2> QED BY <2>1, <2>2 DEF TaskType, Uses, Holding
<1>d. ASSUME NEW t \in AllTasks, NEW r, task' = [task EXCEPT ![t] = r]
      PROVE  /\ task'[t] = r
             /\ \A u \in AllTasks : u # t =>
                  task'[u].pc = task[u].pc /\ task'[u].handle = task[u].handle
  BY <1>a, <1>d
<1>e. ASSUME NEW t \in AllTasks, NEW l, Goto(t, l)
      PROVE  /\ task'[t].pc = l /\ task'[t].handle = task[t].handle
             /\ \A u \in AllTasks : u # t =>
                  task'[u].pc = task[u].pc /\ task'[u].handle = task[u].handle
  BY <1>a, <1>b, <1>e DEF Goto, Locals
<1>f. ASSUME NEW t \in AllTasks, Return(t)
      PROVE  /\ task'[t].pc = "idle"
             /\ \A u \in AllTasks : u # t =>
                  task'[u].pc = task[u].pc /\ task'[u].handle = task[u].handle
  <2>1. task' = [task EXCEPT ![t] = Idle]
    BY <1>f DEF Return
  <2>2. Idle.pc = "idle"
    BY DEF Idle
  <2> QED BY <1>d, <2>1, <2>2
<1>1. ASSUME UNCHANGED <<entries, declared, nextHandle, task>> PROVE KeeperInv'
  BY <1>1 DEF KeeperInv, KDeclared, KUnique, KApart, KSingle, KOld, Uses, Holds
<1>2. ASSUME NEW t \in AllTasks, NEW c \in Clients, NEW k \in Kinds, DeclareStart(t, c, k)
      PROVE  KeeperInv'
  <2>1. /\ task'[t].pc = "declare" /\ task'[t].handle = nextHandle
        /\ task[t].pc = "idle"
    BY <1>2 DEF DeclareStart, Idle
  <2>2. \A u \in AllTasks : u # t =>
           task'[u].pc = task[u].pc /\ task'[u].handle = task[u].handle
    BY <1>2, <1>b DEF DeclareStart, Locals
  <2>3. UNCHANGED <<entries, declared>> /\ nextHandle' = nextHandle + 1
        /\ nextHandle \in Nat
    BY <1>2 DEF DeclareStart, TypeOK
  <2>4. /\ \A e \in entries : e.handle \in Nat
        /\ \A u \in AllTasks : Uses(u) => task[u].handle \in Nat
    BY <1>c DEF TypeOK, Handles
  <2>5. KDeclared' /\ KUnique'
    BY <2>1, <2>2, <2>3 DEF KeeperInv, KDeclared, KUnique, Holds
  <2>6. KApart' /\ KSingle' /\ KOld'
    BY <2>1, <2>2, <2>3, <2>4 DEF KeeperInv, KApart, KSingle, KOld, Uses
  <2> QED BY <2>5, <2>6 DEF KeeperInv
<1>3. ASSUME NEW t \in AllTasks, DeclareZenoh(t) PROVE KeeperInv'
  <2>1. /\ task[t].pc = "declare" /\ task'[t].pc = "insert"
        /\ task'[t].handle = task[t].handle
        /\ \A u \in AllTasks : u # t =>
             task'[u].pc = task[u].pc /\ task'[u].handle = task[u].handle
    BY <1>3, <1>e DEF DeclareZenoh
  <2>2. UNCHANGED <<entries, nextHandle>> /\ declared' = declared \cup {task[t].handle}
    BY <1>3 DEF DeclareZenoh
  <2> QED BY <2>1, <2>2 DEF KeeperInv, KDeclared, KUnique, KApart, KSingle, KOld, Uses, Holds
<1>4. ASSUME NEW t \in AllTasks, DeclareInsert(t) PROVE KeeperInv'
  <2> DEFINE n == [kind |-> task[t].kind, handle |-> task[t].handle,
                   owner |-> task[t].client]
  <2>1. /\ task[t].pc = "insert" /\ task'[t].pc = "idle"
        /\ \A u \in AllTasks : u # t =>
             task'[u].pc = task[u].pc /\ task'[u].handle = task[u].handle
    BY <1>4, <1>f DEF DeclareInsert
  <2>2. Entry(task[t].kind, task[t].handle) = {}
    BY <2>1 DEF Entry, KeeperInv, KApart, Uses
  <2>3. UNCHANGED <<declared, nextHandle>> /\ entries' = entries \cup {n}
        /\ n.handle = task[t].handle
    BY <1>4, <2>2 DEF DeclareInsert
  <2> HIDE DEF n
  <2>4. KDeclared'
    <3> SUFFICES ASSUME NEW h \in Handles
                 PROVE  h \in declared <=>
                          \/ \E f \in entries' : f.handle = h
                          \/ \E u \in AllTasks : Holds(u)' /\ task'[u].handle = h
      BY <2>3 DEF KDeclared
    <3>1. h \in declared <=> \/ \E f \in entries : f.handle = h
                             \/ \E u \in AllTasks : Holds(u) /\ task[u].handle = h
      BY DEF KeeperInv, KDeclared
    <3>2. \A u \in AllTasks : (Holds(u)' /\ task'[u].handle = h)
             <=> (u # t /\ Holds(u) /\ task[u].handle = h)
      BY <2>1 DEF Holds
    <3>3. Holds(t)
      BY <2>1 DEF Holds
    <3> QED BY <2>3, <3>1, <3>2, <3>3
  <2>5. KUnique' /\ KApart' /\ KSingle' /\ KOld'
    BY <2>1, <2>3 DEF KeeperInv, KUnique, KApart, KSingle, KOld, Uses
  <2> QED BY <2>4, <2>5 DEF KeeperInv
<1>5. ASSUME NEW t \in AllTasks, DeclareFails(t) \/ UndeclareZenoh(t) PROVE KeeperInv'
  <2>1. /\ task[t].pc \in {"declare", "undeclare"} /\ Return(t)
        /\ UNCHANGED <<entries, nextHandle>>
        /\ declared' = IF task[t].pc = "undeclare" THEN declared \ {task[t].handle}
                       ELSE declared
    BY <1>5 DEF DeclareFails, UndeclareZenoh
  <2>2. Uses(t) /\ \neg Uses(t)' /\ (Holds(t) <=> task[t].pc = "undeclare")
    BY <2>1, <1>f DEF Uses, Holds
  <2> QED BY <1>c, <1>f, <2>1, <2>2, GivesUpHandle
<1>6. ASSUME NEW t \in AllTasks, Cancel(t) PROVE KeeperInv'
  <2>1. Return(t) /\ UNCHANGED <<entries, nextHandle>>
    BY <1>6 DEF Cancel
  <2>2. \neg Uses(t)'
    BY <2>1, <1>f DEF Uses
  <2>3. declared' = IF Holds(t) THEN declared \ {task[t].handle} ELSE declared
    BY <1>6 DEF Cancel, Held, Holding, Holds
  <2>4. CASE Uses(t)
    BY <1>c, <1>f, <2>1, <2>2, <2>3, <2>4, GivesUpHandle
  <2>5. CASE \neg Uses(t)
    <3>1. declared' = declared
      BY <2>3, <2>5 DEF Uses, Holds
    <3> QED BY <1>f, <2>1, <2>2, <2>5, <3>1, KeepsHandle
  <2> QED BY <2>4, <2>5
<1>7. ASSUME NEW t \in AllTasks, UndeclareRemove(t) PROVE KeeperInv'
  <2>1. PICK e \in Entry(task[t].kind, task[t].handle) : entries' = entries \ {e}
    BY <1>7 DEF UndeclareRemove
  <2>2. e \in entries /\ e.handle = task[t].handle
    BY DEF Entry
  <2>3. PICK l \in {"retain_handle", "undeclare"} : Goto(t, l)
    BY <1>7 DEF UndeclareRemove
  <2>4. \neg Uses(t) /\ Holds(t)' /\ UNCHANGED <<declared, nextHandle>>
    BY <1>7, <1>e, <2>3 DEF UndeclareRemove, Uses, Holds
  <2> QED BY <1>e, <2>1, <2>2, <2>3, <2>4, TakesEntry
<1>8. ASSUME NEW t \in AllTasks, UndeclareRefused(t) PROVE KeeperInv'
  <2>1. PICK e \in Entry(task[t].kind, task[t].handle) : entries' = entries \ {e}
    BY <1>8 DEF UndeclareRefused
  <2>2. e \in entries /\ e.handle = task[t].handle
    BY DEF Entry
  <2>3. /\ \neg Uses(t) /\ \neg Uses(t)' /\ UNCHANGED nextHandle /\ Return(t)
        /\ declared' = declared \ {task[t].handle}
    BY <1>8, <1>f DEF UndeclareRefused, Uses
  <2> QED BY <1>f, <2>1, <2>2, <2>3, DropsEntry
<1>9. ASSUME NEW t \in AllTasks, UndeclareRetain(t) PROVE KeeperInv'
  <2>1. /\ Holds(t) /\ Goto(t, "undeclare") /\ UNCHANGED <<entries, declared, nextHandle>>
    BY <1>9 DEF UndeclareRetain, Holds
  <2>2. Holds(t)'
    BY <2>1, <1>e DEF Holds
  <2> QED BY <1>e, <2>1, <2>2, KeepsHandle
<1>10. ASSUME NEW t \in AllTasks, UNCHANGED <<entries, declared, nextHandle>>,
              \neg Uses(t),
              \/ Return(t)
              \/ Goto(t, "scan")
              \/ \E r : task' = [task EXCEPT ![t] = r]
                        /\ r.pc \in {"remove", "finish", "live", "scan", "sweep",
                                     "retain_owner"}
       PROVE  KeeperInv'
  <2>1. /\ \neg Uses(t)'
        /\ \A u \in AllTasks : u # t =>
              task'[u].pc = task[u].pc /\ task'[u].handle = task[u].handle
    <3>1. CASE Return(t)
      BY <1>f, <3>1 DEF Uses
    <3>2. CASE Goto(t, "scan")
      BY <1>e, <3>2 DEF Uses
    <3>3. ASSUME NEW r, task' = [task EXCEPT ![t] = r],
                 r.pc \in {"remove", "finish", "live", "scan", "sweep", "retain_owner"}
          PROVE  /\ \neg Uses(t)'
                 /\ \A u \in AllTasks : u # t =>
                       task'[u].pc = task[u].pc /\ task'[u].handle = task[u].handle
      <4>1. task'[t].pc = r.pc
        BY <1>d, <3>3
      <4> QED BY <1>d, <3>3, <4>1 DEF Uses
    <3> QED BY <1>10, <3>1, <3>2, <3>3
  <2> QED BY <1>10, <2>1, KeepsHandle
<1>11. ASSUME NEW t \in AllTasks,
              UndeclareNotFound(t) \/ Finish(t) \/ CleanupLive(t) \/ CleanupRetain(t)
       PROVE  KeeperInv'
  <2>1. UNCHANGED <<entries, declared, nextHandle>> /\ \neg Uses(t)
    BY <1>11 DEF UndeclareNotFound, Finish, CleanupLive, CleanupRetain, Uses
  <2>2. Return(t) \/ Goto(t, "scan")
    BY <1>11 DEF UndeclareNotFound, Finish, CleanupLive, CleanupRetain
  <2> QED BY <1>10, <2>1, <2>2
<1>12. ASSUME NEW t \in AllTasks, NEW c \in Clients,
              \/ \E k \in Kinds, h \in Handles : UndeclareStart(t, c, k, h)
              \/ \E h \in Handles, i \in 1..MaxQuery : FinishStart(t, c, h, i)
              \/ BeginCleanup(t, c)
       PROVE  KeeperInv'
  <2>1. UNCHANGED <<entries, declared, nextHandle>> /\ \neg Uses(t)
    BY <1>12 DEF UndeclareStart, FinishStart, BeginCleanup, Uses
  <2>2. \E r : task' = [task EXCEPT ![t] = r] /\ r.pc \in {"remove", "finish", "live"}
    <3>1. ASSUME NEW k \in Kinds, NEW h \in Handles, UndeclareStart(t, c, k, h)
          PROVE  \E r : task' = [task EXCEPT ![t] = r] /\ r.pc \in {"remove", "finish", "live"}
      <4> WITNESS [Idle EXCEPT !.pc = "remove", !.client = c, !.kind = k, !.handle = h]
      <4> QED BY <3>1 DEF UndeclareStart, Idle
    <3>2. ASSUME NEW h \in Handles, NEW i \in 1..MaxQuery, FinishStart(t, c, h, i)
          PROVE  \E r : task' = [task EXCEPT ![t] = r] /\ r.pc \in {"remove", "finish", "live"}
      <4> WITNESS [Idle EXCEPT !.pc = "finish", !.client = c, !.handle = h, !.query = i]
      <4> QED BY <3>2 DEF FinishStart, Idle
    <3>3. ASSUME BeginCleanup(t, c)
          PROVE  \E r : task' = [task EXCEPT ![t] = r] /\ r.pc \in {"remove", "finish", "live"}
      <4> DEFINE b == \neg Declaring(c)
      <4>1. task' = [task EXCEPT ![t] = [Idle EXCEPT !.pc = "live", !.client = c, !.quiet = b]]
        BY <3>3 DEF BeginCleanup
      <4> HIDE DEF b
      <4> WITNESS [Idle EXCEPT !.pc = "live", !.client = c, !.quiet = b]
      <4> QED BY <4>1 DEF Idle
    <3> QED BY <1>12, <3>1, <3>2, <3>3
  <2> QED BY <1>10, <2>1, <2>2
<1>13. ASSUME NEW t \in AllTasks, task[t].client \in Clients, NEW S \in SUBSET Handles
       PROVE  Advance(t, S).pc \in {"scan", "sweep", "retain_owner"}
  BY <1>a, <1>13, AdvanceType
<1>14. ASSUME NEW t \in AllTasks, CleanupScan(t) PROVE KeeperInv'
  <2> DEFINE S == {e.handle : e \in {f \in Owned(task[t].client) :
                                       f.kind = Sweep[task[t].at]}}
  <2>1. S \in SUBSET Handles
    BY DEF TypeOK, Owned
  <2>2. task' = [task EXCEPT ![t] = Advance(t, S)] /\ task[t].client \in Clients
    BY <1>14, <1>c DEF CleanupScan
  <2>3. UNCHANGED <<entries, declared, nextHandle>> /\ \neg Uses(t)
    BY <1>14 DEF CleanupScan, Uses
  <2> HIDE DEF S
  <2> QED BY <1>10, <1>13, <2>1, <2>2, <2>3
<1>15. ASSUME NEW t \in AllTasks, CleanupDrop(t) PROVE KeeperInv'
  <2>1. task' = [task EXCEPT ![t] = Advance(t, task[t].todo)] /\ task[t].client \in Clients
        /\ Uses(t) /\ Holds(t)
    BY <1>15, <1>c DEF CleanupDrop, Uses, Holds
  <2>2. \neg Uses(t)'
    BY <1>c, <1>d, <1>13, <2>1 DEF Uses
  <2>3. UNCHANGED <<entries, nextHandle>> /\ declared' = declared \ {task[t].handle}
    BY <1>15 DEF CleanupDrop
  <2> QED BY <1>c, <1>d, <2>1, <2>2, <2>3, GivesUpHandle
<1>16. ASSUME NEW t \in AllTasks, CleanupRemove(t) PROVE KeeperInv'
  <2>1. PICK h \in task[t].todo :
          /\ entries' = entries \ Entry(Sweep[task[t].at], h)
          /\ task' = [task EXCEPT ![t] =
               IF Entry(Sweep[task[t].at], h) = {} THEN Advance(t, @.todo \ {h})
               ELSE [@ EXCEPT !.pc = "drop", !.handle = h, !.todo = task[t].todo \ {h}]]
    BY <1>16 DEF CleanupRemove
  <2>2. \neg Uses(t) /\ UNCHANGED <<declared, nextHandle>> /\ task[t].client \in Clients
    BY <1>16, <1>c DEF CleanupRemove, Uses
  <2>3. CASE Entry(Sweep[task[t].at], h) = {}
    <3>1. entries' = entries /\ task' = [task EXCEPT ![t] = Advance(t, task[t].todo \ {h})]
      BY <2>1, <2>3
    <3>2. task[t].todo \ {h} \in SUBSET Handles
      BY <1>c
    <3> QED BY <1>10, <1>13, <2>2, <3>1, <3>2
  <2>4. CASE Entry(Sweep[task[t].at], h) # {}
    <3>1. PICK e \in entries : e \in Entry(Sweep[task[t].at], h) /\ e.handle = h
      BY <2>4 DEF Entry
    <3>2. Entry(Sweep[task[t].at], h) = {e}
      BY <3>1 DEF Entry, KeeperInv, KUnique
    <3> DEFINE d == [task[t] EXCEPT !.pc = "drop", !.handle = h, !.todo = task[t].todo \ {h}]
    <3>3. task' = [task EXCEPT ![t] = d]
      BY <2>1, <2>4
    <3>4. d.pc = "drop" /\ d.handle = h
      BY <1>b DEF Locals
    <3> HIDE DEF d
    <3>5. Holds(t)' /\ task'[t].handle = e.handle
      BY <1>d, <3>1, <3>3, <3>4 DEF Holds
    <3> QED BY <1>d, <2>1, <2>2, <3>2, <3>3, <3>5, TakesEntry
  <2> QED BY <2>3, <2>4
<1>17. ASSUME NEW t \in Tasks, NEW c \in Clients, Request(t, c) PROVE KeeperInv'
  BY <1>2, <1>12, <1>17 DEF Request, CleanupRequest
<1>18. ASSUME NEW t \in AllTasks, TaskStep(t) PROVE KeeperInv'
  BY <1>3, <1>4, <1>5, <1>7, <1>8, <1>9, <1>11, <1>14, <1>15, <1>16, <1>18 DEF TaskStep
<1>19. CASE CleanerStep
  <2>1. ASSUME CleanerTick PROVE KeeperInv'
    BY <1>1, <2>1 DEF CleanerTick
  <2>2. ASSUME NEW c \in Clients, CleanerNext(c) PROVE KeeperInv'
    BY <1>12, <2>2 DEF CleanerNext
  <2> QED BY <1>19, <2>1, <2>2 DEF CleanerStep
<1>20. CASE \/ \E c \in Clients : TouchOnly(c) \/ LeaseExpires(c)
            \/ \E h \in Handles : QueryArrives(h) \/ BgStep(h)
            \/ UNCHANGED vars
  <2>1. UNCHANGED <<entries, declared, nextHandle, task>>
    BY <1>20 DEF TouchOnly, LeaseExpires, QueryArrives, BgStep, BgRecv, BgFile, BgSend,
                 BgEnd, vars
  <2> QED BY <1>1, <2>1
<1> QED BY <1>6, <1>17, <1>18, <1>19, <1>20 DEF Next

(***************************************************************************)
(* However declare, undeclare, cleanup and broken connections interleave,  *)
(* for any number of clients and concurrent requests, each entity that     *)
(* zenoh holds for the server is kept by exactly one table entry or task.  *)
(***************************************************************************)
THEOREM EntitiesHaveOneKeeper == Spec => []OneKeeper
<1>1. Init => KeeperInv
  <2> SUFFICES ASSUME Init PROVE KeeperInv
    OBVIOUS
  <2>1. \A t \in AllTasks : task[t].pc = "idle"
    BY DEF Init, Idle
  <2> QED BY <2>1 DEF Init, KeeperInv, KDeclared, KUnique, KApart, KSingle, KOld, Uses, Holds
<1>2. TypeOK /\ KeeperInv => OneKeeper
  <2> SUFFICES ASSUME TypeOK, KeeperInv PROVE OneKeeper
    OBVIOUS
  <2>1. \A t \in AllTasks : Held(t) = IF Holds(t) THEN {task[t].handle} ELSE {}
    BY DEF Held, Holding, Holds
  <2>2. \A t \in AllTasks : Holds(t) => Uses(t) /\ task[t].handle \in Handles
    BY DEF TypeOK, TaskType, Holding, Holds, Uses
  <2>3. declared \subseteq Handles /\ \A e \in entries : e.handle \in Handles
    BY DEF TypeOK
  <2>4. declared = {e.handle : e \in entries} \cup UNION {Held(t) : t \in AllTasks}
    <3> SUFFICES ASSUME NEW h
                 PROVE  h \in declared <=>
                          \/ \E e \in entries : h = e.handle
                          \/ \E t \in AllTasks : h \in Held(t)
      OBVIOUS
    <3> QED BY <2>1, <2>2, <2>3 DEF KeeperInv, KDeclared
  <2> QED BY <2>1, <2>2, <2>4 DEF OneKeeper, KeeperInv, KUnique, KApart, KSingle
<1> QED BY <1>1, <1>2, TypeCorrect, KeeperStep, PTL DEF Spec

--------------------------------------------------------------------------------
(* What cleanup_client removes and leaves *)

\* CleanupSparesOthers needs that no handle a cleanup has collected is one that a
\* declaration in progress, or a later one, brings into a table.
SparesInv ==
    /\ CleanupSparesOthers
    /\ \A t \in AllTasks : \A h \in task[t].todo : h < nextHandle
    /\ \A t, u \in AllTasks :
         task[u].pc \in {"declare", "insert"} => task[u].handle \notin task[t].todo

\* CleanupIsComplete by positions in Sweep, with the table that is being swept.
CompleteInv ==
    /\ \A t, u \in AllTasks : task[t].quiet /\ task[u].client = task[t].client
         => task[u].pc \notin {"declare", "insert"}
    /\ \A t \in AllTasks, e \in entries : task[t].quiet /\ e.owner = task[t].client =>
         /\ task[t].pc # "retain_owner"
         /\ task[t].pc \in {"scan", "sweep", "drop"} =>
              \A i \in 1..(task[t].at - 1) : e.kind # Sweep[i]
         /\ task[t].pc \in {"sweep", "drop"} /\ e.kind = Sweep[task[t].at] =>
              e.handle \in task[t].todo
    /\ \A t \in AllTasks : task[t].pc = "live" => task[t].at = 1
    /\ \A t \in AllTasks : task[t].quiet =>
         task[t].pc \in {"live", "scan", "sweep", "drop", "retain_owner"}

(* Steps after which every cleanup has less to remove. *)
LEMMA SparesLess ==
    ASSUME SparesInv, entries' \subseteq entries, nextHandle' = nextHandle,
           \A u \in AllTasks :
             /\ \/ task'[u].todo = {}
                \/ task'[u].todo \subseteq task[u].todo /\ task'[u].client = task[u].client
             /\ task'[u].pc \in {"declare", "insert"} =>
                  task[u].pc \in {"declare", "insert"} /\ task'[u].handle = task[u].handle
    PROVE  SparesInv'
  BY DEF SparesInv, CleanupSparesOthers

(* Steps that begin no declaration or cleanup and advance none. *)
LEMMA CompleteFrame ==
    ASSUME CompleteInv, entries' \subseteq entries,
           \A u \in AllTasks :
             /\ task'[u].quiet => task'[u] = task[u]
             /\ task'[u].pc \in {"declare", "insert"} =>
                  task[u].pc \in {"declare", "insert"} /\ task'[u].client = task[u].client
             /\ task'[u].pc = "live" => task'[u].at = 1
    PROVE  CompleteInv'
  BY DEF CompleteInv

(* A cleanup that has dealt with part of a table. *)
LEMMA CompleteAdvance ==
    ASSUME TypeOK, CompleteInv, NEW t \in AllTasks, NEW rest \in SUBSET Handles,
           entries' \subseteq entries, task' = [task EXCEPT ![t] = Advance(t, rest)],
           task[t].pc \in {"scan", "sweep", "drop"},
           task[t].quiet => \A e \in entries' :
             e.owner = task[t].client /\ e.kind = Sweep[task[t].at] => e.handle \in rest
    PROVE  CompleteInv'
<1> DEFINE n == Len(Sweep)
           a == task[t].at
           r == Advance(t, rest)
<1>1. task \in [AllTasks -> TaskType] /\ task[t] \in TaskType /\ task[t].client \in Clients
      /\ n \in Nat /\ a \in 1..n
  BY ConstantFacts DEF TypeOK, TaskType, Locals
<1>2. /\ r.client = task[t].client /\ r.quiet = task[t].quiet /\ r.todo = rest
      /\ r.pc = IF rest # {} THEN "sweep" ELSE IF a = n THEN "retain_owner" ELSE "scan"
      /\ r.at = IF rest = {} /\ a # n THEN a + 1 ELSE a
  BY <1>1, AdvanceType
<1>3. task'[t] = r /\ \A u \in AllTasks : u # t => task'[u] = task[u]
  BY <1>1
<1>4. \A e \in entries : \E i \in 1..n : e.kind = Sweep[i]
  BY DEF TypeOK, Kinds
<1> HIDE DEF n, a, r
<1>5. ASSUME NEW e \in entries', task[t].quiet, e.owner = task[t].client
      PROVE  /\ r.pc # "retain_owner"
             /\ \A i \in 1..(r.at - 1) : e.kind # Sweep[i]
             /\ r.pc \in {"sweep", "drop"} /\ e.kind = Sweep[r.at] => e.handle \in r.todo
  <2>1. \A i \in 1..(a - 1) : e.kind # Sweep[i]
    BY <1>5 DEF CompleteInv, a
  <2>2. rest = {} => e.kind # Sweep[a]
    BY <1>5 DEF a
  <2>3. rest = {} => \A i \in 1..a : e.kind # Sweep[i]
    BY <1>1, <2>1, <2>2
  <2>4. r.pc # "retain_owner"
    BY <1>2, <1>4, <2>3
  <2>5. \A i \in 1..(r.at - 1) : e.kind # Sweep[i]
    <3>1. CASE rest = {} /\ a # n
      <4>1. r.at = a + 1 /\ r.at - 1 = a
        BY <1>1, <1>2, <3>1
      <4> QED BY <2>3, <3>1, <4>1
    <3>2. CASE \neg (rest = {} /\ a # n)
      BY <1>2, <2>1, <3>2
    <3> QED BY <3>1, <3>2
  <2>6. r.pc \in {"sweep", "drop"} /\ e.kind = Sweep[r.at] => e.handle \in r.todo
    BY <1>2, <1>5 DEF a
  <2> QED BY <2>4, <2>5, <2>6
<1>6. r.pc \in {"scan", "sweep", "retain_owner"}
  BY <1>2
<1> QED BY <1>2, <1>3, <1>5, <1>6 DEF CompleteInv
LEMMA SweepStep ==
    TypeOK /\ KeeperInv /\ SparesInv /\ CompleteInv /\ [Next]_vars
      => SparesInv' /\ CompleteInv'
<1> SUFFICES ASSUME TypeOK, KeeperInv, SparesInv, CompleteInv, [Next]_vars
             PROVE  SparesInv' /\ CompleteInv'
  OBVIOUS
<1> USE ConstantFacts
<1>a. task \in [AllTasks -> TaskType] /\ \A t \in AllTasks : task[t] \in TaskType
  BY DEF TypeOK
<1>b. \A t \in AllTasks : task[t] \in Locals
  BY <1>a DEF TaskType
<1>c. \A t \in AllTasks :
        /\ task[t].pc # "idle" => task[t].client \in Clients
        /\ task[t].todo # {} => task[t].pc \in {"sweep", "drop"}
        /\ task[t].todo \in SUBSET Handles
  <2> TAKE t \in AllTasks
  <2>1. task[t] \in TaskType /\ task[t] \in Locals
    BY <1>a, <1>b
  <2>2. task[t].todo \in SUBSET Handles
    BY <2>1 DEF Locals
  <2> QED BY <2>1, <2>2 DEF TaskType
<1>d. ASSUME NEW t \in AllTasks, NEW r, task' = [task EXCEPT ![t] = r]
      PROVE  task'[t] = r /\ \A u \in AllTasks : u # t => task'[u] = task[u]
  BY <1>a, <1>d
<1>1. ASSUME UNCHANGED <<task, nextHandle>>, entries' \subseteq entries
      PROVE  SparesInv' /\ CompleteInv'
  BY <1>1, SparesLess, CompleteFrame DEF CompleteInv
<1>2. ASSUME NEW t \in AllTasks, Return(t), UNCHANGED nextHandle, entries' \subseteq entries
      PROVE  SparesInv' /\ CompleteInv'
  <2>1. task' = [task EXCEPT ![t] = Idle]
    BY <1>2 DEF Return
  <2>2. Idle.pc = "idle" /\ Idle.todo = {} /\ \neg Idle.quiet
    BY DEF Idle
  <2>3. task'[t] = Idle /\ \A u \in AllTasks : u # t => task'[u] = task[u]
    BY <1>d, <2>1
  <2> QED BY <1>2, <2>2, <2>3, SparesLess, CompleteFrame DEF CompleteInv
\* A request goes on; tasks other than cleanups are not quiet.
<1>3. ASSUME NEW t \in AllTasks, NEW l \in {"insert", "retain_handle", "undeclare"},
             Goto(t, l), task[t].pc \in {"declare", "remove", "retain_handle"},
             l = "insert" => task[t].pc = "declare",
             UNCHANGED nextHandle, entries' \subseteq entries, \neg task[t].quiet
      PROVE  SparesInv' /\ CompleteInv'
  <2>1. /\ task'[t].pc = l /\ task'[t].handle = task[t].handle
        /\ task'[t].client = task[t].client /\ task'[t].todo = task[t].todo
        /\ task'[t].quiet = task[t].quiet
        /\ \A u \in AllTasks : u # t => task'[u] = task[u]
    BY <1>3, <1>a, <1>b DEF Goto, Locals
  <2> QED BY <1>3, <2>1, SparesLess, CompleteFrame DEF CompleteInv
<1>4. \A t \in AllTasks : task[t].quiet =>
         task[t].pc \in {"live", "scan", "sweep", "drop", "retain_owner"}
  BY DEF CompleteInv
<1>5. ASSUME NEW t \in AllTasks, NEW c \in Clients, NEW k \in Kinds, DeclareStart(t, c, k)
      PROVE  SparesInv' /\ CompleteInv'
  <2>1. /\ task'[t].pc = "declare" /\ task'[t].handle = nextHandle /\ task'[t].client = c
        /\ task'[t].todo = {} /\ \neg task'[t].quiet
    BY <1>5 DEF DeclareStart, Idle
  <2>2. \A u \in AllTasks : u # t =>
          /\ task'[u].pc = task[u].pc /\ task'[u].handle = task[u].handle
          /\ task'[u].client = task[u].client /\ task'[u].todo = task[u].todo
          /\ task'[u].at = task[u].at
    BY <1>5, <1>b DEF DeclareStart, Locals
  <2>3. \A u \in AllTasks : u # t /\ task'[u].quiet => task[u].quiet /\ task[u].client # c
    BY <1>5, <1>b DEF DeclareStart, Locals
  <2>4. UNCHANGED entries /\ nextHandle' = nextHandle + 1 /\ nextHandle \in Nat
    BY <1>5 DEF DeclareStart, TypeOK
  <2>5. \A u \in AllTasks : \A h \in task[u].todo : h \in Nat /\ h < nextHandle
    BY <1>c DEF SparesInv, Handles
  <2>6. SparesInv'
    BY <2>1, <2>2, <2>4, <2>5 DEF SparesInv, CleanupSparesOthers
  <2>7. CompleteInv'
    BY <2>1, <2>2, <2>3, <2>4 DEF CompleteInv
  <2> QED BY <2>6, <2>7
<1>6. ASSUME NEW t \in AllTasks, DeclareZenoh(t) PROVE SparesInv' /\ CompleteInv'
  BY <1>3, <1>4, <1>6 DEF DeclareZenoh
<1>7. ASSUME NEW t \in AllTasks, DeclareInsert(t) PROVE SparesInv' /\ CompleteInv'
  <2> DEFINE n == [kind |-> task[t].kind, handle |-> task[t].handle,
                   owner |-> task[t].client]
  <2>1. /\ task[t].pc = "insert" /\ UNCHANGED nextHandle
        /\ entries' \subseteq entries \cup {n}
        /\ n.handle = task[t].handle /\ n.owner = task[t].client
    BY <1>7 DEF DeclareInsert
  <2>2. task' = [task EXCEPT ![t] = Idle] /\ Idle.pc = "idle" /\ Idle.todo = {} /\ \neg Idle.quiet
    BY <1>7 DEF DeclareInsert, Return, Idle
  <2>3. task'[t] = Idle /\ \A u \in AllTasks : u # t => task'[u] = task[u]
    BY <1>d, <2>2
  <2> HIDE DEF n
  <2>4. SparesInv'
    BY <2>1, <2>2, <2>3 DEF SparesInv, CleanupSparesOthers
  <2>5. \A u \in AllTasks : task[u].quiet => task[u].client # n.owner
    BY <2>1 DEF CompleteInv
  <2>6. CompleteInv'
    BY <2>1, <2>2, <2>3, <2>5 DEF CompleteInv
  <2> QED BY <2>4, <2>6
<1>8. ASSUME NEW t \in AllTasks,
             \/ DeclareFails(t) \/ UndeclareZenoh(t) \/ UndeclareNotFound(t)
             \/ UndeclareRefused(t) \/ Finish(t) \/ CleanupRetain(t) \/ Cancel(t)
      PROVE  SparesInv' /\ CompleteInv'
  <2>1. Return(t) /\ UNCHANGED nextHandle /\ entries' \subseteq entries
    BY <1>8 DEF DeclareFails, UndeclareZenoh, UndeclareNotFound, UndeclareRefused, Finish,
                CleanupRetain, Cancel
  <2> QED BY <1>2, <2>1
<1>9. ASSUME NEW t \in AllTasks, UndeclareRemove(t) \/ UndeclareRetain(t)
      PROVE  SparesInv' /\ CompleteInv'
  <2>1. /\ \E l \in {"retain_handle", "undeclare"} : Goto(t, l)
        /\ task[t].pc \in {"remove", "retain_handle"}
        /\ UNCHANGED nextHandle /\ entries' \subseteq entries
    BY <1>9 DEF UndeclareRemove, UndeclareRetain
  <2> QED BY <1>3, <1>4, <2>1
<1>10. ASSUME NEW t \in AllTasks, NEW r, task' = [task EXCEPT ![t] = r],
              r.pc \in {"remove", "finish"}, r.todo = {}, \neg r.quiet,
              UNCHANGED <<entries, nextHandle>>
       PROVE  SparesInv' /\ CompleteInv'
  <2>1. task'[t] = r /\ \A u \in AllTasks : u # t => task'[u] = task[u]
    BY <1>d, <1>10
  <2> QED BY <1>10, <2>1, SparesLess, CompleteFrame DEF CompleteInv
<1>11. ASSUME NEW t \in AllTasks, NEW c \in Clients, NEW k \in Kinds, NEW h \in Handles,
              UndeclareStart(t, c, k, h)
       PROVE  SparesInv' /\ CompleteInv'
  <2> DEFINE r == [Idle EXCEPT !.pc = "remove", !.client = c, !.kind = k, !.handle = h]
  <2>1. r.pc = "remove" /\ r.todo = {} /\ \neg r.quiet
    BY DEF Idle
  <2>2. task' = [task EXCEPT ![t] = r] /\ UNCHANGED <<entries, nextHandle>>
    BY <1>11 DEF UndeclareStart
  <2> HIDE DEF r
  <2> QED BY <1>10, <2>1, <2>2
<1>12. ASSUME NEW t \in AllTasks, NEW c \in Clients, NEW h \in Handles,
              NEW i \in 1..MaxQuery, FinishStart(t, c, h, i)
       PROVE  SparesInv' /\ CompleteInv'
  <2> DEFINE r == [Idle EXCEPT !.pc = "finish", !.client = c, !.handle = h, !.query = i]
  <2>1. r.pc = "finish" /\ r.todo = {} /\ \neg r.quiet
    BY DEF Idle
  <2>2. task' = [task EXCEPT ![t] = r] /\ UNCHANGED <<entries, nextHandle>>
    BY <1>12 DEF FinishStart
  <2> HIDE DEF r
  <2> QED BY <1>10, <2>1, <2>2
<1>13. ASSUME NEW t \in AllTasks, NEW c \in Clients, BeginCleanup(t, c)
       PROVE  SparesInv' /\ CompleteInv'
  <2> DEFINE b == \neg Declaring(c)
             r == [Idle EXCEPT !.pc = "live", !.client = c, !.quiet = b]
  <2>1. task' = [task EXCEPT ![t] = r] /\ UNCHANGED <<entries, nextHandle>>
        /\ task[t].pc = "idle"
    BY <1>13 DEF BeginCleanup
  <2>2. b => \A u \in AllTasks : task[u].client = c => task[u].pc \notin {"declare", "insert"}
    BY DEF Declaring
  <2>3. r.pc = "live" /\ r.client = c /\ r.todo = {} /\ r.at = 1 /\ (r.quiet <=> b)
    <3> HIDE DEF b
    <3> QED BY DEF Idle
  <2> HIDE DEF b, r
  <2>4. task'[t] = r /\ \A u \in AllTasks : u # t => task'[u] = task[u]
    BY <1>d, <2>1
  <2>5. SparesInv'
    BY <2>1, <2>3, <2>4, SparesLess
  <2>6. CompleteInv'
    BY <2>1, <2>2, <2>3, <2>4 DEF CompleteInv
  <2> QED BY <2>5, <2>6
<1>14. ASSUME NEW t \in AllTasks, CleanupLive(t) PROVE SparesInv' /\ CompleteInv'
  <2>1. /\ task[t].pc = "live" /\ task[t].at = 1 /\ task[t].todo = {}
        /\ UNCHANGED <<entries, nextHandle>>
    BY <1>14, <1>c DEF CleanupLive, CompleteInv
  <2>2. /\ task'[t].pc = "scan" /\ task'[t].client = task[t].client /\ task'[t].at = 1
        /\ task'[t].todo = {} /\ task'[t].quiet = task[t].quiet
        /\ \A u \in AllTasks : u # t => task'[u] = task[u]
    BY <1>14, <1>a, <1>b, <2>1 DEF CleanupLive, Goto, Locals
  <2>3. SparesInv'
    BY <2>1, <2>2, SparesLess
  <2>4. CompleteInv'
    BY <2>1, <2>2 DEF CompleteInv
  <2> QED BY <2>3, <2>4
\* What a cleanup collects or keeps is its client's, and was allocated.
<1>15. ASSUME NEW t \in AllTasks, NEW rest \in SUBSET Handles, UNCHANGED nextHandle,
              entries' \subseteq entries, task' = [task EXCEPT ![t] = Advance(t, rest)],
              task[t].pc \in {"scan", "sweep", "drop"},
              \/ rest \subseteq task[t].todo
              \/ \A h \in rest : \E e \in entries : e.handle = h /\ e.owner = task[t].client
       PROVE  SparesInv'
  <2> DEFINE r == Advance(t, rest)
  <2>1. task[t] \in TaskType /\ task[t].client \in Clients
    BY <1>a, <1>c, <1>15
  <2>2. r.client = task[t].client /\ r.todo = rest
        /\ r.pc \in {"scan", "sweep", "retain_owner"}
    BY <2>1, AdvanceType
  <2>3. task'[t] = r /\ \A u \in AllTasks : u # t => task'[u] = task[u]
    BY <1>15, <1>d
  <2> HIDE DEF r
  <2>4. CASE rest \subseteq task[t].todo
    BY <1>15, <2>2, <2>3, <2>4, SparesLess
  <2>5. CASE \A h \in rest : \E e \in entries : e.handle = h /\ e.owner = task[t].client
    <3>1. \A e \in entries : e.handle \in rest => e.owner = task[t].client
      BY <2>5 DEF KeeperInv, KUnique
    <3>2. \A h \in rest : h < nextHandle
      BY <2>5 DEF KeeperInv, KOld
    <3>3. \A u \in AllTasks :
            task[u].pc \in {"declare", "insert"} => task[u].handle \notin rest
      BY <2>5 DEF KeeperInv, KApart, Uses
    <3> QED BY <1>15, <2>2, <2>3, <3>1, <3>2, <3>3 DEF SparesInv, CleanupSparesOthers
  <2> QED BY <1>15, <2>4, <2>5
<1>16. ASSUME NEW t \in AllTasks, CleanupScan(t) PROVE SparesInv' /\ CompleteInv'
  <2> DEFINE S == {e.handle : e \in {f \in Owned(task[t].client) :
                                       f.kind = Sweep[task[t].at]}}
  <2>1. S \in SUBSET Handles
    BY DEF TypeOK, Owned
  <2>2. /\ task' = [task EXCEPT ![t] = Advance(t, S)] /\ UNCHANGED <<entries, nextHandle>>
        /\ task[t].pc = "scan"
    BY <1>16 DEF CleanupScan
  <2>3. \A h \in S : \E e \in entries : e.handle = h /\ e.owner = task[t].client
    BY DEF Owned
  <2>4. \A e \in entries : e.owner = task[t].client /\ e.kind = Sweep[task[t].at]
          => e.handle \in S
    BY DEF Owned
  <2> HIDE DEF S
  <2>5. SparesInv'
    BY <1>15, <2>1, <2>2, <2>3
  <2>6. CompleteInv'
    BY <2>1, <2>2, <2>4, CompleteAdvance
  <2> QED BY <2>5, <2>6
<1>17. ASSUME NEW t \in AllTasks, CleanupDrop(t) PROVE SparesInv' /\ CompleteInv'
  <2>1. /\ task' = [task EXCEPT ![t] = Advance(t, task[t].todo)]
        /\ UNCHANGED <<entries, nextHandle>> /\ task[t].pc = "drop"
    BY <1>17 DEF CleanupDrop
  <2>2. task[t].todo \in SUBSET Handles
    BY <1>c
  <2>3. task[t].quiet => \A e \in entries :
          e.owner = task[t].client /\ e.kind = Sweep[task[t].at] => e.handle \in task[t].todo
    BY <2>1 DEF CompleteInv
  <2>4. SparesInv'
    BY <1>15, <2>1, <2>2
  <2>5. CompleteInv'
    BY <2>1, <2>2, <2>3, CompleteAdvance
  <2> QED BY <2>4, <2>5
<1>18. ASSUME NEW t \in AllTasks, CleanupRemove(t) PROVE SparesInv' /\ CompleteInv'
  <2>1. PICK h \in task[t].todo :
          /\ entries' = entries \ Entry(Sweep[task[t].at], h)
          /\ task' = [task EXCEPT ![t] =
               IF Entry(Sweep[task[t].at], h) = {} THEN Advance(t, @.todo \ {h})
               ELSE [@ EXCEPT !.pc = "drop", !.handle = h, !.todo = task[t].todo \ {h}]]
    BY <1>18 DEF CleanupRemove
  <2> DEFINE R == task[t].todo \ {h}
  <2>2. R \in SUBSET Handles /\ R \subseteq task[t].todo /\ task[t].pc = "sweep"
        /\ UNCHANGED nextHandle /\ entries' \subseteq entries
    BY <1>18, <1>c, <2>1 DEF CleanupRemove
  <2>3. task[t].quiet => \A e \in entries' :
          e.owner = task[t].client /\ e.kind = Sweep[task[t].at] => e.handle \in R
    BY <2>1, <2>2 DEF CompleteInv, Entry
  <2>4. CASE Entry(Sweep[task[t].at], h) = {}
    <3>1. task' = [task EXCEPT ![t] = Advance(t, R)]
      BY <2>1, <2>4
    <3> HIDE DEF R
    <3>2. SparesInv'
      BY <1>15, <2>2, <3>1
    <3>3. CompleteInv'
      BY <2>2, <2>3, <3>1, CompleteAdvance
    <3> QED BY <3>2, <3>3
  <2>5. CASE Entry(Sweep[task[t].at], h) # {}
    <3> DEFINE d == [task[t] EXCEPT !.pc = "drop", !.handle = h, !.todo = R]
    <3>1. task' = [task EXCEPT ![t] = d]
      BY <2>1, <2>5
    <3>2. d.pc = "drop" /\ d.todo = R /\ d.client = task[t].client
          /\ d.quiet = task[t].quiet /\ d.at = task[t].at
      BY <1>b DEF Locals
    <3> HIDE DEF d, R
    <3>3. task'[t] = d /\ \A u \in AllTasks : u # t => task'[u] = task[u]
      BY <1>d, <3>1
    <3>4. SparesInv'
      BY <2>2, <3>2, <3>3, SparesLess
    <3>5. CompleteInv'
      BY <2>2, <2>3, <3>2, <3>3 DEF CompleteInv
    <3> QED BY <3>4, <3>5
  <2> QED BY <2>4, <2>5
<1>19. ASSUME NEW t \in Tasks, NEW c \in Clients, Request(t, c)
       PROVE  SparesInv' /\ CompleteInv'
  BY <1>5, <1>11, <1>12, <1>13, <1>19 DEF Request, CleanupRequest
<1>20. ASSUME NEW t \in AllTasks, TaskStep(t) PROVE SparesInv' /\ CompleteInv'
  BY <1>6, <1>7, <1>8, <1>9, <1>14, <1>16, <1>17, <1>18, <1>20 DEF TaskStep
<1>21. CASE CleanerStep
  <2>1. ASSUME CleanerTick PROVE SparesInv' /\ CompleteInv'
    BY <1>1, <2>1 DEF CleanerTick
  <2>2. ASSUME NEW c \in Clients, CleanerNext(c) PROVE SparesInv' /\ CompleteInv'
    BY <1>13, <2>2 DEF CleanerNext
  <2> QED BY <1>21, <2>1, <2>2 DEF CleanerStep
<1>22. CASE \/ \E c \in Clients : TouchOnly(c) \/ LeaseExpires(c)
            \/ \E h \in Handles : QueryArrives(h) \/ BgStep(h)
            \/ UNCHANGED vars
  <2>1. UNCHANGED <<task, nextHandle>> /\ entries' \subseteq entries
    BY <1>22 DEF TouchOnly, LeaseExpires, QueryArrives, BgStep, BgRecv, BgFile, BgSend,
                 BgEnd, vars
  <2> QED BY <1>1, <2>1
<1> QED BY <1>8, <1>19, <1>20, <1>21, <1>22 DEF Next

LEMMA SweepInit == Init => KeeperInv /\ SparesInv /\ CompleteInv
<1> SUFFICES ASSUME Init PROVE KeeperInv /\ SparesInv /\ CompleteInv
  OBVIOUS
<1>1. \A t \in AllTasks : task[t].pc = "idle" /\ task[t].todo = {} /\ \neg task[t].quiet
  BY DEF Init, Idle
<1>2. entries = {} /\ declared = {}
  BY DEF Init
<1>3. KeeperInv
  BY <1>1, <1>2 DEF KeeperInv, KDeclared, KUnique, KApart, KSingle, KOld, Uses, Holds
<1>4. SparesInv /\ CompleteInv
  BY <1>1, <1>2 DEF SparesInv, CompleteInv, CleanupSparesOthers
<1> QED BY <1>3, <1>4

(***************************************************************************)
(* cleanup_client never undeclares another client's entity, though it      *)
(* collects handles under one lock and removes them under others.          *)
(***************************************************************************)
THEOREM CleanupSpares == Spec => []CleanupSparesOthers
<1>1. SparesInv => CleanupSparesOthers
  BY DEF SparesInv
<1> QED BY <1>1, SweepInit, SweepStep, KeeperStep, TypeCorrect, PTL DEF Spec

(***************************************************************************)
(* A cleanup that overlaps no declaration of its client leaves nothing of  *)
(* the client behind, whatever other requests do to the tables meanwhile.  *)
(***************************************************************************)
THEOREM CleanupCompletes == Spec => []CleanupIsComplete
<1>1. TypeOK /\ CompleteInv => CleanupIsComplete
  <2> SUFFICES ASSUME TypeOK, CompleteInv, NEW t \in AllTasks, task[t].quiet,
                      NEW e \in entries, e.owner = task[t].client
               PROVE  e.kind \notin Passed(t)
    BY DEF CleanupIsComplete, Owned
  <2>1. task[t].pc # "retain_owner"
    BY DEF CompleteInv
  <2>2. CASE task[t].pc \in {"scan", "sweep", "drop"}
    <3>1. \A i \in 1..(task[t].at - 1) : e.kind # Sweep[i]
      BY <2>2 DEF CompleteInv
    <3>2. Passed(t) = {Sweep[i] : i \in 1..(task[t].at - 1)}
      BY <2>2 DEF Passed
    <3> QED BY <3>1, <3>2
  <2>3. CASE task[t].pc \notin {"scan", "sweep", "drop"}
    BY <2>1, <2>3 DEF Passed
  <2> QED BY <2>2, <2>3
<1> QED BY <1>1, SweepInit, SweepStep, KeeperStep, TypeCorrect, PTL DEF Spec
--------------------------------------------------------------------------------
(* How an entity is left with nobody to reclaim it *)

(* What a client owns is not orphaned by a step that adds nothing to it,   *)
(* takes no lease away, and leaves its cleanups in progress.               *)
LEMMA NotOrphaned ==
    ASSUME NEW c \in Clients, entries' \subseteq entries,
           lastSeen'[c] = "none" => lastSeen[c] = "none",
           \A t \in AllTasks : Cleaning(t, c) => Cleaning(t, c)',
           \neg Orphaned(c)
    PROVE  \neg Orphaned(c)'
  BY DEF Orphaned, Owned

LEMMA OrphanStep ==
    ASSUME TypeOK, CompleteInv, [Next]_vars,
           NEW c \in Clients, \neg Orphaned(c), Orphaned(c)'
    PROVE  \E t \in AllTasks : task[t].client = c /\
              \/ DeclareInsert(t)
              \/ CleanupRetain(t) /\ \neg task[t].quiet
              \/ t \in Tasks /\ Cancel(t) /\ Cleaning(t, c)
<1> DEFINE Race == \E t \in AllTasks : task[t].client = c /\
                      \/ DeclareInsert(t)
                      \/ CleanupRetain(t) /\ \neg task[t].quiet
                      \/ t \in Tasks /\ Cancel(t) /\ Cleaning(t, c)
<1> SUFFICES Race
  OBVIOUS
<1> HIDE DEF Race
<1> USE ConstantFacts
<1>a. task \in [AllTasks -> TaskType] /\ \A t \in AllTasks : task[t] \in Locals
  BY DEF TypeOK, TaskType
<1>b. \A t \in AllTasks : task[t].pc # "idle" => task[t].client \in Clients
  BY <1>a DEF TaskType
<1>d. ASSUME NEW t \in AllTasks, NEW r, task' = [task EXCEPT ![t] = r]
      PROVE  task'[t] = r /\ \A u \in AllTasks : u # t => task'[u] = task[u]
  BY <1>a, <1>d
\* A task that was not cleaning up for c, or that goes on doing so, moves.
<1>e. ASSUME NEW t \in AllTasks, NEW r, task' = [task EXCEPT ![t] = r],
             Cleaning(t, c) => /\ r.client = c
                               /\ r.pc \in {"live", "scan", "sweep", "drop", "retain_owner"}
      PROVE  \A u \in AllTasks : Cleaning(u, c) => Cleaning(u, c)'
  BY <1>d, <1>e DEF Cleaning
<1>s. ASSUME UNCHANGED task, entries' \subseteq entries,
             lastSeen'[c] = "none" => lastSeen[c] = "none"
      PROVE  Race
  <2>1. \A t \in AllTasks : Cleaning(t, c) => Cleaning(t, c)'
    BY <1>s DEF Cleaning
  <2> QED BY <1>s, <2>1, NotOrphaned
<1>r. ASSUME NEW t \in AllTasks, Return(t), \neg Cleaning(t, c), entries' \subseteq entries,
             UNCHANGED lastSeen
      PROVE  Race
  <2>1. \A u \in AllTasks : Cleaning(u, c) => Cleaning(u, c)'
    BY <1>e, <1>r DEF Return
  <2> QED BY <1>r, <2>1, NotOrphaned
\* Renewing a client's lease.
<1>t. ASSUME NEW d \in Clients, touch_client(d)
      PROVE  lastSeen'[c] = "none" => lastSeen[c] = "none"
  BY <1>t DEF touch_client, TypeOK
<1>1. ASSUME NEW d \in Clients, TouchOnly(d) \/ LeaseExpires(d) PROVE Race
  <2>1. lastSeen'[c] = "none" => lastSeen[c] = "none"
    BY <1>1 DEF TouchOnly, LeaseExpires, touch_client, TypeOK
  <2> QED BY <1>1, <1>s, <2>1 DEF TouchOnly, LeaseExpires
<1>2. ASSUME NEW t \in Tasks, NEW d \in Clients, NEW k \in Kinds, DeclareStart(t, d, k)
      PROVE  Race
  <2>1. \A u \in AllTasks : u # t =>
          task'[u].pc = task[u].pc /\ task'[u].client = task[u].client
    BY <1>2, <1>a DEF DeclareStart, Locals
  <2>2. task[t].pc = "idle"
    BY <1>2 DEF DeclareStart
  <2>3. \A u \in AllTasks : Cleaning(u, c) => Cleaning(u, c)'
    BY <2>1, <2>2 DEF Cleaning
  <2>4. entries' \subseteq entries /\ (lastSeen'[c] = "none" => lastSeen[c] = "none")
    BY <1>2, <1>t DEF DeclareStart
  <2> QED BY <2>3, <2>4, NotOrphaned
<1>3. ASSUME NEW t \in Tasks, NEW d \in Clients, NEW k \in Kinds, NEW h \in Handles,
             UndeclareStart(t, d, k, h)
      PROVE  Race
  <2>1. \neg Cleaning(t, c)
    BY <1>3 DEF UndeclareStart, Cleaning
  <2>2. \A u \in AllTasks : Cleaning(u, c) => Cleaning(u, c)'
    BY <1>3, <1>e, <2>1 DEF UndeclareStart
  <2>3. entries' \subseteq entries /\ (lastSeen'[c] = "none" => lastSeen[c] = "none")
    BY <1>3, <1>t DEF UndeclareStart
  <2> QED BY <2>2, <2>3, NotOrphaned
<1>4. ASSUME NEW t \in Tasks, NEW d \in Clients, NEW h \in Handles, NEW i \in 1..MaxQuery,
             FinishStart(t, d, h, i)
      PROVE  Race
  <2>1. \neg Cleaning(t, c)
    BY <1>4 DEF FinishStart, Cleaning
  <2>2. \A u \in AllTasks : Cleaning(u, c) => Cleaning(u, c)'
    BY <1>4, <1>e, <2>1 DEF FinishStart
  <2>3. entries' \subseteq entries /\ (lastSeen'[c] = "none" => lastSeen[c] = "none")
    BY <1>4, <1>t DEF FinishStart
  <2> QED BY <2>2, <2>3, NotOrphaned
<1>5. ASSUME NEW t \in AllTasks, NEW d \in Clients, BeginCleanup(t, d) PROVE Race
  <2>1. \neg Cleaning(t, c)
    BY <1>5 DEF BeginCleanup, Cleaning
  <2>2. \A u \in AllTasks : Cleaning(u, c) => Cleaning(u, c)'
    BY <1>5, <1>e, <2>1 DEF BeginCleanup
  <2>3. entries' \subseteq entries /\ UNCHANGED lastSeen
    BY <1>5 DEF BeginCleanup
  <2> QED BY <2>2, <2>3, NotOrphaned
\* The steps of a request that is no cleanup.
<1>6. ASSUME NEW t \in AllTasks,
             \/ DeclareFails(t) \/ UndeclareNotFound(t) \/ UndeclareRefused(t)
             \/ UndeclareZenoh(t) \/ Finish(t)
      PROVE  Race
  <2>1. Return(t) /\ \neg Cleaning(t, c) /\ entries' \subseteq entries /\ UNCHANGED lastSeen
    BY <1>6 DEF DeclareFails, UndeclareNotFound, UndeclareRefused, UndeclareZenoh, Finish,
                Cleaning
  <2> QED BY <1>r, <2>1
<1>7. ASSUME NEW t \in AllTasks, DeclareZenoh(t) \/ UndeclareRemove(t) \/ UndeclareRetain(t)
      PROVE  Race
  <2>1. \neg Cleaning(t, c) /\ entries' \subseteq entries /\ UNCHANGED lastSeen
    BY <1>7 DEF DeclareZenoh, UndeclareRemove, UndeclareRetain, Cleaning
  <2>2. PICK l : Goto(t, l)
    BY <1>7 DEF DeclareZenoh, UndeclareRemove, UndeclareRetain
  <2>3. task' = [task EXCEPT ![t] = [task[t] EXCEPT !.pc = l]]
    BY <2>2 DEF Goto
  <2>4. \A u \in AllTasks : Cleaning(u, c) => Cleaning(u, c)'
    BY <1>e, <2>1, <2>3
  <2> QED BY <2>1, <2>4, NotOrphaned
<1>8. ASSUME NEW t \in AllTasks, DeclareInsert(t) PROVE Race
  <2>1. CASE task[t].client = c
    BY <1>8, <2>1 DEF Race
  <2>2. CASE task[t].client # c
    <3>1. Owned(c)' \subseteq Owned(c)
      BY <1>8, <2>2 DEF DeclareInsert, Owned
    <3>2. \A u \in AllTasks : Cleaning(u, c) => Cleaning(u, c)'
      BY <1>8, <1>e, <2>2 DEF DeclareInsert, Return, Cleaning
    <3>3. UNCHANGED lastSeen
      BY <1>8 DEF DeclareInsert
    <3> QED BY <3>1, <3>2, <3>3 DEF Orphaned
  <2> QED BY <2>1, <2>2
\* The steps of a cleanup: whoever has lost the lease, the cleanup goes on.
<1>9. ASSUME NEW t \in AllTasks, CleanupLive(t) PROVE Race
  <2>1. task' = [task EXCEPT ![t] = [task[t] EXCEPT !.pc = "scan"]]
        /\ [task[t] EXCEPT !.pc = "scan"].pc = "scan"
        /\ [task[t] EXCEPT !.pc = "scan"].client = task[t].client
    BY <1>9, <1>a DEF CleanupLive, Goto, Locals
  <2>2. \A u \in AllTasks : Cleaning(u, c) => Cleaning(u, c)'
    BY <1>e, <2>1 DEF Cleaning
  <2>3. CASE task[t].client = c
    <3>1. Cleaning(t, c)'
      BY <1>9, <2>2, <2>3 DEF CleanupLive, Cleaning
    <3> QED BY <3>1 DEF Orphaned
  <2>4. CASE task[t].client # c
    <3>1. entries' \subseteq entries /\ (lastSeen'[c] = "none" => lastSeen[c] = "none")
      BY <1>9, <2>4 DEF CleanupLive, TypeOK
    <3> QED BY <2>2, <3>1, NotOrphaned
  <2> QED BY <2>3, <2>4
<1>10. ASSUME NEW t \in AllTasks, NEW rest, task' = [task EXCEPT ![t] = Advance(t, rest)],
              entries' \subseteq entries, UNCHANGED lastSeen
       PROVE  Race
  <2>1. Advance(t, rest).pc \in {"sweep", "retain_owner", "scan"}
        /\ Advance(t, rest).client = task[t].client
    BY <1>a DEF Advance, Locals
  <2>2. \A u \in AllTasks : Cleaning(u, c) => Cleaning(u, c)'
    BY <1>e, <1>10, <2>1 DEF Cleaning
  <2> QED BY <1>10, <2>2, NotOrphaned
<1>11. ASSUME NEW t \in AllTasks, CleanupScan(t) \/ CleanupDrop(t) PROVE Race
  <2>1. \E rest : task' = [task EXCEPT ![t] = Advance(t, rest)]
    BY <1>11 DEF CleanupScan, CleanupDrop
  <2>2. entries' \subseteq entries /\ UNCHANGED lastSeen
    BY <1>11 DEF CleanupScan, CleanupDrop
  <2> QED BY <1>10, <2>1, <2>2
<1>12. ASSUME NEW t \in AllTasks, CleanupRemove(t) PROVE Race
  <2>1. entries' \subseteq entries /\ UNCHANGED lastSeen
    BY <1>12 DEF CleanupRemove
  <2>2. PICK h \in task[t].todo :
           task' = [task EXCEPT ![t] =
                      IF Entry(Sweep[task[t].at], h) = {} THEN Advance(t, @.todo \ {h})
                      ELSE [@ EXCEPT !.pc = "drop", !.handle = h,
                                     !.todo = task[t].todo \ {h}]]
    BY <1>12 DEF CleanupRemove
  <2>3. CASE Entry(Sweep[task[t].at], h) = {}
    <3>1. task' = [task EXCEPT ![t] = Advance(t, task[t].todo \ {h})]
      BY <2>2, <2>3
    <3> QED BY <1>10, <2>1, <3>1
  <2>4. CASE Entry(Sweep[task[t].at], h) # {}
    <3> DEFINE r == [task[t] EXCEPT !.pc = "drop", !.handle = h, !.todo = task[t].todo \ {h}]
    <3>1. task' = [task EXCEPT ![t] = r]
      BY <2>2, <2>4
    <3>2. r.pc = "drop" /\ r.client = task[t].client
      BY <1>a DEF Locals
    <3> HIDE DEF r
    <3>3. \A u \in AllTasks : Cleaning(u, c) => Cleaning(u, c)'
      BY <1>e, <3>1, <3>2 DEF Cleaning
    <3> QED BY <2>1, <3>3, NotOrphaned
  <2> QED BY <2>3, <2>4
\* The end of a cleanup: if nothing overlapped it, c has nothing left.
<1>13. ASSUME NEW t \in AllTasks, CleanupRetain(t) PROVE Race
  <2>1. CASE task[t].client # c
    BY <1>13, <1>r, <2>1 DEF CleanupRetain, Cleaning
  <2>2. CASE task[t].client = c /\ \neg task[t].quiet
    BY <1>13, <2>2 DEF Race
  <2>3. CASE task[t].client = c /\ task[t].quiet
    <3>1. \A e \in entries : e.owner # c
      BY <1>13, <2>3 DEF CleanupRetain, CompleteInv
    <3>2. Owned(c)' = {}
      BY <1>13, <3>1 DEF CleanupRetain, Owned
    <3> QED BY <3>2 DEF Orphaned
  <2> QED BY <2>1, <2>2, <2>3
<1>14. ASSUME NEW t \in Tasks, Cancel(t) PROVE Race
  <2>1. CASE Cleaning(t, c)
    BY <1>14, <2>1 DEF Race, Cleaning
  <2>2. CASE \neg Cleaning(t, c)
    BY <1>14, <1>r, <2>2 DEF Cancel
  <2> QED BY <2>1, <2>2
<1>15. ASSUME NEW t \in Tasks, NEW d \in Clients, Request(t, d) PROVE Race
  BY <1>2, <1>3, <1>4, <1>5, <1>15 DEF Request, CleanupRequest
<1>16. ASSUME NEW t \in AllTasks, TaskStep(t) PROVE Race
  BY <1>6, <1>7, <1>8, <1>9, <1>11, <1>12, <1>13, <1>16 DEF TaskStep
<1>17. CASE CleanerStep
  <2>1. CASE CleanerTick
    BY <1>s, <2>1 DEF CleanerTick
  <2>2. ASSUME NEW d \in Clients, CleanerNext(d) PROVE Race
    BY <1>5, <2>2 DEF CleanerNext
  <2> QED BY <1>17, <2>1, <2>2 DEF CleanerStep
<1>18. CASE \/ \E h \in Handles : QueryArrives(h) \/ BgStep(h)
            \/ UNCHANGED vars
  <2>1. UNCHANGED <<task, lastSeen>> /\ entries' \subseteq entries
    BY <1>18 DEF QueryArrives, BgStep, BgRecv, BgFile, BgSend, BgEnd, vars
  <2> QED BY <1>s, <2>1
<1> QED BY <1>1, <1>14, <1>15, <1>16, <1>17, <1>18 DEF Next

(***************************************************************************)
(* Nothing but a declaration racing a cleanup of the same client, or a     *)
(* connection lost in the middle of a cleanup_client request, can leave an *)
(* entity that no lease and no cleanup will reclaim.                       *)
(***************************************************************************)
THEOREM OrphansAreRaces == Spec => OrphansOnlyByRace
<1>1. TypeOK /\ CompleteInv /\ [Next]_vars =>
        [\A c \in Clients : \neg Orphaned(c) /\ Orphaned(c)' =>
           \E t \in AllTasks : task[t].client = c /\
              \/ DeclareInsert(t)
              \/ CleanupRetain(t) /\ \neg task[t].quiet
              \/ t \in Tasks /\ Cancel(t) /\ Cleaning(t, c)]_vars
  BY OrphanStep
<1> QED BY <1>1, SweepInit, SweepStep, KeeperStep, TypeCorrect, PTL
        DEF Spec, OrphansOnlyByRace
--------------------------------------------------------------------------------
(* Whose a query is *)

\* A background task that can still file a query.
Running(h) == bg[h].pc \in {"recv", "file", "send"}
Filing(h) == bg[h].pc \in {"file", "send"}

\* A query and a background task belong to owner c and a queryable of theirs.
BelongTo(h, c, k) ==
    /\ Running(h) => bg[h].owner = c /\ k = "queryable"
    /\ \A q \in inflight : q.handle = h => q.owner = c /\ k = "queryable"

\* Nothing has been filed under a handle and nobody is about to.
Unused(h) == bg[h].pc = "none" /\ \A q \in inflight : q.handle # h

\* QueriesAttributed rests on the declaration: the background task gets the client
\* of the request that will enter the queryable, under a handle that is new, and ids
\* in use were allocated before.
AttrInv ==
    /\ \A q, r \in inflight : q.id = r.id => q = r
    /\ \A h \in Handles : Filing(h) => bg[h].query < nextQuery
    /\ \A g, h \in Handles : Filing(g) /\ Filing(h) /\ bg[g].query = bg[h].query => g = h
    /\ \A e \in entries : BelongTo(e.handle, e.owner, e.kind)
    /\ \A t \in AllTasks : task[t].pc = "insert" =>
          BelongTo(task[t].handle, task[t].client, task[t].kind)
    /\ \A t \in AllTasks : task[t].pc = "declare" => Unused(task[t].handle)
    /\ \A h \in Handles : h >= nextHandle => Unused(h)

LEMMA AttrInit == Init => AttrInv
<1> SUFFICES ASSUME Init PROVE AttrInv
  OBVIOUS
<1>1. \A t \in AllTasks : task[t].pc = "idle"
  BY DEF Init, Idle
<1>2. \A h \in Handles : bg[h].pc = "none"
  BY DEF Init
<1> QED BY <1>1, <1>2 DEF Init, AttrInv, Filing, Unused

\* A task that is in a declaration was there before, for the same client and handle.
StillDeclares(t) ==
    task'[t].pc \in {"declare", "insert"} =>
        /\ task'[t].pc = task[t].pc /\ task'[t].handle = task[t].handle
        /\ task'[t].client = task[t].client /\ task'[t].kind = task[t].kind

(* Steps that declare nothing and file nothing. *)
LEMMA AttrFrame ==
    ASSUME AttrInv, inflight' \subseteq inflight, entries' \subseteq entries,
           UNCHANGED <<bg, nextQuery, nextHandle>>, \A t \in AllTasks : StillDeclares(t)
    PROVE  AttrInv'
<1>1. \A h, c, k : BelongTo(h, c, k) => BelongTo(h, c, k)'
  BY DEF BelongTo, Running
<1>2. \A h : Unused(h) => Unused(h)'
  BY DEF Unused
<1>3. \A t \in AllTasks : task'[t].pc = "insert" =>
         BelongTo(task'[t].handle, task'[t].client, task'[t].kind)
  BY DEF AttrInv, StillDeclares
<1>4. \A t \in AllTasks : task'[t].pc = "declare" => Unused(task'[t].handle)
  BY DEF AttrInv, StillDeclares
<1>5. \A t \in AllTasks : (task[t].pc = "insert" => BelongTo(task[t].handle, task[t].client, task[t].kind))'
  BY <1>1, <1>3
<1>6. \A t \in AllTasks : (task[t].pc = "declare" => Unused(task[t].handle))'
  BY <1>2, <1>4
<1>7. \A e \in entries' : BelongTo(e.handle, e.owner, e.kind)'
  BY <1>1 DEF AttrInv
<1>8. /\ \A q, r \in inflight' : q.id = r.id => q = r
      /\ \A h \in Handles : Filing(h)' => bg'[h].query < nextQuery'
      /\ \A g, h \in Handles : Filing(g)' /\ Filing(h)' /\ bg'[g].query = bg'[h].query => g = h
      /\ \A h \in Handles : h >= nextHandle' => Unused(h)'
  BY <1>2 DEF AttrInv, Filing
<1> QED BY <1>5, <1>6, <1>7, <1>8 DEF AttrInv
(* A background task takes, files or sends a query, or ends: its queryable's other     *)
(* records are of the same client.                                                    *)
LEMMA AttrBg ==
    ASSUME TypeOK, AttrInv, NEW h \in Handles, BgStep(h)
    PROVE  AttrInv'
<1>1. UNCHANGED <<nextHandle, entries, task>>
  BY DEF BgStep, BgRecv, BgFile, BgSend, BgEnd
<1>2. bg[h].pc # "none" /\ bg'[h].pc # "none" /\ \A g \in Handles : g # h => bg'[g] = bg[g]
  BY DEF BgStep, BgRecv, BgFile, BgSend, BgEnd, TypeOK
<1>3. Running(h)' => Running(h) /\ bg'[h].owner = bg[h].owner
  BY DEF BgStep, BgRecv, BgFile, BgSend, BgEnd, TypeOK, Running
<1>4. \A q \in inflight' : q \in inflight \/ (q.handle = h /\ q.owner = bg[h].owner /\ Running(h))
  BY DEF BgStep, BgRecv, BgFile, BgSend, BgEnd, Running
<1>5. \A g \in Handles : \A c, k : BelongTo(g, c, k) => BelongTo(g, c, k)'
  <2> SUFFICES ASSUME NEW g \in Handles, NEW c, NEW k, BelongTo(g, c, k)
               PROVE  BelongTo(g, c, k)'
    OBVIOUS
  <2>1. CASE g = h
    BY <1>3, <1>4, <2>1 DEF BelongTo
  <2>2. CASE g # h
    BY <1>2, <1>4, <2>2 DEF BelongTo, Running
  <2> QED BY <2>1, <2>2
<1>6. \A g \in Handles : Unused(g) => Unused(g)'
  BY <1>2, <1>4 DEF Unused
<1>7. /\ \A e \in entries : e.handle \in Handles
      /\ \A t \in AllTasks : task[t].pc \in {"declare", "insert"} => task[t].handle \in Handles
  BY DEF TypeOK, TaskType, Holding
<1>8. /\ \A e \in entries' : BelongTo(e.handle, e.owner, e.kind)'
      /\ \A t \in AllTasks : (task[t].pc = "insert" =>
            BelongTo(task[t].handle, task[t].client, task[t].kind))'
      /\ \A t \in AllTasks : (task[t].pc = "declare" => Unused(task[t].handle))'
      /\ \A g \in Handles : g >= nextHandle' => Unused(g)'
  BY <1>1, <1>5, <1>6, <1>7 DEF AttrInv
<1>9. \A q, r \in inflight' : q.id = r.id => q = r
  <2>1. CASE BgFile(h)
    BY <2>1 DEF BgFile, AttrInv
  <2>2. CASE BgRecv(h) \/ BgSend(h) \/ BgEnd(h)
    BY <2>2 DEF BgRecv, BgSend, BgEnd, AttrInv
  <2> QED BY <2>1, <2>2 DEF BgStep
<1>10. /\ \A g \in Handles : Filing(g)' => bg'[g].query < nextQuery'
       /\ \A f, g \in Handles : Filing(f)' /\ Filing(g)' /\ bg'[f].query = bg'[g].query => f = g
  <2>0. nextQuery \in Nat /\ \A g \in Handles : bg[g].query \in Nat
    BY DEF TypeOK
  <2>1. CASE BgRecv(h)
    <3>1. bg'[h].query = nextQuery /\ nextQuery' = nextQuery + 1
      BY <2>1 DEF BgRecv, TypeOK
    <3>2. \A g \in Handles : g # h /\ Filing(g)' =>
             Filing(g) /\ bg'[g].query = bg[g].query /\ bg[g].query < nextQuery
      BY <1>2 DEF Filing, AttrInv
    <3>3. \A g \in Handles : Filing(g)' => bg'[g].query < nextQuery'
      BY <2>0, <3>1, <3>2
    <3>4. ASSUME NEW f \in Handles, NEW g \in Handles, Filing(f)', Filing(g)',
                 bg'[f].query = bg'[g].query
          PROVE  f = g
      <4>1. CASE f # h /\ g # h
        BY <3>2, <3>4, <4>1 DEF AttrInv
      <4>2. CASE f = h \/ g = h
        BY <2>0, <3>1, <3>2, <3>4, <4>2
      <4> QED BY <4>1, <4>2
    <3> QED BY <3>3, <3>4
  <2>2. CASE BgFile(h) \/ BgSend(h) \/ BgEnd(h)
    <3>1. nextQuery' = nextQuery
          /\ (Filing(h)' => Filing(h) /\ bg'[h].query = bg[h].query)
      BY <2>2 DEF BgFile, BgSend, BgEnd, TypeOK, Filing
    <3>2. \A g \in Handles : Filing(g)' => Filing(g) /\ bg'[g].query = bg[g].query
      BY <1>2, <3>1 DEF Filing
    <3> QED BY <3>1, <3>2 DEF AttrInv
  <2> QED BY <2>1, <2>2 DEF BgStep
<1> QED BY <1>8, <1>9, <1>10 DEF AttrInv

LEMMA AttrStep == TypeOK /\ KeeperInv /\ AttrInv /\ [Next]_vars => AttrInv'
<1> SUFFICES ASSUME TypeOK, KeeperInv, AttrInv, [Next]_vars PROVE AttrInv'
  OBVIOUS
<1> USE ConstantFacts
<1>a. task \in [AllTasks -> TaskType] /\ \A t \in AllTasks : task[t] \in Locals
  BY DEF TypeOK, TaskType
\* One task's locals are replaced by those of a task that declares nothing.
<1>d. ASSUME NEW t \in AllTasks, NEW r, task' = [task EXCEPT ![t] = r],
             r.pc \notin {"declare", "insert"}
      PROVE  \A u \in AllTasks : StillDeclares(u)
  BY <1>a, <1>d DEF StillDeclares
<1>e. ASSUME NEW t \in AllTasks, NEW l, Goto(t, l), l \notin {"declare", "insert"}
      PROVE  \A u \in AllTasks : StillDeclares(u)
  <2>1. task' = [task EXCEPT ![t] = [task[t] EXCEPT !.pc = l]]
        /\ [task[t] EXCEPT !.pc = l].pc = l
    BY <1>a, <1>e DEF Goto, Locals
  <2> QED BY <1>d, <1>e, <2>1
<1>f. ASSUME NEW t \in AllTasks, Return(t)
      PROVE  \A u \in AllTasks : StillDeclares(u)
  <2>1. Idle.pc = "idle"
    BY DEF Idle
  <2> QED BY <1>d, <1>f, <2>1 DEF Return
<1>g. ASSUME NEW t \in AllTasks, NEW rest, task' = [task EXCEPT ![t] = Advance(t, rest)]
      PROVE  \A u \in AllTasks : StillDeclares(u)
  <2>1. Advance(t, rest).pc \in {"sweep", "retain_owner", "scan"}
    BY <1>a DEF Advance, Locals
  <2> QED BY <1>d, <1>g, <2>1
<1>s. ASSUME UNCHANGED <<task, bg, nextQuery, nextHandle, inflight, entries>> PROVE AttrInv'
  BY <1>s, AttrFrame DEF StillDeclares
<1>1. ASSUME NEW c \in Clients, TouchOnly(c) \/ LeaseExpires(c) PROVE AttrInv'
  BY <1>1, <1>s DEF TouchOnly, LeaseExpires
<1>2. ASSUME NEW t \in AllTasks, NEW c \in Clients, NEW k \in Kinds, DeclareStart(t, c, k)
      PROVE  AttrInv'
  <2>1. task'[t].pc = "declare" /\ task'[t].handle = nextHandle
    BY <1>2 DEF DeclareStart, Idle
  <2>2. \A u \in AllTasks : u # t =>
           /\ task'[u].pc = task[u].pc /\ task'[u].handle = task[u].handle
           /\ task'[u].client = task[u].client /\ task'[u].kind = task[u].kind
    BY <1>2, <1>a DEF DeclareStart, Locals
  <2>3. UNCHANGED <<inflight, entries, bg, nextQuery>> /\ nextHandle' = nextHandle + 1
        /\ nextHandle \in Handles
    BY <1>2 DEF DeclareStart, TypeOK, Handles
  <2>4. Unused(nextHandle)
    BY <2>3 DEF AttrInv, Handles
  <2>5. \A h : (Unused(h)' <=> Unused(h)) /\ (Filing(h)' <=> Filing(h))
        /\ \A o, l : BelongTo(h, o, l)' <=> BelongTo(h, o, l)
    BY <2>3 DEF Unused, Filing, BelongTo, Running
  <2>6. \A u \in AllTasks : (task[u].pc = "insert" =>
            BelongTo(task[u].handle, task[u].client, task[u].kind))'
    BY <2>1, <2>2, <2>5 DEF AttrInv
  <2>7. \A u \in AllTasks : (task[u].pc = "declare" => Unused(task[u].handle))'
    BY <2>1, <2>2, <2>4, <2>5 DEF AttrInv
  <2>8. \A h \in Handles : h >= nextHandle' => Unused(h)'
    BY <2>3, <2>5 DEF AttrInv, Handles
  <2>9. /\ \A q, r \in inflight' : q.id = r.id => q = r
        /\ \A h \in Handles : Filing(h)' => bg'[h].query < nextQuery'
        /\ \A g, h \in Handles : Filing(g)' /\ Filing(h)' /\ bg'[g].query = bg'[h].query => g = h
        /\ \A x \in entries' : BelongTo(x.handle, x.owner, x.kind)'
    BY <2>3, <2>5 DEF AttrInv
  <2> QED BY <2>6, <2>7, <2>8, <2>9 DEF AttrInv
<1>3. ASSUME NEW t \in AllTasks, DeclareZenoh(t) PROVE AttrInv'
  <2> DEFINE m == task[t].handle
  <2>1. task[t].pc = "declare" /\ m \in Handles /\ m < nextHandle /\ Unused(m)
    BY <1>3 DEF DeclareZenoh, TypeOK, TaskType, AttrInv, KeeperInv, KOld, Uses
  <2>2. task'[t].pc = "insert" /\ task'[t].handle = m /\ task'[t].client = task[t].client
        /\ task'[t].kind = task[t].kind
    BY <1>3, <1>a DEF DeclareZenoh, Goto, Locals
  <2>3. \A u \in AllTasks : u # t => task'[u] = task[u]
    BY <1>3, <1>a DEF DeclareZenoh, Goto
  <2>4. UNCHANGED <<inflight, entries, nextQuery, nextHandle>>
    BY <1>3 DEF DeclareZenoh
  <2>5. /\ \A h \in Handles : h # m => bg'[h] = bg[h]
        /\ task[t].kind = "queryable" => bg'[m].pc = "recv" /\ bg'[m].owner = task[t].client
        /\ task[t].kind # "queryable" => bg'[m] = bg[m]
    BY <1>3, <2>1 DEF DeclareZenoh, TypeOK
  <2>6. \A h \in Handles : h # m => (Unused(h)' <=> Unused(h))
           /\ \A o, l : BelongTo(h, o, l)' <=> BelongTo(h, o, l)
    BY <2>4, <2>5 DEF Unused, BelongTo, Running
  <2>7. \A h \in Handles : Filing(h)' => Filing(h) /\ bg'[h] = bg[h]
    BY <2>5 DEF Filing
  <2>8. BelongTo(m, task[t].client, task[t].kind)'
    BY <2>1, <2>2, <2>4, <2>5 DEF BelongTo, Unused, Running
  <2>9. \A x \in entries : x.handle \in Handles /\ x.handle # m
    BY <2>1 DEF KeeperInv, KApart, Uses, TypeOK
  <2>10. \A u \in AllTasks : u # t /\ task[u].pc \in {"declare", "insert"} =>
            task[u].handle \in Handles /\ task[u].handle # m
    BY <2>1 DEF KeeperInv, KSingle, Uses, TypeOK, TaskType, Holding
  <2>11. \A u \in AllTasks : (task[u].pc = "insert" =>
            BelongTo(task[u].handle, task[u].client, task[u].kind))'
    <3> SUFFICES ASSUME NEW u \in AllTasks, task'[u].pc = "insert"
                 PROVE  BelongTo(task[u].handle, task[u].client, task[u].kind)'
      OBVIOUS
    <3>1. CASE u = t
      BY <2>2, <2>8, <3>1 DEF BelongTo, Running
    <3>2. CASE u # t
      <4>1. BelongTo(task[u].handle, task[u].client, task[u].kind)
            /\ task[u].handle \in Handles /\ task[u].handle # m /\ task'[u] = task[u]
        BY <2>3, <2>10, <3>2 DEF AttrInv
      <4> QED BY <2>4, <2>5, <4>1 DEF BelongTo, Running
    <3> QED BY <3>1, <3>2
  <2>12. \A u \in AllTasks : (task[u].pc = "declare" => Unused(task[u].handle))'
    <3> SUFFICES ASSUME NEW u \in AllTasks, task'[u].pc = "declare"
                 PROVE  Unused(task[u].handle)'
      OBVIOUS
    <3>1. u # t
      BY <2>2
    <3>2. Unused(task[u].handle) /\ task[u].handle \in Handles /\ task[u].handle # m
          /\ task'[u] = task[u]
      BY <2>3, <2>10, <3>1 DEF AttrInv
    <3> QED BY <2>4, <2>5, <3>2 DEF Unused
  <2>13. \A h \in Handles : h >= nextHandle' => Unused(h)'
    <3>1. \A h \in Handles : h >= nextHandle => h # m
      BY <2>1 DEF TypeOK, Handles
    <3> QED BY <2>4, <2>6, <3>1 DEF AttrInv
  <2>14. /\ \A q, r \in inflight' : q.id = r.id => q = r
         /\ \A h \in Handles : Filing(h)' => bg'[h].query < nextQuery'
         /\ \A g, h \in Handles : Filing(g)' /\ Filing(h)' /\ bg'[g].query = bg'[h].query => g = h
    BY <2>4, <2>7 DEF AttrInv
  <2>15. \A x \in entries' : BelongTo(x.handle, x.owner, x.kind)'
    BY <2>4, <2>6, <2>9 DEF AttrInv
  <2> QED BY <2>11, <2>12, <2>13, <2>14, <2>15 DEF AttrInv
<1>4. ASSUME NEW t \in AllTasks, DeclareInsert(t) PROVE AttrInv'
  <2> DEFINE n == [kind |-> task[t].kind, handle |-> task[t].handle,
                   owner |-> task[t].client]
  <2>1. BelongTo(n.handle, n.owner, n.kind)
    BY <1>4 DEF DeclareInsert, AttrInv
  <2>2. entries' \subseteq entries \cup {n} /\ UNCHANGED <<inflight, bg, nextQuery, nextHandle>>
    BY <1>4 DEF DeclareInsert
  <2> HIDE DEF n
  <2>3. \A u \in AllTasks : StillDeclares(u)
    BY <1>4, <1>f DEF DeclareInsert
  <2>4. \A h, c, k : BelongTo(h, c, k)' <=> BelongTo(h, c, k)
    BY <2>2 DEF BelongTo, Running
  <2>5. \A h : Unused(h)' <=> Unused(h)
    BY <2>2 DEF Unused
  <2>6. \A x \in entries' : BelongTo(x.handle, x.owner, x.kind)'
    BY <2>1, <2>2, <2>4 DEF AttrInv
  <2>7. \A u \in AllTasks : task'[u].pc = "insert" =>
           BelongTo(task'[u].handle, task'[u].client, task'[u].kind)
    BY <2>3 DEF AttrInv, StillDeclares
  <2>8. \A u \in AllTasks : task'[u].pc = "declare" => Unused(task'[u].handle)
    BY <2>3 DEF AttrInv, StillDeclares
  <2>9. /\ \A u \in AllTasks : (task[u].pc = "insert" =>
              BelongTo(task[u].handle, task[u].client, task[u].kind))'
        /\ \A u \in AllTasks : (task[u].pc = "declare" => Unused(task[u].handle))'
    BY <2>4, <2>5, <2>7, <2>8
  <2>10. /\ \A q, r \in inflight' : q.id = r.id => q = r
         /\ \A h \in Handles : Filing(h)' => bg'[h].query < nextQuery'
         /\ \A g, h \in Handles : Filing(g)' /\ Filing(h)' /\ bg'[g].query = bg'[h].query => g = h
         /\ \A h \in Handles : h >= nextHandle' => Unused(h)'
    BY <2>2, <2>5 DEF AttrInv, Filing
  <2> QED BY <2>6, <2>9, <2>10 DEF AttrInv
<1>5. ASSUME NEW t \in AllTasks,
             \/ DeclareFails(t) \/ UndeclareNotFound(t) \/ UndeclareRefused(t)
             \/ UndeclareZenoh(t) \/ Finish(t) \/ CleanupRetain(t) \/ Cancel(t)
      PROVE  AttrInv'
  <2>1. Return(t) /\ inflight' \subseteq inflight /\ entries' \subseteq entries
        /\ UNCHANGED <<bg, nextQuery, nextHandle>>
    BY <1>5 DEF DeclareFails, UndeclareNotFound, UndeclareRefused, UndeclareZenoh, Finish,
                CleanupRetain, Cancel
  <2> QED BY <1>f, <2>1, AttrFrame
<1>6. ASSUME NEW t \in AllTasks, UndeclareRemove(t) \/ UndeclareRetain(t) \/ CleanupLive(t)
      PROVE  AttrInv'
  <2>1. inflight' \subseteq inflight /\ entries' \subseteq entries
        /\ UNCHANGED <<bg, nextQuery, nextHandle>>
    BY <1>6 DEF UndeclareRemove, UndeclareRetain, CleanupLive
  <2>2. \E l \in {"retain_handle", "undeclare", "scan"} : Goto(t, l)
    BY <1>6 DEF UndeclareRemove, UndeclareRetain, CleanupLive
  <2> QED BY <1>e, <2>1, <2>2, AttrFrame
<1>7. ASSUME NEW t \in AllTasks, CleanupScan(t) \/ CleanupDrop(t) PROVE AttrInv'
  <2>1. UNCHANGED <<inflight, entries, bg, nextQuery, nextHandle>>
    BY <1>7 DEF CleanupScan, CleanupDrop
  <2>2. \E rest : task' = [task EXCEPT ![t] = Advance(t, rest)]
    BY <1>7 DEF CleanupScan, CleanupDrop
  <2> QED BY <1>g, <2>1, <2>2, AttrFrame
<1>8. ASSUME NEW t \in AllTasks, CleanupRemove(t) PROVE AttrInv'
  <2>1. entries' \subseteq entries /\ UNCHANGED <<inflight, bg, nextQuery, nextHandle>>
    BY <1>8 DEF CleanupRemove
  <2>2. PICK h \in task[t].todo :
           task' = [task EXCEPT ![t] =
                      IF Entry(Sweep[task[t].at], h) = {} THEN Advance(t, @.todo \ {h})
                      ELSE [@ EXCEPT !.pc = "drop", !.handle = h,
                                     !.todo = task[t].todo \ {h}]]
    BY <1>8 DEF CleanupRemove
  <2>3. CASE Entry(Sweep[task[t].at], h) = {}
    <3>1. task' = [task EXCEPT ![t] = Advance(t, task[t].todo \ {h})]
      BY <2>2, <2>3
    <3> QED BY <1>g, <2>1, <3>1, AttrFrame
  <2>4. CASE Entry(Sweep[task[t].at], h) # {}
    <3> DEFINE r == [task[t] EXCEPT !.pc = "drop", !.handle = h, !.todo = task[t].todo \ {h}]
    <3>1. task' = [task EXCEPT ![t] = r]
      BY <2>2, <2>4
    <3>2. r.pc = "drop"
      BY <1>a DEF Locals
    <3> HIDE DEF r
    <3> QED BY <1>d, <2>1, <3>1, <3>2, AttrFrame
  <2> QED BY <2>3, <2>4
<1>9. ASSUME NEW t \in AllTasks, TaskStep(t) PROVE AttrInv'
  BY <1>3, <1>4, <1>5, <1>6, <1>7, <1>8, <1>9 DEF TaskStep
<1>10. ASSUME NEW t \in AllTasks, NEW c \in Clients, BeginCleanup(t, c) PROVE AttrInv'
  <2>1. UNCHANGED <<inflight, entries, bg, nextQuery, nextHandle>>
    BY <1>10 DEF BeginCleanup
  <2> DEFINE r == [Idle EXCEPT !.pc = "live", !.client = c, !.quiet = \neg Declaring(c)]
  <2>2. task' = [task EXCEPT ![t] = r]
    BY <1>10 DEF BeginCleanup
  <2>3. r.pc = "live"
    BY DEF Idle
  <2> HIDE DEF r
  <2> QED BY <1>d, <2>1, <2>2, <2>3, AttrFrame
<1>11. ASSUME NEW t \in Tasks, NEW c \in Clients, Request(t, c) PROVE AttrInv'
  <2>1. ASSUME NEW k \in Kinds, NEW h \in Handles, UndeclareStart(t, c, k, h) PROVE AttrInv'
    <3>1. UNCHANGED <<inflight, entries, bg, nextQuery, nextHandle>>
      BY <2>1 DEF UndeclareStart
    <3> DEFINE r == [Idle EXCEPT !.pc = "remove", !.client = c, !.kind = k, !.handle = h]
    <3>2. task' = [task EXCEPT ![t] = r]
      BY <2>1 DEF UndeclareStart
    <3>3. r.pc = "remove"
      BY DEF Idle
    <3> HIDE DEF r
    <3> QED BY <1>d, <3>1, <3>2, <3>3, AttrFrame
  <2>2. ASSUME NEW h \in Handles, NEW i \in 1..MaxQuery, FinishStart(t, c, h, i) PROVE AttrInv'
    <3>1. UNCHANGED <<inflight, entries, bg, nextQuery, nextHandle>>
      BY <2>2 DEF FinishStart
    <3> DEFINE r == [Idle EXCEPT !.pc = "finish", !.client = c, !.handle = h, !.query = i]
    <3>2. task' = [task EXCEPT ![t] = r]
      BY <2>2 DEF FinishStart
    <3>3. r.pc = "finish"
      BY DEF Idle
    <3> HIDE DEF r
    <3> QED BY <1>d, <3>1, <3>2, <3>3, AttrFrame
  <2> QED BY <1>2, <1>10, <1>11, <2>1, <2>2 DEF Request, CleanupRequest
<1>12. CASE CleanerStep
  <2>1. CASE CleanerTick
    BY <2>1, <1>s DEF CleanerTick
  <2>2. ASSUME NEW c \in Clients, CleanerNext(c) PROVE AttrInv'
    BY <2>2, <1>10 DEF CleanerNext
  <2> QED BY <1>12, <2>1, <2>2 DEF CleanerStep
<1>13. ASSUME NEW h \in Handles, QueryArrives(h) PROVE AttrInv'
  BY <1>13, <1>s DEF QueryArrives
<1>14. CASE UNCHANGED vars
  BY <1>14, <1>s DEF vars
<1>15. ASSUME NEW t \in Tasks, Cancel(t) PROVE AttrInv'
  BY <1>5, <1>15
<1> QED BY <1>1, <1>9, <1>11, <1>12, <1>13, <1>14, <1>15, AttrBg DEF Next

(***************************************************************************)
(* A query in flight belongs to the client and the handle that the table   *)
(* has for its queryable, under an id of its own, for any number of        *)
(* queryables whose background tasks file queries at once.                 *)
(***************************************************************************)
THEOREM QueriesAreAttributed == Spec => []QueriesAttributed
<1>1. TypeOK /\ AttrInv => QueriesAttributed
  BY DEF AttrInv, QueriesAttributed, BelongTo, Filing
<1> QED BY <1>1, AttrInit, AttrStep, SweepInit, KeeperStep, TypeCorrect, PTL DEF Spec
================================================================================
