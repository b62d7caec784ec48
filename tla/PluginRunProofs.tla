---------------------------- MODULE PluginRunProofs ----------------------------
(***************************************************************************)
(* What holds of starting and stopping the plugin, for any number of       *)
(* starts and any configurations.                                          *)
(***************************************************************************)
EXTENDS PluginRun, TLAPS

(* The disjuncts of Next. *)
LEMMA NextSplit ==
    ASSUME [Next]_vars
    PROVE  \/ \E i \in Runs : Start(i) \/ Drop(i) \/ RunEnds(i) \/ RunSpawns(i) \/ RunWaits(i)
                                 \/ GraceOver(i)
           \/ \E i \in Runs : CleanerStarts(i) \/ CleanerTicks(i) \/ CleanerCleans(i)
                                 \/ CleanerStops(i) \/ CleanerCancelled(i)
           \/ \E i \in Runs : BindTcp(i) \/ RemoveFile(i) \/ BindUnix(i)
           \/ \E i \in Runs, e \in Endpoints :
                 Serve(i, e) \/ ListenerStops(i, e) \/ ListenerDrained(i, e)
                    \/ ListenerCancelled(i, e)
           \/ UNCHANGED vars
  BY DEF Next, CleanerStep, ListenerRuns

RunLabels == {"none", "init", "spawned", "wait", "grace", "ended"}
CleanerLabels == {"none", "spawned", "select", "told", "clean", "ended"}
ListenerLabels ==
    {"none", "spawned", "removed", "bound", "serving", "told", "draining", "ended"}
Refusals == [Runs -> SUBSET [listener : Endpoints, by : 0..MaxStarts]]

LEMMA TypeInit == Init => TypeOK
  BY ConfigsOk DEF Init, TypeOK, Config

LEMMA RunsPositive == MaxStarts \in Nat /\ \A i \in Runs : i \in Nat /\ i # 0 /\ i \in 0..MaxStarts
  BY ConfigsOk DEF Runs

(* One listener moves. *)
LEMMA SetLType ==
    ASSUME TypeOK, NEW i \in Runs, NEW e \in Endpoints, NEW l \in ListenerLabels, SetL(i, e, l),
           port' \in 0..MaxStarts, file' \subseteq 0..MaxStarts, refused' \in Refusals
    PROVE  TypeOK'
<1>1. pcL' \in [Runs -> [Endpoints -> ListenerLabels]]
  BY DEF SetL, TypeOK, ListenerLabels
<1> QED BY <1>1 DEF SetL, TypeOK, ListenerLabels, Refusals

LEMMA RefuseType ==
    ASSUME TypeOK, NEW i \in Runs, NEW e \in Endpoints, NEW j \in 0..MaxStarts, Refuse(i, e, j)
    PROVE  TypeOK'
<1>1. refused' \in Refusals
  BY DEF Refuse, TypeOK, Refusals
<1>2. port' \in 0..MaxStarts /\ file' \subseteq 0..MaxStarts
  BY DEF Refuse, os, TypeOK
<1>3. "ended" \in ListenerLabels /\ SetL(i, e, "ended")
  BY DEF Refuse, ListenerLabels
<1> QED BY <1>1, <1>2, <1>3, SetLType

LEMMA SetCType ==
    ASSUME TypeOK, NEW i \in Runs, NEW l \in CleanerLabels, SetC(i, l)
    PROVE  TypeOK'
  BY DEF SetC, TypeOK, CleanerLabels, os, hist

LEMMA CloseType ==
    ASSUME TypeOK, NEW i, NEW e, Close(i, e)
    PROVE  port' \in 0..MaxStarts /\ file' \subseteq 0..MaxStarts /\ refused' \in Refusals
  BY RunsPositive DEF Close, TypeOK, Refusals

LEMMA TypeStep ==
    ASSUME TypeOK, [Next]_vars
    PROVE  TypeOK'
<1>1. ASSUME NEW i \in Runs, Start(i) PROVE TypeOK'
  <2>1. config' \in [Runs -> Config]
    <3>1. PICK c \in Configs[i] : config' = [config EXCEPT ![i] = c]
      BY <1>1 DEF Start
    <3>2. Configs[i] \subseteq Config
      BY ConfigsOk
    <3> QED BY <3>1, <3>2 DEF TypeOK
  <2> QED BY <1>1, <2>1 DEF Start, TypeOK, tasks, os, hist
<1>2. ASSUME NEW i \in Runs, Drop(i) PROVE TypeOK'
  <2>1. pcL' \in [Runs -> [Endpoints -> ListenerLabels]]
    BY <1>2 DEF Drop, TypeOK, ListenerLabels
  <2>2. early' \in [Runs -> BOOLEAN]
    BY <1>2 DEF Drop, TypeOK
  <2>3. pcR' \in [Runs -> RunLabels] /\ pcC' \in [Runs -> CleanerLabels]
    BY <1>2 DEF Drop, TypeOK, RunLabels, CleanerLabels
  <2> QED BY <1>2, <2>1, <2>2, <2>3
          DEF Drop, TypeOK, os, RunLabels, CleanerLabels, ListenerLabels
<1>3. ASSUME NEW i \in Runs, RunEnds(i) \/ RunWaits(i) \/ GraceOver(i) PROVE TypeOK'
  BY <1>3 DEF RunEnds, RunWaits, GraceOver, TypeOK, tasks, os, hist
<1>4. ASSUME NEW i \in Runs, RunSpawns(i) PROVE TypeOK'
  <2>1. pcL' \in [Runs -> [Endpoints -> ListenerLabels]]
    BY <1>4 DEF RunSpawns, TypeOK, ListenerLabels
  <2>2. Listeners(config[i]) \subseteq Endpoints
    BY DEF Listeners, Endpoints
  <2> QED BY <1>4, <2>1, <2>2 DEF RunSpawns, TypeOK, os, hist, ListenerLabels
<1>5. ASSUME NEW i \in Runs,
             CleanerStarts(i) \/ CleanerTicks(i) \/ CleanerCleans(i) \/ CleanerStops(i)
                \/ CleanerCancelled(i)
      PROVE  TypeOK'
  <2>1. \E l \in CleanerLabels : SetC(i, l)
    BY <1>5 DEF CleanerStarts, CleanerTicks, CleanerCleans, CleanerStops, CleanerCancelled,
                CleanerLabels
  <2> QED BY <2>1, SetCType
<1>6. ASSUME NEW i \in Runs, BindTcp(i) \/ RemoveFile(i) \/ BindUnix(i) PROVE TypeOK'
  <2>1. ASSUME NEW e \in Endpoints, NEW j \in 0..MaxStarts, Refuse(i, e, j) PROVE TypeOK'
    BY <2>1, RefuseType
  <2>2. (\E e \in Endpoints, j \in 0..MaxStarts : Refuse(i, e, j))
        \/ (/\ \E e \in Endpoints, l \in ListenerLabels : SetL(i, e, l)
            /\ port' \in {port, i} /\ file' \in {file, {}, {i}} /\ refused' = refused)
    BY <1>6 DEF BindTcp, RemoveFile, BindUnix, Endpoints, ListenerLabels, TypeOK
  <2>3. port \in 0..MaxStarts /\ file \subseteq 0..MaxStarts /\ refused \in Refusals
    BY DEF TypeOK, Refusals
  <2> QED BY <2>1, <2>2, <2>3, RunsPositive, SetLType
<1>7. ASSUME NEW i \in Runs, NEW e \in Endpoints,
             Serve(i, e) \/ ListenerStops(i, e) \/ ListenerDrained(i, e)
                \/ ListenerCancelled(i, e)
      PROVE  TypeOK'
  <2>1. port' \in 0..MaxStarts /\ file' \subseteq 0..MaxStarts /\ refused' \in Refusals
    BY <1>7, CloseType
       DEF Serve, ListenerStops, ListenerDrained, ListenerCancelled, os, TypeOK, Refusals
  <2>2. \E l \in ListenerLabels : SetL(i, e, l)
    BY <1>7 DEF Serve, ListenerStops, ListenerDrained, ListenerCancelled, ListenerLabels
  <2> QED BY <2>1, <2>2, SetLType
<1>8. CASE UNCHANGED vars
  BY <1>8 DEF TypeOK, vars, tasks, os, hist
<1> QED BY <1>1, <1>2, <1>3, <1>4, <1>5, <1>6, <1>7, <1>8, NextSplit

(* The state of starting and stopping keeps its types: in particular, run's listeners  *)
(* are endpoints that it knows how to bind.                                           *)
THEOREM TypeCorrect == Spec => []TypeOK
<1> QED BY TypeInit, TypeStep, PTL DEF Spec

--------------------------------------------------------------------------------
(* The cleaner is told or cancelled only by a drop: it ends early only if its interval *)
(* is zero.  There is a cleaner whenever there are listeners.                          *)
CleanerInv ==
    \A i \in Runs :
        /\ plugin[i] = "none" => pcR[i] = "none"
        /\ pcR[i] \in {"none", "init"} => pcC[i] = "none"
        /\ pcC[i] = "none" => \A e \in Endpoints : pcL[i][e] = "none"
        /\ aborted[i] \/ pcR[i] = "grace" => plugin[i] = "dropped" /\ pcC[i] # "none"
        /\ pcR[i] = "wait" => pcC[i] # "none"
        /\ pcR[i] = "spawned" => pcC[i] # "none"
        /\ pcC[i] = "told" => plugin[i] = "dropped"
        /\ pcC[i] = "ended" => config[i].zero \/ plugin[i] = "dropped"

LEMMA CleanerInit == Init => CleanerInv
  BY DEF Init, CleanerInv

(* A listener moves, of a run that has spawned its cleaner as well. *)
LEMMA SetLCleaner ==
    ASSUME TypeOK, CleanerInv, NEW i \in Runs, NEW e \in Endpoints, NEW l, SetL(i, e, l),
           pcL[i][e] # "none"
    PROVE  CleanerInv'
<1>1. \A j \in Runs : j # i => pcL'[j] = pcL[j]
  BY DEF SetL, TypeOK
<1>2. pcC[i] # "none"
  BY DEF CleanerInv
<1> QED BY <1>1, <1>2 DEF SetL, CleanerInv

LEMMA SetCCleaner ==
    ASSUME TypeOK, CleanerInv, NEW i \in Runs, NEW l \in CleanerLabels \ {"none", "told"},
           SetC(i, l), pcC[i] # "none",
           l = "ended" => config[i].zero \/ plugin[i] = "dropped"
    PROVE  CleanerInv'
<1>1. pcC'[i] = l /\ \A j \in Runs : j # i => pcC'[j] = pcC[j]
  BY DEF SetC, TypeOK
<1> QED BY <1>1 DEF SetC, CleanerInv

LEMMA CleanerStepInv ==
    ASSUME TypeOK, CleanerInv, [Next]_vars
    PROVE  CleanerInv'
<1>1. ASSUME NEW i \in Runs, Start(i) PROVE CleanerInv'
  <2>1. plugin'[i] = "running" /\ pcR'[i] = "init" /\ pcC[i] = "none" /\ ~aborted[i]
        /\ \A j \in Runs : j # i => plugin'[j] = plugin[j] /\ config'[j] = config[j]
                                       /\ pcR'[j] = pcR[j]
    BY <1>1 DEF Start, TypeOK, CleanerInv
  <2> QED BY <1>1, <2>1 DEF Start, CleanerInv, tasks
<1>2. ASSUME NEW i \in Runs, Drop(i) PROVE CleanerInv'
  <2>1. plugin'[i] = "dropped"
        /\ pcR'[i] = (IF pcR[i] = "wait" THEN "grace" ELSE pcR[i])
        /\ pcC'[i] = (IF pcC[i] = "select" THEN "told" ELSE pcC[i])
        /\ \A e \in Endpoints : pcL[i][e] = "none" => pcL'[i][e] = "none"
    BY <1>2 DEF Drop, TypeOK
  <2>2. \A j \in Runs : j # i => plugin'[j] = plugin[j] /\ pcR'[j] = pcR[j]
                                    /\ pcC'[j] = pcC[j] /\ pcL'[j] = pcL[j]
    BY <1>2 DEF Drop, TypeOK
  <2>3. UNCHANGED <<config, aborted>>
    BY <1>2 DEF Drop
  <2> QED BY <2>1, <2>2, <2>3 DEF CleanerInv
<1>3. ASSUME NEW i \in Runs, RunEnds(i) \/ RunWaits(i) \/ GraceOver(i) PROVE CleanerInv'
  <2>1. \A j \in Runs : j # i => pcR'[j] = pcR[j] /\ aborted'[j] = aborted[j]
    BY <1>3 DEF RunEnds, RunWaits, GraceOver, TypeOK
  <2>2. \/ pcR[i] = "init" /\ pcR'[i] = "ended" /\ aborted'[i] = aborted[i]
        \/ pcR[i] = "spawned" /\ pcR'[i] = "wait" /\ aborted'[i] = aborted[i]
        \/ pcR[i] = "grace" /\ pcR'[i] = "ended"
    BY <1>3 DEF RunEnds, RunWaits, GraceOver, TypeOK
  <2>3. UNCHANGED <<plugin, config, pcC, pcL>>
    BY <1>3 DEF RunEnds, RunWaits, GraceOver, tasks, hist
  <2> QED BY <2>1, <2>2, <2>3 DEF CleanerInv
<1>4. ASSUME NEW i \in Runs, RunSpawns(i) PROVE CleanerInv'
  <2>1. pcR[i] = "init" /\ pcR'[i] = "spawned" /\ pcC'[i] = "spawned"
        /\ \A j \in Runs : j # i => pcR'[j] = pcR[j] /\ pcC'[j] = pcC[j] /\ pcL'[j] = pcL[j]
    BY <1>4 DEF RunSpawns, TypeOK
  <2>2. UNCHANGED <<plugin, config, aborted>>
    BY <1>4 DEF RunSpawns
  <2> QED BY <2>1, <2>2 DEF CleanerInv
<1>5. ASSUME NEW i \in Runs,
             CleanerStarts(i) \/ CleanerTicks(i) \/ CleanerCleans(i) \/ CleanerStops(i)
                \/ CleanerCancelled(i)
      PROVE  CleanerInv'
  <2>1. pcC[i] # "none"
    BY <1>5 DEF CleanerStarts, CleanerTicks, CleanerCleans, CleanerStops, CleanerCancelled,
                CleanerInv
  <2>2. \E l \in CleanerLabels \ {"none", "told"} :
           SetC(i, l) /\ (l = "ended" => config[i].zero \/ plugin[i] = "dropped")
    BY <1>5 DEF CleanerStarts, CleanerTicks, CleanerCleans, CleanerStops, CleanerCancelled,
                CleanerInv, CleanerLabels
  <2> QED BY <2>1, <2>2, SetCCleaner
<1>6. ASSUME NEW i \in Runs, BindTcp(i) \/ RemoveFile(i) \/ BindUnix(i) PROVE CleanerInv'
  BY <1>6, SetLCleaner DEF BindTcp, RemoveFile, BindUnix, Refuse, Endpoints
<1>7. ASSUME NEW i \in Runs, NEW e \in Endpoints,
             Serve(i, e) \/ ListenerStops(i, e) \/ ListenerDrained(i, e)
                \/ ListenerCancelled(i, e)
      PROVE  CleanerInv'
  BY <1>7, SetLCleaner DEF Serve, ListenerStops, ListenerDrained, ListenerCancelled
<1>8. CASE UNCHANGED vars
  BY <1>8 DEF CleanerInv, vars, tasks
<1> QED BY <1>1, <1>2, <1>3, <1>4, <1>5, <1>6, <1>7, <1>8, NextSplit

(* A plugin that serves and that nobody has dropped has its cleaner, whatever          *)
(* happened to the plugins started before it, unless the cleanup interval is zero.     *)
THEOREM CleanerStays == Spec => []CleanerWhileServing
<1>1. TypeOK /\ CleanerInv => CleanerWhileServing
  BY DEF TypeOK, CleanerInv, CleanerWhileServing
<1> QED BY <1>1, TypeInit, TypeStep, CleanerInit, CleanerStepInv, PTL DEF Spec
--------------------------------------------------------------------------------
(* The TCP port *)

Open == {"bound", "serving", "told"}

(* A listener moves, and the port with it. *)
LEMMA SetLPort ==
    ASSUME TypeOK, PortHeldByListener, NEW i \in Runs, NEW e \in Endpoints,
           NEW l, SetL(i, e, l),
           \/ e # "tcp" /\ port' = port
           \/ e = "tcp" /\ port' = i /\ port \in {0, i} /\ l \in Open
           \/ e = "tcp" /\ port = i /\ port' = 0 /\ l \notin Open
           \/ e = "tcp" /\ port # i /\ port' = port /\ l \notin Open
    PROVE  PortHeldByListener'
<1>1. pcL'[i][e] = l /\ (\A d \in Endpoints : d # e => pcL'[i][d] = pcL[i][d])
      /\ \A j \in Runs : j # i => pcL'[j] = pcL[j]
  BY DEF SetL, TypeOK
<1>2. "tcp" \in Endpoints
  BY DEF Endpoints
<1> QED BY <1>1, <1>2, RunsPositive DEF PortHeldByListener, Open

LEMMA PortStep ==
    ASSUME TypeOK, CleanerInv, PortHeldByListener, [Next]_vars
    PROVE  PortHeldByListener'
<1>0. "tcp" \in Endpoints /\ "unix" \in Endpoints
  BY DEF Endpoints
<1>1. ASSUME NEW i \in Runs, Start(i) \/ RunEnds(i) \/ RunWaits(i) \/ GraceOver(i)
      PROVE  PortHeldByListener'
  BY <1>1 DEF Start, RunEnds, RunWaits, GraceOver, PortHeldByListener, tasks, os
<1>2. ASSUME NEW i \in Runs, Drop(i) PROVE PortHeldByListener'
  <2>1. pcL'[i]["tcp"] = (IF pcL[i]["tcp"] = "serving" THEN "told" ELSE pcL[i]["tcp"])
        /\ (\A j \in Runs : j # i => pcL'[j] = pcL[j]) /\ port' = port
    BY <1>0, <1>2 DEF Drop, TypeOK, os
  <2> QED BY <2>1 DEF PortHeldByListener
<1>3. ASSUME NEW i \in Runs, RunSpawns(i) PROVE PortHeldByListener'
  <2>1. pcL[i]["tcp"] = "none"
    BY <1>0, <1>3 DEF RunSpawns, CleanerInv
  <2>2. pcL'[i]["tcp"] \in {"none", "spawned"} /\ (\A j \in Runs : j # i => pcL'[j] = pcL[j])
        /\ port' = port
    BY <1>0, <1>3 DEF RunSpawns, TypeOK, os
  <2> QED BY <2>1, <2>2 DEF PortHeldByListener
<1>4. ASSUME NEW i \in Runs,
             CleanerStarts(i) \/ CleanerTicks(i) \/ CleanerCleans(i) \/ CleanerStops(i)
                \/ CleanerCancelled(i)
      PROVE  PortHeldByListener'
  BY <1>4 DEF CleanerStarts, CleanerTicks, CleanerCleans, CleanerStops, CleanerCancelled,
              SetC, os, PortHeldByListener
<1>5. ASSUME NEW i \in Runs, BindTcp(i) PROVE PortHeldByListener'
  <2>1. CASE port = 0 /\ port' = i /\ SetL(i, "tcp", "bound")
    BY <2>1, <1>0, SetLPort DEF Open
  <2>2. CASE Refuse(i, "tcp", port)
    <3>1. port # i
      BY <1>5 DEF BindTcp, PortHeldByListener
    <3> QED BY <2>2, <3>1, <1>0, SetLPort DEF Refuse, os, Open
  <2> QED BY <1>5, <2>1, <2>2 DEF BindTcp
<1>6. ASSUME NEW i \in Runs, RemoveFile(i) \/ BindUnix(i) PROVE PortHeldByListener'
  BY <1>6, <1>0, SetLPort DEF RemoveFile, BindUnix, Refuse, os
<1>7. ASSUME NEW i \in Runs, NEW e \in Endpoints, Serve(i, e) PROVE PortHeldByListener'
  <2>1. e = "tcp" => port = i
    BY <1>7 DEF Serve, PortHeldByListener
  <2> QED BY <1>7, <2>1, SetLPort DEF Serve, os, Open
<1>8. ASSUME NEW i \in Runs, NEW e \in Endpoints,
             ListenerStops(i, e) \/ ListenerCancelled(i, e)
      PROVE  PortHeldByListener'
  <2>1. PICK l \in {"draining", "ended"} : SetL(i, e, l) /\ Close(i, e)
    BY <1>8 DEF ListenerStops, ListenerCancelled
  <2>2. l \notin Open
    BY DEF Open
  <2> QED BY <2>1, <2>2, SetLPort DEF Close
<1>9. ASSUME NEW i \in Runs, NEW e \in Endpoints, ListenerDrained(i, e)
      PROVE  PortHeldByListener'
  <2>1. e = "tcp" => port # i
    BY <1>9 DEF ListenerDrained, PortHeldByListener
  <2> QED BY <1>9, <2>1, SetLPort DEF ListenerDrained, os, Open
<1>10. CASE UNCHANGED vars
  BY <1>10 DEF PortHeldByListener, vars, tasks, os
<1> QED BY <1>1, <1>2, <1>3, <1>4, <1>5, <1>6, <1>7, <1>8, <1>9, <1>10, NextSplit

(* The TCP port is held exactly by the run whose listener is open, across any number   *)
(* of restarts that overlap: a run that was stopped, aborted or refused the port keeps *)
(* nothing, and nobody takes it from a run that serves.                                *)
THEOREM PortIsHeld == Spec => []PortHeldByListener
<1>1. Init => PortHeldByListener
  <2> SUFFICES ASSUME Init, NEW i \in Runs
               PROVE  port # i /\ pcL[i]["tcp"] \notin {"bound", "serving", "told"}
    BY DEF PortHeldByListener
  <2>1. pcL[i]["tcp"] = "none" /\ port = 0
    BY DEF Init, Endpoints
  <2> QED BY <2>1, RunsPositive
<1> QED BY <1>1, TypeInit, TypeStep, CleanerInit, CleanerStepInv, PortStep, PTL DEF Spec

--------------------------------------------------------------------------------
(* Stopping *)

(* A run that was stopped in time has gone into its grace period, and a run that has   *)
(* ended without tasks never gets any.                                                 *)
Stopping(i) ==
    /\ plugin[i] # "none" => pcR[i] # "none"
    /\ plugin[i] = "dropped" /\ ~early[i] => pcR[i] \in {"grace", "ended"}
    /\ pcR[i] = "ended" => TasksGone(i) \/ aborted[i]
StopInv == \A i \in Runs : Stopping(i)

LEMMA StopInit == Init => StopInv
  BY DEF Init, StopInv, Stopping

LEMMA SetLStop ==
    ASSUME TypeOK, StopInv, NEW i \in Runs, NEW e \in Endpoints, NEW l, SetL(i, e, l),
           pcL[i][e] \notin {"none", "ended"}
    PROVE  StopInv'
<1>1. \A j \in Runs : j # i => pcL'[j] = pcL[j]
  BY DEF SetL, TypeOK
<1>2. ~TasksGone(i)
  BY DEF TasksGone
<1>3. UNCHANGED <<plugin, pcR, pcC, aborted, early>>
  BY DEF SetL
<1> QED BY <1>1, <1>2, <1>3 DEF StopInv, Stopping, TasksGone

LEMMA StopStep ==
    ASSUME TypeOK, CleanerInv, StopInv, [Next]_vars
    PROVE  StopInv'
<1>0. "tcp" \in Endpoints /\ "unix" \in Endpoints
  BY DEF Endpoints
<1>1. ASSUME NEW i \in Runs, Start(i) PROVE StopInv'
  <2>1. plugin'[i] = "running" /\ pcR'[i] = "init"
        /\ \A j \in Runs : j # i => plugin'[j] = plugin[j] /\ pcR'[j] = pcR[j]
    BY <1>1 DEF Start, TypeOK
  <2>2. UNCHANGED <<pcC, pcL, aborted, early>>
    BY <1>1 DEF Start, tasks, hist
  <2> QED BY <2>1, <2>2 DEF StopInv, Stopping, TasksGone
<1>2. ASSUME NEW i \in Runs, Drop(i) PROVE StopInv'
  <2>1. plugin'[i] = "dropped" /\ early'[i] = (pcR[i] \in {"init", "spawned"})
        /\ pcR'[i] = (IF pcR[i] = "wait" THEN "grace" ELSE pcR[i])
    BY <1>2 DEF Drop, TypeOK
  <2>2. pcC'[i] = (IF pcC[i] = "select" THEN "told" ELSE pcC[i])
        /\ \A e \in Endpoints : pcL[i][e] \in {"none", "ended"} => pcL'[i][e] = pcL[i][e]
    BY <1>2 DEF Drop, TypeOK
  <2>3. \A j \in Runs : j # i => /\ plugin'[j] = plugin[j] /\ pcR'[j] = pcR[j]
                                 /\ pcC'[j] = pcC[j] /\ pcL'[j] = pcL[j] /\ early'[j] = early[j]
    BY <1>2 DEF Drop, TypeOK
  <2>4. aborted' = aborted /\ plugin[i] = "running"
    BY <1>2 DEF Drop
  <2>5. pcR[i] \in {"init", "spawned", "wait", "grace", "ended"}
    BY <2>4 DEF TypeOK, StopInv, Stopping
  <2>6. Stopping(i)'
    <3>1. TasksGone(i) => TasksGone(i)'
      BY <2>2 DEF TasksGone
    <3> QED BY <2>1, <2>4, <2>5, <3>1 DEF StopInv, Stopping
  <2>7. ASSUME NEW j \in Runs, j # i PROVE Stopping(j)'
    BY <2>3, <2>4, <2>7 DEF StopInv, Stopping, TasksGone
  <2> QED BY <2>6, <2>7 DEF StopInv
<1>3. ASSUME NEW i \in Runs, RunEnds(i) \/ RunWaits(i) \/ GraceOver(i) PROVE StopInv'
  <2>1. \A j \in Runs : j # i => pcR'[j] = pcR[j] /\ aborted'[j] = aborted[j]
    BY <1>3 DEF RunEnds, RunWaits, GraceOver, TypeOK
  <2>2. \/ pcR[i] = "init" /\ pcR'[i] = "ended" /\ aborted'[i] = aborted[i]
        \/ pcR[i] = "spawned" /\ pcR'[i] = "wait" /\ aborted'[i] = aborted[i]
        \/ pcR[i] = "grace" /\ pcR'[i] = "ended" /\ aborted'[i]
    BY <1>3 DEF RunEnds, RunWaits, GraceOver, TypeOK
  <2>3. UNCHANGED <<plugin, pcC, pcL, early>>
    BY <1>3 DEF RunEnds, RunWaits, GraceOver, tasks, hist
  <2>4. pcR[i] = "init" => TasksGone(i)
    BY DEF CleanerInv, TasksGone
  <2> QED BY <2>1, <2>2, <2>3, <2>4 DEF StopInv, Stopping, TasksGone
<1>4. ASSUME NEW i \in Runs, RunSpawns(i) PROVE StopInv'
  <2>1. pcR[i] = "init" /\ pcR'[i] = "spawned"
        /\ \A j \in Runs : j # i => pcR'[j] = pcR[j] /\ pcC'[j] = pcC[j] /\ pcL'[j] = pcL[j]
    BY <1>4 DEF RunSpawns, TypeOK
  <2>2. UNCHANGED <<plugin, aborted, early>>
    BY <1>4 DEF RunSpawns, hist
  <2> QED BY <2>1, <2>2 DEF StopInv, Stopping, TasksGone
<1>5. ASSUME NEW i \in Runs,
             CleanerStarts(i) \/ CleanerTicks(i) \/ CleanerCleans(i) \/ CleanerStops(i)
                \/ CleanerCancelled(i)
      PROVE  StopInv'
  <2>1. (\A j \in Runs : j # i => pcC'[j] = pcC[j]) /\ UNCHANGED <<plugin, pcR, pcL, aborted, early>>
    BY <1>5 DEF CleanerStarts, CleanerTicks, CleanerCleans, CleanerStops, CleanerCancelled,
                SetC, hist, TypeOK
  <2>2. pcC[i] \notin {"none", "ended"} \/ pcC'[i] = "ended"
    BY <1>5 DEF CleanerStarts, CleanerTicks, CleanerCleans, CleanerStops, CleanerCancelled,
                SetC, TypeOK
  <2> QED BY <2>1, <2>2 DEF StopInv, Stopping, TasksGone
<1>6. ASSUME NEW i \in Runs, BindTcp(i) \/ RemoveFile(i) \/ BindUnix(i) PROVE StopInv'
  BY <1>6, <1>0, SetLStop DEF BindTcp, RemoveFile, BindUnix, Refuse
<1>7. ASSUME NEW i \in Runs, NEW e \in Endpoints,
             Serve(i, e) \/ ListenerStops(i, e) \/ ListenerDrained(i, e)
                \/ ListenerCancelled(i, e)
      PROVE  StopInv'
  BY <1>7, SetLStop DEF Serve, ListenerStops, ListenerDrained, ListenerCancelled
<1>8. CASE UNCHANGED vars
  BY <1>8 DEF StopInv, Stopping, TasksGone, vars, tasks, hist
<1> QED BY <1>1, <1>2, <1>3, <1>4, <1>5, <1>6, <1>7, <1>8, NextSplit

(* A plugin dropped once its run waits is on its way to having no task: its grace      *)
(* period runs, or its tasks are aborted, or there are none.                           *)
THEOREM StopsAreUnderWay == Spec => []StopUnderWay
<1>1. StopInv => StopUnderWay
  BY DEF StopInv, Stopping, StopUnderWay
<1> QED
  BY <1>1, TypeInit, TypeStep, CleanerInit, CleanerStepInv, StopInit, StopStep, PTL DEF Spec

--------------------------------------------------------------------------------
(* Refused addresses *)

(* Runs are started one after the other.  What a run has of the socket file it has     *)
(* bound, a file of an earlier process is gone once somebody has removed it, and only  *)
(* a run that was started is refused anything.                                         *)
Started(i) == plugin[i] # "none"
InOrder == \A i, j \in Runs : i < j /\ Started(j) => plugin[i] = "dropped"
FileInv ==
    /\ \A i \in Runs : i \in file => Started(i)
                                      /\ pcL[i]["unix"] \notin {"none", "spawned", "removed"}
    /\ \A i \in Runs : 0 \in file => pcL[i]["unix"] # "removed"
    /\ \A i \in Runs : refused[i] # {} => Started(i)
RefusedInv == InOrder /\ FileInv /\ RefusedByDropped

LEMMA RefusedInit == Init => RefusedInv
<1> SUFFICES ASSUME Init PROVE RefusedInv
  OBVIOUS
<1>1. \A i \in Runs : plugin[i] = "none" /\ refused[i] = {} /\ pcL[i]["unix"] = "none"
                       /\ i \notin file
  BY RunsPositive DEF Init, Endpoints
<1> QED BY <1>1 DEF RefusedInv, InOrder, FileInv, RefusedByDropped, Started

(* A step of listener e of run i by which the file changes hands in no other way than  *)
(* by its own remove_file and bind.                                                    *)
LEMMA RefusedFrame ==
    ASSUME TypeOK, RefusedInv, UNCHANGED <<plugin, refused>>,
           NEW i \in Runs, NEW e \in Endpoints, NEW l, SetL(i, e, l),
           Started(i), l \notin {"none", "spawned"},
           \/ l # "removed" /\ file' = file
           \/ e = "unix" /\ l # "removed" /\ file' = {i}
           \/ file' = {}
    PROVE  RefusedInv'
<1>0. "unix" \in Endpoints
  BY DEF Endpoints
<1>1. (\A j \in Runs : pcL'[j]["unix"] = pcL[j]["unix"]
                       \/ (j = i /\ pcL'[j]["unix"] = l))
      /\ (e = "unix" => pcL'[i]["unix"] = l)
  BY <1>0 DEF SetL, TypeOK
<1>2. FileInv'
  <2>1. \A j \in Runs : 0 \in file' => pcL'[j]["unix"] # "removed"
    BY <1>1, RunsPositive DEF RefusedInv, FileInv
  <2>2. ASSUME NEW j \in Runs, j \in file'
        PROVE  Started(j)' /\ pcL'[j]["unix"] \notin {"none", "spawned", "removed"}
    BY <1>1, <2>2 DEF RefusedInv, FileInv, Started
  <2> QED BY <2>1, <2>2 DEF RefusedInv, FileInv, Started
<1> QED BY <1>2 DEF RefusedInv, InOrder, RefusedByDropped, Started

(* The address belongs to another run that was started. *)
LEMMA RefuseStep ==
    ASSUME TypeOK, RefusedInv, NEW i \in Runs, NEW e \in Endpoints, NEW j \in Runs,
           Refuse(i, e, j), Started(i), Started(j), i # j
    PROVE  RefusedInv'
<1>0. "unix" \in Endpoints /\ i \in Nat /\ j \in Nat /\ j # 0
  BY RunsPositive DEF Endpoints
<1>1. UNCHANGED <<plugin, file>>
  BY DEF Refuse, SetL, os
<1>2. /\ refused'[i] = refused[i] \cup {[listener |-> e, by |-> j]}
      /\ \A k \in Runs : k # i => refused'[k] = refused[k]
  BY DEF Refuse, TypeOK
<1>3. \A k \in Runs : pcL'[k]["unix"] = pcL[k]["unix"] \/ pcL'[k]["unix"] = "ended"
  BY <1>0 DEF Refuse, SetL, TypeOK
<1>4. plugin[i] = "running" => j \in 1..(i - 1) /\ plugin[j] = "dropped"
  <2>1. CASE i < j
    BY <2>1 DEF RefusedInv, InOrder
  <2>2. CASE j < i
    BY <1>0, <2>2 DEF RefusedInv, InOrder
  <2> QED BY <1>0, <2>1, <2>2
<1>5. RefusedByDropped'
  BY <1>1, <1>2, <1>4 DEF RefusedInv, RefusedByDropped
<1>6. FileInv'
  BY <1>1, <1>2, <1>3 DEF RefusedInv, FileInv, Started
<1> QED BY <1>1, <1>5, <1>6 DEF RefusedInv, InOrder, Started

LEMMA RefusedStep ==
    ASSUME TypeOK, CleanerInv, PortHeldByListener, RefusedInv, [Next]_vars
    PROVE  RefusedInv'
<1>0. "tcp" \in Endpoints /\ "unix" \in Endpoints
  BY DEF Endpoints
<1>a. ASSUME NEW i \in Runs, NEW e \in Endpoints, pcL[i][e] # "none" PROVE Started(i)
  BY <1>a DEF CleanerInv, Started
<1>1. ASSUME NEW i \in Runs, Start(i) PROVE RefusedInv'
  <2>1. plugin[i] = "none" /\ plugin'[i] = "running"
        /\ \A j \in Runs : j # i => plugin'[j] = plugin[j]
    BY <1>1 DEF Start, TypeOK
  <2>2. UNCHANGED <<pcL, file, refused>>
    BY <1>1 DEF Start, tasks, os, hist
  <2>3. InOrder'
    <3> SUFFICES ASSUME NEW k \in Runs, NEW j \in Runs, k < j, Started(j)'
                 PROVE  plugin'[k] = "dropped"
      BY DEF InOrder
    <3>1. CASE j # i
      <4>1. plugin[k] = "dropped"
        BY <2>1, <3>1 DEF RefusedInv, InOrder, Started
      <4> QED BY <2>1, <4>1
    <3>2. CASE j = i
      <4>1. i \in Nat /\ k \in Nat /\ k # 0 /\ i > 1 /\ i - 1 \in Runs
        BY <3>2, RunsPositive DEF Runs
      <4>2. plugin[i - 1] = "dropped"
        BY <1>1, <4>1 DEF Start
      <4>3. plugin[k] = "dropped"
        <5>1. CASE k = i - 1
          BY <4>2, <5>1
        <5>2. CASE k # i - 1
          BY <3>2, <4>1, <4>2, <5>2 DEF RefusedInv, InOrder, Started
        <5> QED BY <5>1, <5>2
      <4> QED BY <2>1, <3>2, <4>1, <4>3
    <3> QED BY <3>1, <3>2
  <2>4. RefusedByDropped'
    <3>1. refused[i] = {}
      BY <2>1 DEF RefusedInv, FileInv, Started
    <3>2. \A j \in Runs : plugin[j] = "dropped" => plugin'[j] = "dropped"
      BY <2>1
    <3>3. ASSUME NEW j \in Runs, plugin'[j] = "running", NEW x \in refused[j]
          PROVE  x.by \in 1..(j - 1) /\ plugin'[x.by] = "dropped"
      <4>1. x.by \in 1..(j - 1) /\ plugin[x.by] = "dropped"
        BY <2>1, <3>1, <3>3 DEF RefusedInv, RefusedByDropped
      <4>2. x.by \in Runs
        BY <4>1, RunsPositive DEF Runs
      <4> QED BY <3>2, <4>1, <4>2
    <3> QED BY <2>2, <3>3 DEF RefusedByDropped
  <2>5. FileInv'
    BY <2>1, <2>2 DEF RefusedInv, FileInv, Started
  <2> QED BY <2>3, <2>4, <2>5 DEF RefusedInv
<1>2. ASSUME NEW i \in Runs, Drop(i) PROVE RefusedInv'
  <2>1. plugin[i] = "running" /\ plugin'[i] = "dropped"
        /\ \A j \in Runs : j # i => plugin'[j] = plugin[j]
    BY <1>2 DEF Drop, TypeOK
  <2>2. UNCHANGED <<file, refused>>
    BY <1>2 DEF Drop, os
  <2>3. \A j \in Runs : pcL'[j]["unix"] = pcL[j]["unix"] \/ pcL'[j]["unix"] = "told"
    BY <1>0, <1>2 DEF Drop, TypeOK
  <2>4. InOrder' /\ FileInv'
    BY <2>1, <2>2, <2>3 DEF RefusedInv, InOrder, FileInv, Started
  <2>5. RefusedByDropped'
    <3>1. ASSUME NEW j \in Runs, plugin'[j] = "running", NEW x \in refused[j]
          PROVE  x.by \in 1..(j - 1) /\ plugin'[x.by] = "dropped"
      <4>1. x.by \in 1..(j - 1) /\ plugin[x.by] = "dropped"
        BY <2>1, <3>1 DEF RefusedInv, RefusedByDropped
      <4>2. x.by \in Runs
        BY <4>1, RunsPositive DEF Runs
      <4> QED BY <2>1, <4>1, <4>2
    <3> QED BY <2>2, <3>1 DEF RefusedByDropped
  <2> QED BY <2>4, <2>5 DEF RefusedInv
<1>3. ASSUME NEW i \in Runs, RunEnds(i) \/ RunWaits(i) \/ GraceOver(i) PROVE RefusedInv'
  BY <1>3 DEF RunEnds, RunWaits, GraceOver, tasks, os, hist, RefusedInv, InOrder, FileInv,
              RefusedByDropped, Started
<1>4. ASSUME NEW i \in Runs, RunSpawns(i) PROVE RefusedInv'
  <2>1. UNCHANGED <<plugin, file, refused>>
    BY <1>4 DEF RunSpawns, os, hist
  <2>2. Started(i) /\ i \notin file
    <3>1. pcR[i] = "init" /\ pcL[i]["unix"] = "none"
      BY <1>0, <1>4 DEF RunSpawns, CleanerInv
    <3> QED BY <3>1 DEF CleanerInv, RefusedInv, FileInv, Started
  <2>3. \A j \in Runs : pcL'[j]["unix"] = pcL[j]["unix"]
                         \/ (j = i /\ pcL'[j]["unix"] \in {"none", "spawned"})
    BY <1>0, <1>4 DEF RunSpawns, TypeOK
  <2> QED BY <2>1, <2>2, <2>3 DEF RefusedInv, InOrder, FileInv, RefusedByDropped, Started
<1>5. ASSUME NEW i \in Runs,
             CleanerStarts(i) \/ CleanerTicks(i) \/ CleanerCleans(i) \/ CleanerStops(i)
                \/ CleanerCancelled(i)
      PROVE  RefusedInv'
  <2>1. UNCHANGED <<plugin, pcL, file, refused>>
    BY <1>5 DEF CleanerStarts, CleanerTicks, CleanerCleans, CleanerStops, CleanerCancelled,
                SetC, os, hist
  <2> QED BY <2>1 DEF RefusedInv, InOrder, FileInv, RefusedByDropped, Started
<1>6. ASSUME NEW i \in Runs, BindTcp(i) PROVE RefusedInv'
  <2>1. Started(i)
    BY <1>0, <1>6, <1>a DEF BindTcp
  <2>2. CASE port' = i /\ SetL(i, "tcp", "bound") /\ UNCHANGED <<file, refused>>
    BY <2>1, <2>2, <1>0, RefusedFrame DEF SetL
  <2>3. CASE port # 0 /\ Refuse(i, "tcp", port)
    <3>1. port \in Runs
      BY <2>3 DEF TypeOK, Runs
    <3>2. port # i /\ pcL[port]["tcp"] # "none"
      BY <1>6, <3>1 DEF BindTcp, PortHeldByListener
    <3>3. Started(port)
      BY <1>0, <1>a, <3>1, <3>2
    <3> QED BY <2>1, <2>3, <3>1, <3>2, <3>3, <1>0, RefuseStep
  <2> QED BY <1>6, <2>2, <2>3 DEF BindTcp
<1>7. ASSUME NEW i \in Runs, RemoveFile(i) PROVE RefusedInv'
  <2>1. Started(i)
    BY <1>0, <1>7, <1>a DEF RemoveFile
  <2>2. SetL(i, "unix", "removed") /\ UNCHANGED <<plugin, refused>> /\ file' = {}
    BY <1>7 DEF RemoveFile, SetL
  <2> QED BY <2>1, <2>2, <1>0, RefusedFrame
<1>8. ASSUME NEW i \in Runs, BindUnix(i) PROVE RefusedInv'
  <2>1. Started(i)
    BY <1>0, <1>8, <1>a DEF BindUnix
  <2>2. CASE file' = {i} /\ SetL(i, "unix", "bound") /\ UNCHANGED <<port, refused>>
    BY <2>1, <2>2, <1>0, RefusedFrame DEF SetL
  <2>3. ASSUME NEW j \in file, Refuse(i, "unix", j) PROVE RefusedInv'
    <3>1. j # 0 /\ j \in 0..MaxStarts
      BY <1>8 DEF BindUnix, RefusedInv, FileInv, TypeOK
    <3>2. j \in Runs
      BY <3>1 DEF Runs
    <3>3. Started(j) /\ j # i
      BY <1>8, <3>2 DEF BindUnix, RefusedInv, FileInv
    <3> QED BY <2>1, <2>3, <3>2, <3>3, <1>0, RefuseStep
  <2> QED BY <1>8, <2>2, <2>3 DEF BindUnix
<1>9. ASSUME NEW i \in Runs, NEW e \in Endpoints,
             Serve(i, e) \/ ListenerStops(i, e) \/ ListenerDrained(i, e)
                \/ ListenerCancelled(i, e)
      PROVE  RefusedInv'
  <2>1. Started(i)
    BY <1>9, <1>a DEF Serve, ListenerStops, ListenerDrained, ListenerCancelled
  <2>2. \E l \in {"serving", "draining", "ended"} : SetL(i, e, l)
    BY <1>9 DEF Serve, ListenerStops, ListenerDrained, ListenerCancelled
  <2>3. UNCHANGED <<plugin, file, refused>>
    BY <1>9 DEF Serve, ListenerStops, ListenerDrained, ListenerCancelled, Close, SetL, os
  <2> QED BY <2>1, <2>2, <2>3, RefusedFrame
<1>10. CASE UNCHANGED vars
  BY <1>10 DEF vars, tasks, os, hist, RefusedInv, InOrder, FileInv, RefusedByDropped, Started
<1> QED BY <1>1, <1>2, <1>3, <1>4, <1>5, <1>6, <1>7, <1>8, <1>9, <1>10, NextSplit

(* However many restarts overlap, a listener of a plugin that nobody has dropped is    *)
(* refused its address only by a run before it that was dropped and is not done: by    *)
(* its TCP listener, or by the socket file that its late UDS task made between this    *)
(* one's remove_file and bind.                                                         *)
THEOREM OnlyDroppedRunsRefuse == Spec => []RefusedByDropped
<1>1. Init => PortHeldByListener
  <2> SUFFICES ASSUME Init, NEW i \in Runs
               PROVE  port # i /\ pcL[i]["tcp"] \notin {"bound", "serving", "told"}
    BY DEF PortHeldByListener
  <2>1. pcL[i]["tcp"] = "none" /\ port = 0
    BY DEF Init, Endpoints
  <2> QED BY <2>1, RunsPositive
<1>2. RefusedInv => RefusedByDropped
  BY DEF RefusedInv
<1> QED BY <1>1, <1>2, TypeInit, TypeStep, CleanerInit, CleanerStepInv, PortStep, RefusedInit,
           RefusedStep, PTL DEF Spec
================================================================================
