------------------------------- MODULE PluginRun -------------------------------
(***************************************************************************)
(* Starting, stopping and restarting the plugin in one zenoh process       *)
(* (zenoh-plugin-grpc/src/lib.rs, start, run and RunningPlugin::drop;      *)
(* config.rs, listeners).  `run` spawns the lease cleaner and one task per *)
(* listener, waits to be stopped, waits again for the grace period and     *)
(* aborts the tasks.  Stopping is one Notify::notify_waiters: it reaches   *)
(* the tasks that are at notified() at that moment and no others.          *)
(*                                                                         *)
(* Only one process uses the addresses here, and all its runs the same     *)
(* ones.  The tasks of a run may still be at work when the next one        *)
(* starts.  External, modelled by how the code uses them: Notify, select!, *)
(* interval, abort, the listening sockets and the socket file, tonic's     *)
(* serve_with_incoming_shutdown.                                           *)
(***************************************************************************)
EXTENDS Naturals

CONSTANTS MaxStarts,     \* bound: times the plugin is started
          Configs        \* the configurations that each start may be given

Runs == 1..MaxStarts
Endpoints == {"tcp", "unix"}

\* Config: the fields that decide what runs.  `zero` is a client_cleanup_interval of 0.
Config == [listen : {"none", "tcp", "unix", "other"}, uds_path : BOOLEAN, zero : BOOLEAN]
ASSUME ConfigsOk == MaxStarts \in Nat /\ Configs \in [Runs -> SUBSET Config]

VARIABLES
    plugin,   \* the RunningPlugin of each start: "none", "running" or "dropped"
    config,   \* the configuration of each start
    pcR,      \* run
    serves,   \* run's listeners
    pcC,      \* run's cleaner task
    pcL,      \* run's listener tasks
    aborted,  \* run has aborted its tasks
    port,     \* the run that listens on the TCP address, or 0
    file,     \* the socket file at the UDS path, if any: {i} for the one that run i
              \* made, {0} for one that an earlier process left
    early,    \* history: the plugin was dropped before run waited to be stopped
    refused   \* history: the listeners whose bind failed, each with the run that had
              \* the address

tasks == <<pcC, pcL>>
os == <<port, file>>
hist == <<early, refused>>
vars == <<plugin, config, pcR, serves, tasks, aborted, os, hist>>

Init ==
    /\ plugin = [i \in Runs |-> "none"]
    /\ config = [i \in Runs |-> [listen |-> "none", uds_path |-> TRUE, zero |-> FALSE]]
    /\ pcR = [i \in Runs |-> "none"] /\ serves = [i \in Runs |-> {}]
    /\ pcC = [i \in Runs |-> "none"]
    /\ pcL = [i \in Runs |-> [e \in Endpoints |-> "none"]]
    /\ aborted = [i \in Runs |-> FALSE]
    /\ port = 0 /\ file \in {{}, {0}} /\ early = [i \in Runs |-> FALSE]
    /\ refused = [i \in Runs |-> {}]

--------------------------------------------------------------------------------
(* Configuration *)

\* Config::listeners; {} stands for its error.
Listeners_Unchecked(c) ==
    IF c.listen # "none" THEN {c.listen}
    ELSE IF c.uds_path THEN {"tcp", "unix"} ELSE {"tcp"}
Listeners(c) ==
    IF c.listen = "none" THEN IF c.uds_path THEN {"tcp", "unix"} ELSE {"tcp"}
    ELSE {c.listen} \cap Endpoints

--------------------------------------------------------------------------------
(* Starting and stopping *)

\* GrpcPlugin::start, after the plugin before it was dropped.  A missing or wrong
\* configuration makes it fail and starts nothing.
Start(i) ==
    /\ plugin[i] = "none" /\ (i > 1 => plugin[i - 1] = "dropped")
    /\ plugin' = [plugin EXCEPT ![i] = "running"]
    /\ \E c \in Configs[i] : config' = [config EXCEPT ![i] = c]
    /\ pcR' = [pcR EXCEPT ![i] = "init"]
    /\ UNCHANGED <<serves, tasks, aborted, os, hist>>

\* RunningPlugin::drop: notify_waiters.
Drop(i) ==
    /\ plugin[i] = "running"
    /\ plugin' = [plugin EXCEPT ![i] = "dropped"]
    /\ pcR' = IF pcR[i] = "wait" THEN [pcR EXCEPT ![i] = "grace"] ELSE pcR
    /\ early' = [early EXCEPT ![i] = pcR[i] \in {"init", "spawned"}]
    /\ pcC' = IF pcC[i] = "select" THEN [pcC EXCEPT ![i] = "told"] ELSE pcC
    /\ pcL' = [pcL EXCEPT ![i] = [e \in Endpoints |->
                  IF pcL[i][e] = "serving" THEN "told" ELSE pcL[i][e]]]
    /\ UNCHANGED <<config, serves, aborted, os, refused>>

--------------------------------------------------------------------------------
(* run *)

\* The session cannot be initialised, or the listeners are wrong: run ends, and the
\* RunningPlugin stays.
RunEnds(i) ==
    /\ pcR[i] = "init"
    /\ pcR' = [pcR EXCEPT ![i] = "ended"]
    /\ UNCHANGED <<plugin, config, serves, tasks, aborted, os, hist>>

RunSpawns(i) ==
    /\ pcR[i] = "init" /\ Listeners(config[i]) # {}
    /\ pcR' = [pcR EXCEPT ![i] = "spawned"]
    /\ serves' = [serves EXCEPT ![i] = Listeners(config[i])]
    /\ pcC' = [pcC EXCEPT ![i] = "spawned"]
    /\ pcL' = [pcL EXCEPT ![i] = [e \in Endpoints |->
                  IF e \in Listeners(config[i]) THEN "spawned" ELSE "none"]]
    /\ UNCHANGED <<plugin, config, aborted, os, hist>>

RunWaits(i) ==
    /\ pcR[i] = "spawned"
    /\ pcR' = [pcR EXCEPT ![i] = "wait"]
    /\ UNCHANGED <<plugin, config, serves, tasks, aborted, os, hist>>

\* shutdown_grace_period is over.
GraceOver_NoAbort(i) ==
    /\ pcR[i] = "grace"
    /\ pcR' = [pcR EXCEPT ![i] = "ended"]
    /\ UNCHANGED <<plugin, config, serves, tasks, aborted, os, hist>>
GraceOver(i) ==
    /\ pcR[i] = "grace"
    /\ pcR' = [pcR EXCEPT ![i] = "ended"] /\ aborted' = [aborted EXCEPT ![i] = TRUE]
    /\ UNCHANGED <<plugin, config, serves, tasks, os, hist>>

--------------------------------------------------------------------------------
(* The cleaner *)

SetC(i, label) ==
    /\ pcC' = [pcC EXCEPT ![i] = label]
    /\ UNCHANGED <<plugin, config, pcR, serves, pcL, aborted, os, hist>>

\* tokio's interval panics on a period of zero: the task ends.
CleanerStarts(i) ==
    pcC[i] = "spawned" /\ SetC(i, IF config[i].zero THEN "ended" ELSE "select")

\* A tick is taken, also by a select! that the stop has reached as well: it picks
\* one of the two that are ready.
CleanerTicks(i) == pcC[i] \in {"select", "told"} /\ SetC(i, "clean")

\* The stale clients are cleaned up; nobody is at notified() meanwhile.
CleanerCleans_Once(i) == pcC[i] = "clean" /\ SetC(i, "ended")
CleanerCleans(i) == pcC[i] = "clean" /\ SetC(i, "select")

CleanerStops(i) == pcC[i] = "told" /\ SetC(i, "ended")

CleanerCancelled(i) == aborted[i] /\ pcC[i] # "ended" /\ SetC(i, "ended")

--------------------------------------------------------------------------------
(* The listeners *)

SetL(i, e, label) ==
    /\ pcL' = [pcL EXCEPT ![i][e] = label]
    /\ UNCHANGED <<plugin, config, pcR, serves, pcC, aborted, early>>

\* bind fails, as the address belongs to run j: expect panics and the task ends.
Refuse(i, e, j) ==
    /\ SetL(i, e, "ended")
    /\ refused' = [refused EXCEPT ![i] = @ \cup {[listener |-> e, by |-> j]}]
    /\ UNCHANGED os

\* TcpListener::bind
BindTcp(i) ==
    /\ pcL[i]["tcp"] = "spawned"
    /\ \/ port = 0 /\ port' = i /\ SetL(i, "tcp", "bound") /\ UNCHANGED <<file, refused>>
       \/ port # 0 /\ Refuse(i, "tcp", port)

\* remove_file, whosever file it is and whether there is one or not, ...
RemoveFile_Not(i) ==
    /\ pcL[i]["unix"] = "spawned" /\ SetL(i, "unix", "removed")
    /\ UNCHANGED <<os, refused>>
RemoveFile(i) ==
    /\ pcL[i]["unix"] = "spawned" /\ SetL(i, "unix", "removed")
    /\ file' = {} /\ UNCHANGED <<port, refused>>

\* ... and UnixListener::bind, which makes the file and fails if there is one.
BindUnix(i) ==
    /\ pcL[i]["unix"] = "removed"
    /\ \/ file = {} /\ file' = {i} /\ SetL(i, "unix", "bound") /\ UNCHANGED <<port, refused>>
       \/ \E j \in file : Refuse(i, "unix", j)

\* The server is polled: it accepts, and its shutdown future is at notified().
Serve(i, e) == pcL[i][e] = "bound" /\ SetL(i, e, "serving") /\ UNCHANGED <<os, refused>>

\* A listening socket is closed; the socket file stays.
Close(i, e) ==
    /\ port' = IF e = "tcp" /\ port = i THEN 0 ELSE port
    /\ UNCHANGED <<file, refused>>

\* The shutdown future is done: no more connections, and the open ones may end.
ListenerStops(i, e) == pcL[i][e] = "told" /\ SetL(i, e, "draining") /\ Close(i, e)
ListenerDrained(i, e) ==
    pcL[i][e] = "draining" /\ SetL(i, e, "ended") /\ UNCHANGED <<os, refused>>

\* abort takes effect at an await, and the UDS task has none before it serves.
ListenerCancelled(i, e) ==
    /\ aborted[i] /\ pcL[i][e] \notin {"none", "ended", "removed"}
    /\ ~(e = "unix" /\ pcL[i][e] = "bound")
    /\ SetL(i, e, "ended") /\ Close(i, e)

--------------------------------------------------------------------------------
CleanerStep(i) ==
    \/ CleanerStarts(i) \/ CleanerTicks(i) \/ CleanerCleans(i) \/ CleanerStops(i)
    \/ CleanerCancelled(i)

ListenerRuns(i, e) == Serve(i, e) \/ ListenerStops(i, e) \/ ListenerCancelled(i, e)

Next ==
    \E i \in Runs :
        \/ Start(i) \/ Drop(i) \/ RunEnds(i) \/ RunSpawns(i) \/ RunWaits(i) \/ GraceOver(i)
        \/ CleanerStep(i) \/ BindTcp(i) \/ RemoveFile(i) \/ BindUnix(i)
        \/ \E e \in Endpoints : ListenerRuns(i, e) \/ ListenerDrained(i, e)

Spec == Init /\ [][Next]_vars

\* Tasks that can run do, and the grace period passes.  Nothing says when the
\* connections of a stopped listener close or how often the ticker fires.
FairSpec ==
    /\ Spec
    /\ \A i \in Runs :
          /\ WF_vars(RunWaits(i) \/ GraceOver(i))
          /\ WF_vars(CleanerStarts(i) \/ CleanerCleans(i)) /\ WF_vars(CleanerCancelled(i))
          /\ WF_vars(BindTcp(i) \/ ListenerRuns(i, "tcp"))
          /\ WF_vars(RemoveFile(i) \/ BindUnix(i) \/ ListenerRuns(i, "unix"))

--------------------------------------------------------------------------------
(* Properties *)

TypeOK ==
    /\ plugin \in [Runs -> {"none", "running", "dropped"}] /\ config \in [Runs -> Config]
    /\ pcR \in [Runs -> {"none", "init", "spawned", "wait", "grace", "ended"}]
    /\ serves \in [Runs -> SUBSET Endpoints]
    /\ pcC \in [Runs -> {"none", "spawned", "select", "told", "clean", "ended"}]
    /\ pcL \in [Runs -> [Endpoints -> {"none", "spawned", "removed", "bound", "serving",
                                       "told", "draining", "ended"}]]
    /\ aborted \in [Runs -> BOOLEAN] /\ early \in [Runs -> BOOLEAN]
    /\ port \in 0..MaxStarts /\ file \subseteq 0..MaxStarts
    /\ refused \in [Runs -> SUBSET [listener : Endpoints, by : 0..MaxStarts]]

TasksGone(i) ==
    pcC[i] \in {"none", "ended"} /\ \A e \in Endpoints : pcL[i][e] \in {"none", "ended"}

\* A plugin that is dropped once its run waits takes all its tasks with it, also a
\* cleaner or a listener that the notification missed and a listener whose
\* connections stay open.
StopStopsAll ==
    \A i \in Runs : (plugin[i] = "dropped" /\ ~early[i]) ~> TasksGone(i)

\* While a plugin that nobody has dropped serves, its cleaner is there to reclaim what
\* dead clients leave, unless the cleanup interval is zero.
CleanerWhileServing ==
    \A i \in Runs :
        ((\E e \in Endpoints : pcL[i][e] = "serving") /\ plugin[i] = "running"
            /\ ~config[i].zero)
        => pcC[i] \in {"spawned", "select", "clean"}

\* The listeners of run i that a run before it kept from its address: it still held
\* the TCP port, or its late UDS task made the socket file between this run's
\* remove_file and bind.
KeptOut(i) == {r.listener : r \in {x \in refused[i] : x.by \in 1..(i - 1)}}

\* Every configured listener comes to serve, unless the plugin is dropped first or a
\* run before it is in the way; a file left by an earlier process is not.  A
\* listener that was refused its address is not tried again.
ListenersServe ==
    \A i \in Runs : \A e \in Endpoints :
        (e \in serves[i]) ~>
            pcL[i][e] = "serving" \/ plugin[i] = "dropped" \/ e \in KeptOut(i)

\* What keeps a listener of a plugin that nobody has dropped from its address is a run
\* started before it, and one that has been dropped: never a later one, its own
\* listener or a file left by an earlier process.
RefusedByDropped ==
    \A i \in Runs : plugin[i] = "running" =>
        \A r \in refused[i] : r.by \in 1..(i - 1) /\ plugin[r.by] = "dropped"

\* The port belongs to the run whose TCP listener is open, and to no other: it is
\* neither kept by a run whose listener is gone, after a stop, an abort or a failed
\* bind, nor taken from a run that is still serving.
PortHeldByListener ==
    \A i \in Runs : port = i <=> pcL[i]["tcp"] \in {"bound", "serving", "told"}

\* What a stop sets going goes on to its end: a plugin that is dropped once its run
\* waits has no task left, or its grace period runs, or it has aborted its tasks.
StopUnderWay ==
    \A i \in Runs :
        plugin[i] = "dropped" /\ ~early[i] => TasksGone(i) \/ pcR[i] = "grace" \/ aborted[i]

\* Refuted by the code, and stated here to be tried: a drop that comes before run
\* waits is forgotten, and the plugin serves on.
DropStopsAll == \A i \in Runs : plugin[i] = "dropped" ~> TasksGone(i)

\* Refuted as well: a plugin that nobody has dropped keeps the socket file that its
\* clients connect by.  A late UDS task of the run before it removes the file.
SocketStays ==
    \A i \in Runs : (pcL[i]["unix"] = "serving" /\ plugin[i] = "running") => i \in file
================================================================================
