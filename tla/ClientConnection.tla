---------------------------- MODULE ClientConnection ----------------------------
(***************************************************************************)
(* The connection of a Rust client session (GrpcSession in                 *)
(* zenoh-grpc-client-rs/src/lib.rs): the channel slot with its generation, *)
(* the worker that reconnects, and the tasks that make calls and report    *)
(* the channel dead.  The server may stop and come back at any time.       *)
(*                                                                         *)
(* A step is one lock acquisition, one atomic access, one notify_waiters   *)
(* call, one registration with the Notify, or one remote call's result.    *)
(***************************************************************************)
EXTENDS Naturals, FiniteSets

CONSTANTS Workers,      \* the session worker, which sends what put and delete queue
          Infos,        \* tasks that call info, which wait for a connection as well
          Getters,      \* tasks that call get
          Heartbeat,    \* the heartbeat worker
          Closer,       \* the task that calls cleanup
          Capacity,     \* SEND_QUEUE_CAPACITY
          MaxCommands,  \* bound: commands given to each worker
          MaxStops      \* bound: times the server stops

ASSUME RolesApart ==
    /\ Workers \cap Getters = {} /\ Workers \cap Infos = {} /\ Infos \cap Getters = {}
    /\ {Heartbeat, Closer} \cap (Workers \cup Infos \cup Getters) = {}
    /\ Heartbeat # Closer
ASSUME BoundsNat ==
    MaxCommands \in Nat /\ MaxStops \in Nat /\ Capacity \in Nat \ {0}

\* The tasks that wait for a connection and try again when a call is interrupted.
Waiters == Workers \cup Infos
Callers == Waiters \cup Getters \cup {Heartbeat, Closer}

VARIABLES
    up,         \* external: the server answers
    stops,      \* how often it has stopped
    channel,    \* ConnectionState.channel is Some
    generation, \* ConnectionState.generation
    warned,     \* warning_issued
    closed,     \* closed
    pcR,        \* where the reconnect worker stands
    pc,         \* where each caller stands
    gen,        \* the generation of the channel each caller is using, or 0
    hit,        \* callers whose call the server's stop interrupted
    backlog,    \* commands queued for each worker
    pushed,     \* history: commands ever queued for each worker
    acked,      \* history: commands of each worker that the server answered
    evicted,    \* history: commands that newer ones displaced from the full queue
    failed,     \* history: a call over the current channel met a disconnection
    warnings,   \* history: warnings printed since the channel was last set
    missed      \* history: a notification found the reconnect worker at "gap"
                \* since it last looked at the channel

connVars == <<channel, generation, warned, closed>>
histVars == <<pushed, acked, evicted, failed, warnings, missed>>
vars == <<up, stops, connVars, pcR, pc, gen, hit, backlog, histVars>>

\* connect() has tried once, for as long as its timeout; the workers start.
Init ==
    /\ up \in BOOLEAN /\ stops = 0
    /\ channel \in {FALSE, up} /\ generation = (IF channel THEN 1 ELSE 0)
    /\ warned = FALSE /\ closed = FALSE
    /\ pcR = "check" /\ pc = [c \in Callers |-> "idle"]
    /\ gen = [c \in Callers |-> 0] /\ hit = {}
    /\ backlog = [w \in Workers |-> 0]
    /\ pushed = backlog /\ acked = backlog /\ evicted = backlog
    /\ failed = FALSE /\ warnings = 0 /\ missed = FALSE

\* External: the server stops, which interrupts the calls in progress, or starts.
ServerStops ==
    /\ up /\ stops < MaxStops
    /\ up' = FALSE /\ stops' = stops + 1
    /\ hit' = {c \in Callers : pc[c] \in {"call", "stream"}}
    /\ UNCHANGED <<connVars, pcR, pc, gen, backlog, histVars>>

ServerStarts ==
    /\ \neg up /\ up' = TRUE
    /\ UNCHANGED <<stops, connVars, pcR, pc, gen, hit, backlog, histVars>>

\* connection_notify.notify_waiters(): the tasks registered now go round their
\* loop, and caller c, if it is the one notifying, moves to l.
notify_waiters(c, l) ==
    /\ pc' = [d \in Callers |-> IF d = c THEN l
                                ELSE IF pc[d] = "asleep" THEN "check" ELSE pc[d]]
    /\ missed' = (missed \/ pcR = "gap")

--------------------------------------------------------------------------------
(* The reconnect worker *)

ReconnectCheck ==
    /\ pcR = "check"
    /\ pcR' = IF closed THEN "ended" ELSE "look"
    /\ UNCHANGED <<up, stops, connVars, pc, gen, hit, backlog, histVars>>

\* current_connection().await.is_some()
ReconnectLook ==
    /\ pcR = "look"
    /\ pcR' = IF channel THEN "gap" ELSE "connect"
    /\ missed' = FALSE
    /\ UNCHANGED <<up, stops, connVars, pc, gen, hit, backlog, pushed, acked, evicted,
                   failed, warnings>>

\* connection_notify.notified(): only from here on is the worker told.
ReconnectRegister ==
    /\ pcR = "gap" /\ pcR' = "asleep"
    /\ UNCHANGED <<up, stops, connVars, pc, gen, hit, backlog, histVars>>

ConnectOk ==
    /\ pcR = "connect" /\ up /\ pcR' = "swap"
    /\ UNCHANGED <<up, stops, connVars, pc, gen, hit, backlog, histVars>>

\* connect_channel fails: warn_disconnected_once.
ConnectFails ==
    /\ pcR = "connect" /\ \neg up /\ pcR' = "backoff"
    /\ warned' = TRUE
    /\ warnings' = IF warned THEN warnings ELSE warnings + 1
    /\ UNCHANGED <<up, stops, channel, generation, closed, pc, gen, hit, backlog, pushed,
                   acked, evicted, failed, missed>>

\* The delay passes, or a notification cuts it short.
Backoff_GivesUp ==
    /\ pcR = "backoff" /\ pcR' = "ended"
    /\ UNCHANGED <<up, stops, connVars, pc, gen, hit, backlog, histVars>>
Backoff ==
    /\ pcR = "backoff" /\ pcR' = "check"
    /\ UNCHANGED <<up, stops, connVars, pc, gen, hit, backlog, histVars>>

\* set_connected: warning_issued.swap(false), ...
SetConnectedSwap ==
    /\ pcR = "swap" /\ pcR' = "set"
    /\ warned' = FALSE
    /\ UNCHANGED <<up, stops, channel, generation, closed, pc, gen, hit, backlog, histVars>>

\* ... the new channel under the lock, ...
SetConnected ==
    /\ pcR = "set" /\ pcR' = "announce"
    /\ channel' = TRUE /\ generation' = generation + 1 /\ warnings' = 0 /\ failed' = FALSE
    /\ UNCHANGED <<up, stops, warned, closed, pc, gen, hit, backlog, pushed, acked, evicted,
                   missed>>

\* ... and the notification.
SetConnectedAnnounce ==
    /\ pcR = "announce" /\ pcR' = "check"
    /\ notify_waiters(Closer, pc[Closer])
    /\ UNCHANGED <<up, stops, connVars, gen, hit, backlog, pushed, acked, evicted,
                   failed, warnings>>

ReconnectStep ==
    \/ ReconnectCheck \/ ReconnectLook \/ ReconnectRegister \/ ConnectOk \/ ConnectFails
    \/ Backoff \/ SetConnectedSwap \/ SetConnected \/ SetConnectedAnnounce

--------------------------------------------------------------------------------
(* The callers *)

Step(c, from, to) == pc[c] = from /\ pc' = [pc EXCEPT ![c] = to]

\* put and delete queue a command, closed or not; a full queue makes room for it
\* by dropping its oldest one (DropOldestQueue has the steps).
PushCommand(w) ==
    /\ pushed[w] < MaxCommands
    /\ pushed' = [pushed EXCEPT ![w] = @ + 1]
    /\ IF backlog[w] < Capacity
       THEN backlog' = [backlog EXCEPT ![w] = @ + 1] /\ UNCHANGED evicted
       ELSE evicted' = [evicted EXCEPT ![w] = @ + 1] /\ UNCHANGED backlog
    /\ UNCHANGED <<up, stops, connVars, pcR, pc, gen, hit, acked, failed, warnings, missed>>

\* A worker takes a command, the heartbeat ticks, or an application calls info, get
\* or cleanup.  get does not look at `closed`.
Begin(c) ==
    /\ Step(c, "idle", CASE c \in Getters -> "look" [] c = Closer -> "close"
                         [] OTHER -> "check")
    /\ c \in Workers => backlog[c] > 0
    /\ backlog' = [w \in Workers |-> IF w = c THEN backlog[w] - 1 ELSE backlog[w]]
    /\ UNCHANGED <<up, stops, connVars, pcR, gen, hit, histVars>>

\* is_closed(): a worker discards its command, info fails, the heartbeat ends.
CheckClosed(c) ==
    /\ Step(c, "check", IF \neg closed THEN "look"
                        ELSE IF c = Heartbeat THEN "ended" ELSE "idle")
    /\ UNCHANGED <<up, stops, connVars, pcR, gen, hit, backlog, histVars>>

\* current_connection(): without one, worker and info wait, get warns, the heartbeat
\* skips this tick and cleanup is done.
Look(c) ==
    /\ Step(c, "look", CASE channel -> "call" [] \neg channel /\ c \in Waiters -> "gap"
                         [] \neg channel /\ c \in Getters -> "warn_only"
                         [] \neg channel /\ c = Closer -> "ended"
                         [] OTHER -> "idle")
    /\ gen' = [gen EXCEPT ![c] = IF channel THEN generation ELSE 0]
    /\ UNCHANGED <<up, stops, connVars, pcR, hit, backlog, histVars>>

Register(c) ==
    /\ Step(c, "gap", "asleep")
    /\ UNCHANGED <<up, stops, connVars, pcR, gen, hit, backlog, histVars>>

\* Where a caller goes after a call that is over, or failed and was reported.
AfterCall(c) == CASE c = Closer -> "ended" [] OTHER -> "idle"
AfterDisconnect(c) == IF c \in Waiters THEN "check" ELSE AfterCall(c)

\* The server answers, with a result or a status that is not a disconnection;
\* get goes on with the reply stream.  A channel reconnects by itself, so a call
\* not yet sent when the server stopped may be answered after it is back.
CallAnswered(c) ==
    /\ up /\ hit' = hit \ {c}
    /\ Step(c, "call", IF c \in Getters THEN "stream" ELSE AfterCall(c))
    /\ acked' = [w \in Workers |-> IF w = c THEN acked[w] + 1 ELSE acked[w]]
    /\ gen' = [gen EXCEPT ![c] = IF c \in Getters THEN @ ELSE 0]
    /\ UNCHANGED <<up, stops, connVars, pcR, backlog, pushed, evicted, failed, warnings,
                   missed>>

StreamEnds(c) ==
    /\ up /\ c \notin hit
    /\ Step(c, "stream", "idle")
    /\ gen' = [gen EXCEPT ![c] = 0]
    /\ UNCHANGED <<up, stops, connVars, pcR, hit, backlog, histVars>>

\* is_disconnect_status
CallDisconnected_Drops(c) ==
    /\ \neg up \/ c \in hit
    /\ pc[c] \in {"call", "stream"}
    /\ pc' = [pc EXCEPT ![c] = IF c \in Workers THEN "idle" ELSE "clear"]
    /\ hit' = hit \ {c} /\ failed' = (failed \/ gen[c] = generation)
    /\ UNCHANGED <<up, stops, connVars, pcR, gen, backlog, pushed, acked, evicted,
                   warnings, missed>>
CallDisconnected(c) ==
    /\ \neg up \/ c \in hit
    /\ pc[c] \in {"call", "stream"}
    /\ pc' = [pc EXCEPT ![c] = "clear"]
    /\ hit' = hit \ {c} /\ failed' = (failed \/ gen[c] = generation)
    /\ UNCHANGED <<up, stops, connVars, pcR, gen, backlog, pushed, acked, evicted,
                   warnings, missed>>

\* mark_disconnected: under the lock, only the generation that failed is cleared.
MarkDisconnected_AnyGeneration(c) ==
    /\ Step(c, "clear", IF channel THEN "warn" ELSE AfterDisconnect(c))
    /\ channel' = FALSE /\ gen' = [gen EXCEPT ![c] = 0]
    /\ UNCHANGED <<up, stops, generation, warned, closed, pcR, hit, backlog, histVars>>
MarkDisconnected(c) ==
    LET mine == generation = gen[c] /\ channel
    IN  /\ Step(c, "clear", IF mine THEN "warn" ELSE AfterDisconnect(c))
        /\ channel' = (channel /\ \neg mine) /\ gen' = [gen EXCEPT ![c] = 0]
        /\ UNCHANGED <<up, stops, generation, warned, closed, pcR, hit, backlog, histVars>>

\* warn_disconnected_once, by mark_disconnected or by a get that found no channel.
Warn_Always(c) ==
    /\ pc[c] \in {"warn", "warn_only"}
    /\ pc' = [pc EXCEPT ![c] = IF pc[c] = "warn" THEN "announce" ELSE "idle"]
    /\ warned' = TRUE /\ warnings' = warnings + 1
    /\ UNCHANGED <<up, stops, channel, generation, closed, pcR, gen, hit, backlog, pushed,
                   acked, evicted, failed, missed>>
Warn(c) ==
    /\ pc[c] \in {"warn", "warn_only"}
    /\ pc' = [pc EXCEPT ![c] = IF pc[c] = "warn" THEN "announce" ELSE "idle"]
    /\ warned' = TRUE
    /\ warnings' = IF warned THEN warnings ELSE warnings + 1
    /\ UNCHANGED <<up, stops, channel, generation, closed, pcR, gen, hit, backlog, pushed,
                   acked, evicted, failed, missed>>

MarkDisconnectedAnnounce_Silent(c) ==
    /\ Step(c, "announce", AfterDisconnect(c))
    /\ UNCHANGED <<up, stops, connVars, pcR, gen, hit, backlog, histVars>>
MarkDisconnectedAnnounce(c) ==
    /\ pc[c] = "announce"
    /\ notify_waiters(c, AfterDisconnect(c))
    /\ pcR' = IF pcR = "asleep" THEN "check" ELSE pcR
    /\ UNCHANGED <<up, stops, connVars, gen, hit, backlog, pushed, acked, evicted,
                   failed, warnings>>

CallerStep(c) ==
    \/ CheckClosed(c) \/ Look(c) \/ Register(c) \/ CallAnswered(c) \/ StreamEnds(c)
    \/ CallDisconnected(c) \/ MarkDisconnected(c) \/ Warn(c) \/ MarkDisconnectedAnnounce(c)

--------------------------------------------------------------------------------
(* cleanup *)

Close ==
    /\ Step(Closer, "close", "announce_close")
    /\ closed' = TRUE
    /\ UNCHANGED <<up, stops, channel, generation, warned, pcR, gen, hit, backlog, histVars>>

CloseAnnounce ==
    /\ pc[Closer] = "announce_close"
    /\ notify_waiters(Closer, "flush")
    /\ pcR' = IF pcR = "asleep" THEN "check" ELSE pcR
    /\ UNCHANGED <<up, stops, connVars, gen, hit, backlog, pushed, acked, evicted,
                   failed, warnings>>

\* write_tx.wait_empty(), which no info call delays, then the call itself.
CloseFlushed ==
    /\ \A w \in Workers : backlog[w] = 0 /\ pc[w] = "idle"
    /\ Step(Closer, "flush", "look")
    /\ UNCHANGED <<up, stops, connVars, pcR, gen, hit, backlog, histVars>>

CloseStep == Close \/ CloseAnnounce \/ CloseFlushed

Next ==
    \/ ServerStops \/ ServerStarts
    \/ ReconnectStep
    \/ \E w \in Workers : PushCommand(w)
    \/ \E c \in Callers : Begin(c) \/ CallerStep(c)
    \/ CloseStep

Spec == Init /\ [][Next]_vars

\* The runtime runs its tasks, a stopped server comes back, and the heartbeat
\* ticks; no application is obliged to call anything.
Fairness ==
    /\ WF_vars(ServerStarts) /\ WF_vars(ReconnectStep) /\ WF_vars(CloseStep)
    /\ \A c \in Callers : WF_vars(CallerStep(c))
    /\ \A c \in Workers \cup {Heartbeat} : WF_vars(Begin(c))

FairSpec == Spec /\ Fairness

--------------------------------------------------------------------------------
(* Properties *)

\* Every task stands at one of its labels, and no worker has taken more commands
\* than were queued.
TypeOK ==
    /\ up \in BOOLEAN /\ stops \in 0..MaxStops
    /\ channel \in BOOLEAN /\ generation \in Nat
    /\ warned \in BOOLEAN /\ closed \in BOOLEAN
    /\ pcR \in {"check", "look", "gap", "asleep", "connect", "backoff", "swap", "set",
                "announce", "ended"}
    /\ pc \in [Callers -> {"idle", "check", "look", "gap", "asleep", "call", "stream",
                           "clear", "warn", "warn_only", "announce", "close",
                           "announce_close", "flush", "ended"}]
    /\ gen \in [Callers -> Nat] /\ hit \subseteq Callers
    /\ backlog \in [Workers -> 0..Capacity]
    /\ pushed \in [Workers -> Nat] /\ acked \in [Workers -> Nat]
    /\ evicted \in [Workers -> Nat]
    /\ failed \in BOOLEAN /\ warnings \in Nat /\ missed \in BOOLEAN

(***************************************************************************)
(* A task may report a failure long after the session has reconnected.     *)
(* mark_disconnected tears a channel down only if a call over that very    *)
(* channel failed, never a newer one for an older one's failure.           *)
(***************************************************************************)
LateFailureHarmless == [][channel /\ \neg channel' => failed]_vars

(***************************************************************************)
(* Until the session is closed no command is skipped but by the drop-oldest*)
(* rule: one that met a disconnection is retried by the same worker until  *)
(* the server answers, and the queue drops no more commands than came on   *)
(* top of its capacity, however long the server is away.                   *)
(***************************************************************************)
NothingSkipped ==
    \A w \in Workers :
        /\ \neg closed => pushed[w] = backlog[w] + acked[w] + evicted[w]
                                       + (IF pc[w] = "idle" THEN 0 ELSE 1)
        /\ evicted[w] # 0 => pushed[w] >= Capacity + evicted[w]

(***************************************************************************)
(* The reconnect worker sleeps over a dead channel only if the notification*)
(* fell between its look at the channel and its registration: whoever      *)
(* clears the channel otherwise wakes it.                                  *)
(***************************************************************************)
OnlyGapLosesWakeups ==
    pcR = "asleep" /\ \neg channel =>
        missed \/ \E c \in Callers : pc[c] \in {"warn", "announce"}

(***************************************************************************)
(* Once the worker has found the channel gone it tries until the server is *)
(* back, through any number of failed attempts.                            *)
(***************************************************************************)
KeepsTrying == pcR = "connect" ~> (channel \/ closed)

(***************************************************************************)
(* README: a disconnected client "keeps retrying automatically": it is     *)
(* connected again once the server is back.                                *)
(***************************************************************************)
Reconnects == \neg channel ~> (channel \/ closed)

(***************************************************************************)
(* README: "During a disconnected period the client prints one yellow      *)
(* warning to stderr".                                                     *)
(***************************************************************************)
OneWarning == warnings <= 1

(***************************************************************************)
(* It prints one, with one exception: set_connected clears the warning     *)
(* flag before it sets the channel, and a task that warns in between       *)
(* prints a second one.                                                    *)
(***************************************************************************)
OneWarningUnlessConnecting == warnings <= IF pcR = "set" THEN 2 ELSE 1

(***************************************************************************)
(* A new channel takes the place of no other: whatever the tasks report    *)
(* while the worker connects, the generation changes by one, and only when *)
(* there is no channel.                                                    *)
(***************************************************************************)
ReplacesNoChannel ==
    [][generation' # generation =>
         \neg channel /\ channel' /\ generation' = generation + 1]_vars

(***************************************************************************)
(* README: operations queued offline go out when the client has reconnected*)
(* "in the background": a task does not wait for a connection while        *)
(* there is one.                                                           *)
(***************************************************************************)
WaitersSeeConnection ==
    \A w \in Waiters :
        (pc[w] = "asleep" /\ channel /\ \neg closed)
            ~> (pc[w] # "asleep" \/ \neg channel \/ closed)
================================================================================
