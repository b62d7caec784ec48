------------------------------- MODULE QueryLife -------------------------------
(***************************************************************************)
(* What a queryable promises for every query it is sent, whichever threads *)
(* take, answer and finish the queries: a query waits in a bounded queue,  *)
(* oldest first; it is handed out at most once, unless it is lost from the *)
(* old end of a full queue or arrives while nobody listens; what is handed *)
(* out stays held until it is finished, and is finished once.              *)
(***************************************************************************)
EXTENDS Naturals, Sequences

CONSTANTS Queries,    \* every query that can arrive
          Bound       \* most queries that wait at once

VARIABLES known,      \* the queries that have arrived
          waiting,    \* those that wait, oldest first
          held,       \* those handed out and not yet finished
          done        \* those finished

Init ==
    /\ known = {}
    /\ waiting = << >>
    /\ held = {}
    /\ done = {}

New(q) == q \notin known /\ known' = known \cup {q}

Arrive(q) ==
    /\ New(q)
    /\ waiting' = Append(IF Len(waiting) < Bound THEN waiting ELSE Tail(waiting), q)
    /\ UNCHANGED <<held, done>>

\* The query arrives when nobody listens.
Miss(q) == New(q) /\ UNCHANGED <<waiting, held, done>>

HandOut ==
    /\ waiting # << >>
    /\ waiting' = Tail(waiting)
    /\ held' = held \cup {Head(waiting)}
    /\ UNCHANGED <<known, done>>

\* A sample, which needs no answer, is done with when it is handed out.
Consume ==
    /\ waiting # << >>
    /\ waiting' = Tail(waiting)
    /\ done' = done \cup {Head(waiting)}
    /\ UNCHANGED <<known, held>>

\* Held queries are finished: one by one, or several when their owner goes.
Finish(S) ==
    /\ S # {} /\ S \subseteq held
    /\ held' = held \ S
    /\ done' = done \cup S
    /\ UNCHANGED <<known, waiting>>

Next ==
    \/ \E q \in Queries : Arrive(q) \/ Miss(q)
    \/ HandOut \/ Consume
    \/ \E S \in SUBSET held : Finish(S)

Spec == Init /\ [][Next]_<<known, waiting, held, done>>
================================================================================
