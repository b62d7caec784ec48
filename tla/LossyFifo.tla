------------------------------- MODULE LossyFifo -------------------------------
(***************************************************************************)
(* What a drop-oldest queue promises its users: a bounded FIFO that may    *)
(* lose items, but only from its old end, that never reorders or repeats   *)
(* what it delivers, and that counts every loss.                           *)
(***************************************************************************)
EXTENDS Naturals, Sequences

CONSTANTS Items,      \* everything that can be pushed
          Bound       \* most items held at once

VARIABLES q,          \* the items held, oldest first
          entered,    \* the items that have ever been accepted
          out,        \* the items handed to the consumer, in order
          lost        \* how many items were lost

Init ==
    /\ q = << >>
    /\ entered = {}
    /\ out = << >>
    /\ lost = 0

Accept(i) ==
    /\ i \notin entered
    /\ Len(q) < Bound
    /\ q' = Append(q, i)
    /\ entered' = entered \cup {i}
    /\ UNCHANGED <<out, lost>>

Deliver ==
    /\ q # << >>
    /\ q' = Tail(q)
    /\ out' = Append(out, Head(q))
    /\ UNCHANGED <<entered, lost>>

LoseOldest ==
    /\ q # << >>
    /\ q' = Tail(q)
    /\ lost' = lost + 1
    /\ UNCHANGED <<entered, out>>

Next == (\E i \in Items : Accept(i)) \/ Deliver \/ LoseOldest

Spec == Init /\ [][Next]_<<q, entered, out, lost>>
================================================================================
