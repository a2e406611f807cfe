---------------------------- MODULE BoundedFifo ----------------------------
(***************************************************************************)
(* What the keyboard queue promises: characters offered one at a time by a *)
(* device reach the consumer in order, none is lost while there is room,   *)
(* and what was offered before the consumer opened the queue is discarded  *)
(* at once.  Keyboard implements it with a ring of bytes; Chat uses it.    *)
(***************************************************************************)
EXTENDS Naturals, Sequences

CONSTANTS Elem,      \* what the queue holds
          NoElem,    \* "nothing": no input pending, nothing taken yet
          Capacity   \* how many elements fit

VARIABLES input,     \* the element the device offers, or NoElem
          queue,     \* the accepted elements, oldest first
          taken,     \* the last element the consumer took
          open       \* TRUE once the consumer has opened the queue

vars == <<input, queue, taken, open>>

TypeOK == /\ input \in Elem \cup {NoElem}
          /\ queue \in Seq(Elem)
          /\ Len(queue) <= Capacity
          /\ taken \in Elem \cup {NoElem}
          /\ open \in BOOLEAN

Init == /\ input = NoElem
        /\ queue = <<>>
        /\ taken = NoElem
        /\ open = FALSE

Offer(e) == /\ input = NoElem
            /\ input' = e
            /\ UNCHANGED <<queue, taken, open>>

Put == /\ input # NoElem
       /\ Len(queue) < Capacity
       /\ queue' = Append(queue, input)
       /\ input' = NoElem
       /\ UNCHANGED <<taken, open>>

\* The only way an offered element is lost.
Lose == /\ input # NoElem
        /\ Len(queue) = Capacity
        /\ input' = NoElem
        /\ UNCHANGED <<queue, taken, open>>

Open == /\ ~open
        /\ open' = TRUE
        /\ queue' = <<>>
        /\ UNCHANGED <<input, taken>>

Take == /\ open
        /\ queue # <<>>
        /\ taken' = Head(queue)
        /\ queue' = Tail(queue)
        /\ UNCHANGED <<input, open>>

Next == \/ \E e \in Elem : Offer(e)
        \/ Put
        \/ Lose
        \/ Open
        \/ Take

Spec == Init /\ [][Next]_vars
=============================================================================
