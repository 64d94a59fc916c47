------------------------------ MODULE EventFlow ------------------------------
(***************************************************************************)
(* What becomes of the events of a chat, for somebody who knows nothing of *)
(* goroutines, flags and the pause manager: batches of events come in; one *)
(* event after the other is taken from the front of a batch, and is shown, *)
(* ignored or put at the end of the queue; the queue, as a whole and in    *)
(* its order, becomes a batch again.  Without a fault nothing else happens *)
(* to an event, so it is shown once, and those that wait together are      *)
(* shown in the order in which they came to wait.                          *)
(***************************************************************************)
EXTENDS Integers, Sequences

CONSTANTS
  Events,   \* events the server reports
  Muted,    \* those no message is made of
  MaxBatch, \* bound: events of one batch
  Faults    \* may there be errors and kills?

VARIABLES
  fresh,    \* events the server has not reported yet
  hands,    \* the batches that somebody is working off
  waiting,  \* the queue
  shown     \* what the user was shown, in this order
vars == <<fresh, hands, waiting, shown>>

Init == fresh = Events /\ hands = {} /\ waiting = <<>> /\ shown = <<>>

\* A batch of new events comes in, or is missed.
Report ==
  \E n \in 1 .. MaxBatch : \E b \in [1 .. n -> fresh] :
    /\ \A i, j \in 1 .. n : b[i] = b[j] => i = j
    /\ fresh' = fresh \ {b[i] : i \in 1 .. n}
    /\ \/ hands' = hands \union {b}
       \/ Faults /\ UNCHANGED hands
    /\ UNCHANGED <<waiting, shown>>

\* hands when the front of batch b has been taken.
Without(b) == (hands \ {b}) \union ({Tail(b)} \ {<<>>})

Show(b) ==
  /\ Head(b) \notin Muted
  /\ shown' = Append(shown, Head(b))
  /\ UNCHANGED waiting

Ignore(b) ==
  /\ Head(b) \in Muted \/ Faults
  /\ UNCHANGED <<waiting, shown>>

\* A write to the queue that is not finished costs what was in it.
Postpone(b) ==
  /\ \/ waiting' = Append(waiting, Head(b))
     \/ Faults /\ waiting' = <<>>
  /\ UNCHANGED shown

Advance ==
  \E b \in hands :
    /\ Show(b) \/ Ignore(b) \/ Postpone(b)
    /\ hands' = Without(b)
    /\ UNCHANGED fresh

TakeUp ==
  /\ waiting # <<>>
  /\ hands' = hands \union {waiting}
  /\ waiting' = <<>>
  /\ UNCHANGED <<fresh, shown>>

\* Batches are dropped, and with a kill what was in the queue, too.
Drop ==
  /\ Faults
  /\ hands' \in SUBSET hands
  /\ waiting' \in {waiting, <<>>}
  /\ UNCHANGED <<fresh, shown>>

Next == Report \/ Advance \/ TakeUp \/ Drop

Spec == Init /\ [][Next]_vars
=============================================================================
