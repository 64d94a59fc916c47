------------------------------ MODULE Connection ------------------------------
(***************************************************************************)
(* What package socketio promises to the client of a Connection: where     *)
(* mainLoop may be as the client can tell, which requests it has written,  *)
(* and how calls of Send end.  Module SocketIO implements it (IsConnection *)
(* there); module Realtime is a client of it.                              *)
(***************************************************************************)
EXTENDS Naturals, FiniteSets

CONSTANTS
  Reqs,     \* calls of Send; each call is used once
  NoReq,    \* an empty slot
  MaxConns  \* bound: connections established

ASSUME ConnectionAssumption == NoReq \notin Reqs /\ MaxConns \in Nat

VARIABLES
  stage,   \* where mainLoop is
  conns,   \* connections established so far
  written, \* requests written on the last one
  outbox,  \* the slot of the outbox channel, NoReq when it is empty
  token,   \* is there an element in the buffer of connChan?
  closed,  \* has Close closed closeChan?
  call     \* call[q]: where the call q of Send is

connVars == <<stage, conns, written, outbox, token, closed, call>>

ConnTypeOK ==
  /\ stage \in {"down", "announce", "online", "deliver", "closing", "hung", "done"}
  /\ conns \in 0 .. MaxConns
  /\ written \subseteq Reqs
  /\ outbox \in Reqs \union {NoReq}
  /\ token \in BOOLEAN /\ closed \in BOOLEAN
  /\ call \in [Reqs -> {"idle", "enqueue", "wait", "drain", "replied", "failed"}]

ConnInit ==
  /\ stage = "down" /\ conns = 0 /\ written = {}
  /\ outbox = NoReq /\ token = FALSE /\ closed = FALSE
  /\ call = [q \in Reqs |-> "idle"]

-----------------------------------------------------------------------------
(* mainLoop.                                                               *)

Goto(from, to) == stage = from /\ stage' = to

\* The next connection: nothing is written on it yet.
Dial ==
  /\ Goto("down", "announce")
  /\ conns < MaxConns /\ conns' = conns + 1
  /\ written' = {}
  /\ UNCHANGED <<outbox, token, closed, call>>

GiveUp ==
  /\ Goto("down", "done") /\ closed
  /\ UNCHANGED <<conns, written, outbox, token, closed, call>>

\* The client is told; mainLoop waits if it has not taken the last event.
Announce ==
  /\ Goto("announce", "online")
  /\ ~token /\ token' = TRUE
  /\ UNCHANGED <<conns, written, outbox, closed, call>>

WriteAlone ==  \* mutant: one request at a time
  /\ outbox # NoReq /\ outbox' = NoReq
  /\ written = {}
  /\ \/ Goto("online", "online") /\ written' = written \union {outbox}
     \/ Goto("online", "closing") /\ UNCHANGED written
  /\ UNCHANGED <<conns, token, closed, call>>

\* A request leaves the outbox, and the connection is given up if it cannot
\* be written.
Write ==
  /\ outbox # NoReq /\ outbox' = NoReq
  /\ \/ Goto("online", "online") /\ written' = written \union {outbox}
     \/ Goto("online", "closing") /\ UNCHANGED written
  /\ UNCHANGED <<conns, token, closed, call>>

\* A call is answered on the connection its request was written on: with the
\* reply, or with nil, which is an error.
Unanswered(q) == q \in written /\ call[q] \in {"wait", "drain"}
Answer(q) ==
  /\ stage \in {"online", "closing"}
  /\ Unanswered(q)
  /\ \E how \in {"replied", "failed"} :
       /\ how = "replied" => stage = "online"
       /\ call' = [call EXCEPT ![q] = IF @ = "drain" THEN "failed" ELSE how]
  /\ UNCHANGED <<stage, conns, written, outbox, token, closed>>

\* An incoming message, which mainLoop hands over itself.
Deliver ==
  /\ Goto("online", "deliver")
  /\ UNCHANGED <<conns, written, outbox, token, closed, call>>

\* The connection is lost or closed.
Shut ==
  /\ Goto("online", "closing")
  /\ UNCHANGED <<conns, written, outbox, token, closed, call>>

\* A ping cannot be written: mainLoop waits for its timer for ever.
Hang ==
  /\ Goto("online", "hung")
  /\ UNCHANGED <<conns, written, outbox, token, closed, call>>

\* Nobody is left without an answer.
Leave ==
  /\ Goto("closing", IF closed THEN "done" ELSE "down")
  /\ \A q \in Reqs : ~Unanswered(q)
  /\ UNCHANGED <<conns, written, outbox, token, closed, call>>

MainLoop ==
  \/ Dial \/ GiveUp \/ Announce \/ Write \/ Deliver \/ Shut \/ Hang \/ Leave
  \/ \E q \in Reqs : Answer(q)

-----------------------------------------------------------------------------
(* The client's side.                                                      *)

SendBegin(q) ==
  /\ call[q] = "idle"
  /\ call' = [call EXCEPT ![q] = "enqueue"]
  /\ UNCHANGED <<stage, conns, written, outbox, token, closed>>

SendEnqueue(q) ==
  /\ call[q] = "enqueue"
  /\ outbox = NoReq /\ outbox' = q
  /\ call' = [call EXCEPT ![q] = "wait"]
  /\ UNCHANGED <<stage, conns, written, token, closed>>

SendTimeout(q) ==
  /\ call[q] = "wait"
  /\ call' = [call EXCEPT ![q] = "drain"]
  /\ UNCHANGED <<stage, conns, written, outbox, token, closed>>

TakeConnected ==
  /\ token /\ token' = FALSE
  /\ UNCHANGED <<stage, conns, written, outbox, closed, call>>

TakeMessage ==
  /\ Goto("deliver", "online")
  /\ UNCHANGED <<conns, written, outbox, token, closed, call>>

Close ==
  /\ ~closed /\ closed' = TRUE
  /\ UNCHANGED <<stage, conns, written, outbox, token, call>>

Send(q) == SendBegin(q) \/ SendEnqueue(q) \/ SendTimeout(q)

ConnNext ==
  MainLoop \/ (\E q \in Reqs : Send(q)) \/ TakeConnected \/ TakeMessage \/ Close

ConnSpec == ConnInit /\ [][ConnNext]_connVars
=============================================================================
