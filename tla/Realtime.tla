------------------------------- MODULE Realtime -------------------------------
(***************************************************************************)
(* A connection of package socketio, as module Connection promises it,     *)
(* together with its client: the realtime loop of the chat, which shakes   *)
(* hands on every new connection and then takes the messages, and the      *)
(* handlers that send on the connection too.                               *)
(*                                                                         *)
(* The loop calls Send between two rounds of its select, so mainLoop may   *)
(* wait for the loop while the loop waits for mainLoop.  What the loop     *)
(* does with an event (see module Delivery) never touches the connection.  *)
(***************************************************************************)
EXTENDS Connection

CONSTANTS
  AuthReqs, \* calls of Send with "auth", one for each handshake
  SubReqs   \* calls of Send with "subscribe"; the other ones are RTSend's

ASSUME RealtimeAssumption ==
  /\ AuthReqs \union SubReqs \subseteq Reqs /\ AuthReqs \cap SubReqs = {}
  /\ IsFiniteSet(AuthReqs) /\ IsFiniteSet(SubReqs)
  /\ Cardinality(AuthReqs) >= MaxConns /\ Cardinality(SubReqs) >= MaxConns

HandlerReqs == Reqs \ (AuthReqs \union SubReqs)

VARIABLES
  at,    \* where the realtime loop is
  cur,   \* the call of Send it waits for, NoReq if none
  quit,  \* has App.Close closed the application's closeChan?
  shaken \* how the last handshake ended (history)

rtVars  == <<at, cur, quit, shaken>>
allVars == <<connVars, rtVars>>

RTTypeOK ==
  /\ ConnTypeOK
  /\ at \in {"select", "auth", "sub", "message", "end"}
  /\ cur \in CASE at = "auth" -> AuthReqs \union {NoReq}
               [] at = "sub"  -> SubReqs \union {NoReq}
               [] OTHER       -> {NoReq}
  /\ quit \in BOOLEAN
  /\ shaken \in {"never", "ok", "failed"}

RTInit ==
  /\ ConnInit
  /\ at = "select" /\ cur = NoReq /\ quit = FALSE /\ shaken = "never"

-----------------------------------------------------------------------------
(* The realtime loop.                                                      *)

MovesOn(from, to) ==  \* mutant: the call that has returned is kept
  at = from /\ at' = to /\ UNCHANGED <<cur, quit>>
\* The loop moves, and is in no call of Send.
Moves(from, to) ==
  /\ at = from /\ at' = to
  /\ cur' = NoReq
  /\ UNCHANGED quit

LoopConnected ==
  /\ TakeConnected
  /\ Moves("select", "auth")
  /\ UNCHANGED shaken

\* The state, or the tracked posts, have been loaded: Send is called with
\* the next unused request.
LoopSend ==
  /\ at \in {"auth", "sub"} /\ cur = NoReq
  /\ LET unused == {q \in IF at = "auth" THEN AuthReqs ELSE SubReqs : call[q] = "idle"}
     IN  cur' = CHOOSE q \in unused : TRUE
  /\ SendBegin(cur')
  /\ UNCHANGED <<at, quit, shaken>>

\* Send returns: with the reply, or with an error once its timer has fired.
Returned == cur # NoReq /\ call[cur] \in {"replied", "failed", "drain"}
RepliedAny == Returned  \* mutant: the error is not looked at
Replied  == cur # NoReq /\ call[cur] = "replied"

LoopAuthorized ==
  /\ Replied
  /\ Moves("auth", "sub")
  /\ UNCHANGED <<connVars, shaken>>

LoopSubscribed ==
  /\ Replied
  /\ Moves("sub", "select")
  /\ shaken' = "ok"
  /\ UNCHANGED connVars

\* An error of a load or of a call of Send ends the handshake.
LoopFailed ==
  /\ cur = NoReq \/ (Returned /\ ~Replied)
  /\ Moves("auth", "select") \/ Moves("sub", "select")
  /\ shaken' = "failed"
  /\ UNCHANGED connVars

LoopMessage ==
  /\ TakeMessage
  /\ Moves("select", "message")
  /\ UNCHANGED shaken

LoopProcessed ==
  /\ Moves("message", "select")
  /\ UNCHANGED <<connVars, shaken>>

LoopEndsNot ==  \* mutant: goes on when connChan is closed
  /\ stage = "done" /\ ~token
  /\ Moves("select", "select")
  /\ UNCHANGED <<connVars, shaken>>
\* connChan is closed when mainLoop returns.
LoopEnds ==
  /\ stage = "done" /\ ~token
  /\ Moves("select", "end")
  /\ UNCHANGED <<connVars, shaken>>

\* The application is closing: StopRealtime, unless it has been called.
LoopQuits ==
  /\ quit
  /\ IF closed THEN UNCHANGED connVars ELSE Close
  /\ Moves("select", "end")
  /\ UNCHANGED shaken

Loop ==
  \/ LoopConnected \/ LoopSend \/ LoopAuthorized \/ LoopSubscribed \/ LoopFailed
  \/ LoopMessage \/ LoopProcessed \/ LoopEnds \/ LoopQuits

-----------------------------------------------------------------------------
(* The others.                                                             *)

\* A handler finds the connection in rtConns, which it is in until somebody
\* closes it, and calls Send.
RTSend(q) ==
  /\ q \in HandlerReqs /\ ~closed
  /\ SendBegin(q)
  /\ UNCHANGED rtVars

\* The connection is stopped by a logout or replaced by a login.
StopRealtime == Close /\ UNCHANGED rtVars

AppClose ==
  /\ ~quit /\ quit' = TRUE
  /\ UNCHANGED <<connVars, at, cur, shaken>>

\* When a handler's Send gives up is of no consequence to the others; the
\* server reports events to those who have subscribed.
Report ==
  /\ written \cap SubReqs # {}
  /\ Deliver

Conn ==
  /\ \/ Dial \/ GiveUp \/ Announce \/ Write \/ Report \/ Shut \/ Hang \/ Leave
     \/ \E q \in Reqs : Answer(q) \/ SendEnqueue(q)
     \/ cur # NoReq /\ SendTimeout(cur)
  /\ UNCHANGED rtVars

RTNext == Conn \/ Loop \/ (\E q \in Reqs : RTSend(q)) \/ StopRealtime \/ AppClose

RTSpec == RTInit /\ [][RTNext]_allVars

\* mainLoop goes on wherever it needs no peer, as in SocketIO!FairSpec; a
\* select draws at random among its ready cases; one of the waiting senders is served.
Finish == stage = "closing" /\ (Leave \/ \E q \in Reqs : Answer(q))

RTFairSpec ==
  /\ RTSpec
  /\ WF_allVars(Announce /\ UNCHANGED rtVars) /\ WF_allVars(Finish /\ UNCHANGED rtVars)
  /\ WF_allVars(closed /\ (Dial \/ GiveUp) /\ UNCHANGED rtVars)
  /\ SF_allVars(closed /\ Shut /\ UNCHANGED rtVars)
  /\ SF_allVars(Write /\ UNCHANGED rtVars)
  /\ SF_allVars((\E q \in Reqs : SendEnqueue(q)) /\ UNCHANGED rtVars)
  /\ WF_allVars(cur # NoReq /\ SendTimeout(cur) /\ UNCHANGED rtVars)
  /\ WF_allVars(Loop) /\ SF_allVars(LoopQuits)
  /\ SF_allVars(LoopConnected) /\ SF_allVars(LoopMessage)

-----------------------------------------------------------------------------
(* Correctness.                                                            *)

\* No connection is left without a handshake, however often the connection
\* was lost before or during one: when the loop is back in its select and no
\* event is waiting, the current connection is authorised and subscribed, or
\* its handshake has failed (realtime.go:42-48, loop.go:52).
HandshakeCovers ==
  at = "select" /\ ~token /\ stage \in {"online", "deliver"} =>
    \/ shaken = "failed"
    \/ /\ shaken = "ok"
       /\ \A S \in {AuthReqs, SubReqs} : \E q \in S \intersect written : call[q] = "replied"

\* The realtime loop waits for room in the outbox, and mainLoop, which makes
\* it, waits for the realtime loop, or for the network, or has returned.
NoRoom ==
  /\ cur # NoReq /\ call[cur] = "enqueue" /\ outbox # NoReq
  /\ \/ stage \in {"deliver", "done"}
     \/ stage = "announce" /\ token
     \/ stage = "down" /\ ~closed

\* A connection that is closed ends, and its realtime loop with it, from
\* wherever the two are; when the application closes, the realtime loop
\* ends.  There are two exceptions: a ping that could not be written, and a
\* full outbox (realtime.go:42-51, loop.go:52 and :109, connection.go:91).
ClosedEnds ==
  closed \/ quit ~> \/ at = "end" /\ (stage = "done" \/ quit)
                    \/ stage = "hung" \/ NoRoom

\* Whoever waits for room in the outbox gets it, as long as mainLoop keeps
\* coming back to its select (connection.go:91): calls of Send being few,
\* there is always a later moment when nobody waits.
SendsGetRoom ==
  []<>(stage = "online") => []<>(\A q \in Reqs : call[q] # "enqueue")
=============================================================================
