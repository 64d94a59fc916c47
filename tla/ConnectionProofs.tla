--------------------------- MODULE ConnectionProofs ---------------------------
(***************************************************************************)
(* The realtime connection implements what it promises its client (module  *)
(* Connection), and a reply can be a wrong one only when the ids of a      *)
(* connection have wrapped around.                                         *)
(*                                                                         *)
(* The argument of the first: a step of mainLoop that the client cannot    *)
(* tell is a stutter, and an answer goes to a call written on the current  *)
(* connection (Answered).  mainLoop may leave the connection when the      *)
(* reply map is empty, because every call that was written on it and still *)
(* waits is there (Held).  Of the second: on one connection, the n-th      *)
(* request written gets the id n, as long as n is an id (Numbered).        *)
(***************************************************************************)
EXTENDS SocketIOProofs

\* No request was written on a connection that is not dialled yet.
Past == \A q \in Reqs : tag[q] = <<0, 0>> \/ tag[q][1] <= conn

\* mainLoop answers a call on the connection it was written on.
Answered == target # NoReq => conn > 0 /\ tag[target][1] = conn

\* Whoever was written on the current connection and waits is in the reply
\* map, or is being answered.
Held ==
  \A q \in Reqs : Owed(q) /\ q \in Written =>
    target = q \/ \E id \in IDs : replyMap[id] = q

\* The ping timer runs in the message loop and is off in the cleanup.
Timed ==
  /\ loop \in {"select", "deliver", "reply", "evict"} => timer \in {"armed", "fired"}
  /\ loop = "cleanup" => timer = "off"

Linked == Past /\ Answered /\ Held /\ Timed

\* As long as the ids of a connection have not wrapped around they are
\* different, and the next id follows the number of requests written.
Numbered ==
  /\ \A k \in Conns :
       /\ IsFiniteSet(SentOn(k))
       /\ k > conn => SentOn(k) = {}
       /\ Cardinality(SentOn(k)) <= MaxMsgID =>
            \A q, r \in SentOn(k) : tag[q][2] = tag[r][2] => q = r
  /\ loop \in {"announce", "select", "deliver", "reply", "evict"} =>
       /\ Cardinality(SentOn(conn)) < MaxMsgID =>
            nextID = Cardinality(SentOn(conn)) + 1
       /\ Cardinality(SentOn(conn)) <= MaxMsgID =>
            \A q \in SentOn(conn) : tag[q][2] <= Cardinality(SentOn(conn))

\* Which actions touch what these invariants speak of.
LEMMA LinkActions ==
  [Next]_vars =>
    \/ DialOk \/ SelectReply \/ SelectOutbox \/ SendReply \/ CleanReply
    \/ \E q \in Reqs : SendBegin(q) \/ SendEnqueue(q) \/ SendTimeout(q)
    \/ UNCHANGED <<conn, target, replyMap, call, tag>>
  BY DEF Next, MainLoop, Receiver, vars, loopVars, rcvVars, chanVars, callVars,
         DialFail, BackoffExpire, BackoffClose, Announce, SelectClose,
         SelectPing, SelectInboxClosed, SelectProps, SelectNoise, SelectEvent,
         Receive, StopPing, CloseConn, RcvTop, RcvFrame, RcvFail,
         TakeConnected, TakeMessage, Close, Break, TimerFires

LEMMA TimedStep == IInv /\ Timed /\ [Next]_vars => Timed'
<1> SUFFICES ASSUME IInv, Timed, [Next]_vars PROVE Timed'
  OBVIOUS
<1>1. CASE \/ DialFail \/ DialOk \/ BackoffExpire \/ BackoffClose \/ Announce
           \/ SelectClose \/ SelectPing \/ SelectInboxClosed
  BY <1>1 DEF Timed, DialFail, DialOk, BackoffExpire, BackoffClose, Announce,
     SelectClose, SelectPing, SelectInboxClosed
<1>2. CASE \/ SelectProps \/ SelectNoise \/ SelectEvent \/ SelectReply \/ SelectOutbox
  BY <1>2 DEF Timed, SelectProps, SelectNoise, SelectEvent, SelectReply,
     SelectOutbox, Receive
<1>3. CASE SendReply \/ StopPing \/ CleanReply \/ CloseConn
  BY <1>3 DEF Timed, SendReply, StopPing, CleanReply, CloseConn
<1>4. CASE TakeMessage \/ TimerFires
  BY <1>4 DEF Timed, TakeMessage, TimerFires
<1>5. CASE UNCHANGED <<loop, timer>>
  BY <1>5 DEF Timed
<1> QED
  BY <1>1, <1>2, <1>3, <1>4, <1>5
  DEF Next, MainLoop, Receiver, vars, loopVars, RcvTop, RcvFrame, RcvFail,
      SendBegin, SendEnqueue, SendTimeout, TakeConnected, Close, Break

LEMMA HeldStep ==
  IInv /\ Linked /\ [Next]_vars => Past' /\ Answered' /\ Held'
<1> SUFFICES ASSUME IInv, Linked, [Next]_vars PROVE Past' /\ Answered' /\ Held'
  OBVIOUS
<1> USE ConnAssumption
<1>0. Past /\ Answered /\ Held
  BY DEF Linked
<1>1. /\ Placed /\ Current /\ Fresh /\ Tagged
      /\ conn \in 0 .. MaxConns /\ nextID \in IDs
      /\ replyMap \in [IDs -> Reqs \union {NoReq}]
      /\ target \in Reqs \union {NoReq} /\ outbox \in Reqs \union {NoReq}
      /\ call \in [Reqs -> CallStates]
      /\ tag \in [Reqs -> (Conns \X IDs) \union {<<0, 0>>}]
  BY DEF IInv, TypeOK
<1>2. CASE DialOk
  <2>1. conn' = conn + 1 /\ target = NoReq /\ UNCHANGED <<target, tag>>
    BY <1>1, <1>2 DEF DialOk, Placed, callVars
  <2>2. \A q \in Reqs : tag[q][1] <= conn
    BY <1>0, <1>1 DEF Past
  <2>3. Written' = {}
    BY <1>1, <2>1, <2>2 DEF Written, Conns
  <2> QED
    BY <1>0, <1>1, <2>1, <2>2, <2>3 DEF Past, Answered, Held, Conns
<1>3. CASE SelectReply
  <2>1. loop = "select" /\ UNCHANGED <<conn, call, tag>> /\ target = NoReq
    BY <1>1, <1>3 DEF SelectReply, Receive, callVars, Placed
  <2>2. Past' /\ Written' = Written
    BY <1>0, <2>1 DEF Past, Written
  <2>3. CASE UNCHANGED <<replyMap, target>>
    BY <1>0, <2>1, <2>2, <2>3 DEF Answered, Held, Owed
  <2>4. CASE replyMap[frame[conn].id] # NoReq
    <3> DEFINE id == frame[conn].id
    <3>1. id \in IDs
      <4>1. conn \in Conns /\ frame[conn] \in Frames /\ frame[conn].kind = "ack"
        BY <1>1, <1>3, <2>1 DEF SelectReply, IInv, TypeOK, Current
      <4> QED
        BY <4>1 DEF Frames, Plain, Acks
    <3>2. replyMap' = [replyMap EXCEPT ![id] = NoReq] /\ target' = replyMap[id]
      BY <1>3, <2>4 DEF SelectReply, Without
    <3>3. conn \in Conns /\ tag[replyMap[id]] = <<conn, id>>
      BY <1>1, <2>1, <2>4, <3>1 DEF Current, Tagged
    <3> HIDE DEF id
    <3>4. Answered'
      BY <2>1, <3>2, <3>3 DEF Answered, Conns
    <3>5. Held'
      BY <1>0, <1>1, <2>1, <2>2, <3>1, <3>2 DEF Held, Owed
    <3> QED
      BY <2>2, <3>4, <3>5
  <2> QED
    BY <1>3, <2>3, <2>4 DEF SelectReply
<1>4. CASE SelectOutbox
  <2>1. /\ loop = "select" /\ UNCHANGED <<conn, call>> /\ target = NoReq
        /\ outbox \in Reqs /\ conn \in Conns
    BY <1>1, <1>4 DEF SelectOutbox, Placed, Current
  <2>2. CASE UNCHANGED <<replyMap, target, tag>>
    BY <1>0, <2>1, <2>2 DEF Past, Answered, Held, Written, Owed
  <2>3. CASE /\ replyMap' = Entered(nextID, outbox)
             /\ target' = replyMap[nextID]
             /\ tag' = [tag EXCEPT ![outbox] = <<conn, nextID>>]
    <3>1. tag'[outbox] = <<conn, nextID>> /\ \A q \in Reqs \ {outbox} : tag'[q] = tag[q]
      BY <1>1, <2>1, <2>3
    <3>2. Past'
      <4>1. tag'[outbox][1] = conn /\ conn <= conn
        BY <1>1, <3>1
      <4> QED
        BY <1>0, <2>1, <3>1, <4>1 DEF Past
    <3>3. Answered'
      <4> SUFFICES ASSUME replyMap[nextID] # NoReq
                   PROVE  conn > 0 /\ tag'[replyMap[nextID]][1] = conn
        BY <2>1, <2>3 DEF Answered
      <4>1. replyMap[nextID] \in Reqs /\ tag[replyMap[nextID]] = <<conn, nextID>>
        BY <1>1 DEF Tagged
      <4>2. tag'[replyMap[nextID]] = <<conn, nextID>>
        BY <3>1, <4>1
      <4> QED
        BY <2>1, <4>2 DEF Conns
    <3>4. \A q \in Written' : q = outbox \/ q \in Written
      BY <2>1, <3>1 DEF Written
    <3>5. replyMap'[nextID] = outbox
          /\ \A id \in IDs \ {nextID} : replyMap'[id] = replyMap[id]
      BY <1>1, <2>3 DEF Entered
    <3>6. Held'
      BY <1>0, <1>1, <2>1, <2>3, <3>4, <3>5 DEF Held, Owed
    <3> QED
      BY <3>2, <3>3, <3>6
  <2> QED
    BY <1>4, <2>2, <2>3 DEF SelectOutbox
<1>5. CASE SendReply
  <2>1. /\ target \in Reqs /\ target' = NoReq /\ UNCHANGED <<conn, replyMap, tag>>
        /\ call' = [call EXCEPT ![target] = call'[target]]
        /\ call'[target] \in {"gone", "failed", "replied"}
    BY <1>1, <1>5 DEF SendReply, Hand, CanTake
  <2>2. Written' = Written /\ Past' /\ Answered'
    BY <1>0, <2>1 DEF Written, Past, Answered
  <2>3. \A q \in Reqs : Owed(q)' => Owed(q) /\ q # target
    BY <1>1, <2>1 DEF Owed
  <2> QED
    BY <1>0, <2>1, <2>2, <2>3 DEF Held
<1>6. CASE CleanReply
  <2>1. PICK i \in IDs : /\ replyMap[i] # NoReq
                         /\ Hand(replyMap[i], NoReq)
                         /\ replyMap' = Without(i)
    BY <1>6 DEF CleanReply
  <2>2. UNCHANGED <<conn, target, tag>>
    BY <1>6, <2>1 DEF CleanReply, Hand
  <2>3. Written' = Written /\ Past' /\ Answered'
    BY <1>0, <2>2 DEF Written, Past, Answered
  <2>4. \A q \in Reqs : Owed(q)' => Owed(q) /\ q # replyMap[i]
    BY <1>1, <2>1 DEF Owed, Hand, CanTake
  <2> QED
    BY <1>0, <1>1, <2>1, <2>2, <2>3, <2>4 DEF Held, Without
<1>7. ASSUME NEW q \in Reqs, SendBegin(q) \/ SendEnqueue(q) \/ SendTimeout(q)
      PROVE  Past' /\ Answered' /\ Held'
  <2>1. UNCHANGED <<conn, target, replyMap, tag>>
    BY <1>7 DEF SendBegin, SendEnqueue, SendTimeout, loopVars
  <2>2. Written' = Written /\ Past' /\ Answered'
    BY <1>0, <2>1 DEF Written, Past, Answered
  <2>3. \A r \in Reqs : Owed(r)' => Owed(r) \/ (r = q /\ call[q] = "enqueue")
    BY <1>1, <1>7 DEF Owed, SendBegin, SendEnqueue, SendTimeout
  <2>4. call[q] = "enqueue" => q \notin Written
    BY <1>1 DEF Fresh, Written
  <2> QED
    BY <1>0, <2>1, <2>2, <2>3, <2>4 DEF Held
<1>8. CASE UNCHANGED <<conn, target, replyMap, call, tag>>
  BY <1>0, <1>8 DEF Past, Answered, Held, Written, Owed
<1> QED
  BY <1>2, <1>3, <1>4, <1>5, <1>6, <1>7, <1>8, LinkActions

LEMMA LinkedInvariance == Spec => []Linked
<1>1. Init => Linked
  BY DEF Init, Linked, Past, Answered, Held, Timed, Written, Owed
<1>2. IInv /\ Linked /\ [Next]_vars => Linked'
  BY TimedStep, HeldStep DEF Linked
<1> QED
  BY <1>1, <1>2, Invariance, PTL DEF Spec

-----------------------------------------------------------------------------
(* The client's view of a step.                                            *)

\* What the client cannot tell apart.
LEMMA ViewUnchanged ==
  /\ UNCHANGED <<conn, tag>> => Written' = Written
  /\ UNCHANGED call => Outcome' = Outcome
  /\ UNCHANGED <<loop, timer>> => Stage' = Stage
  BY DEF Written, Outcome, Stage

\* A send on the reply channel of a call that was written on the current
\* connection is an answer of the abstract connection.
LEMMA HandAnswers ==
  ASSUME TypeOK, NEW q \in Reqs, NEW p, Hand(q, p), q \in Written,
         Stage \in {"online", "closing"}, p # NoReq => Stage = "online",
         UNCHANGED <<Stage, conn, outbox, token, closed>>
  PROVE  C!Answer(q)
<1> DEFINE how == IF p = NoReq THEN "failed" ELSE "replied"
<1>1. /\ call \in [Reqs -> CallStates] /\ call[q] \in {"wait", "drain"} /\ tag' = tag
      /\ call' = [call EXCEPT ![q] = IF @ = "drain" THEN "gone" ELSE how]
  BY DEF Hand, CanTake, TypeOK
<1>2. Written' = Written
  BY <1>1, ViewUnchanged
<1>3. Outcome' = [Outcome EXCEPT ![q] = IF @ = "drain" THEN "failed" ELSE how]
  BY <1>1 DEF Outcome
<1>4. Outcome[q] = call[q]
  BY <1>1 DEF Outcome
<1>5. C!Unanswered(q)
  BY <1>1, <1>4 DEF C!Unanswered
<1>6. how \in {"replied", "failed"} /\ (how = "replied" => Stage = "online")
  OBVIOUS
<1> HIDE DEF how
<1> QED
  BY <1>2, <1>3, <1>5, <1>6 DEF C!Answer

\* The steps of mainLoop.
LEMMA LoopRefines == IInv /\ Linked /\ MainLoop => [C!ConnNext]_(C!connVars)
<1> SUFFICES ASSUME IInv, Linked, MainLoop
             PROVE  C!MainLoop \/ UNCHANGED C!connVars
  BY DEF C!ConnNext
<1> USE ConnAssumption
<1>0. /\ TypeOK /\ Placed /\ Waiting /\ Current /\ Tagged
      /\ Past /\ Answered /\ Held /\ Timed
  BY DEF IInv, Linked
<1>1. CASE DialFail \/ BackoffExpire
  <2>1. Stage = "down" /\ Stage' = "down"
    BY <1>1 DEF DialFail, BackoffExpire, Stage
  <2>2. UNCHANGED <<conn, tag, call, outbox, token, closed>>
    BY <1>1 DEF DialFail, BackoffExpire, chanVars, callVars
  <2> QED
    BY <2>1, <2>2, ViewUnchanged DEF C!connVars
<1>2. CASE DialOk
  <2>1. Stage = "down" /\ Stage' = "announce"
    BY <1>2 DEF DialOk, Stage
  <2>2. conn \in 0 .. MaxConns /\ conn < MaxConns /\ conn' = conn + 1
        /\ UNCHANGED <<outbox, token, closed, call, tag>>
    BY <1>0, <1>2 DEF DialOk, chanVars, callVars, TypeOK
  <2>3. Written' = {}
    <3>1. \A q \in Reqs : tag[q][1] <= conn
      BY <1>0, <2>2 DEF Past
    <3> QED
      BY <2>2, <3>1 DEF Written
  <2> QED
    BY <2>1, <2>2, <2>3, ViewUnchanged DEF C!MainLoop, C!Dial, C!Goto
<1>3. CASE BackoffClose
  <2>1. Stage = "down" /\ Stage' = "done"
    BY <1>3 DEF BackoffClose, Stage
  <2>2. closed /\ UNCHANGED <<conn, tag, call, outbox, token, closed>>
    BY <1>3 DEF BackoffClose, chanVars, callVars
  <2> QED
    BY <2>1, <2>2, ViewUnchanged DEF C!MainLoop, C!GiveUp, C!Goto
<1>4. CASE Announce
  <2>1. Stage = "announce" /\ Stage' = "online"
    BY <1>4 DEF Announce, Stage
  <2>2. ~token /\ token' = TRUE /\ UNCHANGED <<conn, tag, call, outbox, closed>>
    BY <1>4 DEF Announce, callVars
  <2> QED
    BY <2>1, <2>2, ViewUnchanged DEF C!MainLoop, C!Announce, C!Goto
<1>5. CASE SelectClose \/ SelectInboxClosed
  <2>1. Stage = "online" /\ Stage' = "closing"
    BY <1>0, <1>5 DEF SelectClose, SelectInboxClosed, Stage, Timed
  <2>2. UNCHANGED <<conn, tag, call, outbox, token, closed>>
    BY <1>5 DEF SelectClose, SelectInboxClosed, chanVars, callVars
  <2> QED
    BY <2>1, <2>2, ViewUnchanged DEF C!MainLoop, C!Shut, C!Goto
<1>6. CASE SelectPing
  <2>1. UNCHANGED <<conn, tag, call, outbox, token, closed>>
    BY <1>6 DEF SelectPing, chanVars, callVars
  <2>2. Stage = "online" /\ Stage' \in {"online", "hung"}
    BY <1>6 DEF SelectPing, Stage
  <2> QED
    BY <2>1, <2>2, ViewUnchanged DEF C!MainLoop, C!Hang, C!Goto, C!connVars
<1>7. CASE SelectProps \/ SelectNoise
  <2>1. Stage = "online" /\ Stage' = "online"
    BY <1>7 DEF SelectProps, SelectNoise, Receive, Stage
  <2>2. UNCHANGED <<conn, tag, call, outbox, token, closed>>
    BY <1>7 DEF SelectProps, SelectNoise, Receive, chanVars, callVars
  <2> QED
    BY <2>1, <2>2, ViewUnchanged DEF C!connVars
<1>8. CASE SelectEvent
  <2>1. Stage = "online" /\ Stage' = "deliver"
    BY <1>8 DEF SelectEvent, Receive, Stage
  <2>2. UNCHANGED <<conn, tag, call, outbox, token, closed>>
    BY <1>8 DEF SelectEvent, Receive, chanVars, callVars
  <2> QED
    BY <2>1, <2>2, ViewUnchanged DEF C!MainLoop, C!Deliver, C!Goto
<1>9. CASE SelectReply
  <2>1. Stage = "online" /\ Stage' = "online"
    BY <1>9 DEF SelectReply, Receive, Stage
  <2>2. UNCHANGED <<conn, tag, call, outbox, token, closed>>
    BY <1>9 DEF SelectReply, Receive, chanVars, callVars
  <2> QED
    BY <2>1, <2>2, ViewUnchanged DEF C!connVars
<1>10. CASE SelectOutbox
  <2>1. /\ loop = "select" /\ Stage = "online" /\ conn \in Conns
        /\ outbox \in Reqs /\ outbox # NoReq /\ outbox' = NoReq
        /\ UNCHANGED <<conn, token, closed, call>>
    BY <1>0, <1>10 DEF SelectOutbox, Stage, Current, TypeOK
  <2>2. CASE loop' = "stopPing" /\ UNCHANGED tag
    <3>1. Stage' = "closing"
      BY <1>0, <1>10, <2>1, <2>2 DEF SelectOutbox, Stage, Timed
    <3> QED
      BY <2>1, <2>2, <3>1, ViewUnchanged DEF C!MainLoop, C!Write, C!Goto
  <2>3. CASE loop' \in {"select", "evict"} /\ tag' = [tag EXCEPT ![outbox] = <<conn, nextID>>]
    <3>1. Stage' = "online"
      BY <2>3 DEF Stage
    <3>2. Written' = Written \union {outbox}
      <4>1. conn > 0
        BY <2>1 DEF Conns
      <4>2. \A q \in Reqs : tag'[q] = IF q = outbox THEN <<conn, nextID>> ELSE tag[q]
        BY <1>0, <2>1, <2>3 DEF TypeOK
      <4> QED
        BY <2>1, <4>1, <4>2 DEF Written
    <3> QED
      BY <2>1, <3>1, <3>2, ViewUnchanged DEF C!MainLoop, C!Write, C!Goto
  <2> QED
    BY <1>10, <2>2, <2>3 DEF SelectOutbox
<1>11. CASE SendReply
  <2>1. /\ target \in Reqs /\ target # NoReq /\ Hand(target, value)
        /\ UNCHANGED <<conn, outbox, token, closed>>
    BY <1>0, <1>11 DEF SendReply, Hand, CanTake, chanVars, TypeOK
  <2>2. Stage = "online" /\ Stage' = "online"
    BY <1>11 DEF SendReply, Stage
  <2>3. target \in Written
    BY <1>0, <2>1 DEF Answered, Written
  <2>4. C!Answer(target)
    BY <1>0, <2>1, <2>2, <2>3, HandAnswers
  <2> QED
    BY <2>1, <2>4 DEF C!MainLoop
<1>12. CASE StopPing
  <2>1. Stage = "closing" /\ Stage' = "closing"
    BY <1>12 DEF StopPing, StopTimer, Stage
  <2>2. UNCHANGED <<conn, tag, call, outbox, token, closed>>
    BY <1>12 DEF StopPing, chanVars, callVars
  <2> QED
    BY <2>1, <2>2, ViewUnchanged DEF C!connVars
<1>13. CASE CleanReply
  <2>1. PICK id \in IDs : replyMap[id] # NoReq /\ Hand(replyMap[id], NoReq)
    BY <1>13 DEF CleanReply
  <2>2. /\ loop = "cleanup" /\ conn \in Conns
        /\ UNCHANGED <<loop, timer, conn, outbox, token, closed>>
    BY <1>0, <1>13 DEF CleanReply, chanVars, Current
  <2>3. Stage = "closing" /\ Stage' = Stage
    BY <1>0, <2>2, ViewUnchanged DEF Stage, Timed
  <2>4. replyMap[id] \in Reqs /\ tag[replyMap[id]] = <<conn, id>>
    BY <1>0, <2>1 DEF TypeOK, Tagged
  <2>5. replyMap[id] \in Written
    BY <2>2, <2>4 DEF Written, Conns
  <2>6. C!Answer(replyMap[id])
    BY <1>0, <2>1, <2>2, <2>3, <2>4, <2>5, HandAnswers
  <2> QED
    BY <2>4, <2>6 DEF C!MainLoop
<1>14. CASE CloseConn
  <2>1. Stage = "closing" /\ Stage' = IF closed THEN "done" ELSE "down"
    BY <1>0, <1>14 DEF CloseConn, Stage, Timed
  <2>2. /\ loop = "cleanup" /\ \A id \in IDs : replyMap[id] = NoReq
        /\ UNCHANGED <<conn, tag, call, outbox, token, closed>>
    BY <1>14 DEF CloseConn, chanVars, callVars
  <2>3. \A q \in Reqs : ~C!Unanswered(q)
    <3> SUFFICES ASSUME NEW q \in Reqs, C!Unanswered(q) PROVE FALSE
      OBVIOUS
    <3>1. q \in Written /\ Owed(q)
      BY DEF C!Unanswered, Outcome, Owed
    <3>2. target = NoReq
      BY <1>0, <2>2 DEF Placed
    <3>3. q # NoReq
      OBVIOUS
    <3> QED
      BY <1>0, <2>2, <3>1, <3>2, <3>3 DEF Held
  <2> QED
    BY <2>1, <2>2, <2>3, ViewUnchanged DEF C!MainLoop, C!Leave, C!Goto
<1> QED
  BY <1>1, <1>2, <1>3, <1>4, <1>5, <1>6, <1>7, <1>8, <1>9, <1>10, <1>11,
     <1>12, <1>13, <1>14 DEF MainLoop

\* The steps of the callers, the client, the network and the clock.
LEMMA OthersRefine ==
  IInv /\ [Next]_vars => MainLoop \/ [C!ConnNext]_(C!connVars)
<1> SUFFICES ASSUME IInv, [Next]_vars, ~MainLoop
             PROVE  C!ConnNext \/ UNCHANGED C!connVars
  OBVIOUS
<1>0. call \in [Reqs -> CallStates]
  BY DEF IInv, TypeOK
<1>1. ASSUME NEW k \in Conns, Receiver(k) PROVE UNCHANGED C!connVars
  <2>1. UNCHANGED <<loop, timer, conn, tag, call, outbox, token, closed>>
    BY <1>1 DEF Receiver, RcvTop, RcvFrame, RcvFail, loopVars, chanVars, callVars
  <2> QED
    BY <2>1, ViewUnchanged DEF C!connVars
<1>2. ASSUME NEW q \in Reqs, SendBegin(q) PROVE C!SendBegin(q)
  <2>1. /\ UNCHANGED <<loop, timer, conn, tag, outbox, token, closed>>
        /\ call[q] = "idle" /\ call' = [call EXCEPT ![q] = "enqueue"]
    BY <1>2 DEF SendBegin, loopVars, chanVars
  <2>2. Outcome[q] = "idle" /\ Outcome' = [Outcome EXCEPT ![q] = "enqueue"]
    BY <1>0, <2>1 DEF Outcome
  <2> QED
    BY <2>1, <2>2, ViewUnchanged DEF C!SendBegin
<1>3. ASSUME NEW q \in Reqs, SendEnqueue(q) PROVE C!SendEnqueue(q)
  <2>1. /\ UNCHANGED <<loop, timer, conn, tag, token, closed>>
        /\ outbox = NoReq /\ outbox' = q
        /\ call[q] = "enqueue" /\ call' = [call EXCEPT ![q] = "wait"]
    BY <1>3 DEF SendEnqueue, loopVars
  <2>2. Outcome[q] = "enqueue" /\ Outcome' = [Outcome EXCEPT ![q] = "wait"]
    BY <1>0, <2>1 DEF Outcome
  <2> QED
    BY <2>1, <2>2, ViewUnchanged DEF C!SendEnqueue
<1>4. ASSUME NEW q \in Reqs, SendTimeout(q) PROVE C!SendTimeout(q)
  <2>1. /\ UNCHANGED <<loop, timer, conn, tag, outbox, token, closed>>
        /\ call[q] = "wait" /\ call' = [call EXCEPT ![q] = "drain"]
    BY <1>4 DEF SendTimeout, loopVars, chanVars
  <2>2. Outcome[q] = "wait" /\ Outcome' = [Outcome EXCEPT ![q] = "drain"]
    BY <1>0, <2>1 DEF Outcome
  <2> QED
    BY <2>1, <2>2, ViewUnchanged DEF C!SendTimeout
<1>5. CASE TakeConnected
  <2>1. /\ UNCHANGED <<loop, timer, conn, tag, call, outbox, closed>>
        /\ token /\ token' = FALSE
    BY <1>5 DEF TakeConnected, loopVars, callVars
  <2>2. C!TakeConnected
    BY <2>1, ViewUnchanged DEF C!TakeConnected
  <2> QED
    BY <2>2 DEF C!ConnNext
<1>6. CASE TakeMessage
  <2>1. Stage = "deliver" /\ Stage' = "online"
        /\ UNCHANGED <<conn, tag, call, outbox, token, closed>>
    BY <1>6 DEF TakeMessage, Stage, chanVars, callVars
  <2>2. C!TakeMessage
    BY <2>1, ViewUnchanged DEF C!TakeMessage, C!Goto
  <2> QED
    BY <2>2 DEF C!ConnNext
<1>7. CASE Close
  <2>1. /\ UNCHANGED <<loop, timer, conn, tag, call, outbox, token>>
        /\ ~closed /\ closed' = TRUE
    BY <1>7 DEF Close, loopVars, callVars
  <2>2. C!Close
    BY <2>1, ViewUnchanged DEF C!Close
  <2> QED
    BY <2>2 DEF C!ConnNext
<1>8. CASE Break \/ TimerFires \/ UNCHANGED vars
  <2>1. UNCHANGED <<loop, conn, tag, call, outbox, token, closed>>
    BY <1>8 DEF Break, TimerFires, vars, loopVars, chanVars, callVars
  <2>2. Stage' = Stage
    BY <1>8 DEF Break, TimerFires, vars, loopVars, Stage
  <2> QED
    BY <2>1, <2>2, ViewUnchanged DEF C!connVars
<1> QED
  BY <1>1, <1>2, <1>3, <1>4, <1>5, <1>6, <1>7, <1>8 DEF Next, C!ConnNext, C!Send

\* The connection is what its clients may take it for (Connection.tla): every
\* step of mainLoop, of the receive goroutines, of the callers and of the
\* network is a step of the abstract connection or one its client cannot
\* tell (loop.go:17-216, connection.go:65-105).
THEOREM ConnectionKeepsItsPromise == Spec => IsConnection
<1>1. Init => C!ConnInit
  BY DEF Init, C!ConnInit, Stage, Written, Outcome
<1>2. IInv /\ Linked /\ [Next]_vars => [C!ConnNext]_(C!connVars)
  BY LoopRefines, OthersRefine
<1> QED
  BY <1>1, <1>2, Invariance, LinkedInvariance, PTL DEF Spec, IsConnection, C!ConnSpec

-----------------------------------------------------------------------------
(* Ids.                                                                    *)

LEMMA NumberedStep == IInv /\ Linked /\ Numbered /\ [Next]_vars => Numbered'
<1> SUFFICES ASSUME IInv, Linked, Numbered, [Next]_vars PROVE Numbered'
  OBVIOUS
<1> USE ConnAssumption
<1>0. /\ Current /\ Fresh /\ Past
      /\ conn \in 0 .. MaxConns /\ nextID \in IDs /\ outbox \in Reqs \union {NoReq}
      /\ tag \in [Reqs -> (Conns \X IDs) \union {<<0, 0>>}]
  BY DEF IInv, Linked, TypeOK
<1>1. CASE UNCHANGED <<conn, tag>> /\ (UNCHANGED nextID \/ loop' = "stopPing")
           /\ (loop' \in {"announce", "select", "deliver", "reply", "evict"} =>
                  loop \in {"announce", "select", "deliver", "reply", "evict"})
  <2>1. \A k : SentOn(k)' = SentOn(k)
    BY <1>1 DEF SentOn
  <2> QED
    BY <1>1, <2>1 DEF Numbered
<1>2. CASE DialOk
  <2>1. /\ conn' = conn + 1 /\ conn' \in Conns /\ nextID' = 1 /\ UNCHANGED tag
        /\ loop' = "announce"
    BY <1>0, <1>2 DEF DialOk, callVars, Conns
  <2>2. \A k : SentOn(k)' = SentOn(k)
    BY <2>1 DEF SentOn
  <2>3. SentOn(conn') = {}
    BY <1>0, <2>1 DEF Numbered
  <2>4. Cardinality(SentOn(conn')) = 0
    BY <2>3, FS_EmptySet
  <2>5. \A k \in Conns : k > conn' => k > conn
    BY <1>0, <2>1 DEF Conns
  <2> QED
    BY <2>1, <2>2, <2>3, <2>4, <2>5 DEF Numbered
<1>3. CASE SelectOutbox
  <2>1. /\ loop = "select" /\ conn' = conn /\ conn \in Conns
        /\ outbox \in Reqs /\ tag[outbox] = <<0, 0>>
        /\ nextID' = NextID(nextID)
    BY <1>0, <1>3 DEF SelectOutbox, Current, Fresh
  <2>2. CASE UNCHANGED tag /\ loop' = "stopPing"
    BY <1>1, <2>1, <2>2
  <2>3. CASE tag' = [tag EXCEPT ![outbox] = <<conn, nextID>>]
    <3> DEFINE n == Cardinality(SentOn(conn))
    <3>1. tag'[outbox] = <<conn, nextID>> /\ \A q \in Reqs \ {outbox} : tag'[q] = tag[q]
      BY <1>0, <2>1, <2>3
    <3>2. outbox \notin SentOn(conn) /\ SentOn(conn)' = SentOn(conn) \union {outbox}
      BY <2>1, <3>1 DEF SentOn, Conns
    <3>3. \A k \in Conns : k # conn => SentOn(k)' = SentOn(k)
      BY <2>1, <3>1 DEF SentOn, Conns
    <3>4. IsFiniteSet(SentOn(conn)) /\ n \in Nat
      BY <2>1, FS_CardinalityType DEF Numbered
    <3>5. IsFiniteSet(SentOn(conn)') /\ Cardinality(SentOn(conn)') = n + 1
      BY <3>2, <3>4, FS_AddElement
    <3>6. /\ n < MaxMsgID => nextID = n + 1
          /\ n <= MaxMsgID => \A q \in SentOn(conn) : tag[q][2] <= n
          /\ n <= MaxMsgID =>
               \A q, r \in SentOn(conn) : tag[q][2] = tag[r][2] => q = r
      BY <2>1 DEF Numbered
    <3>7. \A q \in SentOn(conn) : q \in Reqs /\ tag'[q] = tag[q] /\ tag[q][2] \in IDs
      BY <1>0, <2>1, <3>1, <3>2 DEF SentOn, Conns
    <3> HIDE DEF n
    <3>8. n + 1 <= MaxMsgID =>
            /\ \A q \in SentOn(conn)' : tag'[q][2] <= n + 1
            /\ \A q, r \in SentOn(conn)' : tag'[q][2] = tag'[r][2] => q = r
      <4> SUFFICES ASSUME n + 1 <= MaxMsgID
                   PROVE /\ \A q \in SentOn(conn)' : tag'[q][2] <= n + 1
                         /\ \A q, r \in SentOn(conn)' : tag'[q][2] = tag'[r][2] => q = r
        OBVIOUS
      <4>1. n < MaxMsgID /\ n <= MaxMsgID
        BY <3>4
      <4>2. tag'[outbox][2] = n + 1
        BY <3>1, <3>6, <4>1
      <4>3. \A q \in SentOn(conn) : tag'[q][2] <= n /\ tag'[q][2] \in Int
        BY <3>6, <3>7, <4>1 DEF IDs
      <4>4. \A q, r \in SentOn(conn) : tag'[q][2] = tag'[r][2] => q = r
        BY <3>6, <3>7, <4>1
      <4> QED
        BY <3>2, <3>4, <4>2, <4>3, <4>4
    <3>9. n + 1 < MaxMsgID => nextID' = n + 2
      BY <2>1, <3>4, <3>6 DEF NextID
    <3>10. \A k \in Conns :
             /\ IsFiniteSet(SentOn(k)')
             /\ k > conn => SentOn(k)' = {}
             /\ Cardinality(SentOn(k)') <= MaxMsgID =>
                  \A q, r \in SentOn(k)' : tag'[q][2] = tag'[r][2] => q = r
      <4> SUFFICES ASSUME NEW k \in Conns
                   PROVE  /\ IsFiniteSet(SentOn(k)')
                          /\ k > conn => SentOn(k)' = {}
                          /\ Cardinality(SentOn(k)') <= MaxMsgID =>
                               \A q, r \in SentOn(k)' : tag'[q][2] = tag'[r][2] => q = r
        OBVIOUS
      <4>1. CASE k = conn
        <5>1. ~(k > conn)
          BY <2>1, <4>1 DEF Conns
        <5>2. SentOn(k)' = SentOn(conn)'
          BY <2>1, <4>1 DEF SentOn
        <5>3. n + 1 <= MaxMsgID \/ ~(Cardinality(SentOn(conn)') <= MaxMsgID)
          BY <3>5
        <5> QED
          BY <3>5, <3>8, <5>1, <5>2, <5>3
      <4>2. CASE k # conn
        <5>1. \A q \in SentOn(k) : tag'[q] = tag[q]
          BY <2>1, <3>1, <4>2 DEF SentOn, Conns
        <5> QED
          BY <3>3, <4>2, <5>1 DEF Numbered
      <4> QED
        BY <4>1, <4>2
    <3> QED
      BY <2>1, <3>4, <3>5, <3>8, <3>9, <3>10 DEF Numbered
  <2> QED
    BY <1>3, <2>2, <2>3 DEF SelectOutbox
<1> QED
  <2>1. CASE MainLoop /\ ~DialOk /\ ~SelectOutbox
    <3>1. UNCHANGED <<conn, tag, nextID>>
      BY <2>1 DEF MainLoop, DialFail, BackoffExpire, BackoffClose, Announce,
         SelectClose, SelectPing, SelectInboxClosed, SelectProps, SelectNoise,
         SelectEvent, SelectReply, Receive, SendReply, Hand, StopPing,
         CleanReply, CloseConn, callVars
    <3>2. loop' \in {"announce", "select", "deliver", "reply", "evict"} =>
            loop \in {"announce", "select", "deliver", "reply", "evict"}
      BY <2>1 DEF MainLoop, DialFail, BackoffExpire, BackoffClose, Announce,
         SelectClose, SelectPing, SelectInboxClosed, SelectProps, SelectNoise,
         SelectEvent, SelectReply, Receive, SendReply, StopPing, CleanReply,
         CloseConn
    <3> QED
      BY <1>1, <3>1, <3>2
  <2>2. CASE ~MainLoop
    BY <1>1, <2>2 DEF Next, Receiver, vars, loopVars, callVars, RcvTop,
       RcvFrame, RcvFail, SendBegin, SendEnqueue, SendTimeout, TakeConnected,
       TakeMessage, Close, Break, TimerFires
  <2> QED
    BY <1>2, <1>3, <2>1, <2>2 DEF MainLoop

LEMMA NumberedInvariance == Spec => []Numbered
<1>1. Init => Numbered
  <2> SUFFICES ASSUME Init PROVE Numbered
    OBVIOUS
  <2>1. \A k \in Conns : SentOn(k) = {}
    BY DEF Init, SentOn, Conns
  <2> QED
    BY <2>1, FS_EmptySet DEF Init, Numbered
<1>2. IInv /\ Linked /\ Numbered /\ [Next]_vars => Numbered'
  BY NumberedStep
<1> QED
  BY <1>1, <1>2, Invariance, LinkedInvariance, PTL DEF Spec

\* A call gets a reply that is not its own only after more requests went out
\* on its connection than there are ids (connection.go:25, loop.go:113-130):
\* with maxMsgID requests at most on each connection, every reply is right.
THEOREM WrongReplyOnlyAfterWrap == Spec => []WrongReplyNeedsWrap
<1>1. IInv /\ Numbered => WrongReplyNeedsWrap
  <2> SUFFICES ASSUME IInv, Numbered, NEW q \in Reqs, answer[q] \notin {NoReq, q}
               PROVE  Cardinality(SentOn(tag[q][1])) > MaxMsgID
    BY DEF WrongReplyNeedsWrap
  <2> DEFINE r == answer[q]
             k == tag[q][1]
  <2>1. r \in Reqs /\ r # q /\ tag[r] = tag[q] /\ tag[q] # <<0, 0>>
    BY DEF IInv, TypeOK, Tagged
  <2>2. k \in Conns
    BY <2>1 DEF IInv, TypeOK
  <2>3. q \in SentOn(k) /\ r \in SentOn(k) /\ tag[q][2] = tag[r][2]
    BY <2>1 DEF SentOn
  <2>4. Cardinality(SentOn(k)) \in Nat
    BY <2>2, FS_CardinalityType DEF Numbered
  <2>5. ~(Cardinality(SentOn(k)) <= MaxMsgID)
    BY <2>1, <2>2, <2>3 DEF Numbered
  <2> QED
    BY <2>4, <2>5, ConnAssumption
<1> QED
  BY <1>1, Invariance, NumberedInvariance, PTL
=============================================================================
