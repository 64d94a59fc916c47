---------------------------- MODULE SocketIOProofs ----------------------------
(***************************************************************************)
(* Theorems about the realtime connection, for every number of calls and   *)
(* of connections and every maxMsgID.                                      *)
(*                                                                         *)
(* The argument: a call of Send is in one place only (Placed, Single), and *)
(* as long as it is in one, somebody receives from its reply channel       *)
(* (Owed).  For the ids: a call in the reply map, a request at the server  *)
(* and a reply under way all carry the tag the call was written with       *)
(* (Tagged), and a tag, once given, does not change (Fresh).               *)
(***************************************************************************)
EXTENDS SocketIO, FiniteSetTheorems, TLAPS

Owed(q) == call[q] \in {"wait", "drain"}

\* mainLoop holds a target exactly while it sends a reply.
Placed ==
  /\ loop \in {"reply", "evict"} <=> target # NoReq
  /\ loop \in {"dial", "backoff", "announce", "done"} =>
       \A id \in IDs : replyMap[id] = NoReq

\* Whoever is in the outbox, in the reply map or being answered is waiting.
Waiting ==
  /\ outbox # NoReq => Owed(outbox)
  /\ target # NoReq => Owed(target)
  /\ \A id \in IDs : replyMap[id] # NoReq => Owed(replyMap[id])

\* Nobody is in two of these places.
Single ==
  /\ outbox # NoReq => outbox # target
  /\ \A id \in IDs : replyMap[id] # NoReq =>
       /\ replyMap[id] # outbox
       /\ replyMap[id] # target
  /\ \A i, j \in IDs : replyMap[i] # NoReq /\ replyMap[i] = replyMap[j] => i = j

\* There is a current connection in the message loop and its cleanup, and
\* later connections do not exist yet.
Current ==
  /\ loop \in {"announce", "select", "deliver", "reply", "evict", "stopPing",
               "cleanup"} => conn \in Conns
  /\ loop = "announce" => rcv[conn] = "none"
  /\ \A k \in Conns : k > conn => rcv[k] = "none"
  /\ conn \in Conns /\ rcv[conn] = "read" => source[conn] = conn

\* A call gets its tag when it leaves the outbox.
Fresh ==
  /\ \A q \in Reqs : call[q] \in {"idle", "enqueue"} => tag[q] = <<0, 0>>
  /\ outbox # NoReq => tag[outbox] = <<0, 0>>

\* Everything that refers to a request written with an id has its tag.
Tagged ==
  /\ \A id \in IDs : replyMap[id] # NoReq => tag[replyMap[id]] = <<conn, id>>
  /\ \A k \in Conns : \A a \in asked[k] : tag[a[2]] = <<k, a[1]>>
  /\ conn \in Conns /\ rcv[conn] = "put" /\ frame[conn].kind = "ack" =>
       tag[frame[conn].req] = <<conn, frame[conn].id>>
  /\ value # NoReq =>
       target # NoReq /\ tag[value] = tag[target] /\ tag[value] # <<0, 0>>
  /\ \A q \in Reqs : answer[q] # NoReq =>
       tag[answer[q]] = tag[q] /\ tag[q] # <<0, 0>>

IInv ==
  /\ TypeOK /\ Placed /\ Waiting /\ Single /\ Current /\ Fresh /\ Tagged

\* Variable by variable, for the actions that change several of them.
LEMMA TypeStep == IInv /\ [Next]_vars => TypeOK'
<1> SUFFICES ASSUME IInv, [Next]_vars PROVE TypeOK'
  OBVIOUS
<1> USE ConnAssumption DEF IDs, Conns
<1>0. TypeOK /\ Current /\ Noise \in Frames
  BY DEF IInv, Noise, Frames, Plain
<1>1. CASE DialFail
  BY <1>0, <1>1 DEF DialFail, TypeOK, LoopStates, rcvVars, chanVars, callVars
<1>2. CASE DialOk
  <2>1. conn' \in 0 .. MaxConns /\ conn + 1 \in Conns
    BY <1>0, <1>2 DEF DialOk, TypeOK
  <2>2. link' \in [Conns -> {"none", "up", "broken", "closed"}]
    BY <1>0, <1>2, <2>1 DEF DialOk, TypeOK
  <2>3. replyMap' \in [IDs -> Reqs \union {NoReq}] /\ nextID' \in IDs
    BY <1>2 DEF DialOk
  <2>4. interval' \in InitialInterval .. MaxInterval /\ loop' \in LoopStates
    BY <1>2 DEF DialOk, LoopStates
  <2> QED
    BY <1>0, <1>2, <2>1, <2>2, <2>3, <2>4
    DEF DialOk, TypeOK, rcvVars, chanVars, callVars
<1>3. CASE BackoffExpire
  <2>1. interval' \in InitialInterval .. MaxInterval
    <3> DEFINE i == (interval * 3) \div 2
    <3>1. interval \in InitialInterval .. MaxInterval /\ interval' = Longer(interval)
      BY <1>0, <1>3 DEF BackoffExpire, TypeOK
    <3>2. i \in Int /\ i >= interval
      BY <3>1
    <3> QED
      BY <3>1, <3>2 DEF Longer
  <2> QED
    BY <1>0, <1>3, <2>1 DEF BackoffExpire, TypeOK, LoopStates, rcvVars, chanVars, callVars
<1>4. CASE BackoffClose
  BY <1>0, <1>4 DEF BackoffClose, TypeOK, LoopStates, rcvVars, chanVars,
     callVars
<1>5. CASE Announce
  BY <1>0, <1>5 DEF Announce, TypeOK, Current, LoopStates, callVars
<1>6. CASE SelectClose
  BY <1>0, <1>6 DEF SelectClose, TypeOK, LoopStates, rcvVars, chanVars,
     callVars
<1>7. CASE SelectPing
  BY <1>0, <1>7 DEF SelectPing, WriteOk, WriteFail, TypeOK, LoopStates,
     rcvVars, chanVars, callVars
<1>8. CASE SelectInboxClosed
  BY <1>0, <1>8 DEF SelectInboxClosed, TypeOK, LoopStates, rcvVars, chanVars,
     callVars
<1>9. CASE SelectProps
  BY <1>0, <1>9 DEF SelectProps, Receive, StopTimer, TypeOK, Current,
     chanVars, callVars
<1>10. CASE SelectNoise
  BY <1>0, <1>10 DEF SelectNoise, Receive, TypeOK, Current, chanVars, callVars
<1>11. CASE SelectEvent
  BY <1>0, <1>11 DEF SelectEvent, Receive, TypeOK, Current, LoopStates,
     chanVars, callVars
<1>12. CASE SelectReply
  <2>1. conn \in Conns /\ frame[conn] \in Frames /\ frame[conn].kind = "ack"
    BY <1>0, <1>12 DEF SelectReply, Receive, TypeOK, Current
  <2>2. frame[conn].id \in IDs /\ frame[conn].req \in Reqs
    BY <2>1 DEF Frames, Plain, Acks
  <2>3. /\ replyMap' \in [IDs -> Reqs \union {NoReq}]
        /\ target' \in Reqs \union {NoReq} /\ value' \in Reqs \union {NoReq}
        /\ loop' \in LoopStates
    BY <1>0, <1>12, <2>2 DEF SelectReply, Receive, Without, TypeOK, LoopStates
  <2>4. /\ rcv' \in [Conns -> {"none", "top", "read", "put", "end"}]
        /\ frame' \in [Conns -> Frames]
    BY <1>0, <1>12, <2>1 DEF SelectReply, Receive, TypeOK
  <2> QED
    BY <1>0, <1>12, <2>3, <2>4 DEF SelectReply, Receive, TypeOK, chanVars, callVars
<1>13. CASE SelectOutbox
  <2>1. conn \in Conns /\ outbox \in Reqs /\ nextID \in IDs /\ outbox' = NoReq
    BY <1>0, <1>13 DEF SelectOutbox, TypeOK, Current
  <2>2. nextID' \in IDs /\ loop' \in LoopStates
    BY <1>0, <1>13, <2>1 DEF SelectOutbox, NextID, TypeOK, LoopStates
  <2>3. /\ replyMap' \in [IDs -> Reqs \union {NoReq}]
        /\ target' \in Reqs \union {NoReq} /\ value' \in Reqs \union {NoReq}
    <3>1. replyMap \in [IDs -> Reqs \union {NoReq}] /\ target \in Reqs \union {NoReq}
          /\ value \in Reqs \union {NoReq}
      BY <1>0 DEF TypeOK
    <3>2. \/ UNCHANGED <<replyMap, target, value>>
          \/ /\ replyMap' = Entered(nextID, outbox)
             /\ target' = replyMap[nextID] /\ value' = NoReq
      BY <1>13 DEF SelectOutbox
    <3> HIDE DEF IDs, Conns
    <3> QED
      BY <2>1, <3>1, <3>2 DEF Entered
  <2>4. tag' \in [Reqs -> (Conns \X IDs) \union {<<0, 0>>}]
    <3>1. <<conn, nextID>> \in Conns \X IDs
      BY <2>1
    <3>2. tag' = tag \/ tag' = [tag EXCEPT ![outbox] = <<conn, nextID>>]
      BY <1>13 DEF SelectOutbox
    <3> QED
      BY <1>0, <3>1, <3>2 DEF TypeOK
  <2>5. asked' \in [Conns -> SUBSET (IDs \X Reqs)]
    <3>1. <<nextID, outbox>> \in IDs \X Reqs
      BY <2>1
    <3>2. \/ asked' = asked
          \/ asked' = [asked EXCEPT ![conn] = @ \union {<<nextID, outbox>>}]
      BY <1>13 DEF SelectOutbox
    <3>3. asked[conn] \union {<<nextID, outbox>>} \in SUBSET (IDs \X Reqs)
      BY <1>0, <2>1, <3>1 DEF TypeOK
    <3>4. asked \in [Conns -> SUBSET (IDs \X Reqs)]
      BY <1>0 DEF TypeOK
    <3> HIDE DEF IDs, Conns
    <3> QED
      BY <2>1, <3>2, <3>3, <3>4
  <2> QED
    BY <1>0, <1>13, <2>1, <2>2, <2>3, <2>4, <2>5 DEF SelectOutbox, TypeOK
<1>14. CASE SendReply
  BY <1>0, <1>14 DEF SendReply, Hand, CanTake, TypeOK, LoopStates, CallStates,
     rcvVars, chanVars
<1>15. CASE StopPing
  BY <1>0, <1>15 DEF StopPing, StopTimer, TypeOK, LoopStates, rcvVars,
     chanVars, callVars
<1>16. CASE CleanReply
  <2>1. PICK id \in IDs : /\ replyMap[id] # NoReq
                          /\ Hand(replyMap[id], NoReq)
                          /\ replyMap' = Without(id)
    BY <1>16 DEF CleanReply
  <2>2. replyMap[id] \in Reqs /\ replyMap' \in [IDs -> Reqs \union {NoReq}]
    BY <1>0, <2>1 DEF Without, TypeOK
  <2>3. /\ call' \in [Reqs -> CallStates] /\ answer' \in [Reqs -> Reqs \union {NoReq}]
        /\ tag' = tag
    BY <1>0, <2>1, <2>2 DEF Hand, CanTake, TypeOK, CallStates
  <2> QED
    BY <1>0, <1>16, <2>2, <2>3 DEF CleanReply, TypeOK, rcvVars, chanVars
<1>17. CASE CloseConn
  BY <1>0, <1>17 DEF CloseConn, TypeOK, Current, LoopStates, rcvVars,
     chanVars, callVars
<1>18. ASSUME NEW k \in Conns, RcvTop(k) PROVE TypeOK'
  <2>1. rcv[k] = "top" /\ k \in 1 .. MaxConns /\ conn \in 0 .. MaxConns
    BY <1>0, <1>18 DEF RcvTop, TypeOK
  <2>2. ~(k > conn)
    BY <1>0, <2>1 DEF Current
  <2>3. conn \in Conns
    BY <2>1, <2>2
  <2> QED
    BY <1>0, <1>18, <2>3 DEF RcvTop, TypeOK, loopVars, chanVars, callVars
<1>19. ASSUME NEW k \in Conns, RcvFrame(k) PROVE TypeOK'
  <2>1. source[k] \in Conns
    BY <1>0 DEF TypeOK
  <2>2. /\ rcv' \in [Conns -> {"none", "top", "read", "put", "end"}]
        /\ source' \in [Conns -> Conns]
    BY <1>0, <1>19 DEF RcvFrame, TypeOK
  <2>3. frame' \in [Conns -> Frames] /\ asked' \in [Conns -> SUBSET (IDs \X Reqs)]
    <3>1. CASE \E f \in Plain : frame' = [frame EXCEPT ![k] = f] /\ asked' = asked
      BY <1>0, <3>1 DEF TypeOK, Frames
    <3>2. ASSUME NEW a \in asked[source[k]],
                 frame' = [frame EXCEPT ![k] = [kind |-> "ack", id |-> a[1], req |-> a[2]]],
                 asked' = [asked EXCEPT ![source[k]] = @ \ {a}]
          PROVE  frame' \in [Conns -> Frames] /\ asked' \in [Conns -> SUBSET (IDs \X Reqs)]
      <4>1. a \in IDs \X Reqs
        BY <1>0, <2>1, <3>2 DEF TypeOK
      <4>2. [kind |-> "ack", id |-> a[1], req |-> a[2]] \in Frames
        BY <4>1 DEF Frames, Acks
      <4> QED
        BY <1>0, <2>1, <3>2, <4>2 DEF TypeOK
    <3> QED
      BY <1>19, <3>1, <3>2 DEF RcvFrame
  <2> QED
    BY <1>0, <1>19, <2>2, <2>3 DEF RcvFrame, TypeOK, loopVars, chanVars, callVars
<1>20. ASSUME NEW k \in Conns, RcvFail(k) PROVE TypeOK'
  BY <1>0, <1>20 DEF RcvFail, TypeOK, loopVars, chanVars, callVars
<1>21. ASSUME NEW q \in Reqs, SendBegin(q) PROVE TypeOK'
  BY <1>0, <1>21 DEF SendBegin, TypeOK, CallStates, loopVars, rcvVars,
     chanVars
<1>22. ASSUME NEW q \in Reqs, SendEnqueue(q) PROVE TypeOK'
  BY <1>0, <1>22 DEF SendEnqueue, TypeOK, CallStates, loopVars, rcvVars
<1>23. ASSUME NEW q \in Reqs, SendTimeout(q) PROVE TypeOK'
  BY <1>0, <1>23 DEF SendTimeout, TypeOK, CallStates, loopVars, rcvVars,
     chanVars
<1>24. CASE TakeConnected
  BY <1>0, <1>24 DEF TakeConnected, TypeOK, loopVars, rcvVars, callVars
<1>25. CASE TakeMessage
  BY <1>0, <1>25 DEF TakeMessage, TypeOK, LoopStates, rcvVars, chanVars,
     callVars
<1>26. CASE Close
  BY <1>0, <1>26 DEF Close, TypeOK, loopVars, rcvVars, callVars
<1>27. CASE Break
  BY <1>0, <1>27 DEF Break, TypeOK, Current, rcvVars, chanVars, callVars
<1>28. CASE TimerFires
  BY <1>0, <1>28 DEF TimerFires, TypeOK, rcvVars, chanVars, callVars
<1>29. CASE UNCHANGED vars
  BY <1>0, <1>29 DEF TypeOK, vars, loopVars, rcvVars, chanVars, callVars
<1> QED
  BY <1>1, <1>2, <1>3, <1>4, <1>5, <1>6, <1>7, <1>8, <1>9, <1>10, <1>11,
     <1>12, <1>13, <1>14, <1>15, <1>16, <1>17, <1>18, <1>19, <1>20, <1>21,
     <1>22, <1>23, <1>24, <1>25, <1>26, <1>27, <1>28, <1>29 DEF Next,
     MainLoop, Receiver

\* Which actions touch the places a call can be in.
LEMMA PlaceActions ==
  [Next]_vars =>
    \/ DialOk \/ SelectReply \/ SelectOutbox \/ SendReply \/ CleanReply
    \/ \E q \in Reqs : SendBegin(q) \/ SendEnqueue(q) \/ SendTimeout(q)
    \/ UNCHANGED <<outbox, target, replyMap, call>>
  BY DEF Next, MainLoop, Receiver, vars, loopVars, rcvVars, chanVars, callVars,
         DialFail, BackoffExpire, BackoffClose, Announce, SelectClose,
         SelectPing, SelectInboxClosed, SelectProps, SelectNoise, SelectEvent,
         Receive, StopPing, CloseConn, RcvTop, RcvFrame, RcvFail,
         TakeConnected, TakeMessage, Close, Break, TimerFires

\* Whatever is in one of the places is there once, and somebody waits for it.
LEMMA PlaceStep == IInv /\ [Next]_vars => Waiting' /\ Single'
<1> SUFFICES ASSUME IInv, [Next]_vars PROVE Waiting' /\ Single'
  OBVIOUS
<1> USE ConnAssumption
<1>0. Waiting /\ Single /\ Placed
  BY DEF IInv
<1>1. /\ replyMap \in [IDs -> Reqs \union {NoReq}]
      /\ target \in Reqs \union {NoReq} /\ outbox \in Reqs \union {NoReq}
      /\ call \in [Reqs -> CallStates] /\ nextID \in IDs
  BY DEF IInv, TypeOK
<1>2. CASE DialOk
  BY <1>0, <1>2 DEF DialOk, Placed, Waiting, Single, Owed, chanVars, callVars
<1>3. CASE SelectReply
  <2>1. CASE replyMap[frame[conn].id] = NoReq
    BY <1>0, <1>3, <2>1 DEF SelectReply, Receive, Waiting, Single, Owed, chanVars, callVars
  <2>2. CASE replyMap[frame[conn].id] # NoReq
    <3>1. loop = "select" /\ UNCHANGED <<outbox, call>>
      BY <1>3 DEF SelectReply, Receive, chanVars, callVars
    <3>2. target = NoReq
      BY <1>0, <3>1 DEF Placed
    <3>3. frame[conn].id \in IDs
      <4>1. conn \in Conns /\ frame[conn] \in Frames /\ frame[conn].kind = "ack"
        BY <1>3, <3>1 DEF SelectReply, IInv, TypeOK, Current
      <4> QED
        BY <4>1 DEF Frames, Plain, Acks
    <3>4. /\ replyMap' = Without(frame[conn].id)
          /\ target' = replyMap[frame[conn].id]
      BY <1>3, <2>2 DEF SelectReply
    <3> QED
      BY <1>0, <1>1, <3>1, <3>2, <3>3, <3>4, <2>2 DEF Without, Waiting, Single, Owed
  <2> QED
    BY <2>1, <2>2
<1>4. CASE SelectOutbox
  <2>1. loop = "select" /\ outbox # NoReq /\ outbox' = NoReq /\ call' = call
    BY <1>4 DEF SelectOutbox
  <2>2. target = NoReq
    BY <1>0, <2>1 DEF Placed
  <2>3. CASE UNCHANGED <<replyMap, target>>
    BY <1>0, <1>1, <2>1, <2>3 DEF Waiting, Single, Owed
  <2>4. CASE replyMap' = Entered(nextID, outbox) /\ target' = replyMap[nextID]
    BY <1>0, <1>1, <2>1, <2>2, <2>4 DEF Entered, Waiting, Single, Owed
  <2> QED
    BY <1>4, <2>3, <2>4 DEF SelectOutbox
<1>5. CASE SendReply
  <2>1. /\ target \in Reqs /\ target # NoReq /\ target' = NoReq
        /\ UNCHANGED <<replyMap, outbox>>
        /\ call' = [call EXCEPT ![target] = call'[target]]
    BY <1>1, <1>5 DEF SendReply, Hand, CanTake, chanVars
  <2> QED
    BY <1>0, <1>1, <2>1 DEF Waiting, Single, Owed
<1>6. CASE CleanReply
  <2>1. PICK id \in IDs : /\ replyMap[id] # NoReq
                          /\ Hand(replyMap[id], NoReq)
                          /\ replyMap' = Without(id)
    BY <1>6 DEF CleanReply
  <2>2. /\ replyMap[id] \in Reqs
        /\ UNCHANGED <<outbox, target>>
        /\ call' = [call EXCEPT ![replyMap[id]] = call'[replyMap[id]]]
    BY <1>1, <1>6, <2>1 DEF CleanReply, Hand, CanTake, chanVars
  <2> QED
    BY <1>0, <1>1, <2>1, <2>2 DEF Without, Waiting, Single, Owed
<1>7. ASSUME NEW q \in Reqs, SendBegin(q) \/ SendTimeout(q)
      PROVE  Waiting' /\ Single'
  <2>1. /\ UNCHANGED <<outbox, target, replyMap>>
        /\ \/ call[q] = "idle" /\ call' = [call EXCEPT ![q] = "enqueue"]
           \/ call[q] = "wait" /\ call' = [call EXCEPT ![q] = "drain"]
    BY <1>7 DEF SendBegin, SendTimeout, loopVars, chanVars
  <2> QED
    BY <1>0, <1>1, <2>1 DEF Waiting, Single, Owed
<1>8. ASSUME NEW q \in Reqs, SendEnqueue(q)
      PROVE  Waiting' /\ Single'
  <2>1. /\ outbox' = q /\ call[q] = "enqueue" /\ outbox = NoReq
        /\ call' = [call EXCEPT ![q] = "wait"]
        /\ UNCHANGED <<target, replyMap>>
    BY <1>8 DEF SendEnqueue, loopVars
  <2>2. target # q /\ \A id \in IDs : replyMap[id] # q
    BY <1>0, <2>1 DEF Waiting, Owed
  <2> QED
    BY <1>0, <1>1, <2>1, <2>2 DEF Waiting, Single, Owed
<1>9. CASE UNCHANGED <<outbox, target, replyMap, call>>
  BY <1>0, <1>9 DEF Waiting, Single, Owed
<1> QED
  BY <1>2, <1>3, <1>4, <1>5, <1>6, <1>7, <1>8, <1>9, PlaceActions

\* mainLoop has a target exactly in the states where it sends a reply, and
\* outside the message loop the reply map is empty.
LEMMA PlacedStep == IInv /\ [Next]_vars => Placed'
<1> SUFFICES ASSUME IInv, [Next]_vars PROVE Placed'
  OBVIOUS
<1> USE ConnAssumption
<1>0. Placed
  BY DEF IInv
<1>1. CASE DialOk
  BY <1>0, <1>1 DEF DialOk, Placed
<1>2. CASE SelectReply
  <2>1. conn \in Conns /\ frame[conn] \in Frames /\ frame[conn].kind = "ack"
    BY <1>2 DEF SelectReply, Receive, IInv, TypeOK, Current
  <2> QED
    BY <1>0, <1>2, <2>1 DEF SelectReply, Receive, Placed
<1>3. CASE SelectOutbox
  BY <1>0, <1>3 DEF SelectOutbox, Placed
<1>4. CASE SendReply
  BY <1>0, <1>4 DEF SendReply, Placed
<1>5. CASE CleanReply
  BY <1>0, <1>5 DEF CleanReply, Placed
<1>6. CASE CloseConn
  BY <1>0, <1>6 DEF CloseConn, Placed
<1>7. CASE \/ DialFail \/ BackoffExpire \/ BackoffClose \/ Announce
           \/ SelectClose \/ SelectPing \/ SelectInboxClosed \/ SelectProps
           \/ SelectNoise \/ SelectEvent \/ StopPing \/ TakeMessage
  BY <1>0, <1>7 DEF Placed, DialFail, BackoffExpire, BackoffClose, Announce,
     SelectClose, SelectPing, SelectInboxClosed, SelectProps, SelectNoise,
     SelectEvent, StopPing, TakeMessage, Receive
<1>8. CASE UNCHANGED <<loop, target, replyMap>>
  BY <1>0, <1>8 DEF Placed
<1> QED
  <2>1. \/ MainLoop \/ TakeMessage \/ UNCHANGED <<loop, target, replyMap>>
    BY DEF Next, Receiver, vars, loopVars, RcvTop, RcvFrame, RcvFail, SendBegin,
       SendEnqueue, SendTimeout, TakeConnected, Close, Break, TimerFires
  <2> QED
    BY <1>1, <1>2, <1>3, <1>4, <1>5, <1>6, <1>7, <1>8, <2>1 DEF MainLoop

\* A connection that is used has been dialled, and its receive goroutine
\* reads it and no other.
LEMMA CurrentStep == IInv /\ [Next]_vars => Current'
<1> SUFFICES ASSUME IInv, [Next]_vars PROVE Current'
  OBVIOUS
<1> USE ConnAssumption
<1>0. Current /\ TypeOK
  BY DEF IInv
<1>1. conn \in 0 .. MaxConns /\ rcv \in [Conns -> {"none", "top", "read", "put", "end"}]
      /\ source \in [Conns -> Conns]
  BY <1>0 DEF TypeOK
<1>2. CASE DialOk
  <2>1. /\ conn + 1 \in Conns /\ conn' = conn + 1 /\ loop' = "announce"
        /\ UNCHANGED <<rcv, source>>
    BY <1>1, <1>2 DEF DialOk, Conns, rcvVars
  <2>2. rcv[conn + 1] = "none" /\ \A k \in Conns : k > conn + 1 => rcv[k] = "none"
    BY <1>0, <1>1, <2>1 DEF Current, Conns
  <2> QED
    BY <2>1, <2>2 DEF Current
<1>3. CASE Announce
  BY <1>0, <1>1, <1>3 DEF Announce, Current, Conns
<1>4. CASE SelectProps \/ SelectNoise \/ SelectEvent \/ SelectReply
  <2>1. /\ loop = "select" /\ rcv' = [rcv EXCEPT ![conn] = "top"]
        /\ UNCHANGED <<conn, source>> /\ loop' # "announce"
    BY <1>4 DEF SelectProps, SelectNoise, SelectEvent, SelectReply, Receive
  <2> QED
    BY <1>0, <1>1, <2>1 DEF Current, Conns
<1>5. ASSUME NEW k \in Conns, Receiver(k) PROVE Current'
  <2>1. /\ rcv[k] \in {"top", "read"} /\ UNCHANGED <<loop, conn>>
        /\ rcv' = [rcv EXCEPT ![k] = rcv'[k]]
        /\ \/ rcv'[k] # "read" /\ source' = [source EXCEPT ![k] = k]
           \/ source' = [source EXCEPT ![k] = conn]
    BY <1>1, <1>5 DEF Receiver, RcvTop, RcvFrame, RcvFail, loopVars
  <2>2. ~(k > conn)
    BY <1>0, <2>1 DEF Current
  <2>3. loop = "announce" => k # conn
    BY <1>0, <2>1 DEF Current
  <2> QED
    BY <1>0, <1>1, <2>1, <2>2, <2>3 DEF Current, Conns
<1>6. CASE /\ UNCHANGED <<conn, rcv, source>>
           /\ loop' = loop \/ loop' \in {"dial", "backoff", "done"}
              \/ (loop \in {"select", "deliver", "reply", "evict", "stopPing", "cleanup"}
                  /\ loop' # "announce")
  BY <1>0, <1>6 DEF Current
<1> QED
  <2>1. CASE DialFail \/ BackoffExpire \/ BackoffClose \/ SelectClose \/ SelectPing
    BY <1>6, <2>1 DEF DialFail, BackoffExpire, BackoffClose, SelectClose, SelectPing, rcvVars
  <2>2. CASE SelectInboxClosed \/ SelectOutbox \/ SendReply \/ StopPing
    BY <1>6, <2>2 DEF SelectInboxClosed, SelectOutbox, SendReply, StopPing, rcvVars
  <2>3. CASE CleanReply \/ CloseConn \/ TakeMessage \/ Break
    BY <1>6, <2>3 DEF CleanReply, CloseConn, TakeMessage, Break, rcvVars
  <2>4. CASE TakeConnected \/ Close \/ TimerFires \/ UNCHANGED vars
    BY <1>6, <2>4 DEF TakeConnected, Close, TimerFires, vars, loopVars, rcvVars
  <2>5. ASSUME NEW q \in Reqs, SendBegin(q) \/ SendEnqueue(q) \/ SendTimeout(q)
        PROVE  Current'
    BY <1>6, <2>5 DEF SendBegin, SendEnqueue, SendTimeout, loopVars, rcvVars
  <2> QED
    BY <1>2, <1>3, <1>4, <1>5, <2>1, <2>2, <2>3, <2>4, <2>5 DEF Next, MainLoop

\* A call has no tag before it leaves the outbox.
LEMMA FreshStep == IInv /\ [Next]_vars => Fresh'
<1> SUFFICES ASSUME IInv, [Next]_vars PROVE Fresh'
  OBVIOUS
<1> USE ConnAssumption
<1>0. Fresh /\ Waiting
  BY DEF IInv
<1>1. /\ replyMap \in [IDs -> Reqs \union {NoReq}]
      /\ target \in Reqs \union {NoReq} /\ outbox \in Reqs \union {NoReq}
      /\ call \in [Reqs -> CallStates]
      /\ tag \in [Reqs -> (Conns \X IDs) \union {<<0, 0>>}]
  BY DEF IInv, TypeOK
<1>2. CASE DialOk \/ SelectReply
  BY <1>0, <1>2 DEF DialOk, SelectReply, Receive, Fresh, chanVars, callVars
<1>3. CASE SelectOutbox
  <2>1. /\ outbox # NoReq /\ outbox' = NoReq /\ call' = call
        /\ tag' = tag \/ tag' = [tag EXCEPT ![outbox] = <<conn, nextID>>]
    BY <1>3 DEF SelectOutbox
  <2>2. call[outbox] \notin {"idle", "enqueue"}
    BY <1>0, <2>1 DEF Waiting, Owed
  <2> QED
    BY <1>0, <1>1, <2>1, <2>2 DEF Fresh
<1>4. CASE SendReply \/ CleanReply
  <2>1. PICK q \in Reqs : /\ call' = [call EXCEPT ![q] = call'[q]]
                          /\ call'[q] \in {"gone", "failed", "replied"}
                          /\ UNCHANGED <<tag, outbox>>
    BY <1>1, <1>4 DEF SendReply, CleanReply, Hand, CanTake, chanVars
  <2> QED
    BY <1>0, <1>1, <2>1 DEF Fresh
<1>5. ASSUME NEW q \in Reqs, SendBegin(q) \/ SendEnqueue(q) \/ SendTimeout(q)
      PROVE  Fresh'
  <2>1. /\ tag' = tag
        /\ \/ call[q] = "idle" /\ call' = [call EXCEPT ![q] = "enqueue"] /\ outbox' = outbox
           \/ call[q] = "enqueue" /\ call' = [call EXCEPT ![q] = "wait"] /\ outbox' = q
           \/ call' = [call EXCEPT ![q] = "drain"] /\ outbox' = outbox
    BY <1>5 DEF SendBegin, SendEnqueue, SendTimeout, chanVars
  <2> QED
    BY <1>0, <1>1, <2>1 DEF Fresh
<1>6. CASE UNCHANGED <<outbox, call, tag>>
  BY <1>0, <1>6 DEF Fresh
<1> QED
  <2>1. \/ UNCHANGED <<outbox, call, tag>>
        \/ DialOk \/ SelectReply \/ SelectOutbox \/ SendReply \/ CleanReply
        \/ \E q \in Reqs : SendBegin(q) \/ SendEnqueue(q) \/ SendTimeout(q)
    BY DEF Next, MainLoop, Receiver, vars, loopVars, rcvVars, chanVars, callVars,
       DialFail, BackoffExpire, BackoffClose, Announce, SelectClose,
       SelectPing, SelectInboxClosed, SelectProps, SelectNoise, SelectEvent,
       Receive, StopPing, CloseConn, RcvTop, RcvFrame, RcvFail,
       TakeConnected, TakeMessage, Close, Break, TimerFires
  <2> QED
    BY <1>2, <1>3, <1>4, <1>5, <1>6, <2>1

\* Calls, requests at the server, frames and answers agree on the tags.
LEMMA TaggedStep == IInv /\ [Next]_vars => Tagged'
<1> SUFFICES ASSUME IInv, [Next]_vars PROVE Tagged'
  OBVIOUS
<1> USE ConnAssumption
<1>0. Tagged /\ Fresh /\ Current /\ Placed /\ Single
  BY DEF IInv
<1>1. /\ replyMap \in [IDs -> Reqs \union {NoReq}] /\ nextID \in IDs
      /\ target \in Reqs \union {NoReq} /\ outbox \in Reqs \union {NoReq}
      /\ value \in Reqs \union {NoReq}
      /\ call \in [Reqs -> CallStates] /\ answer \in [Reqs -> Reqs \union {NoReq}]
      /\ tag \in [Reqs -> (Conns \X IDs) \union {<<0, 0>>}]
  BY DEF IInv, TypeOK
<1>2. /\ rcv \in [Conns -> {"none", "top", "read", "put", "end"}]
      /\ source \in [Conns -> Conns] /\ frame \in [Conns -> Frames]
      /\ asked \in [Conns -> SUBSET (IDs \X Reqs)]
  BY DEF IInv, TypeOK
<1>3. \A k \in Conns, id \in IDs : <<k, id>> # <<0, 0>>
  BY DEF Conns
<1>4. CASE DialOk
  <2>1. /\ conn + 1 \in Conns /\ conn' = conn + 1
        /\ \A id \in IDs : replyMap'[id] = NoReq
        /\ UNCHANGED <<value, target, answer, tag, asked, rcv, frame>>
    BY <1>4 DEF DialOk, IInv, TypeOK, Conns, rcvVars, callVars
  <2>2. conn \in 0 .. MaxConns /\ rcv[conn + 1] = "none"
    BY <1>0, <2>1 DEF IInv, TypeOK, Current, Conns
  <2> QED
    BY <1>0, <2>1, <2>2 DEF Tagged
<1>5. CASE SelectReply
  <2>1. /\ loop = "select" /\ rcv[conn] = "put" /\ frame[conn].kind = "ack"
        /\ rcv' = [rcv EXCEPT ![conn] = "top"]
        /\ UNCHANGED <<conn, asked, answer, tag>>
    BY <1>5 DEF SelectReply, Receive, callVars
  <2>2. conn \in Conns
    BY <1>0, <2>1 DEF Current
  <2>3. frame[conn].id \in IDs /\ frame[conn].req \in Reqs
    BY <1>2, <2>1, <2>2 DEF Frames, Plain, Acks
  <2>4. tag[frame[conn].req] = <<conn, frame[conn].id>> /\ rcv'[conn] # "put"
    BY <1>0, <1>2, <2>1, <2>2 DEF Tagged
  <2>5. CASE UNCHANGED <<replyMap, target, value>>
    BY <1>0, <2>1, <2>4, <2>5 DEF Tagged
  <2>6. CASE /\ replyMap[frame[conn].id] # NoReq
             /\ replyMap' = Without(frame[conn].id)
             /\ target' = replyMap[frame[conn].id] /\ value' = frame[conn].req
    <3>1. tag[target'] = <<conn, frame[conn].id>> /\ target' # NoReq
      BY <1>0, <2>3, <2>6 DEF Tagged
    <3>2. \A id \in IDs : replyMap'[id] # NoReq => replyMap'[id] = replyMap[id]
      BY <1>1, <2>6 DEF Without
    <3> QED
      BY <1>0, <1>3, <2>1, <2>2, <2>3, <2>4, <2>6, <3>1, <3>2 DEF Tagged
  <2> QED
    BY <1>5, <2>5, <2>6 DEF SelectReply
<1>6. CASE SelectOutbox
  <2>1. /\ loop = "select" /\ outbox # NoReq
        /\ UNCHANGED <<conn, rcv, frame, answer>>
    BY <1>6 DEF SelectOutbox
  <2>2. conn \in Conns /\ target = NoReq /\ value = NoReq /\ tag[outbox] = <<0, 0>>
    BY <1>0, <2>1 DEF Current, Placed, Tagged, Fresh
  <2>3. CASE UNCHANGED <<replyMap, target, value, asked, tag>>
    BY <1>0, <2>1, <2>3 DEF Tagged
  <2>4. CASE /\ replyMap' = Entered(nextID, outbox)
             /\ value' = NoReq
             /\ tag' = [tag EXCEPT ![outbox] = <<conn, nextID>>]
             /\ \/ asked' = asked
                \/ asked' = [asked EXCEPT ![conn] = @ \union {<<nextID, outbox>>}]
    <3>1. outbox \in Reqs /\ tag'[outbox] = <<conn, nextID>>
          /\ \A q \in Reqs : tag[q] # <<0, 0>> => tag'[q] = tag[q]
      BY <1>1, <2>1, <2>2, <2>4
    <3>2. \A id \in IDs : replyMap'[id] # NoReq => tag'[replyMap'[id]] = <<conn, id>>
      BY <1>0, <1>1, <1>3, <2>2, <2>4, <3>1 DEF Tagged, Entered
    <3>3. \A k \in Conns : \A a \in asked'[k] : tag'[a[2]] = <<k, a[1]>>
      <4> SUFFICES ASSUME NEW k \in Conns, NEW a \in asked'[k]
                   PROVE  tag'[a[2]] = <<k, a[1]>>
        OBVIOUS
      <4>1. a \in asked[k] \/ (a = <<nextID, outbox>> /\ k = conn)
        BY <1>2, <2>2, <2>4
      <4>2. CASE a \in asked[k]
        <5>1. a \in IDs \X Reqs /\ tag[a[2]] = <<k, a[1]>>
          BY <1>0, <1>2, <4>2 DEF Tagged
        <5> QED
          BY <1>3, <3>1, <5>1
      <4>3. CASE a = <<nextID, outbox>> /\ k = conn
        BY <3>1, <4>3
      <4> QED
        BY <4>1, <4>2, <4>3
    <3>4. rcv'[conn'] = "put" /\ frame'[conn'].kind = "ack" =>
            tag'[frame'[conn'].req] = <<conn', frame'[conn'].id>>
      <4> SUFFICES ASSUME rcv[conn] = "put", frame[conn].kind = "ack"
                   PROVE  tag'[frame[conn].req] = <<conn, frame[conn].id>>
        BY <2>1
      <4>1. frame[conn].id \in IDs /\ frame[conn].req \in Reqs
        BY <1>2, <2>2 DEF Frames, Plain, Acks
      <4> QED
        BY <1>0, <1>3, <2>2, <3>1, <4>1 DEF Tagged
    <3>5. \A q \in Reqs : answer'[q] # NoReq =>
            tag'[answer'[q]] = tag'[q] /\ tag'[q] # <<0, 0>>
      BY <1>0, <1>1, <2>1, <3>1 DEF Tagged
    <3> QED
      BY <2>1, <2>4, <3>2, <3>3, <3>4, <3>5 DEF Tagged
  <2> QED
    BY <1>6, <2>3, <2>4 DEF SelectOutbox
<1>7. CASE SendReply
  <2>1. /\ target \in Reqs /\ value' = NoReq
        /\ UNCHANGED <<conn, replyMap, asked, rcv, frame, tag>>
        /\ answer' = answer \/ answer' = [answer EXCEPT ![target] = value]
    BY <1>1, <1>7 DEF SendReply, Hand, CanTake, rcvVars
  <2> QED
    BY <1>0, <1>1, <2>1 DEF Tagged
<1>8. CASE CleanReply
  <2>1. PICK id \in IDs : /\ replyMap[id] # NoReq
                          /\ Hand(replyMap[id], NoReq)
                          /\ replyMap' = Without(id)
    BY <1>8 DEF CleanReply
  <2>2. /\ UNCHANGED <<conn, asked, rcv, frame, tag, target, value>>
        /\ answer' = answer \/ answer' = [answer EXCEPT ![replyMap[id]] = NoReq]
    BY <1>1, <1>8, <2>1 DEF CleanReply, Hand, CanTake, rcvVars
  <2>3. \A i \in IDs : replyMap'[i] # NoReq => replyMap'[i] = replyMap[i]
    BY <1>1, <2>1 DEF Without
  <2> QED
    BY <1>0, <1>1, <2>1, <2>2, <2>3 DEF Tagged
<1>9. ASSUME NEW k \in Conns, RcvTop(k) \/ RcvFail(k)
      PROVE  Tagged'
  <2>1. /\ rcv' = [rcv EXCEPT ![k] = rcv'[k]] /\ rcv'[k] # "put"
        /\ UNCHANGED <<conn, replyMap, asked, frame, tag, target, value, answer>>
    BY <1>2, <1>9 DEF RcvTop, RcvFail, loopVars, callVars
  <2> QED
    BY <1>0, <1>2, <2>1 DEF Tagged
<1>10. ASSUME NEW k \in Conns, RcvFrame(k)
       PROVE  Tagged'
  <2>1. /\ rcv[k] = "read" /\ rcv' = [rcv EXCEPT ![k] = "put"]
        /\ UNCHANGED <<conn, replyMap, tag, target, value, answer>>
    BY <1>10 DEF RcvFrame, loopVars, callVars
  <2>2. k = conn => source[k] = conn
    BY <1>0, <2>1 DEF Current
  <2>3. CASE \E f \in Plain : frame' = [frame EXCEPT ![k] = f] /\ asked' = asked
    <3>1. conn \in Conns /\ frame'[conn].kind = "ack" /\ rcv'[conn] = "put" =>
            frame'[conn] = frame[conn] /\ rcv'[conn] = rcv[conn]
      BY <1>2, <2>1, <2>3 DEF Plain
    <3> QED
      BY <1>0, <2>1, <2>3, <3>1 DEF Tagged
  <2>4. ASSUME NEW a \in asked[source[k]],
               frame' = [frame EXCEPT ![k] = [kind |-> "ack", id |-> a[1], req |-> a[2]]],
               asked' = [asked EXCEPT ![source[k]] = @ \ {a}]
        PROVE  Tagged'
    <3>1. tag[a[2]] = <<source[k], a[1]>>
      BY <1>0, <1>2 DEF Tagged
    <3>2. \A j \in Conns : asked'[j] \subseteq asked[j]
      BY <1>2, <2>4
    <3>3. k = conn => frame'[conn].req = a[2] /\ frame'[conn].id = a[1]
      BY <1>2, <2>4
    <3>4. k # conn /\ conn \in Conns => frame'[conn] = frame[conn] /\ rcv'[conn] = rcv[conn]
      BY <1>2, <2>1, <2>4
    <3> QED
      BY <1>0, <2>1, <2>2, <3>1, <3>2, <3>3, <3>4 DEF Tagged
  <2> QED
    BY <1>10, <2>3, <2>4 DEF RcvFrame
<1>11. CASE SelectProps \/ SelectNoise \/ SelectEvent
  <2>1. /\ loop = "select" /\ rcv' = [rcv EXCEPT ![conn] = "top"]
        /\ UNCHANGED <<conn, replyMap, asked, tag, target, value, answer>>
    BY <1>11 DEF SelectProps, SelectNoise, SelectEvent, Receive, callVars
  <2>2. conn \in Conns /\ rcv'[conn] = "top"
    BY <1>0, <1>2, <2>1 DEF Current
  <2> QED
    BY <1>0, <2>1, <2>2 DEF Tagged
<1>12. CASE Announce
  <2>1. /\ loop = "announce" /\ rcv' = [rcv EXCEPT ![conn] = "top"]
        /\ UNCHANGED <<conn, replyMap, asked, tag, target, value, answer>>
    BY <1>12 DEF Announce, callVars
  <2>2. conn \in Conns /\ rcv'[conn] = "top"
    BY <1>0, <1>2, <2>1 DEF Current
  <2> QED
    BY <1>0, <2>1, <2>2 DEF Tagged
<1>13. CASE UNCHANGED <<conn, replyMap, asked, rcv, frame, tag, target, value, answer>>
  BY <1>0, <1>13 DEF Tagged
<1> QED
  <2>1. CASE \/ DialFail \/ BackoffExpire \/ BackoffClose \/ SelectClose
             \/ SelectPing \/ SelectInboxClosed \/ StopPing \/ CloseConn
    BY <1>13, <2>1 DEF DialFail, BackoffExpire, BackoffClose, SelectClose,
       SelectPing, SelectInboxClosed, StopPing, CloseConn, rcvVars, callVars
  <2>2. CASE \/ TakeConnected \/ TakeMessage \/ Close \/ Break \/ TimerFires
             \/ UNCHANGED vars
    BY <1>13, <2>2 DEF TakeConnected, TakeMessage, Close, Break, TimerFires,
       vars, loopVars, rcvVars, callVars
  <2>3. ASSUME NEW q \in Reqs, SendBegin(q) \/ SendEnqueue(q) \/ SendTimeout(q)
        PROVE  Tagged'
    BY <1>13, <2>3 DEF SendBegin, SendEnqueue, SendTimeout, loopVars, rcvVars
  <2> QED
    BY <1>4, <1>5, <1>6, <1>7, <1>8, <1>9, <1>10, <1>11, <1>12, <2>1, <2>2, <2>3
    DEF Next, MainLoop, Receiver

-----------------------------------------------------------------------------
LEMMA Invariance == Spec => []IInv
<1>1. Init => IInv
  <2> SUFFICES ASSUME Init PROVE IInv
    OBVIOUS
  <2> USE ConnAssumption
  <2>1. TypeOK
    <3>1. Noise \in Frames
      BY DEF Noise, Frames, Plain
    <3>2. 1 \in IDs /\ InitialInterval \in InitialInterval .. MaxInterval
          /\ 0 \in 0 .. MaxConns
      BY DEF IDs
    <3> QED
      BY <3>1, <3>2 DEF Init, TypeOK, LoopStates, CallStates
  <2>2. Placed /\ Waiting /\ Single
    BY DEF Init, Placed, Waiting, Single
  <2>3. Current /\ Fresh /\ Tagged
    BY DEF Init, Current, Fresh, Tagged, Conns
  <2> QED
    BY <2>1, <2>2, <2>3 DEF IInv
<1>2. IInv /\ [Next]_vars => IInv'
  BY TypeStep, PlaceStep, PlacedStep, CurrentStep, FreshStep, TaggedStep DEF IInv
<1> QED
  BY <1>1, <1>2, PTL DEF Spec

\* Every variable keeps its type, and no index leaves its range: mainLoop
\* never uses a connection that was not dialled (loop.go:17-182).
THEOREM TypeCorrect == Spec => []TypeOK
<1>1. IInv => TypeOK
  BY DEF IInv
<1> QED
  BY <1>1, Invariance, PTL

\* mainLoop never blocks on a reply channel, however many calls time out,
\* are evicted or are cleaned up, and in whatever order (loop.go:116, 145,
\* 163; connection.go:99).
THEOREM ReplyNeverBlocks == Spec => []ReplyHasReceiver
<1>1. IInv => ReplyHasReceiver
  <2> SUFFICES ASSUME IInv PROVE ReplyHasReceiver
    OBVIOUS
  <2>1. \A q : q # NoReq /\ Owed(q) => CanTake(q)
    BY DEF Owed, CanTake
  <2> QED
    BY <2>1 DEF IInv, Placed, Waiting, ReplyHasReceiver
<1> QED
  BY <1>1, Invariance, PTL

\* A call gets its own reply or one written with the same id on the same
\* connection, whatever the receive goroutines of older connections do
\* (loop.go:113-116, 126-147, 196).
THEOREM ReplyMatchesID == Spec => []ReplyIsForSameID
<1>1. IInv => ReplyIsForSameID
  BY DEF IInv, Tagged, ReplyIsForSameID
<1> QED
  BY <1>1, Invariance, PTL

\* No call stays in the reply map when its connection is gone (loop.go:161-164).
THEOREM CleanedUp == Spec => []NobodyLeftWaiting
<1>1. IInv => NobodyLeftWaiting
  BY ConnAssumption DEF IInv, Placed, NobodyLeftWaiting, Slots
<1> QED
  BY <1>1, Invariance, PTL

\* A frame stolen by the receive goroutine of an older connection is never
\* handled (loop.go:54, 195-208).
THEOREM StaleFramesDie == Spec => StaleFrameIsDead
<1>1. IInv /\ [Next]_vars =>
        [\A k \in Conns : (k < conn /\ rcv[k] = "put") => rcv'[k] = "put"]_vars
  <2> SUFFICES ASSUME IInv, [Next]_vars, NEW k \in Conns, k < conn, rcv[k] = "put"
               PROVE  rcv'[k] = "put"
    OBVIOUS
  <2>1. rcv \in [Conns -> {"none", "top", "read", "put", "end"}] /\ k # conn
    BY DEF IInv, TypeOK, Conns
  <2>2. CASE Announce \/ SelectProps \/ SelectNoise \/ SelectEvent \/ SelectReply
    <3>1. rcv' = [rcv EXCEPT ![conn] = "top"]
      BY <2>2 DEF Announce, SelectProps, SelectNoise, SelectEvent, SelectReply, Receive
    <3> QED
      BY <2>1, <3>1
  <2>3. ASSUME NEW j \in Conns, Receiver(j) PROVE rcv'[k] = "put"
    BY <2>1, <2>3 DEF Receiver, RcvTop, RcvFrame, RcvFail
  <2>4. CASE UNCHANGED rcv
    BY <2>4
  <2> QED
    BY <2>2, <2>3, <2>4 DEF Next, MainLoop, vars, rcvVars, DialFail, DialOk,
       BackoffExpire, BackoffClose, SelectClose, SelectPing, SelectInboxClosed,
       SelectOutbox, SendReply, StopPing, CleanReply, CloseConn, SendBegin,
       SendEnqueue, SendTimeout, TakeConnected, TakeMessage, Close, Break,
       TimerFires
<1> QED
  BY <1>1, Invariance, PTL DEF Spec, StaleFrameIsDead

\* A call is in one place at most, and in none once it was answered: it is
\* sent one reply, and one only (loop.go:113-116, 143-147, 161-164).
THEOREM OneReplyEach == Spec => []OneAnswer
<1>1. IInv => OneAnswer
  <2> SUFFICES ASSUME IInv, NEW q \in Reqs
               PROVE  /\ Cardinality(Slots(q)) + (IF target = q THEN 1 ELSE 0)
                           + (IF outbox = q THEN 1 ELSE 0) <= 1
                      /\ call[q] \notin {"wait", "drain"} =>
                           Slots(q) = {} /\ target # q /\ outbox # q
    BY DEF OneAnswer
  <2>1. q # NoReq /\ Waiting /\ Single
    BY ConnAssumption DEF IInv
  <2>2. CASE Slots(q) = {}
    BY <2>1, <2>2, FS_EmptySet DEF Waiting, Single, Owed
  <2>3. CASE Slots(q) # {}
    <3>1. PICK id \in IDs : replyMap[id] = q
      BY <2>3 DEF Slots
    <3>2. Slots(q) = {id}
      BY <2>1, <3>1 DEF Slots, Single
    <3>3. Cardinality(Slots(q)) = 1
      BY <3>2, FS_Singleton
    <3> QED
      BY <2>1, <3>1, <3>3 DEF Waiting, Single, Owed
  <2> QED
    BY <2>2, <2>3
<1> QED
  BY <1>1, Invariance, PTL

\* The pause between attempts shrinks only when a connection is made, for
\* every initial and every maximal pause (loop.go:42-45, 51).
THEOREM BackoffGrows == Spec => BackoffResetsOnConnect
<1>1. IInv /\ [Next]_vars => [interval' < interval => conn' = conn + 1]_vars
  <2> SUFFICES ASSUME IInv, [Next]_vars, interval' < interval
               PROVE  conn' = conn + 1
    OBVIOUS
  <2>1. interval \in InitialInterval .. MaxInterval
    BY DEF IInv, TypeOK
  <2>2. CASE DialOk
    BY <2>2 DEF DialOk
  <2>3. CASE BackoffExpire
    <3> DEFINE i == (interval * 3) \div 2
    <3>1. i \in Int /\ i >= interval
      BY <2>1, ConnAssumption
    <3>2. interval' = Longer(interval)
      BY <2>3 DEF BackoffExpire
    <3> QED
      BY <2>1, <3>1, <3>2, ConnAssumption DEF Longer
  <2>4. CASE UNCHANGED interval
    BY <2>1, <2>4, ConnAssumption
  <2> QED
    BY <2>2, <2>3, <2>4 DEF Next, MainLoop, Receiver, vars, loopVars, DialFail,
       BackoffClose, Announce, SelectClose, SelectPing, SelectInboxClosed,
       SelectProps, SelectNoise, SelectEvent, SelectReply, Receive,
       SelectOutbox, SendReply, StopPing, CleanReply, CloseConn, RcvTop,
       RcvFrame, RcvFail, SendBegin, SendEnqueue, SendTimeout, TakeConnected,
       TakeMessage, Close, Break, TimerFires
<1> QED
  BY <1>1, Invariance, PTL DEF Spec, BackoffResetsOnConnect
=============================================================================
