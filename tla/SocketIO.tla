------------------------------- MODULE SocketIO -------------------------------
(***************************************************************************)
(* The realtime connection of package socketio: one Connection value, the  *)
(* goroutine that runs its mainLoop, the receive goroutine rcvChan starts  *)
(* for every established connection, and the goroutines that call Send.    *)
(*                                                                         *)
(* Goroutines meet on Go channels.  An unbuffered channel is a rendezvous: *)
(* one action moves both sides.  A buffered one (outbox, connChan) is a    *)
(* variable of its own.  The client of the connection is left open: any    *)
(* number of callers may Send, the channels of Connected and Messages may  *)
(* be received from at any time, Close is called once at most (see module  *)
(* Session).                                                               *)
(*                                                                         *)
(* A frame is created when it is read, not when the server writes it: what *)
(* the server may have in the pipe at that moment is exactly what it may   *)
(* write then, since it only depends on the requests that reached it.      *)
(***************************************************************************)
EXTENDS Integers, FiniteSets

CONSTANTS
  Reqs,            \* calls of Send; each call is used once
  NoReq,           \* "no request": an empty slot, or the nil reply
  MaxMsgID,        \* maxMsgID of connection.go
  MaxConns,        \* bound: connections one mainLoop establishes
  InitialInterval, \* InitialReconnectInterval
  MaxInterval,     \* MaxReconnectInterval
  PingErrors       \* may writing a ping report an error?

ASSUME ConnAssumption ==
  /\ NoReq \notin Reqs
  /\ MaxMsgID \in Nat \ {0}
  /\ MaxConns \in Nat
  /\ InitialInterval \in Nat /\ MaxInterval \in Nat
  /\ 2 <= InitialInterval /\ InitialInterval <= MaxInterval
  /\ PingErrors \in BOOLEAN

IDs   == 1 .. MaxMsgID
Conns == 1 .. MaxConns

VARIABLES
  loop,      \* where mainLoop is
  interval,  \* reconnectInterval
  conn,      \* c.conn: the number of the connection last dialled, 0 before
  link,      \* link[k]: the network connection number k
  timer,     \* pingTimer: what Stop and the channel of the timer would say
  nextID,    \* nextID
  replyMap,  \* replyMap[id]: the call that waits for reply id, NoReq if none
  target,    \* the call on whose reply channel mainLoop is sending
  value,     \* what it sends: the call the server answered, NoReq for nil
  rcv,       \* rcv[k]: where the receive goroutine of connection k is
  source,    \* source[k]: the connection this goroutine is reading, k if none
  frame,     \* frame[k]: the payload it holds, noise if none
  asked,     \* asked[k]: requests the server got on connection k, unanswered
  outbox,    \* the slot of the outbox channel, NoReq when it is empty
  token,     \* is there an element in the buffer of connChan?
  closed,    \* has Close closed closeChan?
  call,      \* call[q]: where the call q of Send is
  answer,    \* answer[q]: the request whose reply q received, NoReq if none
  tag        \* tag[q]: connection and id q was written with (history)

loopVars == <<loop, interval, conn, link, timer, nextID, replyMap, target, value>>
rcvVars  == <<rcv, source, frame, asked>>
chanVars == <<outbox, token, closed>>
callVars == <<call, answer, tag>>
vars     == <<loopVars, rcvVars, chanVars, callVars>>

(***************************************************************************)
(* Frames a server can send.  "noise" is every packet mainLoop only logs:  *)
(* pong, welcome, an unknown or unparsable one.  A message packet without  *)
(* a type ("4" and nothing else) would end the program (loop.go:101-111):  *)
(* the server sends none.                                                  *)
(***************************************************************************)
Plain  == [kind : {"props", "event", "noise"}]
Acks   == [kind : {"ack"}, id : IDs, req : Reqs]
Noise  == [kind |-> "noise"]
Frames == Plain \union Acks

LoopStates ==
  {"dial", "backoff", "announce", "select", "deliver", "reply", "evict",
   "stopPing", "cleanup", "done"}
CallStates ==
  {"idle", "enqueue", "wait", "drain", "replied", "failed", "gone"}

TypeOK ==
  /\ loop \in LoopStates
  /\ interval \in InitialInterval .. MaxInterval
  /\ conn \in 0 .. MaxConns
  /\ link \in [Conns -> {"none", "up", "broken", "closed"}]
  /\ timer \in {"off", "armed", "fired", "empty"}
  /\ nextID \in IDs
  /\ replyMap \in [IDs -> Reqs \union {NoReq}]
  /\ target \in Reqs \union {NoReq}
  /\ value \in Reqs \union {NoReq}
  /\ rcv \in [Conns -> {"none", "top", "read", "put", "end"}]
  /\ source \in [Conns -> Conns]
  /\ frame \in [Conns -> Frames]
  /\ asked \in [Conns -> SUBSET (IDs \X Reqs)]
  /\ outbox \in Reqs \union {NoReq}
  /\ token \in BOOLEAN
  /\ closed \in BOOLEAN
  /\ call \in [Reqs -> CallStates]
  /\ answer \in [Reqs -> Reqs \union {NoReq}]
  /\ tag \in [Reqs -> (Conns \X IDs) \union {<<0, 0>>}]

Init ==
  /\ loop = "dial" /\ interval = InitialInterval
  /\ conn = 0 /\ link = [k \in Conns |-> "none"]
  /\ timer = "off" /\ nextID = 1
  /\ replyMap = [id \in IDs |-> NoReq]
  /\ target = NoReq /\ value = NoReq
  /\ rcv = [k \in Conns |-> "none"]
  /\ source = [k \in Conns |-> k]
  /\ frame = [k \in Conns |-> Noise]
  /\ asked = [k \in Conns |-> {}]
  /\ outbox = NoReq /\ token = FALSE /\ closed = FALSE
  /\ call = [q \in Reqs |-> "idle"]
  /\ answer = [q \in Reqs |-> NoReq]
  /\ tag = [q \in Reqs |-> <<0, 0>>]

-----------------------------------------------------------------------------
(* mainLoop: dialling and the reconnect timer.                             *)

DialFail ==
  /\ loop = "dial"
  /\ loop' = "backoff"
  /\ UNCHANGED <<interval, conn, link, timer, nextID, replyMap, target, value>>
  /\ UNCHANGED <<rcvVars, chanVars, callVars>>

DialOk ==
  /\ loop = "dial"
  /\ conn < MaxConns
  /\ loop' = "announce"
  /\ interval' = InitialInterval
  /\ conn' = conn + 1
  /\ link' = [link EXCEPT ![conn + 1] = "up"]
  /\ nextID' = 1
  /\ replyMap' = [id \in IDs |-> NoReq]
  /\ UNCHANGED <<timer, target, value, rcvVars, chanVars, callVars>>

\* The pause after a pause of i.
LongerWraps(i) ==  \* mutant: starts over instead of staying at the maximum
  IF (i * 3) \div 2 > MaxInterval THEN InitialInterval ELSE (i * 3) \div 2
Longer(i) ==
  IF (i * 3) \div 2 > MaxInterval THEN MaxInterval ELSE (i * 3) \div 2

\* The reconnect timer expires: try again, after a longer pause next time.
BackoffExpire ==
  /\ loop = "backoff"
  /\ loop' = "dial"
  /\ interval' = Longer(interval)
  /\ UNCHANGED <<conn, link, timer, nextID, replyMap, target, value>>
  /\ UNCHANGED <<rcvVars, chanVars, callVars>>

BackoffCloseNoLabel ==  \* mutant: leaves the select, not the connect loop
  /\ loop = "backoff"
  /\ closed
  /\ loop' = "dial"
  /\ UNCHANGED <<interval, conn, link, timer, nextID, replyMap, target, value>>
  /\ UNCHANGED <<rcvVars, chanVars, callVars>>

BackoffClose ==
  /\ loop = "backoff"
  /\ closed
  /\ loop' = "done"
  /\ UNCHANGED <<interval, conn, link, timer, nextID, replyMap, target, value>>
  /\ UNCHANGED <<rcvVars, chanVars, callVars>>

\* connChan has room for one element; then the receive goroutine and the
\* ping timer are started.
Announce ==
  /\ loop = "announce"
  /\ ~token
  /\ token' = TRUE
  /\ loop' = "select"
  /\ rcv' = [rcv EXCEPT ![conn] = "top"]
  /\ timer' = "armed"
  /\ UNCHANGED <<interval, conn, link, nextID, replyMap, target, value>>
  /\ UNCHANGED <<source, frame, asked, outbox, closed, callVars>>

-----------------------------------------------------------------------------
(* mainLoop: the select of the message loop, one action per ready case.    *)

SelectClose ==
  /\ loop = "select"
  /\ closed
  /\ loop' = "stopPing"
  /\ UNCHANGED <<interval, conn, link, timer, nextID, replyMap, target, value>>
  /\ UNCHANGED <<rcvVars, chanVars, callVars>>

\* A write on a broken connection may still succeed: it only reaches the
\* kernel's buffer.  A write that fails leaves the message loop.
WriteOk   == link[conn] \in {"up", "broken"}
WriteFail == link[conn] = "broken"

\* The expired timer is received from before the ping is written; it is
\* reset only after a successful write.
SelectPing ==
  /\ loop = "select"
  /\ timer = "fired"
  /\ \/ /\ WriteOk
        /\ timer' = "armed"
        /\ UNCHANGED loop
     \/ /\ WriteFail /\ PingErrors
        /\ timer' = "empty"
        /\ loop' = "stopPing"
  /\ UNCHANGED <<interval, conn, link, nextID, replyMap, target, value>>
  /\ UNCHANGED <<rcvVars, chanVars, callVars>>

SelectInboxClosed ==
  /\ loop = "select"
  /\ rcv[conn] = "end"
  /\ loop' = "stopPing"
  /\ UNCHANGED <<interval, conn, link, timer, nextID, replyMap, target, value>>
  /\ UNCHANGED <<rcvVars, chanVars, callVars>>

\* mutant: one inbox for the receive goroutines of all connections
ReceiveShared ==
  /\ loop = "select"
  /\ \E k \in Conns :
       /\ rcv[k] = "put"
       /\ rcv' = [rcv EXCEPT ![k] = "top"]
       /\ frame' = [frame EXCEPT ![k] = Noise]
  /\ UNCHANGED <<interval, conn, link, nextID, source, asked>>
  /\ UNCHANGED <<chanVars, callVars>>

\* A frame arrives through the inbox of the current connection.
Receive ==
  /\ loop = "select"
  /\ rcv[conn] = "put"
  /\ rcv' = [rcv EXCEPT ![conn] = "top"]
  /\ frame' = [frame EXCEPT ![conn] = Noise]
  /\ UNCHANGED <<interval, conn, link, nextID, source, asked>>
  /\ UNCHANGED <<chanVars, callVars>>

\* Stop an armed timer, or receive from the channel of an expired one.  On a
\* timer whose channel has been emptied already this blocks for ever.
StopTimer == timer \in {"armed", "fired"}

SelectProps ==
  /\ Receive
  /\ frame[conn].kind = "props"
  /\ StopTimer
  /\ timer' = "armed"
  /\ UNCHANGED <<loop, replyMap, target, value>>

SelectNoise ==
  /\ Receive
  /\ frame[conn].kind = "noise"
  /\ UNCHANGED <<loop, timer, replyMap, target, value>>

SelectEvent ==
  /\ Receive
  /\ frame[conn].kind = "event"
  /\ loop' = "deliver"
  /\ UNCHANGED <<timer, replyMap, target, value>>

\* The reply map without the entry of id.
WithoutKept(id) == replyMap  \* mutant: the entry is not deleted
Without(id) == [replyMap EXCEPT ![id] = NoReq]

\* A reply: its call is removed from the reply map and sent the data; a
\* reply whose id is not in the map is dropped.
SelectReply ==
  /\ Receive
  /\ frame[conn].kind = "ack"
  /\ LET q == replyMap[frame[conn].id]
     IN  IF q = NoReq
         THEN UNCHANGED <<loop, replyMap, target, value>>
         ELSE /\ replyMap' = Without(frame[conn].id)
              /\ target' = q
              /\ value' = frame[conn].req
              /\ loop' = "reply"
  /\ UNCHANGED timer

\* Message ids run from 1 to maxMsgID and around.
NextIDOver(id)  == IF id > MaxMsgID THEN 1 ELSE id + 1       \* mutant
NextIDUnder(id) == IF id + 1 >= MaxMsgID THEN 1 ELSE id + 1  \* mutant
NextID(id) == IF id + 1 > MaxMsgID THEN 1 ELSE id + 1

\* The reply map when q has been written with id.
EnteredLate(id, q) == [replyMap EXCEPT ![NextID(id)] = q]  \* mutant: nextID, not id
Entered(id, q) == [replyMap EXCEPT ![id] = q]

\* A request leaves the outbox.  If the write fails the request is dropped
\* before it is in the reply map.  If its id is still in use, the call that
\* waits there is sent nil first; the reply map belongs to mainLoop alone,
\* so the new call may as well be entered at once.
SelectOutbox ==
  /\ loop = "select"
  /\ outbox # NoReq
  /\ outbox' = NoReq
  /\ nextID' = NextID(nextID)
  /\ \/ /\ WriteFail
        /\ loop' = "stopPing"
        /\ UNCHANGED <<replyMap, target, value, asked, tag>>
     \/ /\ WriteOk
        /\ replyMap' = Entered(nextID, outbox)
        /\ target' = replyMap[nextID]
        /\ value' = NoReq
        /\ loop' = IF replyMap[nextID] = NoReq THEN "select" ELSE "evict"
        /\ tag' = [tag EXCEPT ![outbox] = <<conn, nextID>>]
        /\ asked' = IF link[conn] = "up"
                    THEN [asked EXCEPT ![conn] = @ \union {<<nextID, outbox>>}]
                    ELSE asked
  /\ UNCHANGED <<interval, conn, link, timer, rcv, source, frame>>
  /\ UNCHANGED <<token, closed, call, answer>>

-----------------------------------------------------------------------------
(* mainLoop: sending on a reply channel, and leaving the message loop.     *)

\* The receiver of a reply channel: Send itself, or the goroutine it leaves
\* behind when it times out.
CanTake(q) == q # NoReq /\ call[q] \in {"wait", "drain"}

\* The rendezvous on the reply channel of q.
Hand(q, p) ==
  /\ CanTake(q)
  /\ call' = [call EXCEPT ![q] = IF @ = "drain" THEN "gone"
                                 ELSE IF p = NoReq THEN "failed" ELSE "replied"]
  /\ answer' = [answer EXCEPT ![q] = IF call[q] = "wait" THEN p ELSE @]
  /\ UNCHANGED tag

SendReply ==
  /\ loop \in {"reply", "evict"}
  /\ Hand(target, value)
  /\ loop' = "select"
  /\ target' = NoReq /\ value' = NoReq
  /\ UNCHANGED <<interval, conn, link, timer, nextID, replyMap>>
  /\ UNCHANGED <<rcvVars, chanVars>>

StopPing ==
  /\ loop = "stopPing"
  /\ StopTimer
  /\ timer' = "off"
  /\ loop' = "cleanup"
  /\ UNCHANGED <<interval, conn, link, nextID, replyMap, target, value>>
  /\ UNCHANGED <<rcvVars, chanVars, callVars>>

CleanReply ==
  /\ loop = "cleanup"
  /\ \E id \in IDs :
       /\ replyMap[id] # NoReq
       /\ Hand(replyMap[id], NoReq)
       /\ replyMap' = Without(id)
  /\ UNCHANGED <<loop, interval, conn, link, timer, nextID, target, value>>
  /\ UNCHANGED <<rcvVars, chanVars>>

CloseConnUnclean ==  \* mutant: the reply map is not cleaned up
  /\ loop = "cleanup"
  /\ link' = [link EXCEPT ![conn] = "closed"]
  /\ loop' = IF closed THEN "done" ELSE "dial"
  /\ UNCHANGED <<interval, conn, timer, nextID, replyMap, target, value>>
  /\ UNCHANGED <<rcvVars, chanVars, callVars>>

CloseConn ==
  /\ loop = "cleanup"
  /\ \A id \in IDs : replyMap[id] = NoReq
  /\ link' = [link EXCEPT ![conn] = "closed"]
  /\ loop' = IF closed THEN "done" ELSE "dial"
  /\ UNCHANGED <<interval, conn, timer, nextID, replyMap, target, value>>
  /\ UNCHANGED <<rcvVars, chanVars, callVars>>

MainLoop ==
  \/ DialFail \/ DialOk \/ BackoffExpire \/ BackoffClose \/ Announce
  \/ SelectClose \/ SelectPing \/ SelectInboxClosed \/ SelectProps
  \/ SelectNoise \/ SelectEvent \/ SelectReply \/ SelectOutbox
  \/ SendReply \/ StopPing \/ CleanReply \/ CloseConn

-----------------------------------------------------------------------------
(* The receive goroutine of connection k.  It reads the field c.conn anew  *)
(* before every frame, without synchronisation with mainLoop: a goroutine  *)
(* that is still alive after a reconnect reads the new connection.         *)

RcvTop(k) ==
  /\ rcv[k] = "top"
  /\ source' = [source EXCEPT ![k] = conn]
  /\ rcv' = [rcv EXCEPT ![k] = "read"]
  /\ UNCHANGED <<frame, asked, loopVars, chanVars, callVars>>

RcvFrame(k) ==
  /\ rcv[k] = "read"
  /\ link[source[k]] \in {"up", "broken"}
  /\ \/ \E f \in Plain :
          /\ frame' = [frame EXCEPT ![k] = f]
          /\ UNCHANGED asked
     \/ \E a \in asked[source[k]] :
          /\ frame' = [frame EXCEPT ![k] = [kind |-> "ack", id |-> a[1], req |-> a[2]]]
          /\ asked' = [asked EXCEPT ![source[k]] = @ \ {a}]
  /\ rcv' = [rcv EXCEPT ![k] = "put"]
  /\ source' = [source EXCEPT ![k] = k]
  /\ UNCHANGED <<loopVars, chanVars, callVars>>

\* The read fails: the connection broke or was closed, or two goroutines
\* read it at once and the bytes they get are no frames.
RcvFail(k) ==
  /\ rcv[k] = "read"
  /\ \/ link[source[k]] \in {"broken", "closed"}
     \/ \E j \in Conns \ {k} : rcv[j] = "read" /\ source[j] = source[k]
  /\ rcv' = [rcv EXCEPT ![k] = "end"]
  /\ source' = [source EXCEPT ![k] = k]
  /\ UNCHANGED <<frame, asked, loopVars, chanVars, callVars>>

Receiver(k) == RcvTop(k) \/ RcvFrame(k) \/ RcvFail(k)

-----------------------------------------------------------------------------
(* Send, in the goroutine of its caller.  The timer of the reply starts    *)
(* only when the request is in the outbox.                                 *)

SendBegin(q) ==
  /\ call[q] = "idle"
  /\ call' = [call EXCEPT ![q] = "enqueue"]
  /\ UNCHANGED <<answer, tag, loopVars, rcvVars, chanVars>>

SendEnqueue(q) ==
  /\ call[q] = "enqueue"
  /\ outbox = NoReq
  /\ outbox' = q
  /\ call' = [call EXCEPT ![q] = "wait"]
  /\ UNCHANGED <<token, closed, answer, tag, loopVars, rcvVars>>

SendTimeoutLeaves(q) ==  \* mutant: nobody receives the late reply
  /\ call[q] = "wait"
  /\ call' = [call EXCEPT ![q] = "gone"]
  /\ UNCHANGED <<answer, tag, loopVars, rcvVars, chanVars>>

\* No reply in ReplyTimeout: Send returns an error and leaves a goroutine to
\* receive the late reply.
SendTimeout(q) ==
  /\ call[q] = "wait"
  /\ call' = [call EXCEPT ![q] = "drain"]
  /\ UNCHANGED <<answer, tag, loopVars, rcvVars, chanVars>>

(* The client's side of Connected, Messages and Close.                     *)

TakeConnected ==
  /\ token
  /\ token' = FALSE
  /\ UNCHANGED <<outbox, closed, loopVars, rcvVars, callVars>>

TakeMessage ==
  /\ loop = "deliver"
  /\ loop' = "select"
  /\ UNCHANGED <<interval, conn, link, timer, nextID, replyMap, target, value>>
  /\ UNCHANGED <<rcvVars, chanVars, callVars>>

Close ==
  /\ ~closed
  /\ closed' = TRUE
  /\ UNCHANGED <<outbox, token, loopVars, rcvVars, callVars>>

(* The network and the clock.                                              *)

Break ==
  /\ conn > 0
  /\ link[conn] = "up"
  /\ link' = [link EXCEPT ![conn] = "broken"]
  /\ UNCHANGED <<loop, interval, conn, timer, nextID, replyMap, target, value>>
  /\ UNCHANGED <<rcvVars, chanVars, callVars>>

TimerFires ==
  /\ timer = "armed"
  /\ timer' = "fired"
  /\ UNCHANGED <<loop, interval, conn, link, nextID, replyMap, target, value>>
  /\ UNCHANGED <<rcvVars, chanVars, callVars>>

Next ==
  \/ MainLoop
  \/ \E k \in Conns : Receiver(k)
  \/ \E q \in Reqs : SendBegin(q) \/ SendEnqueue(q) \/ SendTimeout(q)
  \/ TakeConnected \/ TakeMessage \/ Close
  \/ Break \/ TimerFires

Spec == Init /\ [][Next]_vars

(***************************************************************************)
(* Every goroutine that can step does, and timers expire.  A Go select     *)
(* draws among its ready cases at random, so a case that is ready again    *)
(* and again is taken: strong fairness for the cases that end a wait.      *)
(* The client is assumed to receive from its channels and nothing is asked *)
(* of the network.                                                         *)
(***************************************************************************)
LoopFairness ==
  /\ WF_vars(MainLoop)
  /\ SF_vars(SelectClose) /\ SF_vars(BackoffClose) /\ SF_vars(SelectOutbox)
  /\ \A k \in Conns : WF_vars(RcvTop(k)) /\ WF_vars(RcvFail(k))
  /\ WF_vars(TimerFires)

SendFairness ==
  \A q \in Reqs : SF_vars(SendEnqueue(q)) /\ WF_vars(SendTimeout(q))

FairSpec ==
  /\ Spec
  /\ LoopFairness /\ SendFairness
  /\ WF_vars(TakeConnected) /\ WF_vars(TakeMessage)

-----------------------------------------------------------------------------
(* Correctness.                                                            *)

\* The places where mainLoop or a server's answer can still name the call q.
Slots(q) == {id \in IDs : replyMap[id] = q}

\* mainLoop never blocks on a reply channel: whoever it owes an answer, on
\* the way out of a connection too, still has Send or the goroutine Send
\* left behind receiving (loop.go:116, 145, 163; connection.go:99).
ReplyHasReceiver ==
  /\ loop \in {"reply", "evict"} => CanTake(target)
  /\ \A id \in IDs : replyMap[id] # NoReq => CanTake(replyMap[id])

\* A call is owed one answer only: it waits in one slot of the reply map, or
\* it is the one being answered, or it is in the outbox, and once it has got
\* its answer nothing refers to it any more (loop.go:115, 144, 162).
OneAnswer ==
  \A q \in Reqs :
    /\ Cardinality(Slots(q)) + (IF target = q THEN 1 ELSE 0)
         + (IF outbox = q THEN 1 ELSE 0) <= 1
    /\ call[q] \notin {"wait", "drain"} =>
         Slots(q) = {} /\ target # q /\ outbox # q

\* A call that gets a reply gets its own, unless another request went out
\* under the same id on the same connection (loop.go:113-116, 126-130).
ReplyIsForSameID ==
  \A q \in Reqs : answer[q] # NoReq => tag[answer[q]] = tag[q]

\* A wrong reply needs an id used twice, hence more than maxMsgID requests
\* on one connection (connection.go:25, loop.go:128).
SentOn(k) == {q \in Reqs : tag[q][1] = k}
WrongReplyNeedsWrap ==
  \A q \in Reqs :
    answer[q] \notin {NoReq, q} => Cardinality(SentOn(tag[q][1])) > MaxMsgID

\* While there is no established connection, after mainLoop has ended too,
\* no call is left in the reply map (loop.go:161-164).
NobodyLeftWaiting ==
  loop \in {"dial", "backoff", "announce", "done"} => \A q \in Reqs : Slots(q) = {}

\* A frame that a receive goroutine took from a connection it does not
\* belong to is never handled: whatever it holds after its own connection
\* was left, it holds for ever (loop.go:54, 195-208).
StaleFrameIsDead ==
  [][\A k \in Conns : (k < conn /\ rcv[k] = "put") => rcv'[k] = "put"]_vars

\* The pause between attempts grows while the server is unreachable and is
\* reset only by a connection (loop.go:42-45, 51).
BackoffResetsOnConnect ==
  [][interval' < interval => conn' = conn + 1]_vars

\* What a client of the connection can tell of mainLoop.
Stage ==
  CASE loop \in {"dial", "backoff"} -> "down"
    [] loop \in {"select", "reply", "evict"} -> "online"
    [] loop = "stopPing" /\ timer = "empty" -> "hung"
    [] loop \in {"stopPing", "cleanup"} /\ timer # "empty" -> "closing"
    [] OTHER -> loop

\* Its requests, and its calls, as the client sees them.
Written == {q \in Reqs : conn > 0 /\ tag[q][1] = conn}
Outcome == [q \in Reqs |-> IF call[q] = "gone" THEN "failed" ELSE call[q]]

C == INSTANCE Connection
       WITH stage <- Stage, conns <- conn, written <- Written, call <- Outcome

\* The connection is what its clients may take it for: requests are written
\* and answered on one connection, every one of them is answered before the
\* next connection, and mainLoop waits for its client only to announce a
\* connection and to hand over a message.
IsConnection == C!ConnSpec

\* "Close closes the connection and stops the reconnect cycle"
\* (connection.go:66).
CloseStops == closed ~> loop = "done"
=============================================================================
