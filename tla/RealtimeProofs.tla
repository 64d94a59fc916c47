---------------------------- MODULE RealtimeProofs ----------------------------
(***************************************************************************)
(* Theorems about a connection and the realtime loop of its chat, for      *)
(* every number of calls and of connections.                               *)
(*                                                                         *)
(* The argument: the event of a connection is taken from connChan only by  *)
(* a loop in its select, so as long as the loop is in a handshake and no   *)
(* event waits, the connection is the one the handshake began on (Live).   *)
(* A call that is replied was written on the connection of that moment,    *)
(* hence on the current one (Covered).  That a handshake always has a call *)
(* of Send of its own is counted: handshakes, the events that wait and the *)
(* connections not yet announced are no more than the connections.         *)
(***************************************************************************)
EXTENDS Realtime, FiniteSetTheorems, TLAPS

\* The current connection was announced and its event has been taken.
Live == ~token /\ stage \in {"online", "deliver", "closing", "hung"}

\* One of these calls was written on the current connection and replied.
DoneOn(S) == \E q \in S \intersect written : call[q] = "replied"

Covered ==
  Live =>
    /\ at \in {"select", "message"} =>
         shaken = "failed" \/ (shaken = "ok" /\ DoneOn(AuthReqs) /\ DoneOn(SubReqs))
    /\ at = "sub" => DoneOn(AuthReqs)
    /\ Replied => cur \in written

Used(S)  == {q \in S : call[q] # "idle"}
One(b)   == IF b THEN 1 ELSE 0
Coming   == One(token) + One(stage = "announce")
NeedAuth == at = "auth" /\ cur = NoReq
NeedSub  == at = "auth" \/ (at = "sub" /\ cur = NoReq)

\* Every handshake, begun or to come, has a connection of its own.
Counted ==
  /\ Cardinality(Used(AuthReqs)) + One(NeedAuth) + Coming <= conns
  /\ Cardinality(Used(SubReqs)) + One(NeedSub) + Coming <= conns

RTInv == RTTypeOK /\ Covered /\ Counted

-----------------------------------------------------------------------------
(* The connection alone.                                                   *)

LEMMA ConnInitTypes == ConnInit => ConnTypeOK
<1> SUFFICES ASSUME ConnInit PROVE ConnTypeOK
  OBVIOUS
<1>1. conns \in 0 .. MaxConns /\ written \subseteq Reqs
  BY ConnectionAssumption DEF ConnInit
<1>2. call \in [Reqs -> {"idle", "enqueue", "wait", "drain", "replied", "failed"}]
  BY DEF ConnInit
<1> QED
  BY <1>1, <1>2 DEF ConnInit, ConnTypeOK

LEMMA ConnTypeStep == ConnTypeOK /\ [ConnNext]_connVars => ConnTypeOK'
<1> SUFFICES ASSUME ConnTypeOK, [ConnNext]_connVars PROVE ConnTypeOK'
  OBVIOUS
<1> USE ConnectionAssumption
<1>1. CASE Dial \/ GiveUp \/ Announce \/ Deliver \/ Shut \/ Hang \/ Leave
  <2>1. written' \subseteq Reqs
    BY <1>1 DEF Dial, GiveUp, Announce, Deliver, Shut, Hang, Leave, ConnTypeOK
  <2>2. conns' \in 0 .. MaxConns
    BY <1>1 DEF Dial, GiveUp, Announce, Deliver, Shut, Hang, Leave, ConnTypeOK
  <2> QED
    BY <1>1, <2>1, <2>2
    DEF Dial, GiveUp, Announce, Deliver, Shut, Hang, Leave, Goto, ConnTypeOK
<1>2. CASE Write
  BY <1>2 DEF Write, Goto, ConnTypeOK
<1>3. ASSUME NEW q \in Reqs, Answer(q) PROVE ConnTypeOK'
  BY <1>3 DEF Answer, ConnTypeOK
<1>4. ASSUME NEW q \in Reqs, Send(q) PROVE ConnTypeOK'
  BY <1>4 DEF Send, SendBegin, SendEnqueue, SendTimeout, ConnTypeOK
<1>5. CASE TakeConnected \/ TakeMessage \/ Close \/ UNCHANGED connVars
  BY <1>5 DEF TakeConnected, TakeMessage, Close, Goto, connVars, ConnTypeOK
<1> QED
  BY <1>1, <1>2, <1>3, <1>4, <1>5 DEF ConnNext, MainLoop

\* A call that was begun stays begun, one that is replied stays replied, and
\* it was written on the connection of that moment; only a new connection
\* forgets what was written.
LEMMA ConnMonotone ==
  ASSUME ConnTypeOK, [ConnNext]_connVars, NEW q \in Reqs
  PROVE  /\ call[q] # "idle" => call'[q] # "idle"
         /\ call'[q] # "idle" /\ call[q] = "idle" => SendBegin(q)
         /\ call[q] = "replied" => call'[q] = "replied"
         /\ call'[q] = "replied" /\ call[q] # "replied" => q \in written
         /\ written \subseteq written' \/ Dial
<1>1. CASE MainLoop /\ (\A p \in Reqs : ~Answer(p))
  BY <1>1 DEF MainLoop, Dial, GiveUp, Announce, Write, Deliver, Shut, Hang, Leave
<1>2. ASSUME NEW p \in Reqs, Answer(p)
      PROVE  /\ call[q] # "idle" => call'[q] # "idle"
             /\ call'[q] # "idle" => call[q] # "idle"
             /\ call[q] = "replied" => call'[q] = "replied"
             /\ call'[q] = "replied" /\ call[q] # "replied" => q \in written
             /\ written \subseteq written'
  BY <1>2 DEF Answer, Unanswered, ConnTypeOK
<1>3. ASSUME NEW p \in Reqs, Send(p)
      PROVE  /\ call[q] # "idle" => call'[q] # "idle"
             /\ call'[q] # "idle" /\ call[q] = "idle" => SendBegin(q)
             /\ call[q] = "replied" <=> call'[q] = "replied"
             /\ written \subseteq written'
  <2>1. CASE p = q
    BY <1>3, <2>1 DEF Send, SendBegin, SendEnqueue, SendTimeout, ConnTypeOK
  <2>2. CASE p # q
    BY <1>3, <2>2 DEF Send, SendBegin, SendEnqueue, SendTimeout, ConnTypeOK
  <2> QED
    BY <2>1, <2>2
<1>4. CASE TakeConnected \/ TakeMessage \/ Close \/ UNCHANGED connVars
  BY <1>4 DEF TakeConnected, TakeMessage, Close, connVars
<1> QED
  BY <1>1, <1>2, <1>3, <1>4 DEF ConnNext, MainLoop

\* What is promised to the client of a connection is well typed.
THEOREM ConnectionTypes == ConnSpec => []ConnTypeOK
<1>1. ConnInit => ConnTypeOK
  BY ConnInitTypes
<1> QED
  BY <1>1, ConnTypeStep, PTL DEF ConnSpec

-----------------------------------------------------------------------------
(* The connection and its client.                                          *)

\* The loop has a call to send in every handshake.
LEMMA SendChooses ==
  ASSUME RTInv, LoopSend
  PROVE  /\ at = "auth" => cur' \in AuthReqs
         /\ at = "sub" => cur' \in SubReqs
         /\ at \in {"auth", "sub"} /\ cur' \in Reqs
<1> DEFINE S == IF at = "auth" THEN AuthReqs ELSE SubReqs
           unused == {q \in S : call[q] = "idle"}
<1>1. at \in {"auth", "sub"} /\ cur = NoReq /\ cur' = CHOOSE q \in unused : TRUE
  BY DEF LoopSend
<1>2. S \subseteq Reqs /\ IsFiniteSet(S) /\ Cardinality(S) >= MaxConns
  BY RealtimeAssumption
<1>3. Cardinality(S) \in Nat /\ Cardinality(Used(S)) \in Nat
  BY <1>2, FS_CardinalityType, FS_Subset DEF Used
<1>4. Cardinality(Used(S)) + 1 <= conns
  <2>1. Coming \in Nat /\ conns \in Nat
    BY ConnectionAssumption DEF Coming, One, RTInv, RTTypeOK, ConnTypeOK
  <2> QED
    BY <1>1, <1>3, <2>1 DEF RTInv, Counted, One, NeedAuth, NeedSub
<1>5. conns <= MaxConns /\ conns \in Nat /\ MaxConns \in Nat
  BY ConnectionAssumption DEF RTInv, RTTypeOK, ConnTypeOK
<1>6. unused # {}
  <2> SUFFICES ASSUME unused = {} PROVE FALSE
    OBVIOUS
  <2>1. Used(S) = S
    BY DEF Used
  <2> QED
    BY <1>2, <1>3, <1>4, <1>5, <2>1
<1>7. cur' \in unused
  BY <1>1, <1>6
<1> QED
  BY <1>1, <1>2, <1>7

\* Every step of the two is a step of the connection, or leaves it alone.
LEMMA ClientSteps == RTInv /\ [RTNext]_allVars => [ConnNext]_connVars
<1> SUFFICES ASSUME RTInv, [RTNext]_allVars PROVE [ConnNext]_connVars
  OBVIOUS
<1>1. CASE Conn
  <2>1. cur # NoReq => cur \in Reqs
    BY RealtimeAssumption DEF RTInv, RTTypeOK
  <2> QED
    BY <1>1, <2>1 DEF Conn, Report, ConnNext, MainLoop, Send
<1>2. CASE LoopSend
  BY <1>2, SendChooses DEF LoopSend, ConnNext, Send
<1>3. CASE Loop /\ ~LoopSend
  BY <1>3 DEF Loop, LoopConnected, LoopAuthorized, LoopSubscribed, LoopFailed,
     LoopMessage, LoopProcessed, LoopEnds, LoopQuits, ConnNext
<1>4. ASSUME NEW q \in Reqs, RTSend(q) PROVE [ConnNext]_connVars
  BY <1>4 DEF RTSend, ConnNext, Send
<1>5. CASE StopRealtime \/ AppClose \/ UNCHANGED allVars
  BY <1>5 DEF StopRealtime, AppClose, allVars, ConnNext
<1> QED
  BY <1>1, <1>2, <1>3, <1>4, <1>5 DEF RTNext

LEMMA RTTypeStep == RTInv /\ [RTNext]_allVars => RTTypeOK'
<1> SUFFICES ASSUME RTInv, [RTNext]_allVars PROVE RTTypeOK'
  OBVIOUS
<1>0. RTTypeOK /\ ConnTypeOK'
  BY ClientSteps, ConnTypeStep DEF RTInv, RTTypeOK
<1>1. CASE LoopSend
  BY <1>0, <1>1, SendChooses DEF LoopSend, RTTypeOK
<1>2. CASE Loop /\ ~LoopSend
  BY <1>0, <1>2 DEF Loop, LoopConnected, LoopAuthorized, LoopSubscribed,
     LoopFailed, LoopMessage, LoopProcessed, LoopEnds, LoopQuits, Moves, RTTypeOK
<1>3. CASE AppClose
  BY <1>0, <1>3 DEF AppClose, RTTypeOK
<1>4. CASE UNCHANGED rtVars
  BY <1>0, <1>4 DEF rtVars, RTTypeOK
<1> QED
  BY <1>1, <1>2, <1>3, <1>4 DEF RTNext, Conn, RTSend, StopRealtime, allVars

LEMMA CoveredStep == RTInv /\ [RTNext]_allVars => Covered'
<1> SUFFICES ASSUME RTInv, [RTNext]_allVars, Live' PROVE Covered'
  BY DEF Covered
<1> USE RealtimeAssumption
<1>0. RTTypeOK /\ ConnTypeOK /\ Covered /\ [ConnNext]_connVars
  BY ClientSteps DEF RTInv, RTTypeOK
<1>1. written \subseteq written'
  <2>1. ~Dial
    BY DEF Dial, Goto, Live
  <2>2. CASE Reqs # {}
    BY <1>0, <2>1, <2>2, ConnMonotone
  <2>3. CASE Reqs = {}
    BY <1>0, <2>3 DEF ConnTypeOK
  <2> QED
    BY <2>2, <2>3
<1>2. \A q \in Reqs : /\ call[q] = "replied" => call'[q] = "replied"
                      /\ call'[q] = "replied" => call[q] = "replied" \/ q \in written
  BY <1>0, ConnMonotone
<1>3. \A S \in SUBSET Reqs : DoneOn(S) => DoneOn(S)'
  BY <1>1, <1>2 DEF DoneOn
<1>4. ASSUME UNCHANGED rtVars, Live PROVE Covered'
  <2>1. DoneOn(AuthReqs) => DoneOn(AuthReqs)'
    BY <1>3
  <2>2. DoneOn(SubReqs) => DoneOn(SubReqs)'
    BY <1>3
  <2>3. Replied' => cur' \in written'
    <3> SUFFICES ASSUME Replied' PROVE cur \in written'
      BY <1>4 DEF rtVars
    <3>1. cur \in Reqs /\ call'[cur] = "replied" /\ cur # NoReq
      BY <1>0, <1>4 DEF Replied, rtVars, RTTypeOK
    <3> QED
      BY <1>0, <1>1, <1>2, <1>4, <3>1 DEF Replied, Covered
  <2> QED
    BY <1>0, <1>4, <2>1, <2>2, <2>3 DEF Covered, rtVars
<1>5. ASSUME cur' = NoReq, at' = "auth" PROVE Covered'
  BY <1>5 DEF Covered, Replied
<1>6. Live \/ TakeConnected
  BY <1>0 DEF Live, ConnNext, MainLoop, Dial, GiveUp, Announce, Write, Answer,
     Deliver, Shut, Hang, Leave, Send, SendBegin, SendEnqueue, SendTimeout,
     TakeMessage, Close, Goto, connVars
<1>7. ASSUME Live, LoopSend PROVE Covered'
  <2>1. cur' \in Reqs /\ call'[cur'] = "enqueue" /\ at' \in {"auth", "sub"} /\ at' = at
    BY <1>0, <1>7, SendChooses DEF LoopSend, SendBegin, ConnTypeOK
  <2>2. DoneOn(AuthReqs) => DoneOn(AuthReqs)'
    BY <1>3
  <2> QED
    BY <1>0, <1>7, <2>1, <2>2 DEF Covered, Replied
<1>8. ASSUME Live, LoopAuthorized PROVE Covered'
  <2>1. /\ at = "auth" /\ at' = "sub" /\ cur' = NoReq /\ Replied
        /\ UNCHANGED <<call, written>>
    BY <1>8 DEF LoopAuthorized, Moves, connVars
  <2>2. DoneOn(AuthReqs)'
    BY <1>0, <1>8, <2>1 DEF Covered, RTTypeOK, Replied, DoneOn
  <2> QED
    BY <2>1, <2>2 DEF Covered, Replied
<1>9. ASSUME Live, LoopSubscribed PROVE Covered'
  <2>1. /\ at = "sub" /\ at' = "select" /\ cur' = NoReq /\ Replied /\ shaken' = "ok"
        /\ UNCHANGED <<call, written>>
    BY <1>9 DEF LoopSubscribed, Moves, connVars
  <2>2. DoneOn(SubReqs)' /\ DoneOn(AuthReqs)'
    BY <1>0, <1>9, <2>1 DEF Covered, RTTypeOK, Replied, DoneOn
  <2> QED
    BY <2>1, <2>2 DEF Covered, Replied
<1>10. ASSUME Live, LoopFailed PROVE Covered'
  BY <1>10 DEF LoopFailed, Moves, Covered, Replied
<1>11. ASSUME Live, LoopMessage \/ LoopProcessed PROVE Covered'
  <2>1. /\ at \in {"select", "message"} /\ at' \in {"select", "message"}
        /\ cur' = NoReq /\ shaken' = shaken
    BY <1>11 DEF LoopMessage, LoopProcessed, Moves
  <2>2. DoneOn(AuthReqs) => DoneOn(AuthReqs)'
    BY <1>3
  <2>3. DoneOn(SubReqs) => DoneOn(SubReqs)'
    BY <1>3
  <2> QED
    BY <1>0, <1>11, <2>1, <2>2, <2>3 DEF Covered, Replied
<1>12. ASSUME LoopEnds \/ LoopQuits PROVE Covered'
  BY <1>12 DEF LoopEnds, LoopQuits, Moves, Covered, Replied
<1>13. CASE TakeConnected /\ ~Live
  <2>1. token /\ ~token'
    BY <1>13 DEF TakeConnected
  <2>2. LoopConnected
    BY <2>1 DEF RTNext, Conn, Loop, LoopSend, LoopAuthorized, LoopSubscribed,
       LoopFailed, LoopMessage, LoopProcessed, LoopEnds, LoopQuits, RTSend,
       StopRealtime, AppClose, allVars, connVars, Dial, GiveUp, Announce, Write,
       Answer, Report, Deliver, Shut, Hang, Leave, SendBegin, SendEnqueue,
       SendTimeout, TakeMessage, Close
  <2> QED
    BY <1>5, <2>2 DEF LoopConnected, Moves
<1>14. CASE Live /\ AppClose
  <2>1. UNCHANGED <<connVars, at, cur, shaken>>
    BY <1>14 DEF AppClose
  <2> QED
    BY <1>0, <1>14, <2>1 DEF Covered, Live, DoneOn, Replied, connVars
<1> QED
  <2>1. CASE Live /\ LoopConnected
    BY <1>5, <2>1 DEF LoopConnected, Moves
  <2> QED
    BY <1>4, <1>6, <1>7, <1>8, <1>9, <1>10, <1>11, <1>12, <1>13, <1>14, <2>1
    DEF RTNext, Conn, Loop, RTSend, StopRealtime, allVars

LEMMA CountedStep == RTInv /\ [RTNext]_allVars => Counted'
<1> SUFFICES ASSUME RTInv, [RTNext]_allVars PROVE Counted'
  OBVIOUS
<1> USE RealtimeAssumption
<1>0. RTTypeOK /\ ConnTypeOK /\ Counted /\ [ConnNext]_connVars /\ RTTypeOK'
  BY ClientSteps, RTTypeStep DEF RTInv, RTTypeOK
<1>1. \A S \in {AuthReqs, SubReqs} :
        /\ IsFiniteSet(Used(S)) /\ Cardinality(Used(S)) \in Nat
        /\ Used(S) \subseteq Used(S)'
  <2>1. \A q \in Reqs : call[q] # "idle" => call'[q] # "idle"
    BY <1>0, ConnMonotone
  <2> QED
    BY <2>1, FS_Subset, FS_CardinalityType DEF Used
<1>2. conns \in Nat
  BY <1>0, ConnectionAssumption DEF ConnTypeOK
<1>3. CASE LoopSend
  <2> DEFINE q == cur'
  <2>1. /\ q \in Reqs /\ SendBegin(q) /\ q # NoReq /\ cur = NoReq /\ at' = at
        /\ (at = "auth" /\ q \in AuthReqs) \/ (at = "sub" /\ q \in SubReqs)
    BY <1>3, SendChooses, ConnectionAssumption DEF LoopSend
  <2>2. /\ call[q] = "idle" /\ call'[q] # "idle" /\ \A p \in Reqs \ {q} : call'[p] = call[p]
        /\ UNCHANGED <<stage, conns, token>>
    BY <1>0, <2>1 DEF SendBegin, ConnTypeOK
  <2>3. Coming' = Coming
    BY <2>2 DEF Coming
  <2> HIDE DEF q
  <2>4. CASE at = "auth" /\ q \in AuthReqs
    <3>1. Used(AuthReqs)' = Used(AuthReqs) \union {q} /\ q \notin Used(AuthReqs)
          /\ Used(SubReqs)' = Used(SubReqs)
      BY <2>2, <2>4 DEF Used
    <3>2. Cardinality(Used(AuthReqs)') = Cardinality(Used(AuthReqs)) + 1
      BY <1>1, <3>1, FS_AddElement
    <3>3. One(NeedAuth) = 1 /\ One(NeedAuth)' = 0 /\ One(NeedSub)' = One(NeedSub)
      BY <2>1, <2>4 DEF One, NeedAuth, NeedSub, q
    <3>4. Coming \in Nat /\ One(NeedSub) \in Nat
      BY DEF Coming, One
    <3> QED
      BY <1>0, <1>1, <2>2, <2>3, <3>1, <3>2, <3>3, <3>4 DEF Counted
  <2>5. CASE at = "sub" /\ q \in SubReqs
    <3>1. Used(SubReqs)' = Used(SubReqs) \union {q} /\ q \notin Used(SubReqs)
          /\ Used(AuthReqs)' = Used(AuthReqs)
      BY <2>2, <2>5 DEF Used
    <3>2. Cardinality(Used(SubReqs)') = Cardinality(Used(SubReqs)) + 1
      BY <1>1, <3>1, FS_AddElement
    <3>3. One(NeedSub) = 1 /\ One(NeedSub)' = 0 /\ One(NeedAuth)' = One(NeedAuth)
      BY <2>1, <2>5 DEF One, NeedAuth, NeedSub, q
    <3>4. Coming \in Nat /\ One(NeedAuth) \in Nat
      BY DEF Coming, One
    <3> QED
      BY <1>0, <1>1, <2>2, <2>3, <3>1, <3>2, <3>3, <3>4 DEF Counted
  <2> QED
    BY <2>1, <2>4, <2>5
<1>4. ASSUME ~LoopSend PROVE Used(AuthReqs)' = Used(AuthReqs) /\ Used(SubReqs)' = Used(SubReqs)
  <2> SUFFICES ASSUME NEW q \in AuthReqs \union SubReqs, call[q] = "idle", call'[q] # "idle"
               PROVE  FALSE
    BY <1>1 DEF Used
  <2>1. SendBegin(q)
    BY <1>0, ConnMonotone
  <2>2. ASSUME NEW p \in Reqs, RTSend(p) PROVE FALSE
    BY <1>0, <2>2 DEF RTSend, HandlerReqs, SendBegin, ConnTypeOK
  <2>3. CASE Conn
    BY <1>0, <2>3 DEF Conn, Dial, GiveUp, Announce, Write, Answer, Unanswered,
       Report, Deliver, Shut, Hang, Leave, SendEnqueue, SendTimeout, ConnTypeOK
  <2>4. CASE Loop
    BY <1>4, <2>4 DEF Loop, LoopConnected, LoopAuthorized, LoopSubscribed,
       LoopFailed, LoopMessage, LoopProcessed, LoopEnds, LoopQuits,
       TakeConnected, TakeMessage, Close, connVars
  <2> QED
    BY <2>2, <2>3, <2>4 DEF RTNext, StopRealtime, AppClose, Close, allVars, connVars
<1>5. CASE ~LoopSend
  <2>1. One(NeedAuth)' + Coming' - conns' <= One(NeedAuth) + Coming - conns
        /\ One(NeedSub)' + Coming' - conns' <= One(NeedSub) + Coming - conns
    <3>1. CASE UNCHANGED <<stage, conns, token, at, cur>>
      BY <3>1, <1>2 DEF One, NeedAuth, NeedSub, Coming
    <3>2. CASE LoopConnected
      BY <3>2, <1>2 DEF LoopConnected, TakeConnected, Moves, One, NeedAuth, NeedSub, Coming
    <3>3. CASE LoopAuthorized \/ LoopSubscribed
      BY <3>3, <1>2 DEF LoopAuthorized, LoopSubscribed, Replied, Moves, connVars,
         One, NeedAuth, NeedSub, Coming
    <3>4. CASE LoopFailed
      BY <3>4, <1>2 DEF LoopFailed, Moves, connVars, One, NeedAuth, NeedSub, Coming
    <3>5. CASE LoopMessage \/ LoopProcessed \/ LoopEnds \/ LoopQuits
      BY <3>5, <1>2 DEF LoopMessage, TakeMessage, Goto, LoopProcessed, LoopEnds,
         LoopQuits, Close, Moves, connVars, One, NeedAuth, NeedSub, Coming
    <3>6. CASE UNCHANGED rtVars /\ (Dial \/ Announce)
      BY <3>6, <1>2 DEF rtVars, Dial, Announce, Goto, One, NeedAuth, NeedSub, Coming
    <3>7. CASE UNCHANGED rtVars /\ (GiveUp \/ Write \/ Report \/ Shut \/ Hang \/ Leave)
      BY <3>7, <1>2 DEF rtVars, GiveUp, Write, Report, Deliver, Shut, Hang, Leave,
         Goto, One, NeedAuth, NeedSub, Coming
    <3> QED
      BY <1>5, <3>1, <3>2, <3>3, <3>4, <3>5, <3>6, <3>7
      DEF RTNext, Conn, Loop, RTSend, StopRealtime, AppClose, Close, Answer,
          SendBegin, SendEnqueue, SendTimeout, allVars, connVars, rtVars
  <2>2. /\ Cardinality(Used(AuthReqs)') = Cardinality(Used(AuthReqs))
        /\ Cardinality(Used(SubReqs)') = Cardinality(Used(SubReqs))
    BY <1>4, <1>5
  <2>3. conns' \in Nat
    BY <1>0, ConnectionAssumption DEF RTTypeOK, ConnTypeOK
  <2>4. /\ Coming \in Nat /\ Coming' \in Nat
        /\ One(NeedAuth) \in Nat /\ One(NeedAuth)' \in Nat
        /\ One(NeedSub) \in Nat /\ One(NeedSub)' \in Nat
    BY DEF Coming, One
  <2> QED
    BY <1>0, <1>1, <1>2, <2>1, <2>2, <2>3, <2>4 DEF Counted
<1> QED
  BY <1>3, <1>5

LEMMA RTInvariance == RTSpec => []RTInv
<1>1. RTInit => RTInv
  <2> SUFFICES ASSUME RTInit PROVE RTInv
    OBVIOUS
  <2>1. RTTypeOK
    BY ConnInitTypes DEF RTInit, RTTypeOK
  <2>2. Covered
    BY DEF RTInit, ConnInit, Covered, Live
  <2>3. Used(AuthReqs) = {} /\ Used(SubReqs) = {}
    BY RealtimeAssumption DEF RTInit, ConnInit, Used
  <2>4. Counted
    BY <2>3, FS_EmptySet DEF RTInit, ConnInit, Counted, One, NeedAuth, NeedSub, Coming
  <2> QED
    BY <2>1, <2>2, <2>4 DEF RTInv
<1>2. RTInv /\ [RTNext]_allVars => RTInv'
  BY RTTypeStep, CoveredStep, CountedStep DEF RTInv
<1> QED
  BY <1>1, <1>2, PTL DEF RTSpec

\* The loop waits only for calls of its own: one of "auth" before one of
\* "subscribe", and for none outside a handshake; it never runs out of them,
\* since a handshake needs a connection (realtime.go:42-48, 84-110).
THEOREM LoopIsTyped == RTSpec => []RTTypeOK
<1>1. RTInv => RTTypeOK
  BY DEF RTInv
<1> QED
  BY <1>1, RTInvariance, PTL

\* However often the connection is lost before or during a handshake: a loop
\* that is back in its select with no event waiting has authorised and
\* subscribed on the current connection, or its handshake has failed
\* (realtime.go:42-48, loop.go:52).
THEOREM EveryConnectionIsShaken == RTSpec => []HandshakeCovers
<1>1. RTInv => HandshakeCovers
  BY DEF RTInv, Covered, Live, DoneOn, HandshakeCovers
<1> QED
  BY <1>1, RTInvariance, PTL

\* The realtime loop and the handlers use a connection as Connection allows:
\* what is proved of the connection holds with this client, and what module
\* SocketIO implements is what this client needs (realtime.go:38-110).
THEOREM ClientKeepsToConnection == RTSpec => ConnSpec
<1>1. RTInit => ConnInit
  BY DEF RTInit
<1>2. RTInv /\ [RTNext]_allVars => [ConnNext]_connVars
  BY ClientSteps
<1> QED
  BY <1>1, <1>2, RTInvariance, PTL DEF RTSpec, ConnSpec
=============================================================================
