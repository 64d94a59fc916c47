----------------------------- MODULE CardsProofs -----------------------------
(***************************************************************************)
(* Theorems about messages and their buttons, for every set of handlers,   *)
(* events and messages, and every list of tracked posts that former        *)
(* versions have left.                                                     *)
(*                                                                         *)
(* None of the properties is inductive.  What a button may take for        *)
(* granted has to be known of the keyboards (Shown) and of the handlers    *)
(* that have read a button from them (Acting); what a handler writes, of   *)
(* the post it has loaded (Informed), of the request it has decided        *)
(* (Decided), and of what FreeFeed knows if nothing has happened beside it *)
(* (Alone).                                                                *)
(***************************************************************************)
EXTENDS Cards, ChatRecordsProofs

\* Button b of message m tells something of the event.
Allowed(m, b) ==
  /\ b \notin SubscrButtons => event.post
  /\ b \in {"like", "unlike"} => event.comment
  /\ m # 1 => b = "reply"

Shown == \A m \in 1 .. MaxMessages : \A b \in boards[m] : Allowed(m, b)

\* A handler has read its button from a keyboard; some buttons ask FreeFeed
\* twice, and some end without an edit.
ActingOf(p) ==
  /\ pc[p] # "idle" => Allowed(msg[p], button[p])
  /\ pc[p] = "notify" => button[p] \in {"track", "untrack"}
  /\ pc[p] = "edit" => button[p] \notin {"reply", "replyAt"}
Acting == \A p \in Presses : ActingOf(p)

\* What a handler knows once it has loaded the post.
Has(p) == pc[p] \in {"act", "notify", "edit"}
InformedOf(p) ==
  Has(p) =>
    /\ event.post => snap[p].post = "known"
    /\ ~event.post => snap[p].post = "nil"
    /\ snap[p].comment # "none" => event.comment
    /\ pc[p] = "act" /\ button[p] \in {"like", "unlike"} /\ srv.comment
         => snap[p].comment # "none"
Informed == \A p \in Presses : InformedOf(p)

\* A verdict is written once FreeFeed has taken the decision.
DecidedOf(p) ==
  pc[p] = "edit" /\ button[p] \in SubscrButtons => srv.request = Decision(button[p])
Decided == \A p \in Presses : DecidedOf(p)

\* A handler that nothing happens beside knows what FreeFeed knows.
Matches(x) ==
  /\ x.comment = "plain" => ~srv.liked
  /\ x.comment = "liked" => srv.liked
  /\ x.post = "known" /\ x.notify => srv.notify
  /\ x.post = "known" /\ srv.notify => x.notify
UpToDate(p) == Has(p) => Matches(snap[p])
Alone ==
  \A p \in lone :
    /\ \A q \in Presses : q # p => pc[q] = "idle"
    /\ UpToDate(p)

CInv ==
  /\ RInv /\ CardTypeOK
  /\ Shown /\ Acting /\ Informed /\ Decided /\ Alone
  /\ VerdictIsTrue /\ NoneUnknown /\ LabelsFit /\ CrashNeedsGap

-----------------------------------------------------------------------------
(* The keyboards and the answers.                                          *)

LEMMA ButtonsAre ==
  /\ Buttons = {"reply", "replyAt", "more", "accept", "reject",
                "back", "like", "unlike", "track", "untrack"}
  /\ SubscrButtons = {"accept", "reject"}
  BY DEF Buttons, PostButtons, Refused, SubscrButtons

\* The keyboard of an open message offers what the post has not got yet.
LEMMA MoreFits ==
  ASSUME NEW x \in Posted, NEW t \in BOOLEAN
  PROVE  /\ MoreButtons(x, t) \subseteq {"back", "like", "unlike", "track", "untrack"}
         /\ "like" \in MoreButtons(x, t) => x.comment = "plain"
         /\ "unlike" \in MoreButtons(x, t) => x.comment = "liked"
         /\ "track" \in MoreButtons(x, t) => ~t /\ ~x.notify
         /\ "untrack" \in MoreButtons(x, t) => t \/ x.notify
<1>1. x.comment \in {"none", "plain", "liked"} /\ x.post = "known"
  BY DEF Posted
<1>2. CASE x.comment = "none"
  BY <1>1, <1>2 DEF MoreButtons
<1>3. CASE x.comment = "plain"
  BY <1>1, <1>3 DEF MoreButtons
<1>4. CASE x.comment = "liked"
  BY <1>1, <1>4 DEF MoreButtons
<1> QED
  BY <1>1, <1>2, <1>3, <1>4

LEMMA PostButtonsAre ==
  ASSUME NEW x
  PROVE  /\ PostButtons(x) \subseteq {"reply", "replyAt", "more"}
         /\ x.post = "nil" => PostButtons(x) = {}
  BY DEF PostButtons

LEMMA BoardFits ==
  ASSUME NEW x, NEW e, ~e.post => x.post = "nil"
  PROVE  /\ Board(e, x) \subseteq {"reply", "replyAt", "more"} \union SubscrButtons
         /\ ~e.post => Board(e, x) \subseteq SubscrButtons
  BY PostButtonsAre DEF Board

\* What LoadPost loads, if it does.
LEMMA AnswersFit ==
  ASSUME event \in Event, srv \in Server, NEW x \in Answers, x # Refused
  PROVE  /\ x \in Posted \union {NoPost}
         /\ event.post => x \in Posted /\ x.post = "known"
         /\ ~event.post => x.post = "nil"
         /\ x.comment # "none" => event.comment
         /\ event.post /\ event.comment /\ srv.comment => x.comment # "none"
         /\ Matches(x)
<1>0. /\ event.post \in BOOLEAN /\ event.comment \in BOOLEAN
      /\ srv.direct \in BOOLEAN /\ srv.notify \in BOOLEAN /\ srv.liked \in BOOLEAN
      /\ srv.comment \in BOOLEAN
  BY DEF Event, Server
<1>1. CASE ~event.post
  <2>1. x = NoPost
    BY <1>1 DEF Answers, Loaded
  <2> QED
    BY <1>1, <2>1 DEF NoPost, Matches
<1>2. CASE event.post
  <2>1. Loaded(event, Refused) = Refused
    BY <1>2 DEF Loaded, Refused
  <2>2. x = Loaded(event, View)
    BY <2>1 DEF Answers
  <2>3. x = [View EXCEPT !.comment = IF event.comment THEN View.comment ELSE "none"]
    BY <1>2, <2>2 DEF Loaded
  <2>4. /\ View = [post |-> "known", direct |-> srv.direct, notify |-> srv.notify,
                   comment |-> View.comment]
        /\ ~srv.comment => View.comment = "none"
        /\ srv.comment /\ srv.liked => View.comment = "liked"
        /\ srv.comment /\ ~srv.liked => View.comment = "plain"
    BY DEF View
  <2>5. PICK c \in {"none", "plain", "liked"} :
          /\ x = [post |-> "known", direct |-> srv.direct, notify |-> srv.notify, comment |-> c]
          /\ c # "none" => event.comment /\ c = View.comment
          /\ event.comment => c = View.comment
    BY <1>0, <2>3, <2>4
  <2>6. x.post = "known" /\ x.notify = srv.notify /\ x.comment = c
    BY <2>5
  <2>7. x \in Posted
    BY <1>0, <2>5 DEF Posted
  <2> QED
    BY <1>0, <1>2, <2>4, <2>5, <2>6, <2>7 DEF Matches
<1> QED
  BY <1>0, <1>1, <1>2

-----------------------------------------------------------------------------
(* What a step leaves as it was.                                           *)

LEMMA Typed ==
  ASSUME CInv
  PROVE  /\ event \in Event /\ event \in Events /\ srv \in Server
         /\ boards \in [1 .. MaxMessages -> SUBSET Buttons]
         /\ pc \in [Presses -> {"idle", "load", "act", "notify", "edit"}]
         /\ button \in [Presses -> Buttons] /\ msg \in [Presses -> 1 .. MaxMessages]
         /\ snap \in [Presses -> Posted \union {NoPost, Refused}]
         /\ lone \subseteq Presses
         /\ 1 \in 1 .. MaxMessages /\ Post \in Posts /\ Other \in Events
<1>1. CardTypeOK
  BY DEF CInv
<1>2. 1 \in 1 .. MaxMessages
  BY CardsAssumption, RecordsAssumption
<1> QED
  BY <1>1, <1>2, CardsAssumption DEF CardTypeOK

\* The lists of records change by the operations of the store alone.
LEMMA ListsMove ==
  ASSUME CInv, [CardsNext]_allVars
  PROVE  [Next]_vars
<1>0. event \in Events /\ Other \in Events /\ Post \in Posts
  BY Typed
<1>1. CASE UNCHANGED allVars
  BY <1>1 DEF allVars
<1>2. CASE Arrive
  BY <1>0, <1>2 DEF Arrive, Next
<1>3. CASE SendOther
  BY <1>0, <1>3 DEF SendOther, Next
<1>4. CASE Comment
  BY <1>0, <1>4 DEF Comment, Next
<1>5. CASE Logout
  BY <1>5 DEF Logout, Next
<1>6. CASE Outside
  BY <1>6 DEF Outside
<1>7. ASSUME NEW p \in Presses, Handle(p) PROVE [Next]_vars
  <2>1. CASE Untrack(p)
    BY <1>0, <2>1 DEF Untrack, Next
  <2>2. CASE Press(p)
    BY <2>2 DEF Press
  <2>3. CASE Load(p)
    BY <2>3 DEF Load
  <2>4. CASE Reply(p)
    BY <2>4 DEF Reply
  <2>5. CASE Decide(p)
    BY <2>5 DEF Decide
  <2>6. CASE Like(p)
    BY <2>6 DEF Like
  <2>7. CASE Notify(p)
    BY <2>7 DEF Notify
  <2>8. CASE Edit(p)
    BY <2>8 DEF Edit
  <2> QED
    BY <1>7, <2>1, <2>2, <2>3, <2>4, <2>5, <2>6, <2>7, <2>8 DEF Handle
<1> QED
  BY <1>1, <1>2, <1>3, <1>4, <1>5, <1>6, <1>7 DEF CardsNext

\* While handlers wait, FreeFeed may forget comments and decide the request.
Onwards ==
  /\ srv'.comment => srv.comment
  /\ srv.request # "pending" => srv'.request = srv.request

LEMMA OthersKeep ==
  ASSUME CInv, NEW q \in Presses, Onwards, event' = event,
         pc'[q] = pc[q], button'[q] = button[q], msg'[q] = msg[q], snap'[q] = snap[q]
  PROVE  ActingOf(q)' /\ InformedOf(q)' /\ DecidedOf(q)'
<1>0. ActingOf(q) /\ InformedOf(q) /\ DecidedOf(q)
  BY DEF CInv, Acting, Informed, Decided
<1>1. ActingOf(q)'
  BY <1>0 DEF ActingOf, Allowed
<1>2. InformedOf(q)'
  BY <1>0 DEF InformedOf, Has, Onwards
<1>3. Decision(button[q]) # "pending"
  BY DEF Decision
<1>4. DecidedOf(q)'
  BY <1>0, <1>3 DEF DecidedOf, Onwards, Decision
<1> QED
  BY <1>1, <1>2, <1>4

\* Nobody handles anything meanwhile.
LEMMA HandlersWait ==
  ASSUME CInv, Onwards, UNCHANGED <<event, pc, button, msg, snap>>,
         lone' = {} \/ UNCHANGED <<lone, srv>>
  PROVE  Acting' /\ Informed' /\ Decided' /\ Alone'
<1>1. Acting' /\ Informed' /\ Decided'
  BY OthersKeep DEF Acting, Informed, Decided
<1>2. CASE lone' = {}
  BY <1>1, <1>2 DEF Alone
<1>3. CASE UNCHANGED <<lone, srv>>
  <2>1. Alone
    BY DEF CInv
  <2> QED
    BY <1>1, <1>3, <2>1 DEF Alone, UpToDate, Has, Matches
<1> QED
  BY <1>2, <1>3

\* One handler goes on to a place.
LEMMA OneGoesOn ==
  ASSUME CInv, NEW p \in Presses, pc[p] # "idle",
         NEW place \in {"idle", "load", "act", "notify", "edit"}, Goto(p, place),
         Onwards, UNCHANGED <<event, button, msg, lone>>,
         \A q \in Presses : q # p => snap'[q] = snap[q],
         ActingOf(p)', InformedOf(p)', DecidedOf(p)',
         p \in lone => UpToDate(p)'
  PROVE  Acting' /\ Informed' /\ Decided' /\ Alone'
<1>0. pc' = [pc EXCEPT ![p] = place] /\ pc \in [Presses -> {"idle", "load", "act", "notify", "edit"}]
      /\ lone \subseteq Presses
  BY Typed DEF Goto
<1>1. \A q \in Presses : q # p => pc'[q] = pc[q]
  BY <1>0
<1>2. \A q \in Presses : ActingOf(q)' /\ InformedOf(q)' /\ DecidedOf(q)'
  BY <1>1, OthersKeep
<1>3. \A r \in lone : r = p
  BY DEF CInv, Alone
<1>4. \A q \in Presses : p \in lone /\ q # p => pc[q] = "idle"
  BY DEF CInv, Alone
<1>5. Alone'
  BY <1>1, <1>3, <1>4 DEF Alone
<1> QED
  BY <1>2, <1>5 DEF Acting, Informed, Decided

LEMMA VerdictStands ==
  ASSUME CInv, Onwards, verdict' = verdict
  PROVE  VerdictIsTrue'
<1>1. verdict # "pending"
  BY DEF CInv, CardTypeOK
<1> QED
  BY <1>1 DEF CInv, VerdictIsTrue, Onwards

LEMMA LabelsStand ==
  ASSUME CInv, sure' => sure /\ boards'[1] = boards[1] /\ UNCHANGED <<srv, tracked>>
  PROVE  LabelsFit'
<1>1. LabelsFit
  BY DEF CInv
<1> QED
  BY <1>1 DEF LabelsFit, IsPostTracked, Ran

-----------------------------------------------------------------------------
(* Messages, and FreeFeed.                                                 *)

LEMMA ArriveStep ==
  ASSUME CInv, Arrive, RInv'
  PROVE  CInv'
<1>0. /\ event \in Event /\ 1 \in 1 .. MaxMessages
      /\ boards \in [1 .. MaxMessages -> SUBSET Buttons]
  BY Typed
<1>1. /\ UNCHANGED <<event, verdict, srv, outside, pc, button, msg, snap>>
      /\ UNCHANGED <<unknown, lone, sure>>
  BY DEF Arrive, srvVars, pressVars
<1>2. PICK x \in Answers :
        \/ fate' = "muted" /\ UNCHANGED <<vars, boards, crashed>>
        \/ /\ Panics(event, x) /\ fate' = "lost"
           /\ crashed' \in {"", "arrival"} /\ UNCHANGED <<vars, boards>>
        \/ /\ fate' = "shown" /\ boards' = [boards EXCEPT ![1] = Board(event, x)]
           /\ PutMsgRec(event) /\ UNCHANGED crashed
  BY DEF Arrive
<1>3. ~event.post => x.post = "nil"
  BY DEF Answers, Loaded, NoPost
<1>4. event.post => x.post # "nil"
  <2>1. CASE x = Refused
    BY <2>1 DEF Refused
  <2>2. CASE x # Refused
    BY <1>0, <2>2, AnswersFit DEF CInv, CardTypeOK
  <2> QED
    BY <2>1, <2>2
<1>5. Panics(event, x) => ~event.post \/ ~event.affected
  BY <1>4 DEF Panics
<1>6. CrashNeedsGap'
  <2>1. CrashNeedsGap
    BY DEF CInv
  <2>2. CASE UNCHANGED crashed
    BY <1>1, <2>1, <2>2 DEF CrashNeedsGap
  <2>3. CASE crashed' \in {"", "arrival"} /\ Panics(event, x)
    BY <1>1, <1>5, <2>3, ButtonsAre DEF CrashNeedsGap
  <2> QED
    BY <1>2, <2>2, <2>3
<1>7. boards' \in [1 .. MaxMessages -> SUBSET Buttons]
  <2>1. Board(event, x) \subseteq {"reply", "replyAt", "more"} \union SubscrButtons
    BY <1>3, BoardFits
  <2>2. Board(event, x) \subseteq Buttons
    BY <2>1, ButtonsAre
  <2>3. boards' = boards \/ boards' = [boards EXCEPT ![1] = Board(event, x)]
    BY <1>2
  <2> QED
    BY <1>0, <2>2, <2>3
<1>8. Shown'
  <2>1. Shown
    BY DEF CInv
  <2>2. CASE UNCHANGED boards
    BY <1>1, <2>1, <2>2 DEF Shown, Allowed
  <2>3. CASE boards' = [boards EXCEPT ![1] = Board(event, x)]
    <3>1. \A b \in Board(event, x) : b \notin SubscrButtons => event.post
      BY <1>3, BoardFits, Zenon
    <3>2. \A b \in Board(event, x) : b \notin {"like", "unlike"}
      BY <1>3, BoardFits, ButtonsAre
    <3> QED
      BY <1>0, <1>1, <2>1, <2>3, <3>1, <3>2 DEF Shown, Allowed
  <2> QED
    BY <1>2, <2>2, <2>3
<1>9. LabelsFit'
  <2>1. LabelsFit
    BY DEF CInv
  <2>2. CASE UNCHANGED <<vars, boards>>
    BY <1>1, <2>2, LabelsStand DEF vars
  <2>3. CASE boards' = [boards EXCEPT ![1] = Board(event, x)] /\ PutMsgRec(event)
    <3>1. boards'[1] = Board(event, x)
      BY <1>0, <2>3
    <3>2. Board(event, x) \intersect {"like", "unlike", "track", "untrack"} = {}
      BY <1>3, BoardFits, ButtonsAre
    <3> QED
      BY <3>1, <3>2 DEF LabelsFit
  <2> QED
    BY <1>2, <2>2, <2>3
<1>10. Acting' /\ Informed' /\ Decided' /\ Alone'
  BY <1>1, HandlersWait DEF Onwards
<1>11. VerdictIsTrue' /\ NoneUnknown'
  BY <1>1, VerdictStands DEF Onwards, CInv, NoneUnknown
<1>12. CardTypeOK'
  <2>1. TypeOK' /\ CardTypeOK
    BY DEF RInv, CInv
  <2>2. fate' \in {"muted", "lost", "shown"}
    BY <1>2
  <2>3. crashed' \in Buttons \union {"", "arrival"}
    BY <1>2, <2>1 DEF CardTypeOK
  <2> QED
    BY <1>1, <1>7, <2>1, <2>2, <2>3 DEF CardTypeOK
<1> QED
  BY <1>6, <1>8, <1>9, <1>10, <1>11, <1>12 DEF CInv

LEMMA SendOtherStep ==
  ASSUME CInv, SendOther, RInv'
  PROVE  CInv'
<1>1. UNCHANGED <<cardVars, srvVars, pressVars, logVars, tracked>>
  BY DEF SendOther, PutMsgRec
<1>2. Acting' /\ Informed' /\ Decided' /\ Alone'
  BY <1>1, HandlersWait DEF cardVars, srvVars, pressVars, logVars, Onwards
<1>3. VerdictIsTrue' /\ LabelsFit'
  BY <1>1, VerdictStands, LabelsStand DEF cardVars, srvVars, logVars, Onwards
<1>4. Shown' /\ NoneUnknown' /\ CrashNeedsGap'
  BY <1>1 DEF cardVars, logVars, CInv, Shown, Allowed, NoneUnknown, CrashNeedsGap
<1>5. CardTypeOK'
  BY <1>1 DEF CInv, RInv, CardTypeOK, cardVars, srvVars, pressVars, logVars
<1> QED
  BY <1>2, <1>3, <1>4, <1>5 DEF CInv

LEMMA CommentStep ==
  ASSUME CInv, Comment, RInv'
  PROVE  CInv'
<1>0. /\ event.post /\ UNCHANGED <<event, fate, verdict, srv, outside, pc, button, msg, snap>>
      /\ UNCHANGED <<crashed, unknown, lone, sure>>
      /\ boards' = [boards EXCEPT ![lastID'] = SentCommentButtons]
      /\ lastID' \in 1 .. MaxMessages /\ lastID' # 1 /\ UNCHANGED tracked
  <2>1. lastID \in 0 .. MaxMessages /\ MaxMessages \in Nat
    BY RecordsAssumption DEF CInv, RInv, TypeOK
  <2>2. lastID' = lastID + 1 /\ lastID < MaxMessages /\ (\E m \in 1 .. lastID : TRUE)
    BY DEF Comment, PutMsgRec
  <2>3. lastID' \in 1 .. MaxMessages /\ lastID' # 1
    BY <2>1, <2>2
  <2> QED
    BY <2>3 DEF Comment, PutMsgRec, srvVars, pressVars, logVars
<1>1. boards \in [1 .. MaxMessages -> SUBSET Buttons] /\ 1 \in 1 .. MaxMessages
  BY Typed
<1>2. Acting' /\ Informed' /\ Decided' /\ Alone'
  BY <1>0, HandlersWait DEF Onwards
<1>3. boards'[1] = boards[1]
  BY <1>0, <1>1
<1>4. VerdictIsTrue' /\ LabelsFit'
  BY <1>0, <1>3, VerdictStands, LabelsStand DEF Onwards
<1>5. NoneUnknown' /\ CrashNeedsGap'
  BY <1>0 DEF CInv, NoneUnknown, CrashNeedsGap
<1>6. Shown'
  BY <1>0, <1>1 DEF CInv, Shown, Allowed, SentCommentButtons
<1>7. CardTypeOK'
  <2>1. boards' \in [1 .. MaxMessages -> SUBSET Buttons]
    BY <1>0, <1>1, ButtonsAre DEF SentCommentButtons
  <2> QED
    BY <1>0, <2>1 DEF CInv, RInv, CardTypeOK
<1> QED
  BY <1>2, <1>4, <1>5, <1>6, <1>7 DEF CInv

LEMMA LogoutStep ==
  ASSUME CInv, Logout, RInv'
  PROVE  CInv'
<1>0. /\ UNCHANGED <<event, fate, boards, verdict, srv, outside, pc, button, msg, snap>>
      /\ UNCHANGED <<crashed, unknown>> /\ lone' = {} /\ sure' = FALSE
  BY DEF Logout, cardVars, srvVars, pressVars
<1>1. Acting' /\ Informed' /\ Decided' /\ Alone'
  BY <1>0, HandlersWait DEF Onwards
<1>2. VerdictIsTrue' /\ LabelsFit'
  BY <1>0, VerdictStands, LabelsStand DEF Onwards
<1>3. Shown' /\ NoneUnknown' /\ CrashNeedsGap'
  BY <1>0 DEF CInv, Shown, Allowed, NoneUnknown, CrashNeedsGap
<1>4. CardTypeOK'
  BY <1>0 DEF CInv, RInv, CardTypeOK
<1> QED
  BY <1>1, <1>2, <1>3, <1>4 DEF CInv

LEMMA OutsideStep ==
  ASSUME CInv, Outside, RInv'
  PROVE  CInv'
<1>0. /\ UNCHANGED <<event, fate, boards, verdict, pc, button, msg, snap>>
      /\ UNCHANGED <<crashed, unknown>> /\ lone' = {} /\ sure' = FALSE
      /\ outside < MaxOutside /\ outside' = outside + 1
  BY DEF Outside, cardVars, pressVars
<1>1. srv \in Server
  BY Typed
<1>2. srv' \in Server /\ Onwards
  <2>1. CASE srv' = [srv EXCEPT !.post = FALSE]
    BY <1>1, <2>1 DEF Server, Onwards
  <2>2. CASE srv' = [srv EXCEPT !.comment = FALSE]
    BY <1>1, <2>2 DEF Server, Onwards
  <2>3. CASE srv' = [srv EXCEPT !.liked = ~@]
    BY <1>1, <2>3 DEF Server, Onwards
  <2>4. CASE srv' = [srv EXCEPT !.notify = ~@]
    BY <1>1, <2>4 DEF Server, Onwards
  <2>5. ASSUME srv.request = "pending", NEW r \in {"accepted", "rejected"},
               srv' = [srv EXCEPT !.request = r]
        PROVE  srv' \in Server /\ Onwards
    BY <1>1, <2>5 DEF Server, Onwards
  <2> QED
    BY <2>1, <2>2, <2>3, <2>4, <2>5 DEF Outside
<1>3. Acting' /\ Informed' /\ Decided' /\ Alone'
  BY <1>0, <1>2, HandlersWait
<1>4. VerdictIsTrue' /\ LabelsFit'
  BY <1>0, <1>2, VerdictStands, LabelsStand
<1>5. Shown' /\ NoneUnknown' /\ CrashNeedsGap'
  BY <1>0 DEF CInv, Shown, Allowed, NoneUnknown, CrashNeedsGap
<1>6. outside' \in 0 .. MaxOutside
  <2>1. outside \in 0 .. MaxOutside
    BY DEF CInv, CardTypeOK
  <2>2. MaxOutside \in Nat
    BY CardsAssumption
  <2> QED
    BY <1>0, <2>1, <2>2
<1>7. CardTypeOK'
  BY <1>0, <1>2, <1>6 DEF CInv, RInv, CardTypeOK
<1> QED
  BY <1>3, <1>4, <1>5, <1>7 DEF CInv

-----------------------------------------------------------------------------
(* The handlers.                                                           *)

LEMMA PressStep ==
  ASSUME CInv, NEW p \in Presses, Press(p), RInv'
  PROVE  CInv'
<1>t. /\ boards \in [1 .. MaxMessages -> SUBSET Buttons] /\ lastID \in 0 .. MaxMessages
      /\ pc \in [Presses -> {"idle", "load", "act", "notify", "edit"}]
      /\ button \in [Presses -> Buttons] /\ msg \in [Presses -> 1 .. MaxMessages]
      /\ MaxMessages \in Nat
  BY Typed, RecordsAssumption DEF CInv, RInv, TypeOK
<1>1. /\ UNCHANGED <<event, fate, boards, verdict, srv, outside, snap, tracked>>
      /\ UNCHANGED <<crashed, unknown, sure>>
      /\ pc[p] = "idle" /\ pc' = [pc EXCEPT ![p] = "load"]
      /\ lone' = IF \A q \in Presses : pc[q] = "idle" THEN {p} ELSE {}
  BY DEF Press, Running, Goto, vars, cardVars, srvVars
<1>m. PICK m \in 1 .. lastID : \E b \in boards[m] :
        button' = [button EXCEPT ![p] = b] /\ msg' = [msg EXCEPT ![p] = m]
  BY DEF Press
<1>2. PICK b \in boards[m] :
        button' = [button EXCEPT ![p] = b] /\ msg' = [msg EXCEPT ![p] = m]
  BY <1>m
<1>3. m \in 1 .. MaxMessages
  BY <1>t
<1>4. Allowed(m, b) /\ b \in Buttons
  BY <1>t, <1>3 DEF CInv, Shown
<1>5. \A q \in Presses : q # p => pc'[q] = pc[q] /\ button'[q] = button[q] /\ msg'[q] = msg[q]
  BY <1>t, <1>1, <1>2
<1>6. pc'[p] = "load" /\ button'[p] = b /\ msg'[p] = m
  BY <1>t, <1>1, <1>2
<1>7. ActingOf(p)' /\ InformedOf(p)' /\ DecidedOf(p)'
  BY <1>1, <1>4, <1>6 DEF ActingOf, Allowed, InformedOf, DecidedOf, Has
<1>8. \A q \in Presses : q # p => ActingOf(q)' /\ InformedOf(q)' /\ DecidedOf(q)'
  BY <1>1, <1>5, OthersKeep DEF Onwards
<1>9. Alone'
  BY <1>1, <1>5, <1>6 DEF Alone, UpToDate, Has
<1>10. VerdictIsTrue' /\ LabelsFit'
  BY <1>1, VerdictStands, LabelsStand DEF Onwards
<1>11. Shown' /\ NoneUnknown' /\ CrashNeedsGap'
  BY <1>1 DEF CInv, Shown, Allowed, NoneUnknown, CrashNeedsGap
<1>12. CardTypeOK'
  <2>1. /\ pc' \in [Presses -> {"idle", "load", "act", "notify", "edit"}]
        /\ button' \in [Presses -> Buttons] /\ msg' \in [Presses -> 1 .. MaxMessages]
        /\ lone' \subseteq Presses
    BY <1>t, <1>1, <1>2, <1>3, <1>4
  <2> QED
    BY <1>1, <2>1 DEF CInv, RInv, CardTypeOK
<1> QED
  BY <1>7, <1>8, <1>9, <1>10, <1>11, <1>12 DEF CInv, Acting, Informed, Decided

\* A step of handler p that edits nothing.
LEMMA HandlerStep ==
  ASSUME CInv, NEW p \in Presses, pc[p] # "idle", RInv',
         NEW place \in {"idle", "act", "notify", "edit"}, Goto(p, place),
         UNCHANGED <<event, fate, boards, verdict, outside, button, msg, lone, unknown>>,
         srv' \in Server, Onwards,
         NEW x \in Posted \union {NoPost, Refused}, snap' = [snap EXCEPT ![p] = x],
         crashed' \in Buttons \union {"", "arrival"}, CrashNeedsGap',
         sure' \in BOOLEAN, sure' => sure /\ UNCHANGED <<srv, tracked>>,
         ActingOf(p)', InformedOf(p)', DecidedOf(p)',
         p \in lone => UpToDate(p)'
  PROVE  CInv'
<1>0. /\ snap \in [Presses -> Posted \union {NoPost, Refused}]
      /\ pc \in [Presses -> {"idle", "load", "act", "notify", "edit"}]
  BY Typed
<1>1. Acting' /\ Informed' /\ Decided' /\ Alone'
  <2>1. \A q \in Presses : q # p => snap'[q] = snap[q]
    BY <1>0
  <2> QED
    BY <2>1, OneGoesOn
<1>2. VerdictIsTrue' /\ LabelsFit'
  BY VerdictStands, LabelsStand
<1>3. Shown' /\ NoneUnknown'
  BY DEF CInv, Shown, Allowed, NoneUnknown
<1>4. CardTypeOK'
  <2>1. snap' \in [Presses -> Posted \union {NoPost, Refused}]
    BY <1>0
  <2>2. pc' \in [Presses -> {"idle", "load", "act", "notify", "edit"}]
    BY <1>0 DEF Goto
  <2> QED
    BY <2>1, <2>2 DEF CInv, RInv, CardTypeOK
<1> QED
  BY <1>1, <1>2, <1>3, <1>4 DEF CInv

\* What is known of a handler that has loaded the post.
LEMMA Knows ==
  ASSUME CInv, NEW p \in Presses, Has(p)
  PROVE  /\ snap[p] \in Posted \union {NoPost, Refused}
         /\ event.post => snap[p] \in Posted /\ snap[p].post = "known"
         /\ ~event.post => snap[p].post = "nil"
         /\ ActingOf(p) /\ InformedOf(p) /\ DecidedOf(p)
         /\ p \in lone => Matches(snap[p])
         /\ Allowed(msg[p], button[p]) /\ button[p] \in Buttons
<1>1. snap[p] \in Posted \union {NoPost, Refused} /\ button[p] \in Buttons
  BY Typed
<1>2. ActingOf(p) /\ InformedOf(p) /\ DecidedOf(p) /\ (p \in lone => UpToDate(p))
  BY DEF CInv, Acting, Informed, Decided, Alone
<1>3. event.post => snap[p].post = "known"
  BY <1>2 DEF InformedOf
<1>4. NoPost.post = "nil" /\ Refused.post = "blank"
  BY DEF NoPost, Refused
<1> QED
  BY <1>1, <1>2, <1>3, <1>4 DEF InformedOf, ActingOf, Has, UpToDate

LEMMA LoadStep ==
  ASSUME CInv, NEW p \in Presses, Load(p), RInv'
  PROVE  CInv'
<1>t. /\ srv \in Server /\ event \in Event /\ button[p] \in Buttons
      /\ snap \in [Presses -> Posted \union {NoPost, Refused}]
      /\ pc \in [Presses -> {"idle", "load", "act", "notify", "edit"}]
      /\ crashed \in Buttons \union {"", "arrival"} /\ sure \in BOOLEAN
  BY Typed DEF CInv, CardTypeOK
<1>1. /\ UNCHANGED <<event, fate, boards, verdict, srv, outside, button, msg, tracked>>
      /\ UNCHANGED <<crashed, unknown, lone, sure>> /\ pc[p] = "load"
  BY DEF Load, Running, vars, cardVars, srvVars, logVars
<1>2. CrashNeedsGap' /\ Onwards
  BY <1>1 DEF CInv, CrashNeedsGap, Onwards
<1>3. Allowed(msg[p], button[p])
  BY <1>1 DEF CInv, Acting, ActingOf
<1>4. CASE Ends(p) /\ UNCHANGED snap
  <2>1. Goto(p, "idle") /\ pc'[p] = "idle" /\ snap' = [snap EXCEPT ![p] = snap[p]]
        /\ snap[p] \in Posted \union {NoPost, Refused}
    BY <1>t, <1>4 DEF Ends, Goto
  <2>2. ActingOf(p)' /\ InformedOf(p)' /\ DecidedOf(p)' /\ UpToDate(p)'
    BY <2>1 DEF ActingOf, InformedOf, DecidedOf, UpToDate, Has
  <2> QED
    BY <1>t, <1>1, <1>2, <2>1, <2>2, HandlerStep
<1>5. ASSUME NEW x \in Answers, x # Refused, snap' = [snap EXCEPT ![p] = x],
             Goto(p, IF button[p] \in {"more", "back"} THEN "edit" ELSE "act")
      PROVE  CInv'
  <2>1. /\ x \in Posted \union {NoPost}
        /\ event.post => x.post = "known"
        /\ ~event.post => x.post = "nil"
        /\ x.comment # "none" => event.comment
        /\ event.post /\ event.comment /\ srv.comment => x.comment # "none"
        /\ Matches(x)
    BY <1>t, <1>5, AnswersFit
  <2>2. snap'[p] = x
    BY <1>t, <1>5
  <2>3. Matches(snap[p])'
    BY <1>1, <2>1, <2>2 DEF Matches
  <2>4. PICK place \in {"edit", "act"} :
          /\ Goto(p, place)
          /\ place = "edit" => button[p] \in {"more", "back"}
    BY <1>5
  <2>5. pc'[p] = place
    BY <1>t, <2>4 DEF Goto
  <2>6. ActingOf(p)'
    BY <1>1, <1>3, <2>4, <2>5 DEF ActingOf, Allowed
  <2>7. InformedOf(p)'
    BY <1>1, <1>3, <2>1, <2>2, <2>5, ButtonsAre DEF InformedOf, Allowed
  <2>8. DecidedOf(p)'
    BY <1>1, <2>4, <2>5, ButtonsAre DEF DecidedOf
  <2>9. UpToDate(p)'
    BY <2>3 DEF UpToDate
  <2> QED
    BY <1>t, <1>1, <1>2, <1>5, <2>1, <2>4, <2>6, <2>7, <2>8, <2>9, HandlerStep
<1> QED
  BY <1>4, <1>5 DEF Load

LEMMA ReplyStep ==
  ASSUME CInv, NEW p \in Presses, Reply(p), RInv'
  PROVE  CInv'
<1>t. /\ srv \in Server /\ snap \in [Presses -> Posted \union {NoPost, Refused}]
      /\ pc \in [Presses -> {"idle", "load", "act", "notify", "edit"}]
      /\ button[p] \in Buttons /\ sure \in BOOLEAN
  BY Typed DEF CInv, CardTypeOK
<1>1. /\ UNCHANGED <<event, fate, boards, verdict, srv, outside, button, msg, snap, tracked>>
      /\ UNCHANGED <<lone, sure>> /\ pc[p] = "act" /\ Goto(p, "idle")
      /\ button[p] \in {"reply", "replyAt"}
  BY DEF Reply, Pressed, Running, Ends, vars, cardVars, srvVars
<1>2. Understood(button[p], snap[p])
  BY <1>1, Knows, ButtonsAre DEF Understood, Has, Allowed
<1>3. /\ crashed' = IF button[p] = "replyAt" /\ event.creator = "none" THEN button[p] ELSE ""
      /\ unknown' = unknown
  BY <1>2 DEF Reply, CrashIf
<1>4. CrashNeedsGap' /\ crashed' \in Buttons \union {"", "arrival"}
  BY <1>1, <1>3, ButtonsAre DEF CrashNeedsGap
<1>5. pc'[p] = "idle" /\ snap' = [snap EXCEPT ![p] = snap[p]]
      /\ snap[p] \in Posted \union {NoPost, Refused}
  BY <1>t, <1>1 DEF Goto
<1>6. ActingOf(p)' /\ InformedOf(p)' /\ DecidedOf(p)' /\ UpToDate(p)'
  BY <1>5 DEF ActingOf, InformedOf, DecidedOf, UpToDate, Has
<1>7. Onwards
  BY <1>1 DEF Onwards
<1> QED
  BY <1>t, <1>1, <1>3, <1>4, <1>5, <1>6, <1>7, HandlerStep

\* What comes of asking FreeFeed.
LEMMA AsksFor ==
  ASSUME NEW p, NEW granted, NEW s, NEW x, Asks(p, granted, s, x)
  PROVE  \/ /\ granted /\ srv' = s /\ sure' = FALSE
            /\ Goto(p, "edit") /\ snap' = [snap EXCEPT ![p] = x]
         \/ /\ granted /\ srv' = s /\ sure' = FALSE
            /\ Goto(p, "idle") /\ UNCHANGED snap
         \/ Goto(p, "idle") /\ UNCHANGED <<srv, snap, sure>>
  BY DEF Asks, Ends

\* A handler that has ended needs nothing any more.
LEMMA HandlerEnds ==
  ASSUME CInv, NEW p \in Presses, pc[p] # "idle", Goto(p, "idle"), RInv',
         UNCHANGED <<event, fate, boards, verdict, outside, button, msg, lone, unknown, snap>>,
         srv' \in Server, Onwards,
         crashed' \in Buttons \union {"", "arrival"}, CrashNeedsGap',
         sure' \in BOOLEAN, sure' => sure /\ UNCHANGED <<srv, tracked>>
  PROVE  CInv'
<1>t. /\ snap \in [Presses -> Posted \union {NoPost, Refused}]
      /\ pc \in [Presses -> {"idle", "load", "act", "notify", "edit"}]
  BY Typed
<1>1. pc'[p] = "idle" /\ snap' = [snap EXCEPT ![p] = snap[p]]
      /\ snap[p] \in Posted \union {NoPost, Refused}
  BY <1>t DEF Goto
<1>2. ActingOf(p)' /\ InformedOf(p)' /\ DecidedOf(p)' /\ UpToDate(p)'
  BY <1>1 DEF ActingOf, InformedOf, DecidedOf, UpToDate, Has
<1> QED
  BY <1>1, <1>2, HandlerStep

LEMMA DecideStep ==
  ASSUME CInv, NEW p \in Presses, Decide(p), RInv'
  PROVE  CInv'
<1>t. /\ srv \in Server /\ snap \in [Presses -> Posted \union {NoPost, Refused}]
      /\ pc \in [Presses -> {"idle", "load", "act", "notify", "edit"}]
      /\ button[p] \in Buttons /\ sure \in BOOLEAN
      /\ crashed \in Buttons \union {"", "arrival"} /\ CrashNeedsGap
  BY Typed DEF CInv, CardTypeOK
<1>1. /\ UNCHANGED <<event, fate, boards, verdict, outside, button, msg, tracked>>
      /\ UNCHANGED <<unknown, lone>> /\ pc[p] = "act" /\ button[p] \in SubscrButtons
  BY DEF Decide, Pressed, Running, vars, cardVars
<1>2. CASE event.creator = "none"
  <2>1. crashed' = button[p] /\ Goto(p, "idle") /\ UNCHANGED <<srv, snap, sure>>
    BY <1>2 DEF Decide, CrashIf, Ends
  <2>2. CrashNeedsGap'
    BY <1>1, <1>2, <2>1, ButtonsAre DEF CrashNeedsGap
  <2>3. Onwards
    BY <2>1 DEF Onwards
  <2> QED
    BY <1>t, <1>1, <2>1, <2>2, <2>3, HandlerEnds
<1>3. CASE event.creator # "none"
  <2> DEFINE s == [srv EXCEPT !.request = Decision(button[p])]
  <2>1. Asks(p, srv.request = "pending", s, snap[p]) /\ UNCHANGED crashed
    BY <1>3 DEF Decide
  <2>2. CrashNeedsGap' /\ crashed' \in Buttons \union {"", "arrival"}
    BY <1>t, <1>1, <2>1 DEF CrashNeedsGap
  <2>3. Decision(button[p]) \in {"accepted", "rejected"}
    BY DEF Decision
  <2>4. /\ s \in Server /\ s.request = Decision(button[p])
        /\ s.liked = srv.liked /\ s.notify = srv.notify /\ s.comment = srv.comment
    BY <1>t, <2>3 DEF Server
  <2> HIDE DEF s
  <2>5. CASE Goto(p, "idle") /\ UNCHANGED <<srv, snap, sure>>
    <3>1. Onwards
      BY <2>5 DEF Onwards
    <3> QED
      BY <1>t, <1>1, <2>2, <2>5, <3>1, HandlerEnds
  <2>6. CASE /\ srv.request = "pending" /\ srv' = s /\ sure' = FALSE
             /\ Goto(p, "idle") /\ UNCHANGED snap
    <3>1. Onwards
      BY <2>4, <2>6 DEF Onwards
    <3> QED
      BY <1>t, <1>1, <2>2, <2>4, <2>6, <3>1, HandlerEnds
  <2>7. CASE /\ srv.request = "pending" /\ srv' = s /\ sure' = FALSE
             /\ Goto(p, "edit") /\ snap' = [snap EXCEPT ![p] = snap[p]]
    <3>1. Onwards
      BY <2>4, <2>7 DEF Onwards
    <3>2. pc'[p] = "edit" /\ snap'[p] = snap[p]
      BY <1>t, <2>7 DEF Goto
    <3>3. Has(p)
      BY <1>1 DEF Has
    <3>4. ActingOf(p)'
      BY <1>1, <3>2, <3>3, Knows, ButtonsAre DEF ActingOf, Allowed
    <3>5. InformedOf(p)'
      BY <1>1, <3>2, <3>3, Knows DEF InformedOf
    <3>6. DecidedOf(p)'
      BY <1>1, <2>4, <2>7 DEF DecidedOf, Decision
    <3>7. p \in lone => UpToDate(p)'
      BY <2>4, <2>7, <3>2, <3>3, Knows DEF UpToDate, Matches
    <3> QED
      BY <1>t, <1>1, <2>2, <2>4, <2>7, <3>1, <3>4, <3>5, <3>6, <3>7, HandlerStep
  <2> QED
    BY <2>1, <2>5, <2>6, <2>7, AsksFor
<1> QED
  BY <1>2, <1>3

LEMMA LikeStep ==
  ASSUME CInv, NEW p \in Presses, Like(p), RInv'
  PROVE  CInv'
<1>t. /\ srv \in Server /\ snap \in [Presses -> Posted \union {NoPost, Refused}]
      /\ pc \in [Presses -> {"idle", "load", "act", "notify", "edit"}]
      /\ button[p] \in Buttons /\ sure \in BOOLEAN
  BY Typed DEF CInv, CardTypeOK
<1> DEFINE s == [srv EXCEPT !.liked = button[p] = "like"]
           x == [snap[p] EXCEPT !.comment = IF button[p] = "like" THEN "liked" ELSE "plain"]
<1>1. /\ UNCHANGED <<event, fate, boards, verdict, outside, button, msg, tracked>>
      /\ UNCHANGED <<unknown, lone>> /\ pc[p] = "act" /\ button[p] \in {"like", "unlike"}
      /\ Asks(p, srv.post /\ srv.comment, s, x)
      /\ crashed' = IF pc'[p] = "edit" /\ snap[p].comment = "none" THEN button[p] ELSE ""
  BY DEF Like, Pressed, Running, CrashIf, vars, cardVars
<1>2. Has(p)
  BY <1>1 DEF Has
<1>3. /\ event.post /\ event.comment
      /\ snap[p] \in Posted /\ snap[p].post = "known"
      /\ srv.comment => snap[p].comment # "none"
      /\ p \in lone => Matches(snap[p])
  BY <1>1, <1>2, Knows, ButtonsAre DEF Allowed, InformedOf
<1>4. /\ s \in Server /\ s.comment = srv.comment /\ s.request = srv.request
      /\ s.notify = srv.notify
      /\ button[p] = "like" => s.liked
      /\ button[p] = "unlike" => ~s.liked
  BY <1>t DEF Server
<1>5. /\ x \in Posted /\ x.post = "known" /\ x.notify = snap[p].notify
      /\ button[p] = "like" => x.comment = "liked"
      /\ button[p] = "unlike" => x.comment = "plain"
  BY <1>1, <1>3 DEF Posted
<1> HIDE DEF s, x
<1>6. ASSUME crashed' = "" PROVE CrashNeedsGap' /\ crashed' \in Buttons \union {"", "arrival"}
  BY <1>6, ButtonsAre DEF CrashNeedsGap
<1>7. CASE Goto(p, "idle") /\ UNCHANGED <<srv, snap, sure>>
  <2>1. pc'[p] = "idle"
    BY <1>t, <1>7 DEF Goto
  <2>2. Onwards
    BY <1>7 DEF Onwards
  <2> QED
    BY <1>t, <1>1, <1>6, <1>7, <2>1, <2>2, HandlerEnds
<1>8. CASE /\ srv.post /\ srv.comment /\ srv' = s /\ sure' = FALSE
           /\ Goto(p, "idle") /\ UNCHANGED snap
  <2>1. pc'[p] = "idle"
    BY <1>t, <1>8 DEF Goto
  <2>2. Onwards
    BY <1>4, <1>8 DEF Onwards
  <2> QED
    BY <1>t, <1>1, <1>4, <1>6, <1>8, <2>1, <2>2, HandlerEnds
<1>9. CASE /\ srv.post /\ srv.comment /\ srv' = s /\ sure' = FALSE
           /\ Goto(p, "edit") /\ snap' = [snap EXCEPT ![p] = x]
  <2>1. pc'[p] = "edit" /\ snap'[p] = x
    BY <1>t, <1>9 DEF Goto
  <2>2. Onwards
    BY <1>4, <1>9 DEF Onwards
  <2>3. crashed' = ""
    BY <1>1, <1>3, <1>9
  <2>4. ActingOf(p)'
    BY <1>1, <1>2, <2>1, Knows DEF ActingOf, Allowed
  <2>5. InformedOf(p)'
    BY <1>1, <1>3, <1>5, <2>1 DEF InformedOf
  <2>6. DecidedOf(p)'
    BY <1>1, ButtonsAre DEF DecidedOf
  <2>7. p \in lone => UpToDate(p)'
    BY <1>1, <1>3, <1>4, <1>5, <1>9, <2>1 DEF UpToDate, Matches
  <2> QED
    BY <1>t, <1>1, <1>4, <1>5, <1>6, <1>9, <2>2, <2>3, <2>4, <2>5, <2>6, <2>7, HandlerStep
<1> QED
  BY <1>1, <1>7, <1>8, <1>9, AsksFor

LEMMA UntrackStep ==
  ASSUME CInv, NEW p \in Presses, Untrack(p), RInv'
  PROVE  CInv'
<1>t. /\ srv \in Server /\ snap \in [Presses -> Posted \union {NoPost, Refused}]
      /\ pc \in [Presses -> {"idle", "load", "act", "notify", "edit"}]
      /\ button[p] \in Buttons /\ sure \in BOOLEAN
      /\ crashed \in Buttons \union {"", "arrival"} /\ CrashNeedsGap
  BY Typed DEF CInv, CardTypeOK
<1>1. /\ UNCHANGED <<event, fate, boards, verdict, srv, outside, button, msg, snap>>
      /\ UNCHANGED <<crashed, unknown, lone>> /\ pc[p] = "act"
      /\ button[p] \in {"track", "untrack"}
      /\ sure' = FALSE \/ UNCHANGED <<tracked, sure>>
      /\ Goto(p, "notify") \/ Goto(p, "idle")
  BY DEF Untrack, Pressed, Running, Ends, vars, cardVars, srvVars
<1>2. Has(p)
  BY <1>1 DEF Has
<1>3. CrashNeedsGap' /\ crashed' \in Buttons \union {"", "arrival"} /\ Onwards
  BY <1>t, <1>1 DEF CrashNeedsGap, Onwards
<1>s. sure' \in BOOLEAN /\ (sure' => sure /\ UNCHANGED <<srv, tracked>>)
  <2>1. CASE sure' = FALSE
    BY <2>1
  <2>2. CASE UNCHANGED <<tracked, sure>>
    BY <1>t, <1>1, <2>2
  <2> QED
    BY <1>1, <2>1, <2>2
<1>4. CASE Goto(p, "idle")
  BY <1>t, <1>1, <1>3, <1>4, <1>s, HandlerEnds
<1>5. CASE Goto(p, "notify")
  <2>1. /\ pc'[p] = "notify" /\ snap'[p] = snap[p]
        /\ snap' = [snap EXCEPT ![p] = snap[p]]
        /\ snap[p] \in Posted \union {NoPost, Refused}
    BY <1>t, <1>1, <1>5 DEF Goto
  <2>2. ActingOf(p)'
    BY <1>1, <1>2, <2>1, Knows DEF ActingOf, Allowed
  <2>3. InformedOf(p)'
    BY <1>1, <1>2, <2>1, Knows DEF InformedOf
  <2>4. DecidedOf(p)'
    BY <2>1 DEF DecidedOf
  <2>5. p \in lone => UpToDate(p)'
    BY <1>1, <1>2, <2>1, Knows DEF UpToDate, Matches
  <2> QED
    BY <1>t, <1>1, <1>3, <1>5, <1>s, <2>1, <2>2, <2>3, <2>4, <2>5, HandlerStep
<1> QED
  BY <1>1, <1>4, <1>5

LEMMA NotifyStep ==
  ASSUME CInv, NEW p \in Presses, Notify(p), RInv'
  PROVE  CInv'
<1>t. /\ srv \in Server /\ snap \in [Presses -> Posted \union {NoPost, Refused}]
      /\ pc \in [Presses -> {"idle", "load", "act", "notify", "edit"}]
      /\ button[p] \in Buttons /\ sure \in BOOLEAN
  BY Typed DEF CInv, CardTypeOK
<1> DEFINE s == [srv EXCEPT !.notify = button[p] = "track"]
           x == [snap[p] EXCEPT !.notify = button[p] = "track"]
<1>1. /\ UNCHANGED <<event, fate, boards, verdict, outside, button, msg, tracked>>
      /\ UNCHANGED <<unknown, lone>> /\ pc[p] = "notify"
      /\ Asks(p, srv.post, s, x)
      /\ crashed' \in {"", button[p]}
  BY DEF Notify, Running, CrashIf, vars, cardVars
<1>2. Has(p)
  BY <1>1 DEF Has
<1>3. /\ button[p] \in {"track", "untrack"} /\ event.post
      /\ snap[p] \in Posted /\ snap[p].post = "known"
      /\ snap[p].comment # "none" => event.comment
      /\ p \in lone => Matches(snap[p])
  BY <1>1, <1>2, Knows, ButtonsAre DEF ActingOf, Allowed, InformedOf
<1>4. /\ s \in Server /\ s.comment = srv.comment /\ s.request = srv.request
      /\ s.liked = srv.liked
      /\ button[p] = "track" => s.notify
      /\ button[p] = "untrack" => ~s.notify
  BY <1>t DEF Server
<1>5. /\ x \in Posted /\ x.post = "known" /\ x.comment = snap[p].comment
      /\ button[p] = "track" => x.notify
      /\ button[p] = "untrack" => ~x.notify
  BY <1>3 DEF Posted
<1> HIDE DEF s, x
<1>6. CrashNeedsGap' /\ crashed' \in Buttons \union {"", "arrival"}
  BY <1>t, <1>1, <1>3, ButtonsAre DEF CrashNeedsGap
<1>7. CASE Goto(p, "idle") /\ UNCHANGED <<srv, snap, sure>>
  <2>1. Onwards
    BY <1>7 DEF Onwards
  <2> QED
    BY <1>t, <1>1, <1>6, <1>7, <2>1, HandlerEnds
<1>8. CASE /\ srv.post /\ srv' = s /\ sure' = FALSE
           /\ Goto(p, "idle") /\ UNCHANGED snap
  <2>1. Onwards
    BY <1>4, <1>8 DEF Onwards
  <2> QED
    BY <1>t, <1>1, <1>4, <1>6, <1>8, <2>1, HandlerEnds
<1>9. CASE /\ srv.post /\ srv' = s /\ sure' = FALSE
           /\ Goto(p, "edit") /\ snap' = [snap EXCEPT ![p] = x]
  <2>1. pc'[p] = "edit" /\ snap'[p] = x
    BY <1>t, <1>9 DEF Goto
  <2>2. Onwards
    BY <1>4, <1>9 DEF Onwards
  <2>3. ActingOf(p)'
    BY <1>1, <1>2, <1>3, <2>1, Knows DEF ActingOf, Allowed
  <2>4. InformedOf(p)'
    BY <1>1, <1>3, <1>5, <2>1 DEF InformedOf
  <2>5. DecidedOf(p)'
    BY <1>1, <1>3, ButtonsAre DEF DecidedOf
  <2>6. p \in lone => UpToDate(p)'
    BY <1>1, <1>3, <1>4, <1>5, <1>9, <2>1 DEF UpToDate, Matches
  <2> QED
    BY <1>t, <1>1, <1>4, <1>5, <1>6, <1>9, <2>2, <2>3, <2>4, <2>5, <2>6, HandlerStep
<1> QED
  BY <1>1, <1>7, <1>8, <1>9, AsksFor

LEMMA EditStep ==
  ASSUME CInv, NEW p \in Presses, Edit(p), RInv'
  PROVE  CInv'
<1>t. /\ srv \in Server /\ snap \in [Presses -> Posted \union {NoPost, Refused}]
      /\ pc \in [Presses -> {"idle", "load", "act", "notify", "edit"}]
      /\ boards \in [1 .. MaxMessages -> SUBSET Buttons]
      /\ msg[p] \in 1 .. MaxMessages /\ 1 \in 1 .. MaxMessages
      /\ sure \in BOOLEAN /\ CrashNeedsGap /\ Shown
  BY Typed DEF CInv, CardTypeOK
<1>1. /\ UNCHANGED <<event, fate, srv, outside, button, msg, snap, tracked>>
      /\ UNCHANGED <<crashed, unknown, lone>> /\ pc[p] = "edit" /\ Goto(p, "idle")
  BY DEF Edit, Running, Ends, vars, srvVars
<1>2. Has(p)
  BY <1>1 DEF Has
<1>3. /\ button[p] \in Buttons /\ button[p] \notin {"reply", "replyAt"} /\ msg[p] = 1
      /\ button[p] \notin SubscrButtons => event.post /\ snap[p] \in Posted
      /\ button[p] \in SubscrButtons => srv.request = Decision(button[p])
      /\ snap[p].comment # "none" => event.comment
      /\ p \in lone => Matches(snap[p])
  BY <1>1, <1>2, Knows DEF ActingOf, Allowed, DecidedOf, InformedOf
<1>4. Acting' /\ Informed' /\ Decided' /\ Alone'
  <2>1. pc'[p] = "idle"
    BY <1>t, <1>1 DEF Goto
  <2>2. ActingOf(p)' /\ InformedOf(p)' /\ DecidedOf(p)' /\ UpToDate(p)'
    BY <2>1 DEF ActingOf, InformedOf, DecidedOf, UpToDate, Has
  <2> QED
    BY <1>1, <2>2, OneGoesOn DEF Onwards
<1>5. NoneUnknown' /\ CrashNeedsGap'
  BY <1>t, <1>1 DEF CInv, NoneUnknown, CrashNeedsGap
<1>6. pc' \in [Presses -> {"idle", "load", "act", "notify", "edit"}]
  BY <1>t, <1>1 DEF Goto
<1>7. CASE UNCHANGED <<boards, verdict, sure>>
  <2>1. VerdictIsTrue' /\ LabelsFit'
    BY <1>1, <1>7, VerdictStands, LabelsStand DEF Onwards
  <2>2. Shown' /\ CardTypeOK'
    BY <1>t, <1>1, <1>6, <1>7 DEF CInv, RInv, CardTypeOK, Shown, Allowed
  <2> QED
    BY <1>4, <1>5, <2>1, <2>2 DEF CInv
<1>8. ASSUME NEW board, boards' = [boards EXCEPT ![msg[p]] = board], board \subseteq Buttons,
             \A b \in board : b \notin SubscrButtons /\ event.post,
             "like" \in board => snap[p].comment = "plain",
             "unlike" \in board => snap[p].comment = "liked",
             "track" \in board => snap[p] \in Posted /\ ~IsPostTracked(Post) /\ ~snap[p].notify,
             "untrack" \in board => snap[p] \in Posted /\ (IsPostTracked(Post) \/ snap[p].notify),
             verdict' = IF button[p] \in SubscrButtons THEN Decision(button[p]) ELSE verdict,
             sure' = (p \in lone)
      PROVE  CInv'
  <2>1. boards'[1] = board /\ \A m \in 1 .. MaxMessages : m # 1 => boards'[m] = boards[m]
    BY <1>t, <1>3, <1>8
  <2>2. Shown'
    <3>1. \A b \in board : Allowed(1, b)
      BY <1>3, <1>8 DEF Allowed
    <3> QED
      BY <1>t, <1>1, <2>1, <3>1 DEF Shown, Allowed
  <2>3. VerdictIsTrue'
    <3>1. CASE button[p] \in SubscrButtons
      BY <1>1, <1>3, <1>8, <3>1 DEF VerdictIsTrue, Decision
    <3>2. CASE button[p] \notin SubscrButtons
      BY <1>1, <1>8, <3>2, VerdictStands DEF Onwards
    <3> QED
      BY <3>1, <3>2
  <2>4. LabelsFit'
    <3>1. snap[p] \in Posted => snap[p].post = "known"
      BY DEF Posted
    <3>2. IsPostTracked(Post)' <=> IsPostTracked(Post)
      BY <1>1 DEF IsPostTracked, Ran
    <3>3. p \in lone =>
            /\ "like" \in board => ~srv.liked
            /\ "unlike" \in board => srv.liked
            /\ "track" \in board => ~srv.notify /\ ~IsPostTracked(Post)
            /\ "untrack" \in board => srv.notify \/ IsPostTracked(Post)
      BY <1>3, <1>8, <3>1 DEF Matches
    <3> QED
      BY <1>1, <1>8, <2>1, <3>2, <3>3 DEF LabelsFit
  <2>5. CardTypeOK'
    <3>1. /\ boards' \in [1 .. MaxMessages -> SUBSET Buttons] /\ sure' \in BOOLEAN
      BY <1>t, <1>8
    <3>2. verdict' \in {"", "accepted", "rejected"}
      BY <1>8 DEF CInv, CardTypeOK, Decision
    <3> QED
      BY <1>1, <1>6, <3>1, <3>2 DEF CInv, RInv, CardTypeOK
  <2> QED
    BY <1>4, <1>5, <2>2, <2>3, <2>4, <2>5 DEF CInv
<1> DEFINE board == CASE button[p] \in SubscrButtons -> {}
                      [] button[p] = "back"          -> PostButtons(snap[p])
                      [] OTHER -> MoreButtons(snap[p], IsPostTracked(Post))
<1>9. CASE /\ boards' = [boards EXCEPT ![msg[p]] = board]
           /\ verdict' = IF button[p] \in SubscrButtons THEN Decision(button[p]) ELSE verdict
           /\ sure' = (p \in lone)
  <2>2. CASE button[p] \in SubscrButtons
    <3>1. board = {}
      BY <2>2, ButtonsAre
    <3> HIDE DEF board
    <3>2. /\ board \subseteq Buttons /\ \A b \in board : b \notin SubscrButtons /\ event.post
          /\ "like" \notin board /\ "unlike" \notin board
          /\ "track" \notin board /\ "untrack" \notin board
      BY <3>1
    <3> QED
      BY <1>8, <1>9, <3>2
  <2>3. CASE button[p] = "back"
    <3>1. board = PostButtons(snap[p]) /\ button[p] \notin SubscrButtons
      BY <2>3, ButtonsAre
    <3>2. board \subseteq {"reply", "replyAt", "more"}
      BY <3>1, PostButtonsAre
    <3> HIDE DEF board
    <3> QED
      BY <1>3, <1>8, <1>9, <3>1, <3>2, ButtonsAre
  <2>4. CASE button[p] # "back" /\ button[p] \notin SubscrButtons
    <3>1. board = MoreButtons(snap[p], IsPostTracked(Post))
      BY <2>4
    <3>2. IsPostTracked(Post) \in BOOLEAN /\ snap[p] \in Posted
      BY <1>3, <2>4 DEF IsPostTracked
    <3> HIDE DEF board
    <3>3. /\ board \subseteq {"back", "like", "unlike", "track", "untrack"}
          /\ "like" \in board => snap[p].comment = "plain"
          /\ "unlike" \in board => snap[p].comment = "liked"
          /\ "track" \in board => ~IsPostTracked(Post) /\ ~snap[p].notify
          /\ "untrack" \in board => IsPostTracked(Post) \/ snap[p].notify
      BY <3>1, <3>2, MoreFits
    <3> QED
      BY <1>3, <1>8, <1>9, <2>4, <3>2, <3>3, ButtonsAre
  <2> QED
    BY <2>2, <2>3, <2>4
<1> QED
  BY <1>7, <1>9 DEF Edit

LEMMA CardStep ==
  ASSUME CInv, [CardsNext]_allVars
  PROVE  CInv'
<1>1. RInv'
  BY ListsMove, RecordStep DEF CInv
<1>2. CASE UNCHANGED allVars
  <2>1. UNCHANGED <<cardVars, srvVars, pressVars, logVars, tracked>>
    BY <1>2 DEF allVars, vars
  <2>2. Acting' /\ Informed' /\ Decided' /\ Alone'
    BY <2>1, HandlersWait DEF cardVars, srvVars, pressVars, logVars, Onwards
  <2>3. VerdictIsTrue' /\ LabelsFit'
    BY <2>1, VerdictStands, LabelsStand DEF cardVars, srvVars, logVars, Onwards
  <2>4. Shown' /\ NoneUnknown' /\ CrashNeedsGap'
    BY <2>1 DEF cardVars, logVars, CInv, Shown, Allowed, NoneUnknown, CrashNeedsGap
  <2>5. CardTypeOK'
    BY <1>1, <2>1 DEF CInv, RInv, CardTypeOK, cardVars, srvVars, pressVars, logVars
  <2> QED
    BY <1>1, <2>2, <2>3, <2>4, <2>5 DEF CInv
<1>3. ASSUME NEW p \in Presses, Handle(p) PROVE CInv'
  BY <1>1, <1>3, PressStep, LoadStep, ReplyStep, DecideStep, LikeStep, UntrackStep,
     NotifyStep, EditStep DEF Handle
<1> QED
  BY <1>1, <1>2, <1>3, ArriveStep, SendOtherStep, CommentStep, LogoutStep, OutsideStep
     DEF CardsNext

LEMMA CardsStart == CardsInit => CInv
<1> SUFFICES ASSUME CardsInit PROVE CInv
  OBVIOUS
<1>0. /\ records = <<>> /\ lastID = 0 /\ put = <<>> /\ tracked \in Seq(Posts)
      /\ wanted = Ran(tracked) /\ MaxSentRecords \in Nat \ {0} /\ MaxMessages \in Nat
      /\ MaxOutside \in Nat /\ 1 \in 1 .. MaxMessages
  <2>1. tracked \in Legacy /\ Legacy \subseteq Seq(Posts)
    BY CardsAssumption DEF CardsInit
  <2>2. MaxMessages \in Nat /\ MaxMessages >= 1
    BY CardsAssumption, RecordsAssumption
  <2>3. 1 \in 1 .. MaxMessages
    BY <2>2
  <2>4. MaxOutside \in Nat /\ MaxSentRecords \in Nat \ {0}
    BY CardsAssumption, RecordsAssumption
  <2> QED
    BY <2>1, <2>2, <2>3, <2>4 DEF CardsInit
<1>1. Ran(tracked) \subseteq Posts
  <2>1. DOMAIN tracked = 1 .. Len(tracked) /\ \A i \in 1 .. Len(tracked) : tracked[i] \in Posts
    BY <1>0, LenProperties, ElementOfSeq
  <2> QED
    BY <2>1 DEF Ran
<1>2. TypeOK
  BY <1>0, <1>1 DEF TypeOK
<1>3. RInv
  BY <1>0, <1>2 DEF RInv, Kept, Growing, OthersStayTracked
<1>4. /\ boards = [m \in 1 .. MaxMessages |-> {}] /\ pc = [p \in Presses |-> "idle"]
      /\ button = [p \in Presses |-> "more"] /\ msg = [p \in Presses |-> 1]
      /\ snap = [p \in Presses |-> NoPost] /\ lone = {} /\ sure = FALSE
      /\ verdict = "" /\ crashed = "" /\ unknown = FALSE /\ fate = "new" /\ outside = 0
      /\ event \in Events \ {Other} /\ srv \in Server
  BY DEF CardsInit
<1>5. CardTypeOK
  <2>1. /\ boards \in [1 .. MaxMessages -> SUBSET Buttons]
        /\ pc \in [Presses -> {"idle", "load", "act", "notify", "edit"}]
        /\ msg \in [Presses -> 1 .. MaxMessages]
    BY <1>0, <1>4
  <2>2. button \in [Presses -> Buttons]
    BY <1>4, ButtonsAre
  <2>3. snap \in [Presses -> Posted \union {NoPost, Refused}]
    BY <1>4
  <2>4. outside \in 0 .. MaxOutside
    <3>1. outside = 0 /\ MaxOutside \in Nat
      BY <1>0, <1>4
    <3> QED
      BY <3>1
  <2>5. /\ fate \in {"new", "muted", "lost", "shown"} /\ verdict \in {"", "accepted", "rejected"}
        /\ crashed \in Buttons \union {"", "arrival"} /\ lone \subseteq Presses
    BY <1>4
  <2>6. unknown \in BOOLEAN /\ sure \in BOOLEAN
    BY <1>4
  <2>7. event \in Events \ {Other} /\ srv \in Server
    BY <1>4
  <2> QED
    BY <1>2, <2>1, <2>2, <2>3, <2>4, <2>5, <2>6, <2>7, Zenon DEF CardTypeOK
<1>6. Shown /\ Acting /\ Informed /\ Decided /\ Alone
  BY <1>4 DEF Shown, Acting, ActingOf, Informed, InformedOf, Has, Decided, DecidedOf, Alone
<1>7. VerdictIsTrue /\ NoneUnknown /\ LabelsFit /\ CrashNeedsGap
  BY <1>4, ButtonsAre DEF VerdictIsTrue, NoneUnknown, LabelsFit, CrashNeedsGap
<1> QED
  BY <1>3, <1>5, <1>6, <1>7 DEF CInv

LEMMA CardsHold == CardsSpec => []CInv
  BY CardsStart, CardStep, PTL DEF CardsSpec

-----------------------------------------------------------------------------
(* What follows.                                                           *)

\* Every variable has its type.
THEOREM CardsAreTyped == CardsSpec => []CardTypeOK
<1>1. CInv => CardTypeOK
  BY DEF CInv
<1> QED
  BY <1>1, CardsHold, PTL

\* No button is answered "Unknown command", whatever has become of the post
\* since it was shown (buttons.go:28, handle-callback.go:75, :174).
THEOREM EveryButtonIsKnown == CardsSpec => []NoneUnknown
<1>1. CInv => NoneUnknown
  BY DEF CInv
<1> QED
  BY <1>1, CardsHold, PTL

\* The message never claims a decision that FreeFeed has not taken
\* (handle-callback.go:88-121).
THEOREM NoFalseVerdict == CardsSpec => []VerdictIsTrue
<1>1. CInv => VerdictIsTrue
  BY DEF CInv
<1> QED
  BY <1>1, CardsHold, PTL

\* A handler that nothing happened beside leaves buttons that offer what is
\* not yet so (buttons.go:61-90, handle-callback.go:140-141, :169).
THEOREM LabelsAreRight == CardsSpec => []LabelsFit
<1>1. CInv => LabelsFit
  BY DEF CInv
<1> QED
  BY <1>1, CardsHold, PTL

\* A missing value ends the program in the three named places only
\* (process-event.go:96, :367, handle-callback.go:83, :92, api.go:121).
THEOREM OnlyGapsCrash == CardsSpec => []CrashNeedsGap
<1>1. CInv => CrashNeedsGap
  BY DEF CInv
<1> QED
  BY <1>1, CardsHold, PTL

\* The lists of records lose nothing to the buttons either, whatever list of
\* tracked posts a former version has left.
THEOREM RecordsSurviveButtons == CardsSpec => [](LastAreKept /\ OthersStayTracked)
<1>1. CInv => LastAreKept /\ OthersStayTracked
  BY LastAreFound DEF CInv, RInv
<1> QED
  BY <1>1, CardsHold, PTL
=============================================================================
