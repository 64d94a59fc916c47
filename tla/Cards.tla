------------------------------- MODULE Cards -------------------------------
(***************************************************************************)
(* A message about an event and its buttons: how it is rendered, what the  *)
(* handlers of the buttons do at FreeFeed and to the lists of the chat,    *)
(* and which keyboard they leave behind, while other buttons are pressed,  *)
(* FreeFeed changes and calls fail.                                        *)
(*                                                                         *)
(* Message 1 is about the event.  The other ones tell that a comment has   *)
(* been sent, or are about other events; their records push out that of    *)
(* message 1.  Each handler loads the post anew, a call of FreeFeed is one *)
(* step, and so is a call of Telegram.                                     *)
(***************************************************************************)
EXTENDS ChatRecords, Rendering

CONSTANTS
  Presses,   \* handlers of pressed buttons
  Post,      \* the post of the event
  Other,     \* the events of other messages
  Legacy,    \* lists of tracked posts that former versions have left
  MaxOutside \* bound: changes at FreeFeed that others make

ASSUME CardsAssumption ==
  /\ Other \in Events /\ Events \ {Other} \subseteq Event
  /\ Post \in Posts /\ Legacy \subseteq Seq(Posts) /\ MaxOutside \in Nat
  /\ MaxMessages >= 1

VARIABLES
  event,   \* the event
  fate,    \* what has become of it
  boards,  \* boards[m]: the buttons of message m
  verdict, \* what message 1 says of the request
  srv,     \* FreeFeed: post, comment and request
  outside, \* changes others have made
  pc,      \* pc[p]: where handler p is
  button,  \* button[p]: the button it handles
  msg,     \* msg[p]: and its message
  snap,    \* snap[p]: the post as p has loaded it
  crashed, \* the button, or the arrival, that has ended the program, or ""
  unknown, \* has a button been answered "Unknown command"? (history)
  lone,    \* handlers beside which nothing else has happened (history)
  sure     \* was the keyboard left by such a one, and all since quiet? (history)

cardVars  == <<event, fate, boards, verdict>>
srvVars   == <<srv, outside>>
pressVars == <<pc, button, msg, snap>>
logVars   == <<crashed, unknown, lone, sure>>
allVars   == <<vars, cardVars, srvVars, pressVars, logVars>>

Server ==
  [post : BOOLEAN, direct : BOOLEAN, comment : BOOLEAN, liked : BOOLEAN, notify : BOOLEAN,
   request : {"pending", "accepted", "rejected"}]

CardTypeOK ==
  /\ TypeOK
  /\ event \in Events \ {Other}
  /\ fate \in {"new", "muted", "lost", "shown"}
  /\ boards \in [1 .. MaxMessages -> SUBSET Buttons]
  /\ verdict \in {"", "accepted", "rejected"}
  /\ srv \in Server /\ outside \in 0 .. MaxOutside
  /\ pc \in [Presses -> {"idle", "load", "act", "notify", "edit"}]
  /\ button \in [Presses -> Buttons] /\ msg \in [Presses -> 1 .. MaxMessages]
  /\ snap \in [Presses -> Posted \union {NoPost, Refused}]
  /\ crashed \in Buttons \union {"", "arrival"} /\ unknown \in BOOLEAN
  /\ lone \subseteq Presses /\ sure \in BOOLEAN

CardsInit ==
  /\ records = <<>> /\ lastID = 0 /\ put = <<>>
  /\ tracked \in Legacy /\ wanted = Ran(tracked)
  /\ event \in Events \ {Other}
  /\ fate = "new" /\ verdict = "" /\ boards = [m \in 1 .. MaxMessages |-> {}]
  /\ srv \in {s \in Server : s.post /\ s.comment /\ ~s.liked /\ s.request = "pending"
                             /\ (s.direct => event.type = "mention_in_post")}
  /\ outside = 0
  /\ pc = [p \in Presses |-> "idle"]
  /\ button = [p \in Presses |-> "more"] /\ msg = [p \in Presses |-> 1]
  /\ snap = [p \in Presses |-> NoPost]
  /\ crashed = "" /\ unknown = FALSE /\ lone = {} /\ sure = FALSE

\* What LoadPost may load: FreeFeed may refuse at any time.
View ==
  [post |-> "known", direct |-> srv.direct, notify |-> srv.notify,
   comment |-> IF ~srv.comment THEN "none" ELSE IF srv.liked THEN "liked" ELSE "plain"]
Answers ==
  {Loaded(event, a) : a \in {Refused} \union IF srv.post THEN {View} ELSE {}}

-----------------------------------------------------------------------------
(* Messages.                                                               *)

Arrive ==
  /\ crashed = "" /\ fate = "new"
  /\ \E x \in Answers :
       IF Muted(event, x, event.post /\ IsPostTracked(Post))
       THEN fate' = "muted" /\ UNCHANGED <<vars, boards, crashed>>
       ELSE IF Panics(event, x)
       THEN fate' = "lost" /\ crashed' \in {"", "arrival"} /\ UNCHANGED <<vars, boards>>
       ELSE /\ fate' = "shown"
            /\ boards' = [boards EXCEPT ![1] = Board(event, x)]
            /\ PutMsgRec(event)
            /\ UNCHANGED crashed
  /\ UNCHANGED <<event, verdict, srvVars, pressVars, unknown, lone, sure>>

\* Another message is sent.
SendOther ==
  /\ crashed = "" /\ fate = "shown"
  /\ PutMsgRec(Other)
  /\ UNCHANGED <<cardVars, srvVars, pressVars, logVars>>

\* The user comments, and is told so.
Comment ==
  /\ crashed = "" /\ fate = "shown"
  /\ event.post /\ srv.post
  /\ \E m \in 1 .. lastID : GetMsgRec(m) # NotFound /\ GetMsgRec(m).event = event
  /\ PutMsgRec(event)
  /\ boards' = [boards EXCEPT ![lastID'] = SentCommentButtons]
  /\ UNCHANGED <<event, fate, verdict, srvVars, pressVars, logVars>>

Logout ==
  /\ crashed = "" /\ fate = "shown"
  /\ DeleteState
  /\ lone' = {} /\ sure' = FALSE
  /\ UNCHANGED <<cardVars, srvVars, pressVars, crashed, unknown>>

-----------------------------------------------------------------------------
(* FreeFeed.                                                               *)

\* Something changes without the bot.
Outside ==
  /\ fate = "shown"
  /\ outside < MaxOutside /\ outside' = outside + 1
  /\ srv' \in {[srv EXCEPT !.post = FALSE], [srv EXCEPT !.comment = FALSE],
               [srv EXCEPT !.liked = ~@], [srv EXCEPT !.notify = ~@]}
              \union {[srv EXCEPT !.request = r] :
                        r \in IF srv.request = "pending" THEN {"accepted", "rejected"} ELSE {}}
  /\ lone' = {} /\ sure' = FALSE
  /\ UNCHANGED <<vars, cardVars, pressVars, crashed, unknown>>

-----------------------------------------------------------------------------
(* The handlers.                                                           *)

Running(p, place) == crashed = "" /\ pc[p] = place
Goto(p, place) == pc' = [pc EXCEPT ![p] = place]
Ends(p) == Goto(p, "idle")
CrashIf(p, bad) == crashed' = IF bad THEN button[p] ELSE ""

\* A button is pressed and the record of its message found.
Press(p) ==
  /\ Running(p, "idle")
  /\ \E m \in 1 .. lastID : \E b \in boards[m] :
       /\ GetMsgRec(m) # NotFound
       /\ button' = [button EXCEPT ![p] = b] /\ msg' = [msg EXCEPT ![p] = m]
  /\ Goto(p, "load")
  /\ lone' = IF \A q \in Presses : pc[q] = "idle" THEN {p} ELSE {}
  /\ UNCHANGED <<vars, cardVars, srvVars, snap, crashed, unknown, sure>>

LoadUnchecked(p) ==  \* mutant: the error of LoadPost is not looked at
  /\ Running(p, "load")
  /\ \E x \in Answers : snap' = [snap EXCEPT ![p] = x]
  /\ Goto(p, IF button[p] \in {"more", "back"} THEN "edit" ELSE "act")
  /\ UNCHANGED <<vars, cardVars, srvVars, button, msg, logVars>>

Load(p) ==
  /\ Running(p, "load")
  /\ \E x \in Answers :
       IF x = Refused THEN Ends(p) /\ UNCHANGED snap
       ELSE /\ snap' = [snap EXCEPT ![p] = x]
            /\ Goto(p, IF button[p] \in {"more", "back"} THEN "edit" ELSE "act")
  /\ UNCHANGED <<vars, cardVars, srvVars, button, msg, logVars>>

Pressed(p, set) == Running(p, "act") /\ button[p] \in set

UnderstoodPlain(b, x) == b = "reply" /\ x.post # "nil"  \* mutant: no case for "reply:@"
\* The case of the button names it and its post is there.
Understood(b, x) == b \in {"reply", "replyAt"} => x.post # "nil"

\* A comment is expected from now on (see Session); its addressee is read
\* even if there is none.
Reply(p) ==
  /\ Pressed(p, {"reply", "replyAt"})
  /\ IF Understood(button[p], snap[p])
     THEN /\ CrashIf(p, button[p] = "replyAt" /\ event.creator = "none")
          /\ UNCHANGED unknown
     ELSE unknown' = TRUE /\ UNCHANGED crashed
  /\ Ends(p)
  /\ UNCHANGED <<vars, cardVars, srvVars, button, msg, snap, lone, sure>>

\* FreeFeed does what it is asked, or not, and it may report an error in
\* either case: then the handler ends.
Asks(p, granted, s, x) ==
  \/ /\ granted /\ srv' = s /\ sure' = FALSE
     /\ \/ Goto(p, "edit") /\ snap' = [snap EXCEPT ![p] = x]
        \/ Ends(p) /\ UNCHANGED snap
  \/ Ends(p) /\ UNCHANGED <<srv, snap, sure>>

Decision(b) == IF b = "accept" THEN "accepted" ELSE "rejected"

DecideUnchecked(p) ==  \* mutant: the error of FreeFeed is not looked at
  /\ Pressed(p, SubscrButtons)
  /\ srv' \in {srv} \union IF srv.request # "pending" THEN {}
                           ELSE {[srv EXCEPT !.request = Decision(button[p])]}
  /\ Goto(p, "edit")
  /\ UNCHANGED <<vars, cardVars, outside, button, msg, snap, logVars>>

\* FreeFeed decides a request once; the request names who has sent it, even
\* if that is nobody.
Decide(p) ==
  /\ Pressed(p, SubscrButtons)
  /\ IF event.creator = "none"
     THEN CrashIf(p, TRUE) /\ Ends(p) /\ UNCHANGED <<srv, snap, sure>>
     ELSE /\ Asks(p, srv.request = "pending", [srv EXCEPT !.request = Decision(button[p])], snap[p])
          /\ UNCHANGED crashed
  /\ UNCHANGED <<vars, cardVars, outside, button, msg, unknown, lone>>

\* The field of the comment loaded before is set once FreeFeed has answered.
Like(p) ==
  /\ Pressed(p, {"like", "unlike"})
  /\ Asks(p, srv.post /\ srv.comment, [srv EXCEPT !.liked = button[p] = "like"],
          [snap[p] EXCEPT !.comment = IF button[p] = "like" THEN "liked" ELSE "plain"])
  /\ CrashIf(p, pc'[p] = "edit" /\ snap[p].comment = "none")
  /\ UNCHANGED <<vars, cardVars, outside, button, msg, unknown, lone>>

\* A post tracked in the old way is untracked first, and the connection told
\* so, which may fail (see Realtime), ...
Untrack(p) ==
  /\ Pressed(p, {"track", "untrack"})
  /\ \/ /\ IsPostTracked(Post)
        /\ UntrackPost(Post) /\ sure' = FALSE
        /\ Goto(p, "notify") \/ Ends(p)
     \/ /\ ~IsPostTracked(Post)
        /\ Goto(p, "notify")
        /\ UNCHANGED <<vars, sure>>
  /\ UNCHANGED <<cardVars, srvVars, button, msg, snap, crashed, unknown, lone>>

NotifyStale(p) ==  \* mutant: event.Post is not updated
  /\ Running(p, "notify")
  /\ Asks(p, srv.post, [srv EXCEPT !.notify = button[p] = "track"], snap[p])
  /\ \E caught \in BOOLEAN : CrashIf(p, ~caught /\ pc'[p] = "idle")
  /\ UNCHANGED <<vars, cardVars, outside, button, msg, unknown, lone>>

\* ... and FreeFeed is asked.  After an error the missing answer is read,
\* which ends the handler or the program.
Notify(p) ==
  /\ Running(p, "notify")
  /\ Asks(p, srv.post, [srv EXCEPT !.notify = button[p] = "track"],
          [snap[p] EXCEPT !.notify = button[p] = "track"])
  /\ \E caught \in BOOLEAN : CrashIf(p, ~caught /\ pc'[p] = "idle")
  /\ UNCHANGED <<vars, cardVars, outside, button, msg, unknown, lone>>

\* The message is edited, if Telegram does so.
Edit(p) ==
  /\ Running(p, "edit")
  /\ \/ /\ boards' = [boards EXCEPT ![msg[p]] =
                        CASE button[p] \in SubscrButtons -> {}
                          [] button[p] = "back"          -> PostButtons(snap[p])
                          [] OTHER -> MoreButtons(snap[p], IsPostTracked(Post))]
        /\ verdict' = IF button[p] \in SubscrButtons THEN Decision(button[p]) ELSE verdict
        /\ sure' = (p \in lone)
     \/ UNCHANGED <<boards, verdict, sure>>
  /\ Ends(p)
  /\ UNCHANGED <<vars, event, fate, srvVars, button, msg, snap, crashed, unknown, lone>>

Handle(p) ==
  \/ Press(p) \/ Load(p) \/ Reply(p) \/ Decide(p) \/ Like(p)
  \/ Untrack(p) \/ Notify(p) \/ Edit(p)

CardsNext ==
  \/ Arrive \/ SendOther \/ Comment \/ Logout \/ Outside
  \/ \E p \in Presses : Handle(p)

CardsSpec == CardsInit /\ [][CardsNext]_allVars

-----------------------------------------------------------------------------
(* Correctness.                                                            *)

\* Every button that is shown is understood when it is pressed, whatever has
\* become of the post meanwhile (buttons.go:28, handle-callback.go:75, :174).
NoneUnknown == ~unknown

\* The message never claims a decision FreeFeed has not taken, however often
\* both buttons are pressed and whatever fails (handle-callback.go:88-121).
VerdictIsTrue == verdict # "" => srv.request = verdict

\* A handler that nothing happened beside leaves buttons that offer what is
\* not yet so (buttons.go:61-90, handle-callback.go:140-141, :169).
LabelsFit ==
  sure => /\ "like"    \in boards[1] => ~srv.liked
          /\ "unlike"  \in boards[1] => srv.liked
          /\ "track"   \in boards[1] => ~srv.notify /\ ~IsPostTracked(Post)
          /\ "untrack" \in boards[1] => srv.notify \/ IsPostTracked(Post)

\* What may end the program: an event that names no post or no affected user,
\* when it arrives; a button that names who has caused the event, if FreeFeed
\* does not tell; and a subscription that FreeFeed refuses.  No other button
\* does (process-event.go:96, :367, handle-callback.go:83, :92, api.go:121).
CrashNeedsGap ==
  /\ crashed = "arrival" => ~event.post \/ ~event.affected
  /\ crashed \in {"replyAt"} \union SubscrButtons => event.creator = "none"
  /\ crashed \notin {"reply", "more", "back", "like", "unlike"}
=============================================================================
