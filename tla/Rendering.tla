----------------------------- MODULE Rendering -----------------------------
(***************************************************************************)
(* What renderEvent makes of an event, and the keyboards of the messages   *)
(* about events: operators on events and on posts as FreeFeed answers with *)
(* them.  A keyboard is the set of its buttons that call back; texts and   *)
(* links are left out.                                                     *)
(***************************************************************************)

\* Types of events whose message quotes a post or a comment.
PostBodied == {"mention_in_post", "backlink_in_post", "direct"}
CommentBodied ==
  {"mention_in_comment", "mention_comment_to", "backlink_in_comment", "direct_comment",
   "post_comment", "__comment:new"}

\* The comments of posts the user has subscribed to: those are not shown if
\* their author is hidden, and some other events are not shown since these
\* are.
Comments == {"post_comment", "__comment:new"}
Covered  == (CommentBodied \ Comments) \union {"backlink_in_post"}

\* Types whose message has the buttons of the post, some if there is a post.
Pointing == {"direct_left", "comment_moderated", "comment_moderated_by_another_admin"}
Removing == {"post_moderated", "post_moderated_by_another_admin"}

Requests == {"subscription_requested", "group_subscription_requested"}

\* Types whose message is a line about the parties, and nothing else.
Blocking == {"blocked_in_group", "unblocked_in_group"}
Lines ==
  {"subscription_request_approved", "subscription_request_rejected",
   "group_subscription_approved", "group_subscription_rejected",
   "user_subscribed", "user_unsubscribed", "group_subscribed", "group_unsubscribed",
   "subscription_request_revoked", "group_subscription_request_revoked",
   "group_admin_promoted", "group_admin_demoted",
   "managed_group_subscription_approved", "managed_group_subscription_rejected",
   "invitation_used", "another type"}

\* An event: does it name a post, a comment, an affected user, and who
\* caused it: the user, somebody else, or somebody FreeFeed does not tell.
Event ==
  [type : UNION {PostBodied, CommentBodied, Pointing, Removing, Requests, Blocking, Lines},
   post : BOOLEAN, comment : BOOLEAN, affected : BOOLEAN,
   creator : {"self", "other", "none"}]
-----------------------------------------------------------------------------
(* LoadPost.                                                               *)

NoPost  == [post |-> "nil",   direct |-> FALSE, comment |-> "none", notify |-> FALSE]
\* GetPost returns a post even with an error.
Refused == [post |-> "blank", direct |-> FALSE, comment |-> "none", notify |-> FALSE]
Posted  ==
  [post : {"known"}, direct : BOOLEAN, comment : {"none", "plain", "liked"}, notify : BOOLEAN]

\* event.Post and event.Comment once GetPost has answered.
Loaded(e, answer) ==
  IF ~e.post THEN NoPost
  ELSE [answer EXCEPT !.comment = IF e.comment THEN @ ELSE "none"]

-----------------------------------------------------------------------------
(* renderEvent of event e, whose post is x.                                *)

Muted(e, x, tracked) ==
  \/ e.creator = "self"
  \/ e.type = "mention_in_post" /\ x.direct
  \/ e.type \in Covered /\ tracked
  \/ e.type \in Comments /\ e.creator = "none"

\* The text quotes the post before it is known that there is one, or names
\* the affected user.
Panics(e, x) ==
  \/ e.type \in CommentBodied \union Pointing /\ x.post = "nil"
  \/ e.type \in Blocking /\ ~e.affected

PostButtons(x) == IF x.post = "nil" THEN {} ELSE {"reply", "replyAt", "more"}

MoreButtons(x, tracked) ==
  {"back"}
    \union (CASE x.comment = "none"  -> {}
              [] x.comment = "liked" -> {"unlike"}
              [] x.comment = "plain" -> {"like"})
    \union (IF x.post = "nil" THEN {}
            ELSE IF tracked \/ x.notify THEN {"untrack"} ELSE {"track"})

SubscrButtons      == {"accept", "reject"}
SentCommentButtons == {"reply"}

Buttons ==
  PostButtons(Refused) \union SubscrButtons \union
  {"back", "like", "unlike", "track", "untrack"}

\* The message about the event.
Board(e, x) ==
  CASE e.type \in PostBodied \union CommentBodied -> IF e.post THEN PostButtons(x) ELSE {}
    [] e.type \in Pointing \union Removing        -> PostButtons(x)
    [] e.type \in Requests                        -> SubscrButtons
    [] OTHER                                      -> {}
=============================================================================
