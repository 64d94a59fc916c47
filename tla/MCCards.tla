------------------------------ MODULE MCCards ------------------------------
EXTENDS Cards, TLC

About(type, post, comment, creator) ==
  [type |-> type, post |-> post, comment |-> comment, affected |-> TRUE, creator |-> creator]
AboutNobody(type) == [About(type, FALSE, FALSE, "none") EXCEPT !.affected = FALSE]

\* Events that have all they can have, those whose cause is not told, and
\* those that have lost their post.
Whole ==
  {About(t, TRUE, FALSE, "other") : t \in PostBodied \union {"direct_left"}}
    \union {About(t, TRUE, TRUE, "other") : t \in CommentBodied}
    \union {About(t, FALSE, FALSE, "other") : t \in Requests \union {"user_subscribed"}}
    \union {About("comment_moderated", TRUE, FALSE, "none"), About("direct", TRUE, FALSE, "self")}
Lost ==
  {AboutNobody(t) : t \in {"post_moderated", "blocked_in_group", "subscription_requested"}}
    \union {About(t, FALSE, FALSE, "other") : t \in {"direct", "direct_comment"}}

MCOther  == About("another type", FALSE, FALSE, "other")
MCEvents == Whole \union Lost \union {MCOther}

MCPosts  == {"p", "q", "r"}
MCLegacy == {<<>>, <<"p">>, <<"q", "p", "r">>}

PressSymmetry == Permutations(Presses)

\* The type of an event makes no difference once it has been shown, nor does
\* what an idle handler knew, or a post that will be loaded anew.
CardsView ==
  <<IF fate = "new" THEN event ELSE [event EXCEPT !.type = ""],
    [i \in DOMAIN records |-> <<records[i].msg, records[i].event = event>>],
    [i \in DOMAIN put |-> <<put[i].msg, put[i].event = event>>],
    tracked, lastID, wanted, fate, boards, verdict, outside,
    IF fate = "new" THEN srv ELSE [srv EXCEPT !.direct = FALSE],
    crashed, unknown, sure,
    [p \in Presses |->
       CASE pc[p] = "idle" -> <<>>
         [] pc[p] = "load" -> <<button[p], msg[p], p \in lone>>
         [] OTHER          -> <<pc[p], button[p], msg[p], p \in lone, 
                             IF button[p] \in SubscrButtons THEN <<>> ELSE snap[p]>>]>>
=============================================================================
