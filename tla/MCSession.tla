------------------------------ MODULE MCSession ------------------------------
EXTENDS Session, TLC

\* Handlers are interchangeable, and so are the messages.
SessionSymmetry == Permutations(Handlers) \union Permutations(Msgs)

\* What a goroutine that has ended knew is never looked at again, nor is an
\* object that is neither in the cache nor read by anybody, nor the update once
\* its course is taken and its button is dealt with, nor a connection whose
\* loop has ended, nor who changed whose object once nobody can comment, nor
\* who saved what once the app is closing.  Of the last comment it only matters
\* whether it fits, and of a program that has ended what it leaves on disk.
Ended(p)  == steps[p] = <<>>
Upcoming(p) == IF Ended(p) THEN "" ELSE Head(steps[p])
Reads(p)  == \E i \in DOMAIN steps[p] :
               steps[p][i] \notin {"take", "record", "delete", "startRT", "stopRT"}
Used(p)   == cache = p \/ \E q \in Procs : ref[q] = p /\ Reads(q)
Undone(p) == Upcoming(p) \in {"load", "reply"}
MayPost   == \E h \in Handlers : \/ upd[h] = "" \/ Upcoming(h) \in {"find", "post"}
                                 \/ upd[h] = "text" /\ Upcoming(h) = "load"
Seen(p) ==
  [heap |-> IF Used(p) THEN heap[p] ELSE NewState,
   ref  |-> IF Ended(p) THEN p ELSE ref[p],
   upd  |-> IF upd[p] = "" \/ Undone(p) \/ (upd[p] = "resume" /\ ~Ended(p))
            THEN upd[p] ELSE "any",
   msg  |-> IF Undone(p) \/ At(p, "post") THEN msg[p] ELSE NoMsg,
   rt   |-> IF link[p] = "closed" /\ loops[p] = "end" THEN <<"new", "none">>
            ELSE <<link[p], loops[p]>>]
SessionView ==
  <<disk, [p \in Procs |-> upd[p] = ""], up, closing, removed = "never" /\ failed = 0, failed,
    IF up THEN <<cache, steps, [p \in Procs |-> Seen(p)], conn, listening,
                 CommentFits, crossed /\ MayPost, revived /\ disk \in State /\ ~closing>>
    ELSE <<>>>>

\* Bound: the end of the app and an error of the store, or a cut operation, do
\* not come together.
OneAtATime == closing => failed = 0
=============================================================================
