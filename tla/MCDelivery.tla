----------------------------- MODULE MCDelivery -----------------------------
EXTENDS Delivery, TLC

\* Goroutines of one kind are interchangeable, and so are the events that
\* are shown.
DeliverySymmetry ==
  Permutations(Workers) \union Permutations(Resumers) \union Permutations(Handlers)
    \union Permutations(Events \ Muted)

\* Not told apart: what an idle handler has done, a posted comment and a
\* pressed cancel button, what an event outside the queue was queued as, what
\* was read of the expectation and is not used again, what the user was told
\* (only for ResumedIsDelivered), and the order of records before the last.
DeliveryView ==
  <<unseen, pc, todo, flag, cur, queue, torn, expect, recs, badRecs, Ran(noted), Trimmed(noted),
    sent, stale \intersect Ran(queue), harmed, paused, mgr, hpc, commands,
    [r \in Resumers |-> IF pc[r] \in {"take", "clear"} THEN saw[r] ELSE ""],
    [h \in Handlers |-> CASE hpc[h] = "idle" -> ""
                          [] doing[h] = "comment" -> "cancel"
                          [] OTHER -> doing[h]]>>
=============================================================================
