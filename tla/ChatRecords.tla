---------------------------- MODULE ChatRecords ----------------------------
(***************************************************************************)
(* The two lists of records the file store keeps for a chat: the messages  *)
(* sent about events (sent-events.json) and the posts tracked in the old   *)
(* way (tracked-posts.json).  One step is one operation of the store, see  *)
(* module FsStore; an operation that fails leaves the list as it was, or   *)
(* unreadable for good, and is left out here.                              *)
(*                                                                         *)
(* Telegram never uses the id of a message again.  Both files go with the  *)
(* state of the chat.                                                      *)
(***************************************************************************)
EXTENDS Integers, Sequences

CONSTANTS
  Events,         \* events that messages are about
  Posts,
  MaxSentRecords, \* maxSentRecords
  MaxMessages,    \* bound: messages sent
  MaxPosts,       \* bound: entries in the list of posts
  NotFound

ASSUME RecordsAssumption ==
  MaxSentRecords \in Nat \ {0} /\ MaxMessages \in Nat /\ MaxPosts \in Nat

VARIABLES
  records, \* sent-events.json
  tracked, \* PostIDs in tracked-posts.json
  lastID,  \* the id of the last message sent
  put,     \* all the records put since the user logged in (history)
  wanted   \* posts tracked and not untracked since (history)
vars == <<records, tracked, lastID, put, wanted>>

Record == [msg : 1 .. MaxMessages, event : Events]
Ran(s) == {s[i] : i \in DOMAIN s}

TypeOK ==
  /\ records \in Seq(Record) /\ Len(records) <= MaxSentRecords
  /\ tracked \in Seq(Posts)
  /\ lastID \in 0 .. MaxMessages
  /\ put \in Seq(Record)
  /\ wanted \subseteq Posts

Init ==
  /\ records = <<>> /\ tracked = <<>>
  /\ lastID = 0 /\ put = <<>> /\ wanted = {}

-----------------------------------------------------------------------------
TrimmedEarly(s) ==  \* mutant: >= in place of >
  IF Len(s) >= MaxSentRecords THEN SubSeq(s, Len(s) - MaxSentRecords + 2, Len(s)) ELSE s
TrimmedNever(s) == s  \* mutant: the list is not cut
\* The last records of a list that has become too long.
Trimmed(s) ==
  IF Len(s) > MaxSentRecords THEN SubSeq(s, Len(s) - MaxSentRecords + 1, Len(s)) ELSE s

PutMsgRec(e) ==
  /\ lastID < MaxMessages
  /\ lastID' = lastID + 1
  /\ LET rec == [msg |-> lastID + 1, event |-> e]
     IN  /\ records' = Trimmed(Append(records, rec))
         /\ put' = Append(put, rec)
  /\ UNCHANGED <<tracked, wanted>>

\* The first record of the message.
GetMsgRec(m) ==
  LET at == {i \in DOMAIN records : records[i].msg = m}
  IN  IF at = {} THEN NotFound
      ELSE records[CHOOSE i \in at : \A j \in at : i <= j]

IsPostTracked(p) == p \in Ran(tracked)

TrackPost(p) ==
  /\ tracked' = IF IsPostTracked(p) THEN tracked ELSE Append(tracked, p)
  /\ Len(tracked') <= MaxPosts
  /\ wanted' = wanted \union {p}
  /\ UNCHANGED <<records, lastID, put>>

ShiftedBefore(s, i) ==  \* mutant: the element before it is deleted
  [j \in DOMAIN s |-> IF j < i - 1 \/ j = Len(s) THEN s[j] ELSE s[j + 1]]
\* What slices.Delete of Go 1.21 leaves in the array of s: the elements after
\* the i-th move up by one, and the last one stays where it was as well.
Shifted(s, i) ==
  [j \in DOMAIN s |-> IF j < i \/ j = Len(s) THEN s[j] ELSE s[j + 1]]

\* The shorter slice that slices.Delete returns is not used: the whole array
\* is saved.
UntrackPost(p) ==
  /\ IF IsPostTracked(p)
     THEN LET i == CHOOSE i \in DOMAIN tracked :
                     tracked[i] = p /\ \A j \in DOMAIN tracked : tracked[j] = p => i <= j
          IN  tracked' = Shifted(tracked, i)
     ELSE UNCHANGED tracked
  /\ wanted' = wanted \ {p}
  /\ UNCHANGED <<records, lastID, put>>

\* The user logs out; message ids go on.
DeleteState ==
  /\ records' = <<>> /\ tracked' = <<>>
  /\ put' = <<>> /\ wanted' = {}
  /\ UNCHANGED lastID

Next ==
  \/ \E e \in Events : PutMsgRec(e)
  \/ \E p \in Posts : TrackPost(p) \/ UntrackPost(p)
  \/ DeleteState

Spec == Init /\ [][Next]_vars

-----------------------------------------------------------------------------
(* Correctness.                                                            *)

\* The buttons of the last maxSentRecords messages work and those of older
\* ones do not (fs-events-store.go:34-39, store_test.go:162-188).
LastAreKept ==
  \A i \in DOMAIN put :
    GetMsgRec(put[i].msg) = IF i > Len(put) - MaxSentRecords THEN put[i] ELSE NotFound

\* Untracking one post untracks no other (fs-tracked-posts.go:44-47).
OthersStayTracked == wanted \subseteq Ran(tracked)

\* "err = s.store.UntrackPost(chatID, postID) ... s.False(ok)"
\* (store_test.go:219-224): a post that was untracked is not tracked.
UntrackedIsGone == Ran(tracked) \subseteq wanted
=============================================================================
