------------------------------ MODULE Delivery ------------------------------
(***************************************************************************)
(* How an event reaches the user of one authorised chat: the goroutines    *)
(* that run ProcessEvents (the realtime loop, the handlers of /load), the  *)
(* queue of the chat, the pause manager with its map and its two channels, *)
(* the handlers that pause and resume, and the goroutines the pause        *)
(* manager starts to work off the queue.                                   *)
(*                                                                         *)
(* The operations of the store are one step each: module FsStore shows     *)
(* that this is how they behave.  An event that the server reports twice   *)
(* counts as two.  Of state.json only the expectation is kept.  The map of *)
(* the pause manager is read without a lock; a read that meets a write     *)
(* sees the old map or the new one, or ends the program: see Crash.        *)
(***************************************************************************)
EXTENDS Integers, Sequences

CONSTANTS
  Events,      \* events the server reports
  Muted,       \* those renderEvent makes no message of
  NoEvent,     \* no event
  Workers,     \* goroutines that bring in events: realtime loop, /load
  Resumers,    \* bound: goroutines that run doResumeEvents at one time
  Handlers,    \* goroutines that handle the user's other updates
  MaxSentRecords, \* maxSentRecords
  MaxBatch,    \* bound: events of one message or one /load
  MaxCommands, \* bound: updates the user sends
  Failures,    \* may Telegram and the store report errors?
  Crashes      \* may the program be killed?

ASSUME DeliveryAssumption ==
  /\ Muted \subseteq Events /\ NoEvent \notin Events
  /\ Workers \cap Resumers = {}
  /\ MaxSentRecords \in Nat \ {0}
  /\ MaxBatch \in Nat \ {0} /\ MaxCommands \in Nat
  /\ Failures \in BOOLEAN /\ Crashes \in BOOLEAN

Procs == Workers \union Resumers

VARIABLES
  unseen,   \* events the server has not reported yet
  pc,       \* pc[p]: where p is, in doResumeEvents or ProcessEvents
  todo,     \* todo[p]: events p still has to process
  flag,     \* flag[p]: isPaused, as p has read it
  saw,      \* saw[p]: the expectation in the state p has loaded
  cur,      \* cur[p]: the event of the message p has just sent
  queue,    \* queue.json
  torn,     \* is queue.json no JSON, after a write that was not finished?
  expect,   \* Expectation in state.json
  recs,     \* sent-events.json: the events of the records
  badRecs,  \* is it no JSON, after a write that was not finished?
  sent,     \* events sent to the user, in this order
  paused,   \* is the chat in the map of the pause manager?
  mgr,      \* where the pause manager's loop is
  hpc,      \* hpc[h]: where handler h is
  doing,    \* doing[h]: the update it handles
  commands, \* updates handled so far
  told,     \* what the user was last told and still holds (history)
  noted,    \* all the records written so far (history)
  stale,    \* events queued while the chat was not paused (history)
  harmed    \* events that an error or a crash has met (history)

procVars == <<pc, todo, flag, saw, cur>>
recVars  == <<recs, badRecs, noted>>
fileVars == <<queue, torn, expect, recVars>>
userVars == <<sent, told, stale, harmed>>
ctlVars  == <<paused, mgr, hpc, doing, commands>>
vars     == <<unseen, procVars, fileVars, userVars, ctlVars>>

Ran(s) == {s[i] : i \in DOMAIN s}
Distinct(s) == \A i, j \in DOMAIN s : s[i] = s[j] => i = j

\* Updates that pause or resume: the two commands, the reply buttons, and
\* what ends the entering of a comment: the comment, or the cancel button.
Updates == {"pause", "resume", "reply", "comment", "cancel"}

TypeOK ==
  /\ unseen \subseteq Events
  /\ pc \in [Procs -> {"idle", "load", "take", "clear", "check", "run", "record"}]
  /\ todo \in [Procs -> Seq(Events)]
  /\ flag \in [Procs -> BOOLEAN]
  /\ saw \in [Procs -> {"", "comment"}]
  /\ cur \in [Procs -> Events \union {NoEvent}]
  /\ \A p \in Procs : pc[p] = "record" => cur[p] \in Events
  /\ queue \in Seq(Events) /\ torn \in BOOLEAN
  /\ expect \in {"", "comment"}
  /\ recs \in Seq(Events \union {NoEvent}) /\ Len(recs) <= MaxSentRecords
  /\ badRecs \in BOOLEAN
  /\ noted \in Seq(Events \union {NoEvent})
  /\ sent \in Seq(Events)
  /\ paused \in BOOLEAN
  /\ mgr \in {"select", "pausing", "resuming", "ended"}
  /\ hpc \in [Handlers -> {"idle", "note", "save", "signal", "tell"}]
  /\ doing \in [Handlers -> Updates]
  /\ commands \in 0 .. MaxCommands
  /\ told \in {"", "paused", "resumed"}
  /\ stale \subseteq Events /\ harmed \subseteq Events

Init ==
  /\ unseen = Events
  /\ pc = [p \in Procs |-> "idle"]
  /\ todo = [p \in Procs |-> <<>>]
  /\ flag = [p \in Procs |-> FALSE]
  /\ saw = [p \in Procs |-> ""]
  /\ cur = [p \in Procs |-> NoEvent]
  /\ queue = <<>> /\ torn = FALSE /\ expect = ""
  /\ recs = <<>> /\ badRecs = FALSE /\ noted = <<>>
  /\ sent = <<>>
  /\ paused = FALSE /\ mgr = "select"
  /\ hpc = [h \in Handlers |-> "idle"]
  /\ doing = [h \in Handlers |-> "pause"]
  /\ commands = 0 /\ told = "" /\ stale = {} /\ harmed = {}

Goto(p, label) == pc' = [pc EXCEPT ![p] = label]
Harms(events)  == harmed' = harmed \union events

InHand == UNION {Ran(todo[p]) : p \in Procs}

-----------------------------------------------------------------------------
(* Events come in.                                                         *)

Batches ==
  {b \in UNION {[1 .. n -> unseen] : n \in 1 .. MaxBatch} : Distinct(b)}

\* A realtime message, or the answer to /load: its events are processed if
\* the state of the chat can be loaded, and dropped otherwise.
Arrive(w) ==
  /\ pc[w] = "idle"
  /\ \E b \in Batches :
       /\ unseen' = unseen \ Ran(b)
       /\ \/ /\ todo' = [todo EXCEPT ![w] = b] /\ Goto(w, "check")
             /\ UNCHANGED harmed
          \/ /\ Failures /\ Harms(Ran(b))
             /\ UNCHANGED <<todo, pc>>
  /\ UNCHANGED <<flag, saw, cur, fileVars, sent, told, stale, ctlVars>>

-----------------------------------------------------------------------------
(* ProcessEvents.                                                          *)

\* EventsPaused is asked once for all the events.
Check(p) ==
  /\ pc[p] = "check"
  /\ flag' = [flag EXCEPT ![p] = paused]
  /\ Goto(p, "run")
  /\ UNCHANGED <<unseen, todo, saw, cur, fileVars, userVars, ctlVars>>

More(p) == pc[p] = "run" /\ todo[p] # <<>>

EnqueueOverwrites(p) ==  \* mutant: saveData in place of updateData
  /\ More(p) /\ flag[p]
  /\ todo' = [todo EXCEPT ![p] = Tail(@)]
  /\ queue' = <<Head(todo[p])>>
  /\ UNCHANGED <<unseen, pc, flag, saw, cur, torn, expect, recVars, userVars, ctlVars>>

EnqueueFirst(p) ==  \* mutant: the new entry comes before the others
  /\ More(p) /\ flag[p]
  /\ todo' = [todo EXCEPT ![p] = Tail(@)]
  /\ queue' = <<Head(todo[p])>> \o queue
  /\ UNCHANGED <<unseen, pc, flag, saw, cur, torn, expect, recVars, userVars, ctlVars>>

Enqueue(p) ==
  /\ More(p) /\ flag[p]
  /\ todo' = [todo EXCEPT ![p] = Tail(@)]
  /\ \/ /\ ~torn
        /\ queue' = Append(queue, Head(todo[p]))
        /\ stale' = IF paused THEN stale \ {Head(todo[p])}
                    ELSE stale \union {Head(todo[p])}
        /\ UNCHANGED <<torn, harmed>>
     \/ /\ torn \/ Failures
        /\ \/ /\ torn' = TRUE /\ queue' = <<>>
              /\ Harms({Head(todo[p])} \union Ran(queue))
           \/ /\ UNCHANGED <<torn, queue>>
              /\ Harms({Head(todo[p])})
        /\ UNCHANGED stale
  /\ UNCHANGED <<unseen, pc, flag, saw, cur, expect, recVars, sent, told, ctlVars>>

SendUnnamed(p) ==  \* mutant: the record is saved without its event
  /\ More(p) /\ ~flag[p]
  /\ Head(todo[p]) \notin Muted
  /\ todo' = [todo EXCEPT ![p] = Tail(@)]
  /\ sent' = Append(sent, Head(todo[p]))
  /\ Goto(p, "record")
  /\ UNCHANGED <<unseen, flag, saw, cur, fileVars, told, stale, harmed, ctlVars>>

\* A message that is reported as not sent, rightly or not, is only logged.
SendEvent(p) ==
  /\ More(p) /\ ~flag[p]
  /\ Head(todo[p]) \notin Muted
  /\ todo' = [todo EXCEPT ![p] = Tail(@)]
  /\ \/ /\ sent' = Append(sent, Head(todo[p]))
        /\ cur' = [cur EXCEPT ![p] = Head(todo[p])]
        /\ Goto(p, "record")
        /\ UNCHANGED harmed
     \/ /\ Failures /\ Harms({Head(todo[p])})
        /\ sent' \in {sent, Append(sent, Head(todo[p]))}
        /\ UNCHANGED <<cur, pc>>
  /\ UNCHANGED <<unseen, flag, saw, fileVars, told, stale, ctlVars>>

SkipEvent(p) ==
  /\ More(p) /\ ~flag[p]
  /\ Head(todo[p]) \in Muted
  /\ todo' = [todo EXCEPT ![p] = Tail(@)]
  /\ UNCHANGED <<unseen, pc, flag, saw, cur, fileVars, userVars, ctlVars>>

TrimmedFirst(s) ==  \* mutant: the first records are kept, not the last
  IF Len(s) > MaxSentRecords THEN SubSeq(s, 1, MaxSentRecords) ELSE s
Trimmed(s) ==
  IF Len(s) > MaxSentRecords THEN SubSeq(s, Len(s) - MaxSentRecords + 1, Len(s)) ELSE s

\* PutMsgRec, without which the buttons of the message do not work.  The
\* record of a message that is about no new event has NoEvent.  An error may
\* leave the file as it was, or unreadable, for good and for all messages.
PutMsgRec(e) ==
  \/ /\ ~badRecs
     /\ recs' = Trimmed(Append(recs, e)) /\ noted' = Append(noted, e)
     /\ UNCHANGED <<badRecs, harmed>>
  \/ /\ badRecs \/ Failures
     /\ \/ badRecs' = TRUE /\ recs' = <<>>
        \/ UNCHANGED <<badRecs, recs>>
     /\ Harms(({e} \union (Ran(recs) \ Ran(recs'))) \ {NoEvent})
     /\ UNCHANGED noted

Record(p) ==
  /\ pc[p] = "record"
  /\ PutMsgRec(cur[p])
  /\ cur' = [cur EXCEPT ![p] = NoEvent]
  /\ Goto(p, "run")
  /\ UNCHANGED <<unseen, todo, flag, saw, queue, torn, expect, sent, told, stale, ctlVars>>

Finish(p) ==
  /\ pc[p] = "run" /\ todo[p] = <<>>
  /\ Goto(p, "idle")
  /\ flag' = [flag EXCEPT ![p] = FALSE]
  /\ saw' = [saw EXCEPT ![p] = ""]
  /\ UNCHANGED <<unseen, todo, cur, fileVars, userVars, ctlVars>>

-----------------------------------------------------------------------------
(* doResumeEvents.  An error ends it.                                      *)

LoadChat(r) ==
  /\ pc[r] = "load"
  /\ \/ /\ saw' = [saw EXCEPT ![r] = expect] /\ Goto(r, "take")
        /\ UNCHANGED harmed
     \/ /\ Failures /\ Harms(Ran(queue))
        /\ Goto(r, "idle")
        /\ UNCHANGED saw
  /\ UNCHANGED <<unseen, todo, flag, cur, fileVars, sent, told, stale, ctlVars>>

TakeQueueKeeps(r) ==  \* mutant: without the option deleteFile
  /\ pc[r] = "take"
  /\ ~torn
  /\ todo' = [todo EXCEPT ![r] = queue]
  /\ Goto(r, "clear")
  /\ UNCHANGED <<unseen, flag, saw, cur, fileVars, userVars, ctlVars>>

\* LoadAndDeleteQueue.  One that finds the queue empty may have met another
\* one that was removing the file: then it gets an error.
TakeQueue(r) ==
  /\ pc[r] = "take"
  /\ \/ /\ ~torn
        /\ todo' = [todo EXCEPT ![r] = queue]
        /\ queue' = <<>>
        /\ Goto(r, "clear")
        /\ UNCHANGED <<saw, harmed>>
     \/ /\ torn \/ Failures \/ queue = <<>>
        /\ Harms(Ran(queue))
        /\ Goto(r, "idle")
        /\ saw' = [saw EXCEPT ![r] = ""]
        /\ UNCHANGED <<todo, queue>>
  /\ UNCHANGED <<unseen, flag, cur, torn, expect, recVars, sent, told, stale, ctlVars>>

\* An expected comment is not waited for any longer.  If the state cannot be
\* saved, the events taken from the queue are dropped.
Clear(r) ==
  /\ pc[r] = "clear"
  /\ \/ /\ expect' = IF saw[r] = "comment" THEN "" ELSE expect
        /\ Goto(r, "check")
        /\ UNCHANGED <<todo, saw, harmed>>
     \/ /\ Failures /\ saw[r] = "comment"
        /\ Harms(Ran(todo[r]))
        /\ Goto(r, "idle")
        /\ todo' = [todo EXCEPT ![r] = <<>>]
        /\ saw' = [saw EXCEPT ![r] = ""]
        /\ UNCHANGED expect
  /\ UNCHANGED <<unseen, flag, cur, queue, torn, recVars, sent, told, stale, ctlVars>>

-----------------------------------------------------------------------------
(* The pause manager.                                                      *)

MgrPauseStops ==  \* mutant: does not come back to its select
  /\ mgr = "pausing" /\ ~paused
  /\ paused' = TRUE
  /\ told' = IF told = "resumed" THEN "" ELSE told
  /\ UNCHANGED <<unseen, procVars, fileVars, sent, stale, harmed, mgr, hpc, doing, commands>>

MgrPause ==
  /\ mgr = "pausing"
  /\ paused' = TRUE
  /\ mgr' = "select"
  /\ told' = IF told = "resumed" THEN "" ELSE told
  /\ UNCHANGED <<unseen, procVars, fileVars, sent, stale, harmed, hpc, doing, commands>>

ResumeForgets ==  \* mutant: nobody works off the queue
  /\ paused' = FALSE
  /\ told' = IF told = "paused" THEN "" ELSE told
  /\ UNCHANGED <<unseen, procVars, fileVars, sent, stale, harmed, hpc, doing, commands>>

\* _resume: the chat leaves the map and a goroutine is started.
Resume ==
  /\ paused' = FALSE
  /\ told' = IF told = "paused" THEN "" ELSE told
  /\ \E r \in Resumers : pc[r] = "idle" /\ Goto(r, "load")
  /\ UNCHANGED <<unseen, todo, flag, saw, cur, fileVars, sent, stale, harmed>>
  /\ UNCHANGED <<hpc, doing, commands>>

MgrResume ==
  /\ mgr = "resuming"
  /\ mgr' = "select"
  /\ Resume

CleanupForgets ==  \* mutant: the ticker only forgets the pause
  /\ mgr = "select" /\ paused
  /\ ResumeForgets
  /\ UNCHANGED mgr

\* The ticker finds a pause that has lasted too long.
Cleanup ==
  /\ mgr = "select" /\ paused
  /\ Resume
  /\ UNCHANGED mgr

\* The application is closed.
MgrEnds ==
  /\ mgr = "select" /\ mgr' = "ended"
  /\ UNCHANGED <<unseen, procVars, fileVars, userVars, paused, hpc, doing, commands>>

-----------------------------------------------------------------------------
(* The handlers.                                                           *)

\* A message can be commented on while it has a record; the cancel button
\* comes with the expectation of a comment, and outlives the record.
Begin(h) ==
  /\ hpc[h] = "idle"
  /\ commands < MaxCommands
  /\ commands' = commands + 1
  /\ \E u \in Updates :
       /\ u \in {"reply", "comment"} => recs # <<>>
       /\ u = "cancel" => noted # <<>>
       /\ doing' = [doing EXCEPT ![h] = u]
       /\ hpc' = [hpc EXCEPT ![h] = CASE u = "comment" -> "note"
                                      [] u \in {"reply", "cancel"} -> "save"
                                      [] OTHER -> "signal"]
  /\ UNCHANGED <<unseen, procVars, fileVars, userVars, paused, mgr>>

\* "Comment successfully created!" has buttons, and a record if it was sent.
Note(h) ==
  /\ hpc[h] = "note"
  /\ hpc' = [hpc EXCEPT ![h] = "save"]
  /\ \/ PutMsgRec(NoEvent)
     \/ Failures /\ UNCHANGED <<recVars, harmed>>
  /\ UNCHANGED <<unseen, procVars, queue, torn, expect, sent, told, stale, paused, mgr>>
  /\ UNCHANGED <<doing, commands>>

\* Whether the state could be saved is not looked at.
Save(h) ==
  /\ hpc[h] = "save"
  /\ \/ expect' = IF doing[h] = "reply" THEN "comment" ELSE ""
     \/ Failures /\ UNCHANGED expect
  /\ hpc' = [hpc EXCEPT ![h] = "signal"]
  /\ UNCHANGED <<unseen, procVars, queue, torn, recVars, userVars, paused, mgr, doing, commands>>

\* PauseEvents and ResumeEvents return when the manager has received the
\* chat's id, not when it has changed its map.
Signal(h) ==
  /\ hpc[h] = "signal"
  /\ mgr = "select"
  /\ mgr' = IF doing[h] \in {"pause", "reply"} THEN "pausing" ELSE "resuming"
  /\ hpc' = [hpc EXCEPT ![h] = IF doing[h] \in {"pause", "resume"} THEN "tell" ELSE "idle"]
  /\ UNCHANGED <<unseen, procVars, fileVars, userVars, paused, doing, commands>>

\* "Your updates are paused now", "Your updates are resumed now".
Tell(h) ==
  /\ hpc[h] = "tell"
  /\ told' = IF doing[h] = "pause" THEN IF paused THEN "paused" ELSE told
             ELSE IF paused THEN told ELSE "resumed"
  /\ hpc' = [hpc EXCEPT ![h] = "idle"]
  /\ UNCHANGED <<unseen, procVars, fileVars, sent, stale, harmed, paused, mgr, doing, commands>>

-----------------------------------------------------------------------------
\* The program is killed, in the middle of a write to the queue or to the
\* records perhaps, and started again, which clears the expectation.
Crash ==
  /\ Crashes
  /\ pc' = [p \in Procs |-> "idle"]
  /\ todo' = [p \in Procs |-> <<>>]
  /\ flag' = [p \in Procs |-> FALSE]
  /\ saw' = [p \in Procs |-> ""]
  /\ cur' = [p \in Procs |-> NoEvent]
  /\ \/ /\ \E p \in Procs : More(p) /\ flag[p]
        /\ torn' = TRUE /\ queue' = <<>>
        /\ UNCHANGED <<badRecs, recs>>
     \/ /\ (\E p \in Procs : pc[p] = "record") \/ \E h \in Handlers : hpc[h] = "note"
        /\ badRecs' = TRUE /\ recs' = <<>>
        /\ UNCHANGED <<torn, queue>>
     \/ UNCHANGED <<torn, queue, badRecs, recs>>
  /\ expect' = ""
  /\ paused' = FALSE /\ mgr' = "select"
  /\ hpc' = [h \in Handlers |-> "idle"]
  /\ told' = ""
  /\ Harms((InHand \union Ran(queue) \union {cur[p] : p \in Procs} \union (Ran(recs) \ Ran(recs')))
             \ {NoEvent})
  /\ UNCHANGED <<unseen, noted, sent, stale, doing, commands>>

Process(p) ==
  \/ Check(p) \/ Enqueue(p) \/ SendEvent(p) \/ SkipEvent(p) \/ Record(p) \/ Finish(p)
Restore(r) == LoadChat(r) \/ TakeQueue(r) \/ Clear(r)
Handle(h)  == Note(h) \/ Save(h) \/ Signal(h) \/ Tell(h)
Manager    == MgrPause \/ MgrResume \/ Cleanup \/ MgrEnds

Next ==
  \/ \E w \in Workers : Arrive(w)
  \/ \E p \in Procs : Process(p)
  \/ \E r \in Resumers : Restore(r)
  \/ \E h \in Handlers : Begin(h) \/ Handle(h)
  \/ Manager
  \/ Crash

Spec == Init /\ [][Next]_vars

\* Goroutines go on, and the ticker and the channels of the pause manager
\* are served by a select that draws at random among what is ready.
FairSpec ==
  /\ Spec
  /\ \A p \in Procs : WF_vars(Process(p))
  /\ \A r \in Resumers : WF_vars(Restore(r))
  /\ \A h \in Handlers : WF_vars(Note(h) \/ Save(h) \/ Tell(h)) /\ SF_vars(Signal(h))
  /\ WF_vars(MgrPause) /\ WF_vars(MgrResume) /\ SF_vars(Cleanup)

-----------------------------------------------------------------------------
(* Correctness.                                                            *)

\* No event is shown twice, though it may go to the queue and back several
\* times and two goroutines may work off the queue at once; errors and
\* crashes lose events but do not repeat them (pause.go:23,
\* process-event.go:21-30).
AtMostOnce == Distinct(sent)

\* No event is lost between a batch, the queue and the goroutine that works
\* it off, but those that an error or a crash has met: what happens to one
\* goroutine costs no event of another (pause.go:23-42).
NothingLost ==
  Events \ unseen \subseteq Muted \union Ran(sent) \union Ran(queue) \union InHand \union harmed

\* Every message with an event gets a record for its buttons, and the last
\* maxSentRecords records there are can be read: concurrent senders and
\* comments push out older records only.  Excepted are the events that an
\* error or a kill has met; one in the middle of a write costs the records of
\* all messages (chat.go:55-61, fs-events-store.go:32-41).
ButtonsWork ==
  /\ Ran(sent) \subseteq Ran(noted) \union {cur[p] : p \in Procs} \union harmed
  /\ \A i \in DOMAIN noted :
       i > Len(noted) - MaxSentRecords => noted[i] \in Ran(recs) \union harmed \union {NoEvent}

\* An event in the queue of a chat that is not paused is about to be taken,
\* unless ProcessEvents put it there after the pause whose flag it had read,
\* or the goroutine that was to take it failed or was killed (pause-manager.go:69-73, pause.go:21-23).
OnlyStaleStranded ==
  paused \/ Ran(queue) \subseteq stale \union harmed \/ \E r \in Resumers : pc[r] \in {"load", "take"}

\* So every other queued event leaves the queue in the end, while the
\* application is open: each pause is ended by the user or by the ticker
\* (pause-manager.go:56-62).
QueuedIsDelivered ==
  \A e \in Events :
    e \in Ran(queue) \ stale ~>
      e \in Ran(sent) \union Muted \union stale \/ mgr = "ended"

\* Every handler ends, though the pause manager has no buffer and starts
\* resumptions itself, unless the manager has ended and the handler waits for
\* it, and the end of the program for the handler (pause-manager.go:38-39,
\* 63-64, app.go:113).
HandlersEnd ==
  \A h \in Handlers :
    hpc[h] # "idle" ~> hpc[h] = "idle" \/ (mgr = "ended" /\ hpc[h] = "signal")

\* "Your updates are resumed now." (handle-command.go:55): what is in the
\* queue does not stay there.
ResumedIsDelivered ==
  told = "resumed" /\ queue # <<>> ~> told # "resumed" \/ queue = <<>>

\* The batches the goroutines have in hand.
InHands == {todo[p] : p \in Procs} \ {<<>>}

Flow == INSTANCE EventFlow
        WITH fresh <- unseen, hands <- InHands, waiting <- queue, shown <- sent,
             Faults <- Failures \/ Crashes

\* Whatever goroutines, pauses and resumptions do at once, an event goes from
\* its batch to the user, to nobody if it has no message, or to the end of
\* the queue, and the queue as a whole, in its order, back into one pair of
\* hands; only errors and kills take events away, and nothing shows one again
\* (process-event.go:21-30, pause.go:23-42).
IsFlow == Flow!Spec
=============================================================================
