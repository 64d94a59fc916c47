-------------------------------- MODULE Session --------------------------------
(***************************************************************************)
(* The session of one chat: its state, in state.json or in the cache of    *)
(* package app, and its realtime connection, as the goroutines that share  *)
(* them see both: the handlers of the user's updates, the goroutines that  *)
(* resume events, App.Start, and the realtime loops.                       *)
(*                                                                         *)
(* Nothing keeps two handlers of one chat apart.  Each loads the state,    *)
(* talks to FreeFeed and Telegram, changes the state it has loaded, and    *)
(* saves it.  A state of state.json is loaded into an object of one's own; *)
(* a state of the cache is an object that all its users share.             *)
(*                                                                         *)
(* A goroutine is a list of steps still to take.  An operation of the      *)
(* store is one step (see module FsStore), and so is a group of            *)
(* assignments to the fields of a state.  What is asked of FreeFeed and of *)
(* the store may fail.  A connection has the name of the goroutine that    *)
(* opened it.                                                              *)
(***************************************************************************)
EXTENDS Naturals, Sequences

CONSTANTS
  Handlers,  \* goroutines of handleTgUpdate and doResumeEvents
  Boot,      \* the goroutine of App.Start
  Msgs,      \* messages about events
  NoMsg, None,
  NoState,   \* there is no directory of the chat
  Bare,      \* there is one, without state.json
  Torn,      \* state.json is no JSON, after a write that was not finished
  MaxErrors  \* bound: errors of the store, and writes and deletions cut by a kill

ASSUME SessionAssumption ==
  /\ Boot \notin Handlers /\ None \notin Handlers \union {Boot}
  /\ NoMsg \notin Msgs /\ NoState # Bare /\ Torn \notin {NoState, Bare}
  /\ MaxErrors \in Nat

Procs == Handlers \union {Boot}

VARIABLES
  steps,     \* steps[p]: what goroutine p will do
  conn,      \* the connection in rtConns, None if there is none
  link,      \* link[p]: is the connection p opened new, open or closed?
  loops,     \* loops[p]: the realtime loop of this connection
  disk,      \* state.json, NoState, Bare or Torn
  cache,     \* the object in the cache, None if there is none
  ref,       \* ref[p]: whose object is c.State of p
  heap,      \* heap[p]: the object p has made
  upd,       \* upd[p]: the update it handles, "" before it starts
  msg,       \* msg[p]: the message of the button, or that is commented on
  listening, \* does listenTelegram still start goroutines?
  closing,   \* has Close closed closeChan?
  up,        \* is the program running?
  posted,    \* the last comment: on which message, addressing whose author
  crossed,   \* has one changed an object on which another one was at work?
  removed,   \* has a logout removed the data, and did somebody log in since?
  revived,   \* was it saved again by somebody who did not log in, or kept?
  failed     \* errors of the store so far, and operations a kill has cut,
             \* with the state of the chat

objVars == <<cache, heap, ref>>
rtVars  == <<conn, link, loops>>
appVars == <<listening, closing, up>>
logVars == <<posted, crossed, removed, revived, failed>>
vars == <<disk, objVars, steps, upd, msg, rtVars, appVars, logVars>>

State ==
  [lang : BOOLEAN, auth : BOOLEAN, expect : {"", "lang", "token", "comment"},
   react : Msgs \union {NoMsg}, prefix : Msgs \union {NoMsg}]

ASSUME MarksAssumption == {NoState, Bare, Torn} \cap State = {}

\* What the loader of the cache makes.
NewState ==
  [lang |-> FALSE, auth |-> FALSE, expect |-> "lang", react |-> NoMsg, prefix |-> NoMsg]

\* States that an earlier run of the program may have left.
Left ==
  {NoState} \union
  {s \in State : /\ s.lang /\ s.auth
                 /\ IF s.expect = "comment" THEN s.react = s.prefix /\ s.react # NoMsg
                    ELSE s.expect = "" /\ s.react = NoMsg /\ s.prefix = NoMsg}

Updates == {"start", "lang", "text", "logout", "reply", "replyAt", "cancel", "resume"}

Steps ==
  {"load", "ask", "lang", "token", "login", "reply", "clear", "find", "post", "take", "record",
   "save", "keep", "store", "delete", "startRT", "stopRT", "list", "loadBoot"}

TypeOK ==
  /\ disk \in State \union {NoState, Bare, Torn}
  /\ cache \in Procs \union {None}
  /\ heap \in [Procs -> State]
  /\ ref \in [Procs -> Procs]
  /\ steps \in [Procs -> Seq(Steps)]
  /\ upd \in [Procs -> Updates \union {""}]
  /\ msg \in [Procs -> Msgs \union {NoMsg}]
  /\ conn \in Procs \union {None}
  /\ link \in [Procs -> {"new", "open", "closed"}]
  /\ loops \in [Procs -> {"none", "run", "end"}]
  /\ listening \in BOOLEAN /\ closing \in BOOLEAN /\ up \in BOOLEAN
  /\ posted \in (Msgs \X (Msgs \union {NoMsg})) \union {<<>>}
  /\ crossed \in BOOLEAN
  /\ removed \in {"never", "yes", "back"} /\ revived \in BOOLEAN
  /\ failed \in 0 .. MaxErrors

Init ==
  /\ disk \in Left
  /\ cache = None
  /\ heap = [p \in Procs |-> NewState] /\ ref = [p \in Procs |-> p]
  /\ steps = [p \in Procs |-> IF p = Boot THEN <<"list">> ELSE <<>>]
  /\ upd = [p \in Procs |-> ""] /\ msg = [p \in Procs |-> NoMsg]
  /\ conn = None
  /\ link = [p \in Procs |-> "new"] /\ loops = [p \in Procs |-> "none"]
  /\ listening = TRUE /\ closing = FALSE /\ up = TRUE
  /\ posted = <<>> /\ crossed = FALSE /\ removed = "never" /\ revived = FALSE
  /\ failed = 0

-----------------------------------------------------------------------------
(* Steps of a goroutine.                                                   *)

At(p, s) == up /\ steps[p] # <<>> /\ Head(steps[p]) = s
Plan(p, list) == steps' = [steps EXCEPT ![p] = list]
Go(p) == Plan(p, Tail(steps[p]))
Mine(p) == heap[ref[p]]  \* c.State

LogoutDeletesFirst == <<"delete", "stopRT">>  \* mutant
Logout == <<"stopRT", "delete">>

\* What a goroutine does about update u with the state it finds: one of these.
\* There are buttons and replies where there are records of messages, and
\* FreeFeed takes comments of users with a token.
Courses(u, s) ==
  CASE u = "start"  -> {IF s.auth THEN <<>> ELSE <<"token", "save">>}
    [] u = "lang"   -> {<<"lang", "save", "ask">>}
    [] u = "logout" -> {IF s.auth THEN Logout ELSE <<>>}
    [] u = "cancel" -> {<<"clear", "save">>}
    [] u = "resume" -> {<<"take">> \o IF s.expect = "comment" THEN <<"clear", "store">>
                                      ELSE <<>>}
    [] u \in {"reply", "replyAt"} ->
         {<<>>} \union IF disk = NoState THEN {} ELSE {<<"reply", "save">>}
    [] u = "text" ->
         {<<>>, CASE s.expect = "token"   -> <<"login", "save", "startRT">>
                  [] s.expect = "comment" -> <<"find", "post", "record", "clear", "save">>
                  [] OTHER -> IF s.auth /\ disk # NoState
                              THEN <<"record", "clear", "save">> ELSE <<>>}

\* An update, or a resumption of the events, gets a goroutine, and that loads
\* the state: LoadState looks in the store first.  One that cannot read it
\* ends.  When the pause manager ends
\* is its own affair: it starts the last resumption whenever it does.
Begin(h) ==
  /\ up /\ upd[h] = ""
  /\ \E u \in Updates, m \in Msgs :
       /\ u = "resume" \/ listening
       /\ upd' = [upd EXCEPT ![h] = u]
       /\ msg' = [msg EXCEPT ![h] = IF u \in {"reply", "replyAt"} THEN m ELSE NoMsg]
       /\ IF disk \notin State
          THEN Plan(h, IF disk = Torn THEN <<>> ELSE <<"load">>) /\ UNCHANGED heap
          ELSE /\ heap' = [heap EXCEPT ![h] = disk]
               /\ \E c \in Courses(u, disk) : Plan(h, c)
  /\ UNCHANGED <<disk, cache, ref, rtVars, appVars, logVars>>

\* Then in the cache, whose loader makes a state.
LoadCached(h) ==
  /\ At(h, "load")
  /\ cache' = IF cache = None THEN h ELSE cache
  /\ heap' = IF cache = None THEN [heap EXCEPT ![h] = NewState] ELSE heap
  /\ ref' = [ref EXCEPT ![h] = cache']
  /\ \E c \in Courses(upd[h], heap'[cache']) : Plan(h, c)
  /\ UNCHANGED <<disk, upd, msg, rtVars, appVars, logVars>>

\* After the language is set: whoever is not authorised is sent the welcome
\* message, and then asked for the token.
Ask(h) ==
  /\ At(h, "ask")
  /\ Plan(h, IF Mine(h).auth THEN <<>> ELSE <<"token", "save">>)
  /\ UNCHANGED <<disk, objVars, upd, msg, rtVars, appVars, logVars>>

\* The record of the message is looked up that the state names.
Find(h) ==
  /\ At(h, "find")
  /\ \/ /\ Mine(h).react # NoMsg /\ disk # NoState
        /\ msg' = [msg EXCEPT ![h] = Mine(h).react]
        /\ Go(h)
     \/ UNCHANGED msg /\ Plan(h, <<>>)
  /\ UNCHANGED <<disk, objVars, upd, rtVars, appVars, logVars>>

\* Then the prefix is read, and the token, and the comment is added, or
\* FreeFeed refuses.
Post(h) ==
  /\ At(h, "post")
  /\ \/ /\ Mine(h).auth
        /\ posted' = <<msg[h], Mine(h).prefix>>
        /\ Go(h)
     \/ UNCHANGED posted /\ Plan(h, <<>>)
  /\ UNCHANGED <<disk, objVars, upd, msg, rtVars, appVars, crossed, removed, revived, failed>>

TakeMakes(h) ==  \* mutant: loadData makes the directory, as saveData does
  /\ At(h, "take")
  /\ disk' = IF disk = NoState THEN Bare ELSE disk
  /\ \E events \in IF disk = NoState THEN {<<>>} ELSE {<<>>, <<"record">>} :
       Plan(h, Tail(steps[h]) \o events)
  /\ UNCHANGED <<objVars, upd, msg, rtVars, appVars, logVars>>

\* A resumption takes the events out of the queue, if there are any; it ends
\* if the queue cannot be read.
Take(h) ==
  /\ At(h, "take")
  /\ \/ \E events \in IF disk = NoState THEN {<<>>} ELSE {<<>>, <<"record">>} :
          Plan(h, Tail(steps[h]) \o events)
     \/ Plan(h, <<>>)
  /\ UNCHANGED <<disk, objVars, upd, msg, rtVars, appVars, logVars>>

\* A message about an event is recorded, or the event is queued: any write
\* makes the directory.  An error is only logged.
Made == IF disk = NoState THEN Bare ELSE disk

Record(h) ==
  /\ At(h, "record")
  /\ disk' \in {Made, disk}
  /\ Go(h)
  /\ UNCHANGED <<objVars, upd, msg, rtVars, appVars, logVars>>

-----------------------------------------------------------------------------
(* Changing and saving the state.                                          *)

Cleared(s) == [s EXCEPT !.expect = "", !.react = NoMsg, !.prefix = NoMsg]

RepliedKeeps(s, u, m) ==  \* mutant: without ClearExpectations
  [s EXCEPT !.expect = "comment", !.react = m,
            !.prefix = IF u = "replyAt" THEN m ELSE @]
Replied(s, u, m) ==
  [Cleared(s) EXCEPT !.expect = "comment", !.react = m,
                     !.prefix = IF u = "replyAt" THEN m ELSE NoMsg]

Changed(p, s) ==
  CASE Head(steps[p]) = "lang"  -> [s EXCEPT !.lang = TRUE]
    [] Head(steps[p]) = "token" -> [s EXCEPT !.expect = IF s.lang THEN "token" ELSE "lang"]
    [] Head(steps[p]) = "login" -> [Cleared(s) EXCEPT !.auth = TRUE]
    [] Head(steps[p]) = "reply" -> Replied(s, upd[p], msg[p])
    [] Head(steps[p]) = "clear" -> Cleared(s)

Change(p) ==
  /\ up /\ steps[p] # <<>>
  /\ Head(steps[p]) \in {"lang", "token", "login", "reply", "clear"}
  /\ heap' = [heap EXCEPT ![ref[p]] = Changed(p, @)]
  /\ Go(p)
  /\ removed' = IF Head(steps[p]) = "login" /\ removed = "yes" THEN "back" ELSE removed
  /\ crossed' = (crossed \/ \E q \in Procs \ {p} : ref[q] = ref[p] /\ steps[q] # <<>>)
  /\ UNCHANGED <<disk, cache, ref, upd, msg, rtVars, appVars, posted, revived, failed>>

SaveAlways(p) ==  \* mutant: SaveState does not ask IsAuthorized
  /\ At(p, "save")
  /\ cache' = None /\ Plan(p, <<"store">> \o Tail(steps[p]))
  /\ UNCHANGED <<disk, heap, ref, upd, msg, rtVars, appVars, logVars>>

\* SaveState of package app.
Save(p) ==
  /\ At(p, "save")
  /\ IF Mine(p).auth
     THEN cache' = None /\ Plan(p, <<"store">> \o Tail(steps[p]))
     ELSE UNCHANGED cache /\ Plan(p, <<"keep">> \o Tail(steps[p]))
  /\ UNCHANGED <<disk, heap, ref, upd, msg, rtVars, appVars, logVars>>

Keep(p) ==
  /\ At(p, "keep")
  /\ cache' = ref[p]
  /\ Go(p)
  /\ UNCHANGED <<disk, heap, ref, upd, msg, rtVars, appVars, logVars>>

\* SaveState of the store.
Store(p) ==
  /\ At(p, "store")
  /\ disk' = Mine(p)
  /\ Go(p)
  /\ revived' = (Tail(steps[p]) # <<"startRT">> /\ (revived \/ disk \notin State))
  /\ UNCHANGED <<objVars, upd, msg, rtVars, appVars, posted, crossed, removed, failed>>

DeleteState(p) ==
  /\ At(p, "delete")
  /\ disk' = NoState
  /\ Go(p)
  /\ removed' = "yes" /\ revived' = FALSE
  /\ UNCHANGED <<objVars, upd, msg, rtVars, appVars, posted, crossed, failed>>

\* What a write or a deletion of the state leaves that does not end well.
Unfinished(p) ==
  IF steps[p] = <<>> THEN {}
  ELSE CASE Head(steps[p]) = "store"  -> {Made, Torn}
         [] Head(steps[p]) = "delete" -> {Bare} \ {Made}
         [] OTHER -> {}

\* The state cannot be saved or deleted, or App.Start cannot list or load it:
\* App.Start and resumptions end, handlers write a line in the log.
Fails(p) ==
  /\ failed < MaxErrors /\ failed' = failed + 1
  /\ \/ /\ At(p, "store") \/ (At(p, "delete") /\ disk # NoState)
        /\ disk' \in {disk} \union Unfinished(p)
     \/ (At(p, "list") \/ At(p, "loadBoot")) /\ disk' = disk
  /\ Plan(p, IF p = Boot \/ upd[p] = "resume" THEN <<>> ELSE Tail(steps[p]))
  /\ up' = (p # Boot)
  /\ revived' = (revived \/ (At(p, "delete") /\ disk' \in State))
  /\ UNCHANGED <<objVars, upd, msg, rtVars, listening, closing, posted, crossed, removed>>

-----------------------------------------------------------------------------
(* The registry of realtime connections, under rtConnLock.                 *)

\* The connection of the chat, if it has one, is closed.
Closed == [p \in Procs |-> IF p = conn THEN "closed" ELSE link[p]]

StartRealtime(p) ==
  /\ At(p, "startRT")
  /\ link' = [Closed EXCEPT ![p] = "open"]
  /\ conn' = p
  /\ loops' = [loops EXCEPT ![p] = "run"]
  /\ Go(p)
  /\ UNCHANGED <<disk, objVars, upd, msg, appVars, logVars>>

StopForgets(p) ==  \* mutant: the connection leaves the map, but is not closed
  /\ At(p, "stopRT")
  /\ conn' = None
  /\ Go(p)
  /\ UNCHANGED <<disk, objVars, upd, msg, link, loops, appVars, logVars>>

StopRealtime(p) ==
  /\ At(p, "stopRT")
  /\ link' = Closed
  /\ conn' = None
  /\ Go(p)
  /\ UNCHANGED <<disk, objVars, upd, msg, loops, appVars, logVars>>

\* A realtime loop that has received events records or queues them, and it
\* makes no difference to it whether its connection is closed meanwhile.  The
\* state it loads first may get into the cache: the one a later LoadCached
\* would make.
LoopRecords(p) ==
  /\ up /\ loops[p] = "run"
  /\ disk = NoState /\ disk' = Made
  /\ UNCHANGED <<objVars, steps, upd, msg, rtVars, appVars, logVars>>

\* It ends when its connection has ended (see module SocketIO).
LoopEnds(p) ==
  /\ up /\ loops[p] = "run" /\ link[p] = "closed"
  /\ loops' = [loops EXCEPT ![p] = "end"]
  /\ UNCHANGED <<disk, objVars, steps, upd, msg, conn, link, appVars, logVars>>

LoopLeaves(p) ==  \* mutant: returns without StopRealtime
  /\ up /\ loops[p] = "run" /\ closing
  /\ loops' = [loops EXCEPT ![p] = "end"]
  /\ UNCHANGED <<disk, objVars, steps, upd, msg, conn, link, appVars, logVars>>

\* Or when the app is closing: whose connection it stops it does not ask.
LoopCloses(p) ==
  /\ up /\ loops[p] = "run" /\ closing
  /\ link' = Closed
  /\ conn' = None
  /\ loops' = [loops EXCEPT ![p] = "end"]
  /\ UNCHANGED <<disk, objVars, steps, upd, msg, appVars, logVars>>

-----------------------------------------------------------------------------
(* App.Start, and the end.                                                 *)

ListIDs ==
  /\ At(Boot, "list")
  /\ Plan(Boot, IF disk = NoState THEN <<>> ELSE <<"loadBoot">>)
  /\ UNCHANGED <<disk, objVars, upd, msg, rtVars, appVars, logVars>>

LoadBootUnchecked ==  \* mutant: the error is not looked at
  /\ At(Boot, "loadBoot")
  /\ heap' = [heap EXCEPT ![Boot] = disk]
  /\ ref' = [ref EXCEPT ![Boot] = Boot]
  /\ Plan(Boot, <<"save", "startRT">>)
  /\ UNCHANGED <<disk, cache, upd, msg, rtVars, appVars, logVars>>

\* Start returns with an error, and the program ends, if a chat of the list
\* has no state.
LoadBoot ==
  /\ At(Boot, "loadBoot")
  /\ IF disk \notin State
     THEN up' = FALSE /\ Plan(Boot, <<>>) /\ UNCHANGED <<heap, ref>>
     ELSE /\ heap' = [heap EXCEPT ![Boot] = Cleared(disk)]
          /\ ref' = [ref EXCEPT ![Boot] = Boot]
          /\ Plan(Boot, <<"save", "startRT">>)
          /\ UNCHANGED up
  /\ UNCHANGED <<disk, cache, upd, msg, rtVars, listening, closing, logVars>>

Close ==
  /\ up /\ ~closing
  /\ closing' = TRUE
  /\ UNCHANGED <<disk, objVars, steps, upd, msg, rtVars, listening, up, logVars>>

\* listenTelegram returns.
StopListening ==
  /\ up /\ closing /\ listening
  /\ listening' = FALSE
  /\ UNCHANGED <<disk, objVars, steps, upd, msg, rtVars, closing, up, logVars>>

\* Start returns when the goroutines of the wait group have: the listener,
\* the handlers of updates and the realtime loops.
StartReturns ==
  /\ up /\ steps[Boot] = <<>>
  /\ ~listening
  /\ \A p \in Procs : /\ loops[p] # "run"
                      /\ steps[p] # <<>> => upd[p] = "resume"
  /\ up' = FALSE
  /\ UNCHANGED <<disk, objVars, steps, upd, msg, rtVars, listening, closing, logVars>>

\* The program, if it has not ended, is killed, in the middle of a write or a
\* deletion perhaps, and it is started again.
Restart ==
  /\ \/ UNCHANGED <<disk, failed>>
     \/ /\ failed < MaxErrors /\ failed' = failed + 1
        /\ \E p \in Procs : disk' \in Unfinished(p)
  /\ cache' = None
  /\ heap' = [p \in Procs |-> NewState] /\ ref' = [p \in Procs |-> p]
  /\ steps' = [p \in Procs |-> IF p = Boot THEN <<"list">> ELSE <<>>]
  /\ conn' = None
  /\ link' = [p \in Procs |-> "new"] /\ loops' = [p \in Procs |-> "none"]
  /\ listening' = TRUE /\ closing' = FALSE /\ up' = TRUE
  /\ revived' = FALSE
  /\ UNCHANGED <<upd, msg, posted, crossed, removed>>

Run(p) ==
  \/ LoadCached(p) \/ Ask(p) \/ Find(p) \/ Post(p) \/ Take(p) \/ Record(p)
  \/ Change(p) \/ Save(p) \/ Keep(p) \/ Store(p) \/ DeleteState(p)
  \/ StartRealtime(p) \/ StopRealtime(p)

Next ==
  \/ \E h \in Handlers : Begin(h)
  \/ \E p \in Procs : Run(p) \/ Fails(p) \/ LoopRecords(p) \/ LoopEnds(p) \/ LoopCloses(p)
  \/ ListIDs \/ LoadBoot \/ Close \/ StopListening \/ StartReturns \/ Restart

Spec == Init /\ [][Next]_vars

-----------------------------------------------------------------------------
(* Correctness.                                                            *)

\* A chat has one connection at most, the registered one, and no connection
\* is closed twice, which would end the program (realtime.go:19-28, 61-64).
RegisteredIsOpen == \A p \in Procs : link[p] = "open" <=> conn = p

\* No connection outlives the realtime loops, even if somebody logs in while
\* the app is closing (realtime.go:38-41).
NoneSurvives ==
  closing /\ (\A p \in Procs : loops[p] # "run") => conn = None

\* A chat with a saved state has a connection, or soon will have or will
\* lose the state, unless the state was saved by somebody who had loaded it
\* before the user logged out, or could not be deleted (handle-message.go:52-54,
\* handle-command.go:34-35).
DeafIsRevived ==
  up /\ ~closing /\ disk \in State /\ conn = None =>
    \/ revived
    \/ steps[Boot] # <<>>
    \/ \E p \in Procs : At(p, "startRT") \/ At(p, "delete")

\* A comment addresses nobody, or the author of what is commented on,
\* whatever buttons were pressed before, whichever handlers overtook each
\* other, and whatever was lost (handle-callback.go:76-84,
\* handle-message.go:62-71): unless one handler has changed the very object
\* another one was at work on, as those can that share the one of the cache.
CommentFits == posted # <<>> /\ ~crossed => posted[2] \in {NoMsg, posted[1]}

\* The program does not end by itself, unless a user has logged out, whose
\* directory was listed and whose state is gone, or an operation of the store
\* has failed or was cut short by a kill, now or before (app.go:86-104).
EndsOnlyByLogout ==
  ~up /\ ~closing => removed # "never" \/ failed > 0

\* Whoever has logged in stays logged in: what a handler saves that has loaded
\* the state before, and has kept it over the login, does not take the token
\* out of the store (app.go:185-192, handle-message.go:44-54).  Only the end of
\* a pause saves what it has without asking (pause.go:37-39).
Unasked == \E h \in Handlers : upd[h] = "resume" /\ At(h, "store")
LoginSurvives ==
  [][(disk \in State /\ disk.auth) => (disk \in State => disk.auth)' \/ Unasked]_vars

\* "OK, we will remove all of your data now." (handle-command.go:32)
RemovedStaysRemoved == removed = "yes" => disk = NoState
=============================================================================
