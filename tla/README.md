# freefeed-tg-client in TLA+

A formal model of the FreeFeed Telegram bot (`src/`): TLA+ modules for its
concurrent parts, TLC configurations that check them on small instances, and
theorems that TLAPS proves for every instance. Source references are
`file:line` under `src/`.

1. [The system](#1-the-system)
2. [Modules and code](#2-modules-and-code)
3. [What the runs check](#3-what-the-runs-check)
4. [Fairness](#4-fairness)
5. [What is proved](#5-what-is-proved)
6. [Disagreements found](#6-disagreements-found)
7. [What is not modelled](#7-what-is-not-modelled)
8. [Plan](#8-plan)

## 1. The system

The bot is one Go process. Telegram updates come in by long polling, FreeFeed
events by one Socket.IO connection per logged-in chat; what must survive a
restart is in JSON files, one directory per chat.

| component | code | state | operations |
| --- | --- | --- | --- |
| realtime connection | `socketio/` | reply map, next id, ping timer, `c.conn`, outbox, `connChan`, `msgChan`, `closeChan` | `Open`, `Close`, `Connected`, `Messages`, `Send`; goroutines `mainLoop`, `rcvChan` |
| file store | `store/fs-store.go`, `fs-io.go` | `dirLock`, a map of locks, the files | `LoadState`, `SaveState`, `DeleteState`, `ListIDs`, `AddToQueue`, `LoadAndDeleteQueue` |
| records | `store/fs-events-store.go`, `fs-tracked-posts.go` | `sent-events.json`, `tracked-posts.json` | `PutMsgRec`, `GetMsgRec`, `TrackPost`, `UntrackPost`, `IsPostTracked`, `TrackedEntities` |
| pause manager | `app/pause-manager.go` | a map chat to time, two unbuffered channels | `IsPaused`, `Pause`, `Resume`, its loop with a ticker |
| delivery | `chat/process-event.go`, `app/pause.go`, `app/realtime.go:95-135` | `queue.json` | `ProcessEvents`, `doResumeEvents`, `onRTMessage` |
| sessions | `chat/handle-*.go`, `app/app.go`, `store/state.go` | `state.json`, the cache of states not logged in | `HandleUpdate`, `LoadState`, `SaveState` |
| registry of connections | `app/realtime.go:15-65` | `rtConns` under `rtConnLock` | `StartRealtime`, `StopRealtime`, the realtime loops |
| start and end | `app/app.go:58-132`, `main.go:98-110` | `closeChan`, the wait group | `Start`, `Close`, forced exit |
| event rendering | `chat/process-event.go:34-439`, `chat/buttons.go` | none | `renderEvent`, the keyboards |
| buttons of events | `chat/handle-callback.go:51-179` | the messages at Telegram; likes, subscriptions, requests at FreeFeed | one handler per pressed button |
| realtime loop | `app/realtime.go:32-135`, `app/app.go:198-213` | none of its own | `onRTConnect`, `onRTMessage`; beside it `RTSend` |
| FreeFeed API | `frf/` | none | HTTP requests |
| presentation | `app/linkify.go`, `catalog_gen.go`, ... | none | texts |

How they interact:

- `App.Start` starts the pause manager, the Telegram listener, and, for every
  directory of the store, `StartRealtime`.
- Every Telegram update gets a goroutine: it loads the state of the chat,
  handles the update and saves the state. **Nothing keeps two handlers of one
  chat apart.** A state on disk is loaded into an object of its own; a state
  in the cache is an object that all its users share.
- Every connection has a loop in package `app`, which receives from
  `Connected()` and `Messages()`. An incoming message runs `ProcessEvents` in
  that loop: each event becomes a message with buttons and a record in
  `sent-events.json`, or, while the chat is paused, an entry of `queue.json`.
- Handlers pause and resume through the pause manager's channels. Ending a
  pause starts a goroutine, `doResumeEvents`, that takes the queue and runs
  `ProcessEvents` on it.
- All of them use the store, whose locks are the only mutual exclusion there is.

What makes this hard, and what each component has to get right:

| component | hard behaviour | what makes it correct |
| --- | --- | --- |
| realtime connection | lost connections, late replies, ids that wrap, a receive goroutine that outlives its connection, channels without buffers | every waiting call is answered once, with its own reply; `mainLoop` never blocks on a call that has gone; `Close` ends everything |
| file store | two levels of locks, locks that are forgotten and created again, kills in the middle of a write | operations look atomic; no deadlock; a chat's files are not touched under somebody's feet |
| records | slices cut and shifted in place, limits | the last records are kept, untracking takes out one post and no other |
| delivery | a flag read long before it is used, a queue taken while others add to it, errors and kills | no event twice, none lost, none stuck in the queue |
| sessions | handlers that overtake each other, shared objects, logout, restart | comments go where the button pointed; a saved state has a connection; removed data stays removed |
| realtime loop | it receives from `mainLoop` and sends to it in turn, and `mainLoop` may be waiting for it | every new connection is set up or known to have failed; closing ends both |
| rendering, buttons | events that miss a post or an author, a record that is gone, presses that overtake each other, FreeFeed that changes or loses an answer | what a message offers and claims is what FreeFeed has; nothing missing ends the program where it can be known |
| registry | login, logout, start and end at once | one open connection per chat, none after the end, none closed twice |

`PROJECT.json` lists, line by line, the hazards in this code and the
properties that would catch them.

## 2. Modules and code

Each module's header says what a step is and what is abstracted. In all of
them a Go statement that other goroutines can observe is a step, and steps
nobody can tell apart are merged. History variables, which no guard reads,
are marked `(history)`.

### SocketIO (`socketio/connection.go`, `loop.go`)

One `Connection`. `loop` is the place of `mainLoop` (`dial`, `backoff`,
`announce`, `select`, ...), and there is one action per ready case of each
`select`. An unbuffered channel is a rendezvous, one action moving both sides
(`SendReply`, `TakeMessage`, `Receive`); `outbox` and `connChan`, with room
for one, are variables. `rcv[k]` is the receive goroutine of connection `k`,
which reads the field `c.conn` (`source[k]`) anew for each frame. `timer` is a
Go 1.21 timer: `armed`, `fired` (an element in its channel), `empty` (received
from, not reset) or `off`; `StopTimer` is `if !t.Stop() { <-t.C }`, which
blocks on an `empty` one. A call of `Send` is a value of `Reqs`; `tag` remembers
the connection and id it was written with.

### Connection, Realtime (`socketio/`, `app/realtime.go`, `app/app.go:198-213`)

`Connection` is what package `socketio` promises: `stage` is where `mainLoop`
is as far as a client can tell (`down`, `announce`, `online`, `deliver`,
`closing`, `hung`, `done`), `written` the requests written on the connection
of the moment, and a call is answered only on that connection and before it is
left (`Leave`). Ids, the reply map, frames, timers and the receive goroutines
are gone. `SocketIO` implements it: `IsConnection`, with `Stage` and `C` at the
end of `SocketIO` as the mapping.

`Realtime` puts the client beside it. `at` is the place of the realtime loop:
in its `select`, in the first or second `Send` of `onRTConnect` (`auth`,
`sub`), or in `onRTMessage`. A rendezvous is a conjunction of an action of
`Connection` with one of the loop (`TakeMessage /\ Moves(...)`). `RTSend` is any
handler's call of `Send`; `quit` is `App.closeChan`.

### StoreOps, AtomicStore, FsStore (`store/fs-store.go`, `fs-io.go`)

`StoreOps` says what each operation does to the files of a chat and what it
returns, when it succeeds and when it fails. `AtomicStore` is the
specification the users of the store rely on: call, one moment of effect,
return. `FsStore` is the code: `fileLock` with its second look under the
write lock (`Find`, `Create`), readers and writers of the two levels of
`sync.RWMutex`, with writers that announce themselves and keep later readers
out (`AnnounceDir`, `AnnounceLock`), `os.WriteFile` as truncation and writing
(`OpenFile`, `FillFile`), `os.RemoveAll` file by file, errors anywhere, and
kills. The refinement maps the files to `Settled`: what they hold, with an
unfinished write or removal undone.

### Delivery, EventFlow (`app/pause-manager.go`, `app/pause.go`, `chat/process-event.go`, `chat/chat.go:55-61`)

One authorised chat. `Workers` are the goroutines that bring in events (the
realtime loop, `/load`), `Resumers` those of `doResumeEvents`, `Handlers` those
of updates that pause or resume. `pc[p]` walks through `doResumeEvents`
(`load`, `take`, `clear`) and `ProcessEvents` (`check`, `run`, `record`).
`flag[p]` is `isPaused`, read once per batch. `mgr` is the manager's loop:
`Pause` and `Resume` return when it has received the id (`Signal`), its map
changes in a later step (`MgrPause`, `MgrResume`). Whether an event has a
message at all is the constant set `Muted`. An operation of the store is one
step: `FsStore` implements `AtomicStore` (`StoreIsAtomic`), and what `StoreOps` has
`AddToQueue` and `LoadAndDeleteQueue` do is what `Enqueue` and `TakeQueue` do
(`AddIsEnqueue`, `TakeIsTakeQueue`). The one exception, two `LoadAndDeleteQueue`
that meet, is an error that `TakeQueue` may report.
`recs` is `sent-events.json`: `PutMsgRec` adds to its end and cuts it to the last
`MaxSentRecords`. The messages that confirm a comment write records too (`Note`),
and so push others out. An error or a kill in the middle of that write leaves a
file that is no JSON (`badRecs`): the records of all messages are gone and none is
saved any more. `noted` are all the records ever written.
`Failures` and `Crashes` switch errors and kills on. `harmed` remembers the
events that one of them has met: those of a batch that was dropped, of a queue
or a list of records that was torn, of a goroutine that was killed. The properties except these
events, so they say that a fault costs nothing but what it hits.

`EventFlow` is what the user may expect of all this: batches come in; the event at
the front of a batch is shown, ignored or put at the end of the queue; the
queue as a whole, in its order, becomes a batch again; only `Faults` take events
away. There are no goroutines, flags or manager. `Delivery` implements it:
`IsFlow`, where `hands` are the non-empty `todo` of the goroutines (`InHands`), the
other variables are `unseen`, `queue` and `sent`, and `Faults` is
`Failures \/ Crashes`. It promises no order between batches: an event that comes
while the queue is being worked off may be shown first, as in the code.

### ChatRecords (`store/fs-events-store.go`, `fs-tracked-posts.go`)

The two lists as sequences, one action per operation. `Shifted` is what
`slices.Delete` of Go 1.21 leaves in the array when its result is not used.

### Rendering, Cards (`chat/process-event.go:34-439`, `chat/buttons.go`, `chat/handle-callback.go:51-179`, `frf/`)

`Rendering` is `renderEvent` without its texts: the 33 types of events (and
any other one) in groups that are treated alike, `Muted` (no message), `Panics` (a missing post
or user is dereferenced) and `Board` (the keyboard, as the set of its buttons
that call back). An event only says whether it names a post, a comment and an
affected user and whether its creator is the user, somebody else or hidden.
`Refused` is the empty post that `GetPost` returns together with an error, which
`renderEvent` goes on with.

`Cards` follows one event. Message 1 is about it; others are sent and push its
record out. A handler (`Presses`) walks from `Press`, which looks the record
up, through `Load` (the post, anew) and the button's own requests to `Edit`.
`srv` is what FreeFeed has, which others may change (`Outside`); `Asks` is a
request: FreeFeed does it or not, and reports an error or not, independently of
each other but that what it reports as done is done. `Legacy` are tracked posts
of earlier versions, since nothing calls `TrackPost` any longer.

### Session (`chat/handle-*.go`, `app/app.go`, `app/realtime.go:15-65`)

One chat. A goroutine is the list `steps[p]` of what it still has to do:
`Courses(u, s)` gives the lists for update `u` in state `s`, and the actions
(`Change`, `Save`, `Keep`, `Store`, `Find`, `Post`, `Ask`, `DeleteState`,
`StartRealtime`, ...) take the first step off the list. `ref[p]` is the object
`c.State` points to: its own, or, from the cache, another goroutine's. `Find` and
`Post` are two steps since others may change that object between them: the first
reads which message is commented on and looks up its record
(`handle-message.go:62`), the second reads prefix and token (`:70-71`). `crossed`
remembers that somebody has changed an object another one was at work on.
`disk` is `NoState` without a directory and `Bare` when a record or a queue
has made the directory without `state.json`. `conn`, `link` and `loops` are
`rtConns`, the connections and their loops. `Fails` is an error of the store:
the state is not saved (`disk` stays, or becomes `Bare` or `Torn`), not deleted,
or cannot be read at the start; handlers go on all the same. `Restart` ends or kills the
program and starts it again; a kill may cut a write or a deletion of the state,
which leaves the same as an error in it does (`Unfinished`) and is counted with
the errors in `failed`.

`MCSocketIO`, `MCFsStore`, `MCDelivery`, `MCCards` and `MCSession` define the
symmetry sets for TLC; the last three also a view that drops what an ended
goroutine knew. `MCCards` lists events: of each group one that has all it can
have, some with a hidden creator and some that have lost their post.
Their configurations give the constants.

## 3. What the runs check

| run | instance | checks | size |
| --- | --- | --- | --- |
| `socketio` | 3 calls, 2 ids, 2 connections, pings may fail | `ReplyHasReceiver`, `OneAnswer`, `ReplyIsForSameID`, `WrongReplyNeedsWrap`, `StaleFrameIsDead`, `BackoffResetsOnConnect`, refinement `IsConnection` | 1.4 million states |
| `socketio_live` | 2 calls, 1 id, 1 connection, pings do not fail | `CloseStops` | 46 thousand |
| `socketio_ping` | the same, pings may fail | `CloseStops` is violated | |
| `realtime` | 2 connections, a handshake for each, 1 handler | `HandshakeCovers`, `ClosedEnds`, `SendsGetRoom` | 0.10 million |
| `fsstore` | 3 goroutines, 1 chat, 2 locks, queue of 2, errors and kills | `Exclusive`, `LockIsMapped`, `NeverStuck`, refinement `IsAtomic` | 0.56 million |
| `delivery` | 3 events (one without a message), 2 workers, 2 resumptions, 1 handler, 2 commands, 1 record kept, errors and kills | `AtMostOnce`, `NothingLost`, `ButtonsWork`, `OnlyStaleStranded`, refinement `IsFlow` | 1.3 million |
| `delivery_live` | 2 events, 1 worker, 2 resumptions, 1 handler, no faults | `QueuedIsDelivered`, `HandlersEnd` | 0.16 million |
| `delivery_resumed` | the same with 1 resumption | `ResumedIsDelivered` is violated | |
| `cards` | 20 events, 2 handlers, 2 messages, 1 record kept, 3 posts, 1 change by others | `NoneUnknown`, `VerdictIsTrue`, `LabelsFit`, `CrashNeedsGap`, `LastAreKept`, `OthersStayTracked` | 1.8 million |
| `records_untrack` | 4 messages, 2 records kept, 3 posts | `UntrackedIsGone` is violated | |
| `session` | 3 updates, 2 messages, `App.Start`, restarts, 1 error of the store or cut operation | `RegisteredIsOpen`, `NoneSurvives`, `DeafIsRevived`, `CommentFits`, `EndsOnlyByLogout`, `LoginSurvives` | 0.92 million |
| `session_logout` | the same, no errors | `RemovedStaysRemoved` is violated | |

Every module with a passing run also has its type invariant checked in it,
and every property is shown to depend on the code by a mutant (the operators
marked `\* mutant`): the definition it replaces, changed the way a slip in the
code would change it, makes TLC find the property violated.

Why the bounds are enough:

- *SocketIO.* With 2 ids, 3 calls are what it takes for an id to come round
  while its call is still waiting (eviction) or has timed out (a late reply to
  the wrong call). With 2 connections the receive goroutine of the first can
  read the second. The pauses 2, 3, 4, 5 reach the maximum by rounding and by
  the cap.
- *FsStore.* Two goroutines contend for a lock; the third deletes the state,
  so that one holds, one waits for and one re-creates a lock. Chats only share
  `dirLock`, which one chat exercises in both modes; the theorems are for any
  number of chats. Each of the locks of a chat is needed while it is used, two
  suffice.
- *Realtime.* The second connection is the one whose handshake can be missed,
  confused with the first, or come while the first is still waited for. One
  handler is enough to fill the slot of the outbox before the loop.
- *Delivery.* A batch with an outdated flag, a second one processed in
  between, two resumptions at once, a pause and a resumption by the handler in
  turn; a command that comes while the handler signals is the ticker's. Errors
  and kills may hit every step. With room for one record (`MaxSentRecords`), the
second message or a comment pushes the first out. `MaxCommands` bounds the user's updates,
  `MaxBatch` the events of one message. `Cleanup` may end a pause at any time,
  which is the ticker with any interval.
- *ChatRecords, Cards.* With room for one record, the second message pushes
  out the first. Two handlers are what it takes to overtake each other, and a
  handler starts anew when it has ended, so sequences of presses are not
  bounded. Of `Legacy` one list holds only the post, one holds it between two others, and one is
  empty. `MaxOutside` bounds
  the changes by others; each kind of change is tried at every moment.
- *Session.* A login takes two updates (language or `/start`, then the token),
  and the third is the logout, button or resumption that overtakes one of
  them. `Left` are the states an earlier run may have saved: none, one at
  rest, and one that waits for a comment with a prefix. One error of the store, or
  one operation cut by a kill (`MaxErrors` counts both), is enough for each of its
  consequences; later starts meet what it has left. `OneAtATime` keeps it apart
  from the end of the app: after an error the app may be killed and started again,
  but not closed. The theorems have none of these bounds.

Deadlock checking is off where the modelled component may really stop: after
`Close`, when the bounded inputs are used up, when the program has ended. In
`fsstore` it is on, but says nothing there, for a kill is always possible: what
says that no operation waits for ever is `NeverStuck`.

Two properties cover their hazard in part. `BackoffResetsOnConnect` says when the
pause may get shorter, not that it grows. `SendsGetRoom` is about the room in the
outbox; that `RTSend` reads the map `rtConns` without its lock (`app.go:199`),
which Go may answer by ending the program, is in no module.

## 4. Fairness

`SocketIO!FairSpec`: goroutines that can step do (weak fairness of `MainLoop`,
the receive goroutine, `SendTimeout`), and timers expire. A Go `select` draws
at random among its ready cases, so a case that is ready again and again is
taken: strong fairness of `SelectClose`, `BackoffClose` and `SelectOutbox`;
senders on a channel are served in order, hence strong fairness of
`SendEnqueue`. The client is assumed to receive from `Connected` and
`Messages`; in `Realtime` it is there and need not be assumed. Nothing is
assumed of the network: no dial needs to succeed and no frame to arrive.

`Realtime!RTFairSpec`: `mainLoop` goes on where it waits for nobody
(`Announce` into a free slot, the clean-up, a dial or its pause once the
connection is closed: weak fairness). What it takes in its `select` — a request
of the outbox, the end — is a random choice among what is ready, as is what the
realtime loop takes in its own (strong fairness of `Write`, `Shut` after a
close, `LoopQuits`, `LoopConnected`, `LoopMessage`); one of the senders waiting
for room gets it. A ping that hangs, a lost connection and a message are never
forced to happen.

`Delivery!FairSpec`: goroutines go on; the manager's loop serves its ticker
and channels (strong fairness of `Cleanup` and `Signal`, the same random
choice). `QueuedIsDelivered` therefore needs no help from the user. Nothing makes
the application close.

## 5. What is proved

TLAPS checks every proof. The constants are only assumed to satisfy the named
assumptions of the modules, which TLC evaluates for the instances it checks.
All safety properties of the passing runs but `NeverStuck` are theorems, for
every number of goroutines, calls, connections, chats, messages and posts.
The argument is the same throughout: an inductive invariant, a conjunction of
named parts that was checked by TLC before it was proved, from which the
properties follow. What each has to add to the properties is what makes them
true, and is told here.

**SocketIOProofs** (`ConnAssumption`). `TypeOK`. `Placed`: `mainLoop` has
somebody to answer exactly while it answers, and the reply map is empty outside
an established connection. `Waiting`: whoever is in the outbox, in the reply map
or being answered has a receiver on its reply channel. `Single`: nobody is in
two of these places. `Current`: which connections and receive goroutines there
are, and that the goroutine of the current connection reads that connection.
`Fresh`: a call has no tag before it leaves the outbox. `Tagged`: entries of
the reply map, requests at the server, the frame of the current goroutine and
replies carry the connection and id of their call. `Waiting` alone is not
inductive: answering one call must not take the receiver from another place,
which needs `Single`; and a reply keeps its tag only because frames taken by
goroutines of former connections are never handled, which needs `Current`.
Hence `TypeCorrect`, `ReplyNeverBlocks`, `OneReplyEach`, `ReplyMatchesID`,
`CleanedUp`; with one step more, the action properties `StaleFramesDie` and
`BackoffGrows`.

**ConnectionProofs.** `ConnectionKeepsItsPromise`: `SocketIO` implements
`Connection` under the mapping `Stage` and `Written`, step by step: a step of
`mainLoop` is a step of `Connection` or nothing a client can tell. It needs, on
top of `IInv`, that nothing is tagged with a connection to come (`Past`), that an
answer goes to a call written on the connection of the moment (`Answered`), and
that whoever was written on it and still waits is in the reply map or being
answered (`Held`): only then may `mainLoop` leave the connection when the map is empty.
`WrongReplyOnlyAfterWrap`: the n-th request written on a connection has the id n
as long as n is an id (`Numbered`), so two calls with one tag mean more than
`MaxMsgID` requests.

**RealtimeProofs** (`RealtimeAssumption`). `EveryConnectionIsShaken`, from
`Covered`: while no event waits in `connChan` and the loop is in a handshake, the
connection is the one on which the handshake began, and a call that was replied
was written on the connection of that moment. `LoopIsTyped` needs `Counted`,
by cardinalities: handshakes begun, the event that waits and the connections to
come are together no more than the calls reserved for handshakes.
`ClientKeepsToConnection`: `Realtime` implies `ConnSpec`, so the client relies on
nothing that `SocketIO` was not shown to provide.

**FsStoreProofs** (`ContentAssumption`, `StoreAssumption`). The lock invariant says
who holds which lock at which place: `dirLock` is held from `Find`, `Create` or
`TakeDir` until `Release`, its writer excludes all others, the lock of a chat
is held by whoever is among its files, and `lk[p]` is the lock of the map. The
last is what makes two holders of "the lock of chat k" hold the same object:
only a writer of `dirLock` changes the map, and `lk[p] # None` means that `p`
itself holds `dirLock`. Hence `LockStaysMapped` and `MutualExclusion`.
`LocksDoNotDeadlock` needs one part more, `OneWaits`: of those that want a lock
for writing one at most is announced. Whoever is past the locks is not stopped;
if nobody is, no lock of a chat is held, and the announced writer, or else
anybody, can take it; if nobody waits there either, `dirLock` is free.
The files: `Sound(p)` says of each operation which kind it is at which place and
when it has a result (`Phase`), how the files differ from those it found
(`Snapshot`), and that what it has read is what it found (`Copy`). It speaks of the
operation and of the files of its chat only, and mutual exclusion keeps others
from changing these (`OthersStaySound`); two `LoadAndDeleteQueue` that share the
lock are the one exception, and there the queue is as read or gone.
`StoreIsTyped` and `StoreIsAtomic` follow: under `Settled` the abstract files change
when a write or a removal ends, at that moment the operation takes effect, and
a kill leaves what a failure may leave. `SettledHolds` says what the `CHOOSE` in
`Settled` picks: by mutual exclusion one operation of a chat at most is midway.

**DeliveryProofs** (`DeliveryAssumption`). `DeliveryTypes`;
`ShownAtMostOnce`, with errors and kills, from `OnePlace`: an event is not yet
reported, or in the hand of one goroutine, or in the queue, or sent, once.
Also with errors and kills: `NoEventIsLost` and `StaleFlagIsTheOnlyCause`, from
`Tidy` (goroutines that are idle or about to take the queue hold no events, and a
message is under way only while it is recorded) and the lemma that `harmed` only
grows. `EveryMessageRecorded` has two parts: what was sent has been recorded, is
about to be or is harmed (`SentNoted`), and the last `MaxSentRecords` records are in
the file or harmed. The second is not inductive: that the file is the end of
`noted`, record for record and as long as the limit allows, holds until the
file is torn, and from then on all records in it are harmed (`RecsKept`).
`EventsFlow`: `Delivery` implements `EventFlow`. That a set of batches is enough for
what the goroutines have in hand needs `OnePlace`: no two hold the same batch, so
taking one from the set takes one goroutine's. A torn queue may lose what was in it only where
`EventFlow` allows faults, hence `TornByFault`. What is left is one lemma per
way a hand changes (`HandFills`, `HandAdvances`) and one per group of actions.
The hand-over to the store: whatever `AddToQueue` may do to the files and return,
by `StoreOps`, is a step that `Enqueue` allows (`AddIsEnqueue`), and the same of
`LoadAndDeleteQueue` and `TakeQueue` (`TakeIsTakeQueue`), errors included;
`Shows` relates the files to the variables.

**ChatRecordsProofs** (`RecordsAssumption`). `LastMessagesWork` is not inductive:
the list must be the end of all that was put (`Kept`), and message ids must grow
(`Growing`), or an older record of a message would be found first. That the
first matching record is found is `FindsOnly`; the smallest index comes from the
well-foundedness of `<`. `NoOtherIsUntracked` rests on `ShiftedKeeps`: of the array
`slices.Delete` leaves behind, every element but the deleted one is an element.

**CardsProofs** (`CardsAssumption` besides). `Shown`: a keyboard has only
buttons that fit the event. `Acting` says the same of a handler under way, `Informed` of what
it has loaded, `Decided` of the request it has decided, and `Alone` that a handler
nothing happened beside knows what FreeFeed has. Hence `EveryButtonIsKnown`,
`NoFalseVerdict`, `LabelsAreRight`, `OnlyGapsCrash`, `CardsAreTyped`, and, since
buttons change the lists only by the operations of `ChatRecords`,
`RecordsSurviveButtons`.

**SessionProofs** (`SessionAssumption`, `MarksAssumption`). `Planned`: what a
goroutine has left to do is one of two dozen lists, so the code that follows a
step is known. `Private`: a state object not yet made belongs to nobody.
`TokenKept`: between the login and its save the object says so, though it is the
cache's. `AllFit`: wherever a state is (disk, objects), its prefix goes with
the message it names. `Looked`: who has looked up a message finds a state that still
names it, unless objects were crossed; so the prefix read later is the one that
goes with it. `Registered`: the open connection is the registered one and
its loop runs. `Undisturbed`: as long as nobody has logged out and no operation of the
store has failed or was cut by a kill, a chat without a directory has nobody who would make one but by
saving a state. Hence `SessionIsTyped`, `OneConnection`, `NoConnectionSurvives`,
`DeafOnlyIfRevived`, `CommentsFit`, `NoEndByItself`.
`LoginsSurvive` is the action property `LoginSurvives`. It needs `Asked`: a goroutine
that is about to store a state, having asked whether it is authorised, has an
object that says so, since its list (`Planned`) has nothing between the question
and the save that replaces the object. The end of a pause is the exception, for it
does not ask.

Only model-checked: the liveness properties `CloseStops`, `ClosedEnds`,
`SendsGetRoom`, `QueuedIsDelivered` and `HandlersEnd`, which hold under fairness;
and of `NeverStuck` the part with `ENABLED`, that an operation stops nowhere but in
front of a lock. Neither fairness nor `ENABLED` is in this prover's reach. (The
other part of `NeverStuck` is `LocksDoNotDeadlock`.) For the four runs that expect
a violation there is a counterexample and no theorem.

## 6. Disagreements found

- `socketio_ping`: when a ping cannot be written, `mainLoop` receives twice
  from the ping timer and hangs (`loop.go:67-72`, `156-158`); the connection
  never comes back and `Close` does not end it (`connection.go:66`).
- `records_untrack`: the result of `slices.Delete` is not used
  (`fs-tracked-posts.go:46`); `store_test.go:219-224` expects it to work.
- `delivery_resumed`: "Your updates are resumed now." (`handle-command.go:55`),
  while a batch whose flag was read before goes to the queue and stays there.
- `session_logout`: "OK, we will remove all of your data now."
  (`handle-command.go:32`), while a goroutine under way puts the state, a
  record or a queue back. A directory without `state.json` makes the next
  `App.Start` fail for all chats (`app.go:95-99`); `EndsOnlyByLogout` shows
  that nothing else does but errors of the store and kills in the middle of
  saving or deleting the state: between `os.MkdirAll` and the end of
  `os.WriteFile` (`fs-io.go:67-70`), or in `os.RemoveAll` (`fs-store.go:87`).
- Besides the runs: `records_untrack` has a consequence in `Rendering`, where
  mentions in the comments of a tracked post are not shown
  (`process-event.go:67-70`): they stay away after the user has unsubscribed.
- `ClosedEnds` needs the exception `NoRoom`. A handler's request fills the outbox
  while `mainLoop` hands over a message, or an event of `connChan` waits; the
  realtime loop is in `onRTConnect` and waits in `Send` for room, without a
  timer (`connection.go:91`). `mainLoop` waits for the realtime loop, and `Close`
  "stops the reconnect cycle" (`connection.go:66`) for neither of them.
- `CrashNeedsGap` names where a missing value is used and ends the program: the
  post, or the affected user, of an event without one, when the event arrives
  (`process-event.go:75`, `:95`, `:169`, `:367`); the creator of an event
  (`handle-callback.go:83`, `:92`); and the answer of `notifyOfAllComments` after an
  error (`api.go:121`).
- `CommentFits` excepts handlers that share an object of the cache and change it
  under each other (`crossed`). One of them has looked up the message to comment on
  (`handle-message.go:62`) when the other presses the reply button of a second
  message (`handle-callback.go:76-84`): the comment then goes to the first post and
  addresses the author of what the second is about (`handle-message.go:70`).
- `ButtonsWork` excepts the records in the file when a write of it is not finished:
  `sent-events.json` is truncated before it is written (`fs-io.go:114`), and an
  error or a kill in between costs the records of all messages, and all later ones
  since the file cannot be read any more (`fs-io.go:102`).
- `DeafIsRevived` and `EndsOnlyByLogout` except errors of the store and operations
  that a kill has cut. A logout
  whose deletion fails has stopped the connection and keeps the state: the chat
  is authorised and hears nothing until the next start. A login whose save fails
  has said "It's all set." and opened a connection, but the state is on disk no
  more than in the cache, from which `SaveState` has removed it (`app.go:187`).
  A torn `state.json`, or a directory without one, stops `App.Start` for all chats.
- `LoginSurvives` excepts the end of a pause. `doResumeEvents` clears the
  expectation and saves the state it has loaded (`pause.go:37-39`) without
  asking `IsAuthorized`, as `App.SaveState` does (`app.go:185`): it alone can put a
  state without a token over one that has logged in meanwhile. "A saved state has
  a token" is no invariant for the same reason, and because what a logout could not delete, or
  a goroutine that outlives it, may still be stored.
- Not a property of any module, seen while reading: `blocked_in_group` and
  `unblocked_in_group` assign the affected user to `who` instead of `whom`
  (`process-event.go:367-369`, `381-383`).

## 7. What is not modelled

- Building requests and reading answers in `frf/api.go` and `frf/types.go`:
  no state, no order. What the callers see, errors after a request that was
  carried out among it, is in `Cards` and `Session`.
- Texts, links, the message catalog, flags and logging; in `Rendering` therefore
  the wording that depends on a group or on the affected user.
- In Session, the eviction of the cache at 1000 chats: the chats it forgets have
  not logged in yet and start over.
- The forced exit of `main.go:104-107` as an action of `Delivery`: it is the kill
  of `Crash`.
- `DropState` (`app.go:177-183`), which nothing calls.
- In SocketIO, a packet "4" without a second digit, on which `mainLoop` would use a
  match it does not have (`loop.go:101-111`) and end the program. The server sends
  none; `Noise` are packets that are logged and skipped.

## 8. Plan

Done, in this order: SocketIO with proofs; StoreOps, AtomicStore, FsStore with
the proofs about its locks; Delivery with proofs; ChatRecords; Session;
Connection with the refinement by SocketIO; Realtime; Rendering and Cards;
faults and the end of the manager in Delivery, and its theorems with them;
errors of the store in Session.

Then the theorems: the refinement by SocketIO and its ids; Realtime; the
files of FsStore and their refinement; ChatRecords, Cards and Session. Last,
EventFlow with the refinement by Delivery, the action property of Session, and the
hand-over between Delivery and the store. Every safety property that TLC checks is
a theorem but for `ENABLED`. `NobodyLeftWaiting` of `SocketIO` is a theorem
(`CleanedUp`) and in no run: that nobody who waits is left behind is part of
`IsConnection`, and the same slip violates both.

What remains worth doing:

- An action property of `Cards`, whose properties are invariants so far: what a
  press may change of the lists.
- What users of `AtomicStore` conclude from it, stated on its own (an entry of a
  queue is taken once), proved from `AtomicStore` alone.
