----------------------------- MODULE SessionProofs -----------------------------
(***************************************************************************)
(* Theorems about the session of a chat, for every number of handlers,     *)
(* messages and errors of the store.                                       *)
(*                                                                         *)
(* The argument: what a goroutine has left to do is one of the lists named *)
(* below, so that what a step leaves over is known (Planned).  An object   *)
(* that its owner has yet to make is nobody's (Unmade), so the token a     *)
(* user has entered stays in the state until it is saved (TokenKept).      *)
(* Whoever has looked up the message he comments on finds the prefix that  *)
(* belongs to it, as long as no two have worked on one object (Looked).    *)
(* While nobody has logged out, and no operation of the store has failed   *)
(* or was cut by a kill, a chat without a directory has nobody who would   *)
(* make one but by saving a state (Undisturbed).                           *)
(***************************************************************************)
EXTENDS Session, SequenceTheorems, TLAPS

\* What a goroutine may have left to do.
Nothing == <<>>
LLoad == <<"load">>
LLang == <<"lang", "save", "ask">>
SaveAsk == <<"save", "ask">>
StoreAsk == <<"store", "ask">>
KeepAsk == <<"keep", "ask">>
LAsk == <<"ask">>
LToken == <<"token", "save">>
ClearSave == <<"clear", "save">>
ReplySave == <<"reply", "save">>
LSave == <<"save">>
LStore == <<"store">>
LKeep == <<"keep">>
LLogin == <<"login", "save", "startRT">>
SaveStart == <<"save", "startRT">>
StoreStart == <<"store", "startRT">>
KeepStart == <<"keep", "startRT">>
LStart == <<"startRT">>
LFind == <<"find", "post", "record", "clear", "save">>
LPost == <<"post", "record", "clear", "save">>
RecordClear == <<"record", "clear", "save">>
LLogout == <<"stopRT", "delete">>
LDelete == <<"delete">>
LTake == <<"take">>
TakeClear == <<"take", "clear", "store">>
ClearStore == <<"clear", "store">>
ClearStoreRecord == <<"clear", "store", "record">>
StoreRecord == <<"store", "record">>
LRecord == <<"record">>
LList == <<"list">>
LLoadBoot == <<"loadBoot">>

Recording ==
  {ReplySave, LFind, LPost, RecordClear, ClearStoreRecord, StoreRecord, LRecord}
HandlerLists ==
  {Nothing, LLoad, LLang, SaveAsk, StoreAsk, KeepAsk, LAsk, LToken, ClearSave,
   LSave, LStore, LKeep, LLogin, SaveStart, StoreStart, LStart, LLogout, LDelete,
   LTake, TakeClear, ClearStore} \union Recording
BootLists == {Nothing, LList, LLoadBoot, SaveStart, StoreStart, KeepStart, LStart}

ListsOf(p) == IF p = Boot THEN BootLists ELSE HandlerLists

Planned ==
  /\ \A p \in Procs : steps[p] \in ListsOf(p)
  /\ \A h \in Handlers : upd[h] = "" => steps[h] = Nothing

\* The object of p is not made yet, and nobody has it.
Unmade(p) ==
  \/ p \in Handlers /\ (upd[p] = "" \/ steps[p] = LLoad)
  \/ p = Boot /\ steps[p] \in {LList, LLoadBoot}
Private ==
  \A p \in Procs : Unmade(p) => cache # p /\ \A q \in Procs \ {p} : ref[q] # p

TokenKept == \A h \in Handlers : steps[h] \in {SaveStart, StoreStart} => Mine(h).auth

\* Whoever is to be answered is the author of what is commented on.
Fits(s) == s.prefix \in {NoMsg, s.react}
AllFit ==
  /\ disk \in State => Fits(disk)
  /\ \A p \in Procs : Fits(heap[p])
  /\ CommentFits

\* Who is about to post a comment knows the message, and it is the one that his
\* state names, unless he shares the state with somebody who has changed it.
Looked ==
  \A p \in Procs : steps[p] = LPost =>
    msg[p] \in Msgs /\ (~crossed => Mine(p).react = msg[p])

\* The registered connection is the open one, and it has a loop.
Registered == RegisteredIsOpen /\ (conn # None => loops[conn] = "run")

\* Nobody has logged out, and no operation of the store has failed or was cut.
Clean == removed = "never" /\ failed = 0
Undisturbed ==
  Clean =>
    /\ disk \in State \union {NoState}
    /\ disk = NoState =>
         /\ steps[Boot] \in {Nothing, LList}
         /\ \A p \in Procs : /\ loops[p] # "run"
                             /\ heap[p].expect # "comment"
                             /\ steps[p] \notin Recording \union {LStart}

Ending == (~listening => closing) /\ EndsOnlyByLogout

SInv ==
  /\ TypeOK /\ Planned /\ Private /\ TokenKept /\ AllFit /\ Looked /\ Registered
  /\ Undisturbed /\ Ending /\ DeafIsRevived

-----------------------------------------------------------------------------
(* The lists.                                                              *)

\* Kept folded in the proofs below.
First(list) == Head(list)
Rest(list) == Tail(list)

\* What comes first in each list, and what is left after it.
LEMMA ListTable ==
  /\ LLoad # Nothing /\ First(LLoad) = "load" /\ Rest(LLoad) = Nothing
  /\ LLang # Nothing /\ First(LLang) = "lang" /\ Rest(LLang) = SaveAsk
  /\ SaveAsk # Nothing /\ First(SaveAsk) = "save" /\ Rest(SaveAsk) = LAsk
  /\ StoreAsk # Nothing /\ First(StoreAsk) = "store" /\ Rest(StoreAsk) = LAsk
  /\ KeepAsk # Nothing /\ First(KeepAsk) = "keep" /\ Rest(KeepAsk) = LAsk
  /\ LAsk # Nothing /\ First(LAsk) = "ask" /\ Rest(LAsk) = Nothing
  /\ LToken # Nothing /\ First(LToken) = "token" /\ Rest(LToken) = LSave
  /\ ClearSave # Nothing /\ First(ClearSave) = "clear" /\ Rest(ClearSave) = LSave
  /\ ReplySave # Nothing /\ First(ReplySave) = "reply" /\ Rest(ReplySave) = LSave
  /\ LSave # Nothing /\ First(LSave) = "save" /\ Rest(LSave) = Nothing
  /\ LStore # Nothing /\ First(LStore) = "store" /\ Rest(LStore) = Nothing
  /\ LKeep # Nothing /\ First(LKeep) = "keep" /\ Rest(LKeep) = Nothing
  /\ LLogin # Nothing /\ First(LLogin) = "login" /\ Rest(LLogin) = SaveStart
  /\ SaveStart # Nothing /\ First(SaveStart) = "save" /\ Rest(SaveStart) = LStart
  /\ StoreStart # Nothing /\ First(StoreStart) = "store" /\ Rest(StoreStart) = LStart
  /\ KeepStart # Nothing /\ First(KeepStart) = "keep" /\ Rest(KeepStart) = LStart
  /\ LStart # Nothing /\ First(LStart) = "startRT" /\ Rest(LStart) = Nothing
  /\ LFind # Nothing /\ First(LFind) = "find" /\ Rest(LFind) = LPost
  /\ LPost # Nothing /\ First(LPost) = "post" /\ Rest(LPost) = RecordClear
  /\ RecordClear # Nothing /\ First(RecordClear) = "record" /\ Rest(RecordClear) = ClearSave
  /\ LLogout # Nothing /\ First(LLogout) = "stopRT" /\ Rest(LLogout) = LDelete
  /\ LDelete # Nothing /\ First(LDelete) = "delete" /\ Rest(LDelete) = Nothing
  /\ LTake # Nothing /\ First(LTake) = "take" /\ Rest(LTake) = Nothing
  /\ TakeClear # Nothing /\ First(TakeClear) = "take" /\ Rest(TakeClear) = ClearStore
  /\ ClearStore # Nothing /\ First(ClearStore) = "clear" /\ Rest(ClearStore) = LStore
  /\ ClearStoreRecord # Nothing /\ First(ClearStoreRecord) = "clear" /\ Rest(ClearStoreRecord) = StoreRecord
  /\ StoreRecord # Nothing /\ First(StoreRecord) = "store" /\ Rest(StoreRecord) = LRecord
  /\ LRecord # Nothing /\ First(LRecord) = "record" /\ Rest(LRecord) = Nothing
  /\ LList # Nothing /\ First(LList) = "list" /\ Rest(LList) = Nothing
  /\ LLoadBoot # Nothing /\ First(LLoadBoot) = "loadBoot" /\ Rest(LLoadBoot) = Nothing
  BY DEF First, Rest, Nothing, LLoad, LLang, SaveAsk, StoreAsk, KeepAsk, LAsk, LToken,
         ClearSave, ReplySave, LSave, LStore, LKeep, LLogin, SaveStart,
         StoreStart, KeepStart, LStart, LFind, LPost, RecordClear, LLogout, LDelete,
         LTake, TakeClear, ClearStore, ClearStoreRecord, StoreRecord, LRecord,
         LList, LLoadBoot

\* Lists of one and two steps, put together.
LEMMA Concat11 == ASSUME NEW a, NEW b PROVE <<a>> \o <<b>> = <<a, b>>
<1> DEFINE S == {a, b}
<1>1. <<a>> \o <<b>> \in Seq(S) /\ <<a, b>> \in Seq(S)
      /\ Len(<<a>> \o <<b>>) = 2 /\ Len(<<a, b>>) = 2
  OBVIOUS
<1>2. \A i \in 1 .. 2 : (<<a>> \o <<b>>)[i] = <<a, b>>[i]
  OBVIOUS
<1> HIDE DEF S
<1> QED
  BY <1>1, <1>2, SeqEqual

LEMMA Concat12 ==
  ASSUME NEW a, NEW b, NEW c PROVE <<a>> \o <<b, c>> = <<a, b, c>>
<1> DEFINE S == {a, b, c}
<1>1. <<a>> \o <<b, c>> \in Seq(S) /\ <<a, b, c>> \in Seq(S)
      /\ Len(<<a>> \o <<b, c>>) = 3 /\ Len(<<a, b, c>>) = 3
  OBVIOUS
<1>2. \A i \in 1 .. 3 : (<<a>> \o <<b, c>>)[i] = <<a, b, c>>[i]
  OBVIOUS
<1> HIDE DEF S
<1> QED
  BY <1>1, <1>2, SeqEqual

LEMMA Concat21 ==
  ASSUME NEW a, NEW b, NEW c PROVE <<a, b>> \o <<c>> = <<a, b, c>>
<1> DEFINE S == {a, b, c}
<1>1. <<a, b>> \o <<c>> \in Seq(S) /\ <<a, b, c>> \in Seq(S)
      /\ Len(<<a, b>> \o <<c>>) = 3 /\ Len(<<a, b, c>>) = 3
  OBVIOUS
<1>2. \A i \in 1 .. 3 : (<<a, b>> \o <<c>>)[i] = <<a, b, c>>[i]
  OBVIOUS
<1> HIDE DEF S
<1> QED
  BY <1>1, <1>2, SeqEqual

\* The lists that Save and Take make.
LEMMA Joined ==
  /\ <<"store">> \o Nothing = LStore /\ <<"keep">> \o Nothing = LKeep
  /\ <<"store">> \o LAsk = StoreAsk /\ <<"keep">> \o LAsk = KeepAsk
  /\ <<"store">> \o LStart = StoreStart /\ <<"keep">> \o LStart = KeepStart
  /\ <<"take">> \o <<"clear", "store">> = TakeClear /\ <<"take">> \o <<>> = LTake
  /\ ClearStore \o <<"record">> = ClearStoreRecord /\ ClearStore \o <<>> = ClearStore
  /\ Nothing \o <<"record">> = LRecord /\ Nothing \o <<>> = Nothing
  BY Concat11, Concat12, Concat21
  DEF Nothing, LStore, LKeep, LAsk, StoreAsk, KeepAsk, LStart, StoreStart,
      KeepStart, TakeClear, LTake, ClearStore, ClearStoreRecord, LRecord

\* All of them are lists of steps.
LEMMA ListTypes == HandlerLists \union BootLists \subseteq Seq(Steps)
  BY DEF HandlerLists, BootLists, Recording, Steps,
         Nothing, LLoad, LLang, SaveAsk, StoreAsk, KeepAsk, LAsk, LToken,
         ClearSave, ReplySave, LSave, LStore, LKeep, LLogin, SaveStart,
         StoreStart, KeepStart, LStart, LFind, LPost, RecordClear, LLogout, LDelete,
         LTake, TakeClear, ClearStore, ClearStoreRecord, StoreRecord, LRecord,
         LList, LLoadBoot

\* Which lists begin with a step.
LEMMA HeadOf ==
  ASSUME NEW x \in HandlerLists \union BootLists, x # Nothing
  PROVE  /\ Head(x) = "load" => x = LLoad
         /\ Head(x) = "ask" => x = LAsk
         /\ Head(x) = "lang" => x = LLang
         /\ Head(x) = "token" => x = LToken
         /\ Head(x) = "login" => x = LLogin
         /\ Head(x) = "reply" => x = ReplySave
         /\ Head(x) = "clear" => x \in {ClearSave, ClearStore, ClearStoreRecord}
         /\ Head(x) = "find" => x = LFind
         /\ Head(x) = "post" => x = LPost
         /\ Head(x) = "take" => x \in {LTake, TakeClear}
         /\ Head(x) = "record" => x \in {LRecord, RecordClear}
         /\ Head(x) = "save" => x \in {LSave, SaveAsk, SaveStart}
         /\ Head(x) = "store" => x \in {LStore, StoreAsk, StoreStart, StoreRecord}
         /\ Head(x) = "keep" => x \in {LKeep, KeepAsk, KeepStart}
         /\ Head(x) = "startRT" => x = LStart
         /\ Head(x) = "stopRT" => x = LLogout
         /\ Head(x) = "delete" => x = LDelete
         /\ Head(x) = "list" => x = LList
         /\ Head(x) = "loadBoot" => x = LLoadBoot
  BY ListTable DEF HandlerLists, BootLists, Recording, First

\* The same of the list of a goroutine.
LEMMA AtList ==
  ASSUME Planned, NEW p \in Procs, NEW st, At(p, st)
  PROVE  /\ up /\ steps[p] \in ListsOf(p) /\ steps[p] # Nothing /\ Head(steps[p]) = st
         /\ p # Boot => p \in Handlers /\ upd[p] # ""
         /\ p = Boot => st \in {"list", "loadBoot", "save", "store", "keep", "startRT"}
         /\ p # Boot => st \notin {"list", "loadBoot"}
         /\ p = Boot /\ st = "save" => steps[p] = SaveStart
         /\ p = Boot /\ st = "store" => steps[p] = StoreStart
         /\ st = "keep" => steps[p] = KeepStart \/ (p # Boot /\ steps[p] \in {LKeep, KeepAsk})
<1>1. /\ up /\ steps[p] \in ListsOf(p) /\ steps[p] # Nothing /\ Head(steps[p]) = st
      /\ p # Boot => p \in Handlers /\ upd[p] # ""
  BY DEF At, Planned, Nothing, Procs
<1>0. First(steps[p]) = st
  BY <1>1 DEF First
<1>2. CASE p = Boot
  <2>1. steps[p] \in BootLists
    BY <1>1, <1>2 DEF ListsOf
  <2> QED
    BY <1>0, <1>1, <1>2, <2>1, ListTable DEF BootLists
<1>3. CASE p # Boot
  <2>1. steps[p] \in HandlerLists
    BY <1>1, <1>3 DEF ListsOf
  <2>2. First(steps[p]) \notin {"list", "loadBoot"}
    BY <1>1, <2>1, ListTable DEF HandlerLists, Recording
  <2>3. First(steps[p]) = "keep" => steps[p] \in {LKeep, KeepAsk}
    BY <1>1, <2>1, ListTable DEF HandlerLists, Recording
  <2> QED
    BY <1>0, <1>1, <1>3, <2>2, <2>3
<1> QED
  BY <1>2, <1>3

\* Which list a goroutine has whose next step is known.
LEMMA ListOf ==
  ASSUME Planned, NEW p \in Procs, NEW st, At(p, st)
  PROVE  /\ st = "load" => steps[p] = LLoad
         /\ st = "ask" => steps[p] = LAsk
         /\ st = "lang" => steps[p] = LLang
         /\ st = "token" => steps[p] = LToken
         /\ st = "login" => steps[p] = LLogin
         /\ st = "reply" => steps[p] = ReplySave
         /\ st = "clear" => steps[p] \in {ClearSave, ClearStore, ClearStoreRecord}
         /\ st = "find" => steps[p] = LFind
         /\ st = "post" => steps[p] = LPost
         /\ st = "take" => steps[p] \in {LTake, TakeClear}
         /\ st = "record" => steps[p] \in {LRecord, RecordClear}
         /\ st = "save" => steps[p] \in {LSave, SaveAsk, SaveStart}
         /\ st = "store" => steps[p] \in {LStore, StoreAsk, StoreStart, StoreRecord}
         /\ st = "startRT" => steps[p] = LStart
         /\ st = "stopRT" => steps[p] = LLogout
         /\ st = "delete" => steps[p] = LDelete
         /\ st = "list" => steps[p] = LList
         /\ st = "loadBoot" => steps[p] = LLoadBoot
<1>1. /\ steps[p] \in HandlerLists \union BootLists
      /\ steps[p] # Nothing /\ Head(steps[p]) = st
  BY DEF At, Planned, ListsOf, Nothing
<1> QED
  BY <1>1, HeadOf

\* What is left after the first step of a list is one of the lists.
LEMMA RestOf ==
  ASSUME NEW x, x # Nothing
  PROVE  /\ x \in BootLists => Rest(x) \in BootLists \ {LLoadBoot, LList}
         /\ x \in HandlerLists => Rest(x) \in HandlerLists \ {LLoad}
         /\ x \in HandlerLists \union BootLists =>
              /\ Rest(x) \in Recording => x \in Recording
              /\ Rest(x) \in {SaveStart, StoreStart} => x = LLogin
              /\ Rest(x) = LStart => x \in {SaveStart, StoreStart, KeepStart}
              /\ Rest(x) = LDelete => x = LLogout
              /\ Rest(x) = LPost => x = LFind
<1>1. CASE x \in BootLists
  BY <1>1, ListTable DEF BootLists, HandlerLists, Recording
<1>2. CASE x \in HandlerLists
  <2>1. Rest(x) \in HandlerLists \ {LLoad}
    BY <1>2, ListTable DEF HandlerLists, Recording
  <2>2. Rest(x) \in Recording => x \in Recording
    BY <1>2, ListTable DEF HandlerLists, Recording
  <2>3. Rest(x) \in {SaveStart, StoreStart} => x = LLogin
    BY <1>2, ListTable DEF HandlerLists, Recording
  <2>4. Rest(x) = LStart => x \in {SaveStart, StoreStart, KeepStart}
    BY <1>2, ListTable DEF HandlerLists, Recording
  <2>5. Rest(x) = LDelete => x = LLogout
    BY <1>2, ListTable DEF HandlerLists, Recording
  <2>6. Rest(x) = LPost => x = LFind
    BY <1>2, ListTable DEF HandlerLists, Recording
  <2>7. x \in BootLists => Rest(x) \in BootLists \ {LLoadBoot, LList}
    BY <1>1
  <2> QED
    BY <2>1, <2>2, <2>3, <2>4, <2>5, <2>6, <2>7
<1> QED
  BY <1>1, <1>2

\* What a goroutine does about an update is one of the lists, and a chat
\* without a directory gets none that would make one, unless a comment is
\* expected.
LEMMA CourseLists ==
  ASSUME NEW u \in Updates, NEW s \in State, NEW c \in Courses(u, s)
  PROVE  /\ c \in HandlerLists \ {LLoad, LPost, SaveStart, StoreStart, LStart}
         /\ disk = NoState /\ s.expect # "comment" => c \notin Recording
<1> DEFINE Good == {x \in HandlerLists \ {LLoad, LPost, SaveStart, StoreStart, LStart} :
                      x \in Recording => disk # NoState \/ s.expect = "comment"}
<1>1. Nothing \in Good /\ LToken \in Good /\ LLang \in Good /\ LLogout \in Good
      /\ ClearSave \in Good /\ TakeClear \in Good /\ LTake \in Good /\ LLogin \in Good
  BY ListTable DEF HandlerLists, Recording
<1>2. disk # NoState => ReplySave \in Good /\ RecordClear \in Good
  BY ListTable DEF HandlerLists, Recording
<1>3. s.expect = "comment" => LFind \in Good
  BY ListTable DEF HandlerLists, Recording
<1> SUFFICES c \in Good
  BY DEF Good
<1> HIDE DEF Good
<1>4. CASE u = "start"
  <2>1. c = Nothing \/ c = LToken
    BY <1>4 DEF Courses, Nothing, LToken
  <2> QED
    BY <1>1, <2>1
<1>5. CASE u = "lang"
  <2>1. c = LLang
    BY <1>5 DEF Courses, LLang
  <2> QED
    BY <1>1, <2>1
<1>6. CASE u = "logout"
  <2>1. c = LLogout \/ c = Nothing
    BY <1>6 DEF Courses, Logout, Nothing, LLogout
  <2> QED
    BY <1>1, <2>1
<1>7. CASE u = "cancel"
  <2>1. c = ClearSave
    BY <1>7 DEF Courses, ClearSave
  <2> QED
    BY <1>1, <2>1
<1>8. CASE u = "resume"
  <2>1. c = <<"take">> \o <<"clear", "store">> \/ c = <<"take">> \o <<>>
    BY <1>8 DEF Courses
  <2>2. c = TakeClear \/ c = LTake
    BY <2>1, Joined
  <2> QED
    BY <1>1, <2>2
<1>9. CASE u \in {"reply", "replyAt"}
  <2>1. c = Nothing \/ (disk # NoState /\ c = ReplySave)
    BY <1>9 DEF Courses, Nothing, ReplySave
  <2> QED
    BY <1>1, <1>2, <2>1
<1>10. CASE u = "text"
  <2>1. \/ c = Nothing \/ (s.expect = "token" /\ c = LLogin)
        \/ (s.expect = "comment" /\ c = LFind)
        \/ (disk # NoState /\ c = RecordClear)
    BY <1>10 DEF Courses, Nothing, LLogin, LFind, RecordClear
  <2> QED
    BY <1>1, <1>2, <1>3, <2>1
<1> QED
  BY <1>4, <1>5, <1>6, <1>7, <1>8, <1>9, <1>10 DEF Updates

\* What a goroutine may go on with, once it has loaded the state.
After(p) ==
  {list \in ListsOf(p) \ {LLoad, LList, LLoadBoot} :
     /\ list \in Recording => steps[p] \in Recording \/ disk # NoState
     /\ list \in {SaveStart, StoreStart} => steps[p] \in {LLogin, SaveStart}
     /\ list = LStart => steps[p] \in {SaveStart, StoreStart, KeepStart}}

\* It may end, and it may take its next step.
LEMMA NextList ==
  ASSUME Planned, NEW p \in Procs, steps[p] # Nothing
  PROVE  Nothing \in After(p) /\ Tail(steps[p]) \in After(p)
<1>1. steps[p] \in ListsOf(p)
  BY DEF Planned
<1>2. Nothing \notin Recording \union {SaveStart, StoreStart, LStart, LLoad, LList, LLoadBoot}
  BY ListTable DEF Recording
<1>3. Nothing \in After(p)
  BY <1>2 DEF After, ListsOf, BootLists, HandlerLists
<1>4. LList \notin HandlerLists /\ LLoadBoot \notin HandlerLists /\ LLoad \notin BootLists
  BY ListTable DEF HandlerLists, BootLists, Recording
<1>5. Rest(steps[p]) \in After(p)
  BY <1>1, <1>4, RestOf DEF After, ListsOf
<1> QED
  BY <1>3, <1>5 DEF Rest

\* What a step of a goroutine that has loaded the state leaves it to do.
LEMMA Continues ==
  ASSUME SInv, NEW p \in Procs, Run(p) \/ Fails(p), ~LoadCached(p)
  PROVE  \E list \in After(p) : Plan(p, list) /\ steps[p] # Nothing /\ UNCHANGED upd
<1>0. TypeOK /\ Planned /\ Boot \notin Handlers
  BY SessionAssumption DEF SInv
<1>1. CASE Ask(p)
  <2>1. p # Boot /\ steps[p] # Nothing
    BY <1>0, <1>1, AtList DEF Ask
  <2>2. UNCHANGED upd /\ (Plan(p, Nothing) \/ Plan(p, LToken))
    BY <1>1 DEF Ask, Nothing, LToken
  <2>3. LToken \in After(p)
    BY <2>1, ListTable DEF After, ListsOf, HandlerLists, Recording
  <2> QED
    BY <1>0, <2>1, <2>2, <2>3, NextList
<1>2. CASE Find(p) \/ Post(p)
  <2>1. steps[p] # Nothing
    BY <1>0, <1>2, AtList DEF Find, Post
  <2>2. UNCHANGED upd /\ (Plan(p, Nothing) \/ Plan(p, Tail(steps[p])))
    BY <1>2 DEF Find, Post, Go, Nothing
  <2> QED
    BY <1>0, <2>1, <2>2, NextList
<1>3. CASE Take(p)
  <2>1. p # Boot /\ steps[p] # Nothing /\ steps[p] \in {LTake, TakeClear}
    BY <1>0, <1>3, AtList, ListOf DEF Take
  <2>2. Tail(steps[p]) \in {Nothing, ClearStore}
    BY <2>1, ListTable DEF Rest
  <2>3. /\ UNCHANGED upd
        /\ \/ Plan(p, Nothing)
           \/ Plan(p, Tail(steps[p]) \o <<>>)
           \/ disk # NoState /\ Plan(p, Tail(steps[p]) \o <<"record">>)
    BY <1>3 DEF Take, Nothing
  <2>4. /\ Tail(steps[p]) \o <<>> \in {Nothing, ClearStore}
        /\ Tail(steps[p]) \o <<"record">> \in {LRecord, ClearStoreRecord}
    BY <2>2, Joined
  <2>5. ClearStore \in After(p) /\ (disk # NoState => {LRecord, ClearStoreRecord} \subseteq After(p))
    BY <2>1, ListTable DEF After, ListsOf, HandlerLists, Recording
  <2> QED
    BY <1>0, <2>1, <2>3, <2>4, <2>5, NextList
<1>4. CASE Record(p) \/ Keep(p) \/ Store(p) \/ DeleteState(p) \/ StartRealtime(p)
           \/ StopRealtime(p) \/ Change(p)
  <2>1. Plan(p, Tail(steps[p])) /\ UNCHANGED upd
    BY <1>4 DEF Record, Keep, Store, DeleteState, StartRealtime, StopRealtime, Change, Go
  <2>2. steps[p] # Nothing
    BY <1>4 DEF Record, Keep, Store, DeleteState, StartRealtime, StopRealtime, Change, At, Nothing
  <2> QED
    BY <1>0, <2>1, <2>2, NextList
<1>5. CASE Save(p)
  <2>0. At(p, "save")
    BY <1>5 DEF Save
  <2>1. /\ steps[p] \in {LSave, SaveAsk, SaveStart} /\ steps[p] # Nothing
        /\ p = Boot => steps[p] = SaveStart
    BY <1>0, <2>0, AtList, ListOf
  <2>2. /\ UNCHANGED upd
        /\ \/ Plan(p, <<"store">> \o Tail(steps[p]))
           \/ ~Mine(p).auth /\ Plan(p, <<"keep">> \o Tail(steps[p]))
    BY <1>5 DEF Save
  <2>3. CASE steps[p] = LSave
    <3>1. <<"store">> \o Tail(steps[p]) = LStore /\ <<"keep">> \o Tail(steps[p]) = LKeep
      BY <2>3, ListTable, Joined DEF Rest
    <3>2. p # Boot
      BY <2>1, <2>3, ListTable
    <3>3. LStore \in After(p) /\ LKeep \in After(p)
      BY <3>2, ListTable DEF After, ListsOf, HandlerLists, Recording
    <3> QED
      BY <2>1, <2>2, <3>1, <3>3
  <2>4. CASE steps[p] = SaveAsk
    <3>1. <<"store">> \o Tail(steps[p]) = StoreAsk /\ <<"keep">> \o Tail(steps[p]) = KeepAsk
      BY <2>4, ListTable, Joined DEF Rest
    <3>2. p # Boot
      BY <2>1, <2>4, ListTable
    <3>3. StoreAsk \in After(p) /\ KeepAsk \in After(p)
      BY <3>2, ListTable DEF After, ListsOf, HandlerLists, Recording
    <3> QED
      BY <2>1, <2>2, <3>1, <3>3
  <2>5. CASE steps[p] = SaveStart
    <3>1. <<"store">> \o Tail(steps[p]) = StoreStart /\ <<"keep">> \o Tail(steps[p]) = KeepStart
      BY <2>5, ListTable, Joined DEF Rest
    <3>2. p # Boot => Mine(p).auth
      BY <2>5 DEF SInv, TokenKept, Procs
    <3>3. StoreStart \in After(p) /\ (p = Boot => KeepStart \in After(p))
      BY <2>5, ListTable DEF After, ListsOf, HandlerLists, BootLists, Recording
    <3> QED
      BY <2>1, <2>2, <3>1, <3>2, <3>3
  <2> QED
    BY <2>1, <2>3, <2>4, <2>5
<1>6. CASE Fails(p)
  <2>1. steps[p] # Nothing
    BY <1>6 DEF Fails, At, Nothing
  <2>2. UNCHANGED upd /\ (Plan(p, Nothing) \/ Plan(p, Tail(steps[p])))
    BY <1>6 DEF Fails, Nothing
  <2> QED
    BY <1>0, <2>1, <2>2, NextList
<1> QED
  BY <1>1, <1>2, <1>3, <1>4, <1>5, <1>6 DEF Run

\* A handler that has looked in the cache goes on like one that has read the
\* state from the store.
LEMMA Loads ==
  ASSUME SInv, NEW p \in Procs, LoadCached(p)
  PROVE  /\ p \in Handlers /\ p # Boot /\ upd[p] # "" /\ steps[p] = LLoad /\ UNCHANGED upd
         /\ heap'[cache'] \in State
         /\ \E list \in HandlerLists \ {LLoad, LPost, SaveStart, StoreStart, LStart} :
              /\ Plan(p, list)
              /\ disk = NoState /\ heap'[cache'].expect # "comment" => list \notin Recording
<1>0. TypeOK /\ Planned
  BY DEF SInv
<1>1. At(p, "load")
  BY DEF LoadCached
<1>2. p # Boot /\ p \in Handlers /\ upd[p] # "" /\ steps[p] = LLoad
  <2>1. steps[p] = LLoad
    BY <1>0, <1>1, ListOf
  <2> QED
    BY <1>0, <1>1, <2>1, AtList
<1>3. upd[p] \in Updates
  BY <1>0, <1>2 DEF TypeOK
<1>4. heap'[cache'] \in State
  <2>1. NewState \in State
    BY DEF NewState, State
  <2>2. CASE cache = None
    BY <1>0, <2>1, <2>2 DEF LoadCached, TypeOK
  <2>3. CASE cache # None
    BY <1>0, <2>3 DEF LoadCached, TypeOK
  <2> QED
    BY <2>2, <2>3
<1>5. PICK c \in Courses(upd[p], heap'[cache']) : Plan(p, c) /\ UNCHANGED upd
  BY DEF LoadCached
<1> QED
  BY <1>2, <1>3, <1>4, <1>5, CourseLists

\* A plan is a plan for one goroutine.
LEMMA Replan ==
  ASSUME TypeOK, Planned, NEW p \in Procs, NEW list \in ListsOf(p), Plan(p, list)
  PROVE  /\ steps' \in [Procs -> Seq(Steps)]
         /\ steps'[p] = list
         /\ \A q \in Procs \ {p} : steps'[q] = steps[q]
         /\ \A q \in Procs : steps'[q] \in ListsOf(q)
<1>1. list \in Seq(Steps)
  BY ListTypes DEF ListsOf
<1>2. /\ steps' = [steps EXCEPT ![p] = list] /\ steps \in [Procs -> Seq(Steps)]
      /\ \A q \in Procs : steps[q] \in ListsOf(q)
  BY DEF Plan, TypeOK, Planned
<1> HIDE DEF Plan
<1> QED
  BY <1>1, <1>2

\* What a goroutine that loads the state from the store has left to do.
LEMMA Begins ==
  ASSUME SInv, NEW h \in Handlers, Begin(h)
  PROVE  /\ upd[h] = "" /\ steps[h] = Nothing /\ h \in Procs /\ h # Boot
         /\ upd' \in [Procs -> Updates \union {""}] /\ upd'[h] # ""
         /\ \A q \in Procs \ {h} : upd'[q] = upd[q]
         /\ \E list \in HandlerLists \ {LPost, SaveStart, StoreStart, LStart} :
              /\ Plan(h, list)
              /\ disk \notin State => UNCHANGED heap /\ list \notin Recording
              /\ disk \in State => heap' = [heap EXCEPT ![h] = disk] /\ list # LLoad
<1>0. TypeOK /\ Planned
  BY DEF SInv
<1>1. upd[h] = "" /\ steps[h] = Nothing /\ h \in Procs /\ h # Boot
  BY <1>0, SessionAssumption DEF Begin, Planned, Procs
<1>2. PICK u \in Updates : upd' = [upd EXCEPT ![h] = u] /\
         IF disk \notin State
         THEN Plan(h, IF disk = Torn THEN <<>> ELSE <<"load">>) /\ UNCHANGED heap
         ELSE /\ heap' = [heap EXCEPT ![h] = disk]
              /\ \E c \in Courses(u, disk) : Plan(h, c)
  BY DEF Begin
<1>3. upd' \in [Procs -> Updates \union {""}] /\ upd'[h] # ""
      /\ \A q \in Procs \ {h} : upd'[q] = upd[q]
  BY <1>0, <1>1, <1>2 DEF TypeOK, Updates
<1>4. CASE disk \notin State
  <2>1. Plan(h, Nothing) \/ Plan(h, LLoad)
    BY <1>2, <1>4 DEF Nothing, LLoad
  <2>2. {Nothing, LLoad} \subseteq HandlerLists \ (Recording \union {LPost, SaveStart, StoreStart, LStart})
    BY ListTable DEF HandlerLists, Recording
  <2> QED
    BY <1>1, <1>2, <1>3, <1>4, <2>1, <2>2
<1>5. CASE disk \in State
  <2>1. PICK c \in Courses(u, disk) : Plan(h, c)
    BY <1>2, <1>5
  <2>2. c \in HandlerLists \ {LLoad, LPost, SaveStart, StoreStart, LStart}
    BY <1>5, CourseLists
  <2> QED
    BY <1>1, <1>2, <1>3, <1>5, <2>1, <2>2
<1> QED
  BY <1>4, <1>5

\* App.Start: the list of the chats, and the state of this one.
LEMMA Boots ==
  ASSUME SInv, ListIDs \/ LoadBoot
  PROVE  /\ up /\ UNCHANGED upd /\ Boot \in Procs
         /\ \E list \in {Nothing, LLoadBoot, SaveStart} :
              /\ Plan(Boot, list)
              /\ ListIDs => steps[Boot] = LList /\ (list = Nothing <=> disk = NoState)
              /\ ListIDs => list # SaveStart
              /\ LoadBoot => steps[Boot] = LLoadBoot /\ (list = Nothing => ~up')
              /\ LoadBoot => list # LLoadBoot
<1>0. TypeOK /\ Planned /\ Boot \in Procs
  BY DEF SInv, Procs
<1>1. Nothing # LLoadBoot /\ Nothing # SaveStart /\ SaveStart # LLoadBoot /\ LList # LLoadBoot
  BY ListTable
<1>2. ListIDs => steps[Boot] = LList
  BY <1>0, ListOf DEF ListIDs
<1>3. LoadBoot => steps[Boot] = LLoadBoot
  BY <1>0, ListOf DEF LoadBoot
<1>4. CASE ListIDs
  <2>1. /\ disk = NoState => Plan(Boot, Nothing)
        /\ disk # NoState => Plan(Boot, LLoadBoot)
        /\ up /\ UNCHANGED upd
    BY <1>4 DEF ListIDs, Nothing, LLoadBoot, At
  <2> QED
    BY <1>0, <1>1, <1>2, <1>3, <1>4, <2>1
<1>5. CASE LoadBoot
  <2>1. /\ (Plan(Boot, Nothing) /\ ~up') \/ Plan(Boot, SaveStart)
        /\ up /\ UNCHANGED upd
    BY <1>5 DEF LoadBoot, Nothing, SaveStart, At
  <2> QED
    BY <1>0, <1>1, <1>2, <1>3, <1>5, <2>1
<1> QED
  BY <1>4, <1>5

-----------------------------------------------------------------------------
(* The parts of the invariant, one after the other.                        *)

\* What a goroutine has to do when the program starts.
LEMMA FirstLists ==
  ASSUME NEW p \in Procs
  PROVE  /\ (IF p = Boot THEN <<"list">> ELSE <<>>) = (IF p = Boot THEN LList ELSE Nothing)
         /\ (IF p = Boot THEN LList ELSE Nothing) \in ListsOf(p)
  BY DEF LList, Nothing, ListsOf, BootLists, HandlerLists

\* What is left to do stays one of the lists: see Begins, Loads, Continues
\* and Boots.
LEMMA PlanStep ==
  ASSUME SInv, Next
  PROVE  Planned' /\ steps' \in [Procs -> Seq(Steps)]
<1>0. TypeOK /\ Planned /\ Boot \notin Handlers
  BY SessionAssumption DEF SInv
<1>a. ASSUME NEW p \in Procs, NEW list \in ListsOf(p), Plan(p, list),
             \A h \in Handlers \ {p} : upd'[h] = upd[h], p # Boot => upd'[p] # ""
      PROVE  Planned' /\ steps' \in [Procs -> Seq(Steps)]
  <2>1. /\ steps' \in [Procs -> Seq(Steps)]
        /\ \A q \in Procs \ {p} : steps'[q] = steps[q]
        /\ \A q \in Procs : steps'[q] \in ListsOf(q)
    BY <1>0, <1>a, Replan
  <2>2. ASSUME NEW h \in Handlers, upd'[h] = "" PROVE steps'[h] = Nothing
    BY <1>0, <1>a, <2>1, <2>2 DEF Planned, Procs
  <2> QED
    BY <2>1, <2>2 DEF Planned, ListsOf
<1>1. ASSUME NEW h \in Handlers, Begin(h) PROVE Planned' /\ steps' \in [Procs -> Seq(Steps)]
  BY <1>1, <1>a, Begins DEF ListsOf, Procs
<1>2. ASSUME NEW p \in Procs, Run(p) \/ Fails(p), ~LoadCached(p)
      PROVE  Planned' /\ steps' \in [Procs -> Seq(Steps)]
  <2>1. PICK list \in After(p) : Plan(p, list) /\ steps[p] # Nothing /\ UNCHANGED upd
    BY <1>2, Continues
  <2>2. p # Boot => upd[p] # ""
    BY <1>0, <2>1 DEF Planned, Procs
  <2> QED
    BY <1>a, <2>1, <2>2 DEF After
<1>3. ASSUME NEW p \in Procs, LoadCached(p) PROVE Planned' /\ steps' \in [Procs -> Seq(Steps)]
  BY <1>3, <1>a, Loads DEF ListsOf
<1>4. CASE ListIDs \/ LoadBoot
  <2>1. {Nothing, LLoadBoot, SaveStart} \subseteq ListsOf(Boot)
    BY DEF ListsOf, BootLists
  <2> QED
    BY <1>0, <1>4, <1>a, <2>1, Boots
<1>5. CASE Close \/ StopListening \/ StartReturns
           \/ \E p \in Procs : LoopRecords(p) \/ LoopEnds(p) \/ LoopCloses(p)
  <2>1. UNCHANGED <<steps, upd>>
    BY <1>5 DEF Close, StopListening, StartReturns, LoopRecords, LoopEnds, LoopCloses
  <2> QED
    BY <1>0, <2>1 DEF Planned, TypeOK, ListsOf
<1>6. CASE Restart
  <2>1. steps' = [p \in Procs |-> IF p = Boot THEN LList ELSE Nothing]
    BY <1>6 DEF Restart, LList, Nothing
  <2>2. \A p \in Procs : steps'[p] \in ListsOf(p) /\ ListsOf(p) \subseteq Seq(Steps)
    BY <2>1, FirstLists, ListTypes DEF ListsOf
  <2>3. \A h \in Handlers : steps'[h] = Nothing
    BY <1>0, <2>1 DEF Procs
  <2>4. steps' \in [Procs -> Seq(Steps)]
    BY <2>1, <2>2
  <2> QED
    BY <2>2, <2>3, <2>4 DEF Planned, ListsOf
<1> QED
  BY <1>1, <1>2, <1>3, <1>4, <1>5, <1>6 DEF Next, Run

\* What changes of a state keep: the token, whom a comment addresses, and
\* that a comment is expected only after a button was pressed.
LEMMA ClearedState ==
  ASSUME NEW s \in State
  PROVE  /\ Cleared(s) \in State /\ Cleared(s).auth = s.auth
         /\ Cleared(s).expect = "" /\ Fits(Cleared(s))
  BY DEF Cleared, State, Fits

LEMMA RepliedState ==
  ASSUME NEW s \in State, NEW u, NEW m \in Msgs \union {NoMsg}
  PROVE  /\ Replied(s, u, m) \in State /\ Replied(s, u, m).auth = s.auth
         /\ Fits(Replied(s, u, m))
<1>1. CASE u = "replyAt"
  BY <1>1 DEF Replied, Cleared, State, Fits
<1>2. CASE u # "replyAt"
  BY <1>2 DEF Replied, Cleared, State, Fits
<1> QED
  BY <1>1, <1>2

InLanguage(s) == [s EXCEPT !.lang = TRUE]
Expecting(s, e) == [s EXCEPT !.expect = e]

LEMMA OtherChanges ==
  ASSUME NEW s \in State, NEW e \in {"token", "lang"}
  PROVE  /\ InLanguage(s) \in State /\ (s.auth => InLanguage(s).auth)
         /\ InLanguage(s).expect = s.expect /\ (Fits(s) => Fits(InLanguage(s)))
         /\ Expecting(s, e) \in State /\ (s.auth => Expecting(s, e).auth)
         /\ Expecting(s, e).expect = e /\ (Fits(s) => Fits(Expecting(s, e)))
  BY DEF InLanguage, Expecting, State, Fits

LoggedIn(s) == [Cleared(s) EXCEPT !.auth = TRUE]

LEMMA LoggedInState ==
  ASSUME NEW s \in State
  PROVE  /\ LoggedIn(s) \in State /\ LoggedIn(s).auth = TRUE
         /\ LoggedIn(s).expect = "" /\ Fits(LoggedIn(s))
  BY DEF LoggedIn, Cleared, State, Fits

LEMMA ChangeTo ==
  ASSUME TypeOK, Planned, NEW p \in Procs, Change(p)
  PROVE  LET old == heap[ref[p]]
             new == Changed(p, old)
         IN  /\ new \in State /\ heap' = [heap EXCEPT ![ref[p]] = new]
             /\ old.auth \/ steps[p] = LLogin => new.auth
             /\ Fits(old) => Fits(new)
             /\ new.expect = "comment" => old.expect = "comment" \/ steps[p] = ReplySave
<1> DEFINE old == heap[ref[p]]
           new == Changed(p, old)
<1>1. old \in State /\ msg[p] \in Msgs \union {NoMsg}
  BY DEF TypeOK
<1>2. heap' = [heap EXCEPT ![ref[p]] = new]
  BY DEF Change
<1>3. PICK st \in {"lang", "token", "login", "reply", "clear"} : At(p, st) /\ Head(steps[p]) = st
  BY DEF Change, At
<1>4. st = "login" => steps[p] = LLogin
  BY <1>3, ListOf
<1>5. st = "reply" => steps[p] = ReplySave
  BY <1>3, ListOf
<1>a. steps[p] = LLogin => Head(steps[p]) = "login"
  BY ListTable DEF First
<1>6. /\ new \in State /\ (old.auth \/ steps[p] = LLogin => new.auth)
      /\ Fits(old) => Fits(new)
      /\ new.expect = "comment" => old.expect = "comment" \/ steps[p] = ReplySave
  <2> HIDE DEF old
  <2>1. CASE st = "lang"
    <3>1. new = InLanguage(old)
      BY <1>3, <2>1 DEF Changed, InLanguage
    <3> QED
      BY <1>1, <1>3, <1>a, <2>1, <3>1, OtherChanges
  <2>2. CASE st = "token"
    <3>1. new = Expecting(old, "token") \/ new = Expecting(old, "lang")
      BY <1>3, <2>2 DEF Changed, Expecting
    <3> QED
      BY <1>1, <1>3, <1>a, <2>2, <3>1, OtherChanges
  <2>3. CASE st = "login"
    <3>1. new = LoggedIn(old)
      BY <1>3, <2>3 DEF Changed, LoggedIn
    <3>2. /\ new \in State /\ new.auth = TRUE /\ new.expect = ""
          /\ Fits(new)
      BY <1>1, <3>1, LoggedInState
    <3> QED
      BY <3>2
  <2>4. CASE st = "reply"
    <3>1. new = Replied(old, upd[p], msg[p])
      BY <1>3, <2>4 DEF Changed
    <3> QED
      BY <1>1, <1>3, <1>5, <1>a, <2>4, <3>1, RepliedState
  <2>5. CASE st = "clear"
    <3>1. new = Cleared(old)
      BY <1>3, <2>5 DEF Changed
    <3> QED
      BY <1>1, <1>3, <1>a, <2>5, <3>1, ClearedState
  <2> QED
    BY <1>3, <2>1, <2>2, <2>3, <2>4, <2>5
<1> QED
  BY <1>2, <1>6

\* Every action keeps the types; those of the lists are PlanStep's.
LEMMA TypeStep ==
  ASSUME SInv, Next
  PROVE  TypeOK'
<1>0. TypeOK /\ Planned /\ steps' \in [Procs -> Seq(Steps)] /\ Boot \in Procs
  BY PlanStep DEF SInv, Procs
<1>t. /\ disk \in State \union {NoState, Bare, Torn} /\ heap \in [Procs -> State]
      /\ cache \in Procs \union {None} /\ ref \in [Procs -> Procs]
      /\ msg \in [Procs -> Msgs \union {NoMsg}]
  BY <1>0 DEF TypeOK
<1>s. /\ posted \in (Msgs \X (Msgs \union {NoMsg})) \union {<<>>}
      /\ failed \in 0 .. MaxErrors /\ MaxErrors \in Nat
  BY <1>0, SessionAssumption DEF TypeOK
<1>a. NewState \in State /\ \A s \in State : Cleared(s) \in State
  BY ClearedState DEF NewState, State
<1>1. ASSUME NEW h \in Handlers, Begin(h) PROVE TypeOK'
  <2>1. heap' \in [Procs -> State] /\ upd' \in [Procs -> Updates \union {""}]
    BY <1>0, <1>1, Begins DEF TypeOK
  <2>2. msg' \in [Procs -> Msgs \union {NoMsg}]
    <3>1. PICK m \in Msgs \union {NoMsg} : msg' = [msg EXCEPT ![h] = m]
      BY <1>1 DEF Begin
    <3> QED
      BY <1>t, <3>1
  <2>3. UNCHANGED <<disk, cache, ref, conn, link, loops, listening, closing, up,
                    posted, crossed, removed, revived, failed>>
    BY <1>1 DEF Begin, rtVars, appVars, logVars
  <2> QED
    BY <1>0, <2>1, <2>2, <2>3, ZenonT(60) DEF TypeOK
<1>2. ASSUME NEW p \in Procs, LoadCached(p) PROVE TypeOK'
  <2>1. cache' \in Procs \union {None} /\ heap' \in [Procs -> State] /\ cache' \in Procs
    BY <1>0, <1>a, <1>2 DEF LoadCached, TypeOK
  <2>2. ref' \in [Procs -> Procs]
    BY <1>0, <1>2, <2>1 DEF LoadCached, TypeOK
  <2>3. UNCHANGED <<disk, upd, msg, conn, link, loops, listening, closing, up,
                    posted, crossed, removed, revived, failed>>
    BY <1>2 DEF LoadCached, rtVars, appVars, logVars
  <2> QED
    BY <1>0, <2>1, <2>2, <2>3, ZenonT(60) DEF TypeOK
<1>3. ASSUME NEW p \in Procs, Change(p) PROVE TypeOK'
  <2>2. heap' \in [Procs -> State]
    BY <1>0, <1>3, <1>t, ChangeTo
  <2>3. removed' \in {"never", "yes", "back"}
    BY <1>0, <1>3 DEF Change, TypeOK
  <2>4. UNCHANGED <<disk, cache, ref, upd, msg, conn, link, loops, listening, closing, up,
                    posted, revived, failed>> /\ crossed' \in BOOLEAN
    BY <1>3 DEF Change, rtVars, appVars
  <2> QED
    BY <1>0, <2>2, <2>3, <2>4, ZenonT(60) DEF TypeOK
<1>10. ASSUME NEW p \in Procs, Find(p) PROVE TypeOK'
  <2>1. heap[ref[p]].react \in Msgs \union {NoMsg}
    BY <1>t DEF State
  <2>2. msg' \in [Procs -> Msgs \union {NoMsg}]
    BY <1>t, <1>10, <2>1 DEF Find, Mine
  <2>3. UNCHANGED <<disk, cache, heap, ref, upd, conn, link, loops, listening, closing, up,
                    posted, crossed, removed, revived, failed>>
    BY <1>10 DEF Find, objVars, rtVars, appVars, logVars
  <2> QED
    BY <1>0, <2>2, <2>3, ZenonT(60) DEF TypeOK
<1>4. ASSUME NEW p \in Procs, Ask(p) \/ Post(p) \/ Take(p) \/ Record(p) PROVE TypeOK'
  <2>0. Post(p) => msg[p] \in Msgs
    BY <1>0, ListOf DEF Post, SInv, Looked
  <2>1. heap[ref[p]].prefix \in Msgs \union {NoMsg}
    BY <1>t DEF State
  <2>2. posted' \in (Msgs \X (Msgs \union {NoMsg})) \union {<<>>}
    BY <1>s, <1>4, <2>0, <2>1 DEF Ask, Post, Take, Record, Mine, logVars
  <2>3. disk' \in State \union {NoState, Bare, Torn}
    BY <1>0, <1>4 DEF Ask, Post, Take, Record, Made, TypeOK
  <2>4. UNCHANGED <<cache, heap, ref, upd, msg, conn, link, loops, listening, closing, up,
                    crossed, removed, revived, failed>>
    BY <1>4 DEF Ask, Post, Take, Record, objVars, rtVars, appVars, logVars
  <2> QED
    BY <1>0, <2>2, <2>3, <2>4, ZenonT(60) DEF TypeOK
<1>5. ASSUME NEW p \in Procs, Save(p) \/ Keep(p) PROVE TypeOK'
  <2>1. cache' \in Procs \union {None}
    BY <1>t, <1>5 DEF Save, Keep
  <2>2. UNCHANGED <<disk, heap, ref, upd, msg, conn, link, loops, listening, closing, up,
                    posted, crossed, removed, revived, failed>>
    BY <1>5 DEF Save, Keep, rtVars, appVars, logVars
  <2> QED
    BY <1>0, <2>1, <2>2, ZenonT(60) DEF TypeOK
<1>6. ASSUME NEW p \in Procs, Store(p) \/ DeleteState(p) \/ Fails(p) PROVE TypeOK'
  <2>1. disk' \in State \union {NoState, Bare, Torn}
    BY <1>t, <1>6 DEF Store, DeleteState, Fails, Unfinished, Mine, Made
  <2>2. revived' \in BOOLEAN /\ removed' \in {"never", "yes", "back"} /\ up' \in BOOLEAN
    BY <1>0, <1>6 DEF Store, DeleteState, Fails, appVars, TypeOK
  <2>3. failed' \in 0 .. MaxErrors
    <3>1. failed' = failed \/ (failed < MaxErrors /\ failed' = failed + 1)
      BY <1>6 DEF Store, DeleteState, Fails
    <3> QED
      BY <1>s, <3>1
  <2>4. UNCHANGED <<cache, heap, ref, upd, msg, conn, link, loops, listening, closing, posted, crossed>>
    BY <1>6 DEF Store, DeleteState, Fails, objVars, rtVars, appVars
  <2> QED
    BY <1>0, <2>1, <2>2, <2>3, <2>4, ZenonT(60) DEF TypeOK
<1>7. ASSUME NEW p \in Procs,
             StartRealtime(p) \/ StopRealtime(p) \/ LoopRecords(p) \/ LoopEnds(p) \/ LoopCloses(p)
      PROVE  TypeOK'
  <2>1. Closed \in [Procs -> {"new", "open", "closed"}]
    BY <1>0 DEF Closed, TypeOK
  <2>2. link' \in [Procs -> {"new", "open", "closed"}]
    BY <1>0, <1>7, <2>1 DEF StartRealtime, StopRealtime, LoopRecords, LoopEnds, LoopCloses,
                            rtVars, TypeOK
  <2>3. loops' \in [Procs -> {"none", "run", "end"}] /\ conn' \in Procs \union {None}
    BY <1>0, <1>7 DEF StartRealtime, StopRealtime, LoopRecords, LoopEnds, LoopCloses,
                      rtVars, TypeOK
  <2>4. disk' \in State \union {NoState, Bare, Torn}
    BY <1>0, <1>7 DEF StartRealtime, StopRealtime, LoopRecords, LoopEnds, LoopCloses, Made, TypeOK
  <2>5. UNCHANGED <<cache, heap, ref, upd, msg, listening, closing, up,
                    posted, crossed, removed, revived, failed>>
    BY <1>7 DEF StartRealtime, StopRealtime, LoopRecords, LoopEnds, LoopCloses,
                objVars, appVars, logVars
  <2> QED
    BY <1>0, <2>2, <2>3, <2>4, <2>5, ZenonT(60) DEF TypeOK
<1>8. CASE ListIDs \/ LoadBoot \/ Close \/ StopListening \/ StartReturns
  <2>1. heap' \in [Procs -> State] /\ ref' \in [Procs -> Procs]
    <3>1. PICK s \in State : \/ UNCHANGED heap /\ UNCHANGED ref
                             \/ /\ heap' = [heap EXCEPT ![Boot] = s]
                                /\ ref' = [ref EXCEPT ![Boot] = Boot]
      BY <1>a, <1>8 DEF ListIDs, LoadBoot, Close, StopListening, StartReturns, objVars
    <3>2. CASE UNCHANGED heap /\ UNCHANGED ref
      BY <1>t, <3>2
    <3>3. CASE heap' = [heap EXCEPT ![Boot] = s] /\ ref' = [ref EXCEPT ![Boot] = Boot]
      <4>1. heap' \in [Procs -> State]
        BY <1>t, <3>3
      <4>2. ref' \in [Procs -> Procs]
        BY <1>0, <1>t, <3>3
      <4> QED
        BY <4>1, <4>2
    <3> QED
      BY <3>1, <3>2, <3>3
  <2>2. listening' \in BOOLEAN /\ closing' \in BOOLEAN /\ up' \in BOOLEAN
    BY <1>0, <1>8 DEF ListIDs, LoadBoot, Close, StopListening, StartReturns, appVars, TypeOK
  <2>3. UNCHANGED <<disk, cache, upd, msg, conn, link, loops, posted, crossed, removed, revived, failed>>
    BY <1>8 DEF ListIDs, LoadBoot, Close, StopListening, StartReturns, objVars, rtVars, logVars
  <2> QED
    BY <1>0, <2>1, <2>2, <2>3 DEF TypeOK
<1>9. CASE Restart
  <2>1. disk' \in State \union {NoState, Bare, Torn}
    BY <1>t, <1>9 DEF Restart, Unfinished, Made
  <2>2. failed' \in 0 .. MaxErrors
    <3>1. failed' = failed \/ (failed < MaxErrors /\ failed' = failed + 1)
      BY <1>9 DEF Restart
    <3> QED
      BY <1>s, <3>1
  <2> QED
    BY <1>0, <1>a, <1>9, <2>1, <2>2 DEF Restart, TypeOK
<1> QED
  BY <1>1, <1>2, <1>3, <1>4, <1>5, <1>6, <1>7, <1>8, <1>9, <1>10 DEF Next, Run

\* A goroutine that takes a step has made its object, or makes it now.
LEMMA MadeByStep ==
  ASSUME SInv, NEW p \in Procs, Run(p) \/ Fails(p)
  PROVE  /\ ~Unmade(p)'
         /\ \A q \in Procs \ {p} : Unmade(q)' <=> Unmade(q)
         /\ Run(p) /\ ~LoadCached(p) => ~Unmade(p)
<1>0. TypeOK /\ Planned /\ Boot \notin Handlers
  BY SessionAssumption DEF SInv
<1>1. PICK list \in ListsOf(p) \ {LLoad, LList, LLoadBoot} :
        Plan(p, list) /\ UNCHANGED upd /\ steps[p] # Nothing
  <2>1. CASE LoadCached(p)
    <3>1. LList \notin HandlerLists /\ LLoadBoot \notin HandlerLists /\ LLoad # Nothing
      BY ListTable DEF HandlerLists, Recording
    <3> QED
      BY <2>1, <3>1, Loads DEF ListsOf
  <2>2. CASE ~LoadCached(p)
    BY <2>2, Continues DEF After
  <2> QED
    BY <2>1, <2>2
<1>2. steps'[p] = list /\ \A q \in Procs \ {p} : steps'[q] = steps[q]
  BY <1>0, <1>1, Replan
<1>3. p \in Handlers => upd[p] # ""
  BY <1>0, <1>1 DEF Planned
<1>4. ~Unmade(p)'
  BY <1>1, <1>2, <1>3 DEF Unmade
<1>5. \A q \in Procs \ {p} : Unmade(q)' <=> Unmade(q)
  BY <1>1, <1>2 DEF Unmade
<1>6. ASSUME Run(p), ~LoadCached(p) PROVE ~Unmade(p)
  <2>1. PICK st \in Steps \ {"load", "list", "loadBoot"} : At(p, st)
    BY <1>6 DEF Run, Ask, Find, Post, Take, Record, Change, Save, Keep, Store, DeleteState,
                StartRealtime, StopRealtime, At, Steps
  <2>2. First(steps[p]) = st
    BY <2>1 DEF At, First
  <2>3. steps[p] \notin {LLoad, LList, LLoadBoot}
    BY <2>1, <2>2, ListTable
  <2> QED
    BY <1>3, <2>3 DEF Unmade
<1> QED
  BY <1>4, <1>5, <1>6

\* An object is handed on, by the cache, only after its owner has made it.
LEMMA PrivateStep ==
  ASSUME SInv, Next
  PROVE  Private'
<1>0. TypeOK /\ Planned /\ Private /\ Boot \in Procs /\ Boot \notin Handlers /\ None \notin Procs
  BY SessionAssumption DEF SInv, Procs
<1>t. ref \in [Procs -> Procs]
  BY <1>0 DEF TypeOK
<1> SUFFICES ASSUME NEW p \in Procs, Unmade(p)'
             PROVE  cache' # p /\ \A q \in Procs \ {p} : ref'[q] # p
  BY DEF Private
<1>a. Unmade(p) => cache # p /\ \A q \in Procs \ {p} : ref[q] # p
  BY <1>0 DEF Private
<1>1. ASSUME NEW h \in Handlers, Begin(h)
      PROVE  cache' # p /\ \A q \in Procs \ {p} : ref'[q] # p
  <2>1. Unmade(h) /\ upd[h] = "" /\ h # Boot /\ h \in Procs
    BY <1>1, Begins DEF Unmade
  <2>2. \A q \in Procs \ {h} : upd'[q] = upd[q] /\ steps'[q] = steps[q]
    BY <1>0, <1>1, <2>1, Begins, Replan DEF ListsOf
  <2>3. Unmade(p)
    BY <2>1, <2>2 DEF Unmade
  <2>4. UNCHANGED <<cache, ref>>
    BY <1>1 DEF Begin
  <2> QED
    BY <1>a, <2>3, <2>4
<1>2. ASSUME NEW q \in Procs, Run(q) \/ Fails(q)
      PROVE  cache' # p /\ \A r \in Procs \ {p} : ref'[r] # p
  <2>1. p # q /\ Unmade(p)
    BY <1>2, MadeByStep
  <2>2. cache # p /\ \A r \in Procs \ {p} : ref[r] # p
    BY <1>a, <2>1
  <2>3. cache' \in {cache, None, q, ref[q]}
    BY <1>2 DEF Run, LoadCached, Ask, Find, Post, Take, Record, Change, Save, Keep, Store, DeleteState,
                StartRealtime, StopRealtime, Fails, objVars
  <2>4. cache' # p
    BY <1>0, <2>1, <2>2, <2>3
  <2>5. UNCHANGED ref \/ ref' = [ref EXCEPT ![q] = cache']
    BY <1>2 DEF Run, LoadCached, Ask, Find, Post, Take, Record, Change, Save, Keep, Store, DeleteState,
                StartRealtime, StopRealtime, Fails, objVars
  <2> QED
    BY <1>t, <2>2, <2>4, <2>5
<1>3. CASE ListIDs \/ LoadBoot
  <2>1. PICK list \in {Nothing, LLoadBoot, SaveStart} :
          /\ Plan(Boot, list) /\ UNCHANGED upd
          /\ ListIDs => steps[Boot] = LList
          /\ LoadBoot => steps[Boot] = LLoadBoot /\ list # LLoadBoot
    BY <1>3, Boots
  <2>2. steps'[Boot] = list /\ \A r \in Procs \ {Boot} : steps'[r] = steps[r]
    BY <1>0, <2>1, Replan DEF ListsOf, BootLists
  <2>3. Unmade(p) /\ (LoadBoot => p # Boot)
    <3>1. Nothing \notin {LList, LLoadBoot} /\ SaveStart \notin {LList, LLoadBoot}
      BY ListTable
    <3> QED
      BY <1>0, <1>3, <2>1, <2>2, <3>1 DEF Unmade
  <2>4. /\ UNCHANGED cache
        /\ UNCHANGED ref \/ (LoadBoot /\ ref' = [ref EXCEPT ![Boot] = Boot])
    BY <1>3 DEF ListIDs, LoadBoot, objVars
  <2> QED
    BY <1>0, <1>t, <1>a, <2>3, <2>4
<1>4. CASE Close \/ StopListening \/ StartReturns
           \/ \E q \in Procs : LoopRecords(q) \/ LoopEnds(q) \/ LoopCloses(q)
  <2>1. UNCHANGED <<cache, ref, steps, upd>>
    BY <1>4 DEF Close, StopListening, StartReturns, LoopRecords, LoopEnds, LoopCloses, objVars
  <2> QED
    BY <1>a, <2>1 DEF Unmade
<1>5. CASE Restart
  BY <1>0, <1>5 DEF Restart
<1> QED
  BY <1>1, <1>2, <1>3, <1>4, <1>5 DEF Next

\* Between the login and the save nobody replaces the object of the user: what
\* others change in it leaves the token.
LEMMA TokenKeptStep ==
  ASSUME SInv, Next
  PROVE  TokenKept'
<1>0. /\ TypeOK /\ Planned /\ Private /\ TokenKept
      /\ Boot \in Procs /\ Boot \notin Handlers /\ None \notin Procs
  BY SessionAssumption DEF SInv, Procs
<1>t. heap \in [Procs -> State] /\ ref \in [Procs -> Procs]
  BY <1>0 DEF TypeOK
<1> SUFFICES ASSUME NEW h \in Handlers, steps'[h] \in {SaveStart, StoreStart}
             PROVE  heap'[ref'[h]].auth
  BY DEF TokenKept, Mine
<1>h. h \in Procs /\ h # Boot
  BY <1>0 DEF Procs
<1>a. steps[h] \in {SaveStart, StoreStart} => heap[ref[h]].auth
  BY <1>0 DEF TokenKept, Mine
<1>1. ASSUME NEW g \in Handlers, Begin(g) PROVE heap'[ref'[h]].auth
  <2>1. g \in Procs /\ Unmade(g) /\ g # Boot
    BY <1>1, Begins DEF Unmade
  <2>2. PICK list \in HandlerLists \ {LPost, SaveStart, StoreStart, LStart} :
          Plan(g, list) /\ (UNCHANGED heap \/ heap' = [heap EXCEPT ![g] = disk])
    BY <1>1, Begins
  <2>3. steps'[g] = list /\ \A q \in Procs \ {g} : steps'[q] = steps[q]
    BY <1>0, <2>1, <2>2, Replan DEF ListsOf
  <2>4. h # g /\ steps[h] = steps'[h]
    BY <1>h, <2>2, <2>3
  <2>5. ref[h] # g /\ UNCHANGED ref
    BY <1>0, <1>1, <1>h, <2>1, <2>4 DEF Private, Begin
  <2> QED
    BY <1>a, <1>t, <1>h, <2>1, <2>2, <2>4, <2>5
<1>2. ASSUME NEW q \in Procs, LoadCached(q) PROVE heap'[ref'[h]].auth
  <2>1. PICK list \in HandlerLists \ {LPost, SaveStart, StoreStart, LStart} : Plan(q, list)
    BY <1>2, Loads
  <2>2. q \in Handlers /\ q # Boot /\ Unmade(q)
    BY <1>2, Loads DEF Unmade
  <2>3. steps'[q] = list /\ \A r \in Procs \ {q} : steps'[r] = steps[r]
    BY <1>0, <2>1, <2>2, Replan DEF ListsOf
  <2>4. h # q /\ steps[h] = steps'[h]
    BY <1>h, <2>1, <2>3
  <2>5. ref[h] # q
    BY <1>0, <1>h, <2>2, <2>4 DEF Private
  <2>6. ref'[h] = ref[h] /\ heap'[ref[h]] = heap[ref[h]]
    BY <1>2, <1>t, <1>h, <2>4, <2>5 DEF LoadCached
  <2> QED
    BY <1>a, <2>4, <2>6
<1>3. ASSUME NEW q \in Procs, Run(q) \/ Fails(q), ~LoadCached(q) PROVE heap'[ref'[h]].auth
  <2>1. PICK list \in After(q) : Plan(q, list)
    BY <1>3, Continues
  <2>2. steps'[q] = list /\ \A r \in Procs \ {q} : steps'[r] = steps[r]
    BY <1>0, <2>1, Replan DEF After
  <2>3. /\ h # q => steps[h] = steps'[h]
        /\ h = q => steps[h] \in {LLogin, SaveStart}
    BY <1>h, <2>1, <2>2 DEF After
  <2>4. UNCHANGED ref
    BY <1>3 DEF Run, Ask, Find, Post, Take, Record, Change, Save, Keep, Store, DeleteState,
                StartRealtime, StopRealtime, Fails, objVars
  <2>5. CASE Change(q)
    <3>1. /\ heap' = [heap EXCEPT ![ref[q]] = Changed(q, heap[ref[q]])]
          /\ heap[ref[q]].auth \/ steps[q] = LLogin => Changed(q, heap[ref[q]]).auth
      BY <1>0, <2>5, ChangeTo
    <3>2. CASE ref[h] = ref[q]
      BY <1>t, <1>h, <1>a, <2>3, <2>4, <3>1, <3>2
    <3>3. CASE ref[h] # ref[q]
      BY <1>t, <1>h, <1>a, <2>3, <2>4, <3>1, <3>3
    <3> QED
      BY <3>2, <3>3
  <2>6. CASE ~Change(q)
    <3>1. UNCHANGED heap
      BY <1>3, <2>6 DEF Run, Ask, Find, Post, Take, Record, Save, Keep, Store, DeleteState,
                        StartRealtime, StopRealtime, Fails, objVars
    <3>2. steps[h] # LLogin \/ h # q
      <4>1. PICK st \in Steps \ {"lang", "token", "login", "reply", "clear"} : At(q, st)
        BY <1>3, <2>6 DEF Run, Ask, Find, Post, Take, Record, Save, Keep, Store, DeleteState,
                          StartRealtime, StopRealtime, Fails, At, Steps
      <4>2. First(steps[q]) # "login"
        BY <4>1 DEF At, First
      <4> QED
        BY <4>2, ListTable
    <3> QED
      BY <1>a, <2>3, <2>4, <3>1, <3>2
  <2> QED
    BY <2>5, <2>6
<1>4. CASE ListIDs \/ LoadBoot
  <2>1. PICK list \in {Nothing, LLoadBoot, SaveStart} :
          Plan(Boot, list) /\ (LoadBoot => steps[Boot] = LLoadBoot)
    BY <1>4, Boots
  <2>2. steps'[h] = steps[h]
    BY <1>0, <1>h, <2>1, Replan DEF ListsOf, BootLists
  <2>3. LoadBoot => ref[h] # Boot
    BY <1>0, <1>h, <2>1 DEF Private, Unmade
  <2>4. \/ UNCHANGED heap /\ UNCHANGED ref
        \/ /\ LoadBoot /\ heap' = [heap EXCEPT ![Boot] = Cleared(disk)]
           /\ ref' = [ref EXCEPT ![Boot] = Boot]
    BY <1>4 DEF ListIDs, LoadBoot, objVars
  <2>5. ref'[h] = ref[h] /\ heap'[ref[h]] = heap[ref[h]]
    BY <1>t, <1>h, <2>3, <2>4
  <2> QED
    BY <1>a, <2>2, <2>5
<1>5. CASE Close \/ StopListening \/ StartReturns
           \/ \E q \in Procs : LoopRecords(q) \/ LoopEnds(q) \/ LoopCloses(q)
  <2>1. UNCHANGED <<heap, ref, steps>>
    BY <1>5 DEF Close, StopListening, StartReturns, LoopRecords, LoopEnds, LoopCloses, objVars
  <2> QED
    BY <1>a, <2>1
<1>6. CASE Restart
  <2>1. steps'[h] = Nothing
    BY <1>6, <1>h DEF Restart, Nothing
  <2> QED
    BY <2>1, ListTable
<1> QED
  BY <1>1, <1>2, <1>3, <1>4, <1>5, <1>6 DEF Next, Run

\* A state gets into the store only by its SaveState.
LEMMA StoreSaves ==
  ASSUME Next, ~\E p \in Procs : Store(p)
  PROVE  disk' \in {disk, NoState, Bare, Torn}
<1>1. ASSUME NEW h \in Handlers, Begin(h) PROVE disk' = disk
  BY <1>1 DEF Begin
<1>2. ASSUME NEW p \in Procs, Run(p) PROVE disk' \in {disk, NoState, Bare, Torn}
  BY <1>2 DEF Run, LoadCached, Ask, Find, Post, Take, Record, Change, Save, Keep, DeleteState,
                    StartRealtime, StopRealtime, Made
<1>3. ASSUME NEW p \in Procs, Fails(p) \/ LoopRecords(p) \/ LoopEnds(p) \/ LoopCloses(p)
      PROVE  disk' \in {disk, NoState, Bare, Torn}
  BY <1>3 DEF Fails, Unfinished, LoopRecords, LoopEnds, LoopCloses, Made
<1>4. CASE ListIDs \/ LoadBoot \/ Close \/ StopListening \/ StartReturns \/ Restart
  BY <1>4 DEF ListIDs, LoadBoot, Close, StopListening, StartReturns, Restart, Unfinished, Made
<1> QED
  BY <1>1, <1>2, <1>3, <1>4 DEF Next

\* Two that have worked on one object have done so for ever.
LEMMA CrossedStays ==
  ASSUME Next, ~crossed' PROVE ~crossed
<1>1. ASSUME NEW h \in Handlers, Begin(h) PROVE UNCHANGED crossed
  BY <1>1 DEF Begin, logVars
<1>2. ASSUME NEW p \in Procs, Run(p), ~Change(p) PROVE UNCHANGED crossed
  BY <1>2 DEF Run, LoadCached, Ask, Find, Post, Take, Record, Save, Keep, Store, DeleteState,
              StartRealtime, StopRealtime, logVars
<1>3. ASSUME NEW p \in Procs, Change(p) PROVE crossed => crossed'
  BY <1>3 DEF Change
<1>4. ASSUME NEW p \in Procs, Fails(p) \/ LoopRecords(p) \/ LoopEnds(p) \/ LoopCloses(p)
      PROVE  UNCHANGED crossed
  BY <1>4 DEF Fails, LoopRecords, LoopEnds, LoopCloses, logVars
<1>5. CASE ListIDs \/ LoadBoot \/ Close \/ StopListening \/ StartReturns \/ Restart
  BY <1>5 DEF ListIDs, LoadBoot, Close, StopListening, StartReturns, Restart, logVars
<1> QED
  BY <1>1, <1>2, <1>3, <1>4, <1>5 DEF Next

\* Whoever changes a state changes both fields, or clears both.
LEMMA AllFitStep ==
  ASSUME SInv, Next
  PROVE  AllFit'
<1>0. TypeOK /\ Planned /\ AllFit /\ Boot \in Procs
  BY DEF SInv, Procs
<1>t. heap \in [Procs -> State] /\ ref \in [Procs -> Procs]
  BY <1>0 DEF TypeOK
<1>f. (disk \in State => Fits(disk)) /\ (\A p \in Procs : Fits(heap[p])) /\ CommentFits
  BY <1>0 DEF AllFit
<1>m. NoState \notin State /\ Bare \notin State /\ Torn \notin State
  BY MarksAssumption
<1>n. Fits(NewState)
  BY DEF Fits, NewState
<1>1. disk' \in State => Fits(disk')
  <2>1. ASSUME NEW p \in Procs, Store(p) PROVE disk' \in State => Fits(disk')
    BY <1>t, <1>f, <2>1 DEF Store, Mine
  <2>2. (~\E p \in Procs : Store(p)) => disk' \in {disk, NoState, Bare, Torn}
    BY StoreSaves
  <2> QED
    BY <1>m, <1>f, <2>1, <2>2
<1>2. \A p \in Procs : Fits(heap'[p])
  <2>1. ASSUME NEW h \in Handlers, Begin(h) PROVE \A p \in Procs : Fits(heap'[p])
    <3>1. UNCHANGED heap \/ (disk \in State /\ heap' = [heap EXCEPT ![h] = disk])
      BY <2>1, Begins
    <3> QED
      BY <1>t, <1>f, <3>1
  <2>2. ASSUME NEW p \in Procs, LoadCached(p) PROVE \A q \in Procs : Fits(heap'[q])
    <3>1. UNCHANGED heap \/ heap' = [heap EXCEPT ![p] = NewState]
      BY <2>2 DEF LoadCached
    <3> QED
      BY <1>t, <1>f, <1>n, <3>1
  <2>3. ASSUME NEW p \in Procs, Change(p) PROVE \A q \in Procs : Fits(heap'[q])
    <3>1. /\ heap' = [heap EXCEPT ![ref[p]] = Changed(p, heap[ref[p]])]
          /\ Fits(heap[ref[p]]) => Fits(Changed(p, heap[ref[p]]))
      BY <1>0, <2>3, ChangeTo
    <3> QED
      BY <1>t, <1>f, <3>1
  <2>4. ASSUME NEW p \in Procs, Run(p), ~LoadCached(p), ~Change(p) PROVE UNCHANGED heap
    BY <2>4 DEF Run, Ask, Find, Post, Take, Record, Save, Keep, Store, DeleteState,
                StartRealtime, StopRealtime, objVars
  <2>5. ASSUME NEW p \in Procs, Fails(p) \/ LoopRecords(p) \/ LoopEnds(p) \/ LoopCloses(p)
        PROVE  UNCHANGED heap
    BY <2>5 DEF Fails, LoopRecords, LoopEnds, LoopCloses, objVars
  <2>6. CASE LoadBoot
    <3>1. UNCHANGED heap \/ (disk \in State /\ heap' = [heap EXCEPT ![Boot] = Cleared(disk)])
      BY <2>6 DEF LoadBoot
    <3>2. disk \in State => Fits(Cleared(disk))
      BY ClearedState
    <3> QED
      BY <1>t, <1>f, <3>1, <3>2
  <2>7. CASE ListIDs \/ Close \/ StopListening \/ StartReturns
    <3>1. UNCHANGED heap
      BY <2>7 DEF ListIDs, Close, StopListening, StartReturns, objVars
    <3> QED
      BY <1>f, <3>1
  <2>8. CASE Restart
    BY <1>n, <2>8 DEF Restart
  <2> QED
    BY <1>f, <2>1, <2>2, <2>3, <2>4, <2>5, <2>6, <2>7, <2>8 DEF Next
<1>3. CommentFits'
  <2>1. ASSUME NEW p \in Procs, Post(p) PROVE CommentFits'
    <3>1. Fits(heap[ref[p]])
      BY <1>t, <1>f
    <3>2. ~crossed => heap[ref[p]].react = msg[p]
      BY <1>0, <2>1, ListOf DEF Post, SInv, Looked, Mine
    <3>3. UNCHANGED crossed
      BY <2>1 DEF Post
    <3>4. \/ UNCHANGED posted
          \/ posted' = <<msg[p], heap[ref[p]].prefix>>
      BY <2>1 DEF Post, Mine
    <3> QED
      BY <1>f, <3>1, <3>2, <3>3, <3>4 DEF CommentFits, Fits
  <2>2. ASSUME ~\E p \in Procs : Post(p) PROVE UNCHANGED posted
    <3>1. ASSUME NEW h \in Handlers, Begin(h) PROVE UNCHANGED posted
      BY <3>1 DEF Begin, logVars
    <3>2. ASSUME NEW p \in Procs, Run(p) PROVE UNCHANGED posted
      BY <2>2, <3>2 DEF Run, LoadCached, Ask, Find, Take, Record, Change, Save, Keep, Store, DeleteState,
                        StartRealtime, StopRealtime, logVars
    <3>3. ASSUME NEW p \in Procs, Fails(p) \/ LoopRecords(p) \/ LoopEnds(p) \/ LoopCloses(p)
          PROVE  UNCHANGED posted
      BY <3>3 DEF Fails, LoopRecords, LoopEnds, LoopCloses, logVars
    <3>4. CASE ListIDs \/ LoadBoot \/ Close \/ StopListening \/ StartReturns \/ Restart
      BY <3>4 DEF ListIDs, LoadBoot, Close, StopListening, StartReturns, Restart, logVars
    <3> QED
      BY <3>1, <3>2, <3>3, <3>4 DEF Next
  <2> QED
    BY <1>f, <2>1, <2>2, CrossedStays DEF CommentFits
<1> QED
  BY <1>1, <1>2, <1>3 DEF AllFit, Fits

\* The list of a comment is left over when the message has been found.
LEMMA PostsFound ==
  ASSUME SInv, NEW p \in Procs, Run(p) \/ Fails(p), ~LoadCached(p), steps'[p] = LPost
  PROVE  Find(p)
<1>0. TypeOK /\ Planned /\ steps[p] \in HandlerLists \union BootLists
  BY DEF SInv, Planned, ListsOf
<1>1. steps[p] # Nothing
  BY Continues
<1>2. \A l : Plan(p, l) => l = LPost
  <2>1. steps \in [Procs -> Seq(Steps)]
    BY <1>0 DEF TypeOK
  <2> QED
    BY <2>1 DEF Plan
<1>3. ~Ask(p)
  BY <1>2, ListTable DEF Ask, LToken, Nothing
<1>4. ~Take(p)
  <2>1. ASSUME Take(p) PROVE steps[p] \in {LTake, TakeClear}
    BY <1>0, <2>1, ListOf DEF Take
  <2>2. ASSUME Take(p) PROVE Tail(steps[p]) \in {Nothing, ClearStore}
    BY <2>1, <2>2, ListTable DEF Rest
  <2>3. ASSUME Take(p)
        PROVE  \E l \in {Nothing, ClearStore, LRecord, ClearStoreRecord} : Plan(p, l)
    <3>1. \/ Plan(p, Tail(steps[p]) \o <<>>) \/ Plan(p, Tail(steps[p]) \o <<"record">>)
          \/ Plan(p, Nothing)
      BY <2>3 DEF Take, Nothing
    <3> QED
      BY <2>2, <2>3, <3>1, Joined
  <2> QED
    BY <1>2, <2>3, ListTable
<1>5. ~Save(p)
  <2>1. ASSUME Save(p) PROVE steps[p] \in {LSave, SaveAsk, SaveStart}
    BY <1>0, <2>1, ListOf DEF Save
  <2>2. ASSUME Save(p) PROVE Tail(steps[p]) \in {Nothing, LAsk, LStart}
    BY <2>1, <2>2, ListTable DEF Rest
  <2>3. ASSUME Save(p)
        PROVE  \E l \in {LStore, StoreAsk, StoreStart, LKeep, KeepAsk, KeepStart} : Plan(p, l)
    <3>1. Plan(p, <<"store">> \o Tail(steps[p])) \/ Plan(p, <<"keep">> \o Tail(steps[p]))
      BY <2>3 DEF Save
    <3> QED
      BY <2>2, <2>3, <3>1, Joined
  <2> QED
    BY <1>2, <2>3, ListTable
<1>6. Plan(p, Rest(steps[p])) \/ Plan(p, Nothing)
  BY <1>3, <1>4, <1>5 DEF Run, Find, Post, Record, Change, Keep, Store, DeleteState,
     StartRealtime, StopRealtime, Fails, Go, Rest, Nothing
<1>7. Rest(steps[p]) = LPost
  BY <1>2, <1>6, ListTable
<1>8. steps[p] = LFind
  BY <1>0, <1>1, <1>7, RestOf
<1>9. First(steps[p]) = "find"
  BY <1>8, ListTable
<1>10. ~Fails(p)
  BY <1>9 DEF Fails, At, First
<1> QED
  BY <1>3, <1>4, <1>5, <1>9, <1>10
  DEF Run, Post, Record, Change, Keep, Store, DeleteState, StartRealtime, StopRealtime, At, First

\* Between the look at the record and the comment nobody changes the state but
\* one who shares it.
LEMMA LookedStep ==
  ASSUME SInv, Next
  PROVE  Looked'
<1>0. /\ TypeOK /\ Planned /\ Private /\ Looked
      /\ Boot \in Procs /\ Boot \notin Handlers /\ None \notin Procs
  BY SessionAssumption DEF SInv, Procs
<1>t. /\ heap \in [Procs -> State] /\ ref \in [Procs -> Procs]
      /\ msg \in [Procs -> Msgs \union {NoMsg}]
  BY <1>0 DEF TypeOK
<1> SUFFICES ASSUME NEW p \in Procs, steps'[p] = LPost
             PROVE  msg'[p] \in Msgs /\ (~crossed' => heap'[ref'[p]].react = msg'[p])
  BY DEF Looked, Mine
<1>a. steps[p] = LPost => msg[p] \in Msgs /\ (~crossed => heap[ref[p]].react = msg[p])
  BY <1>0 DEF Looked, Mine
<1>c. ~crossed' => ~crossed
  BY CrossedStays
<1> DEFINE Goal == msg'[p] \in Msgs /\ (~crossed' => heap'[ref'[p]].react = msg'[p])
<1>1. ASSUME NEW h \in Handlers, Begin(h) PROVE Goal
  <2>1. h \in Procs /\ Unmade(h) /\ h # Boot
    BY <1>1, Begins DEF Unmade
  <2>2. PICK list \in HandlerLists \ {LPost, SaveStart, StoreStart, LStart} :
          Plan(h, list) /\ (UNCHANGED heap \/ heap' = [heap EXCEPT ![h] = disk])
    BY <1>1, Begins
  <2>3. steps'[h] = list /\ \A q \in Procs \ {h} : steps'[q] = steps[q]
    BY <1>0, <2>1, <2>2, Replan DEF ListsOf
  <2>4. p # h /\ steps[p] = LPost
    BY <2>2, <2>3
  <2>5. ref[p] # h /\ UNCHANGED ref
    BY <1>0, <1>1, <2>1, <2>4 DEF Private, Begin
  <2>6. PICK m \in Msgs \union {NoMsg} : msg' = [msg EXCEPT ![h] = m]
    BY <1>1 DEF Begin
  <2>7. msg'[p] = msg[p] /\ heap'[ref'[p]] = heap[ref[p]]
    BY <1>t, <2>1, <2>2, <2>4, <2>5, <2>6
  <2> QED
    BY <1>a, <1>c, <2>4, <2>7
<1>2. ASSUME NEW q \in Procs, LoadCached(q) PROVE Goal
  <2>1. PICK list \in HandlerLists \ {LLoad, LPost, SaveStart, StoreStart, LStart} : Plan(q, list)
    BY <1>2, Loads
  <2>2. q \in Handlers /\ q # Boot /\ Unmade(q)
    BY <1>2, Loads DEF Unmade
  <2>3. steps'[q] = list /\ \A r \in Procs \ {q} : steps'[r] = steps[r]
    BY <1>0, <2>1, <2>2, Replan DEF ListsOf
  <2>4. p # q /\ steps[p] = LPost
    BY <2>1, <2>3
  <2>5. ref[p] # q
    BY <1>0, <2>2, <2>4 DEF Private
  <2>6. ref'[p] = ref[p] /\ heap'[ref[p]] = heap[ref[p]] /\ UNCHANGED msg
    BY <1>2, <1>t, <2>4, <2>5 DEF LoadCached
  <2> QED
    BY <1>a, <1>c, <2>4, <2>6
<1>3. ASSUME NEW q \in Procs, Run(q) \/ Fails(q), ~LoadCached(q), q # p PROVE Goal
  <2>1. PICK list \in After(q) : Plan(q, list)
    BY <1>3, Continues
  <2>2. steps[p] = LPost
    BY <1>0, <1>3, <2>1, Replan DEF After
  <2>3. UNCHANGED ref
    BY <1>3 DEF Run, Ask, Find, Post, Take, Record, Change, Save, Keep, Store, DeleteState,
                StartRealtime, StopRealtime, Fails, objVars
  <2>4. msg'[p] = msg[p]
    BY <1>3, <1>t DEF Run, Ask, Find, Post, Take, Record, Change, Save, Keep, Store, DeleteState,
                StartRealtime, StopRealtime, Fails
  <2>5. CASE Change(q)
    <3>1. heap' = [heap EXCEPT ![ref[q]] = Changed(q, heap[ref[q]])]
      BY <1>0, <2>5, ChangeTo
    <3>2. steps[p] # <<>>
      BY <2>2, ListTable DEF Nothing
    <3>3. ref[q] = ref[p] => crossed'
      BY <1>3, <2>5, <3>2 DEF Change
    <3>4. ref[q] # ref[p] => heap'[ref[p]] = heap[ref[p]]
      BY <1>t, <3>1
    <3> QED
      BY <1>a, <1>c, <2>2, <2>3, <2>4, <3>3, <3>4
  <2>6. CASE ~Change(q)
    <3>1. UNCHANGED heap
      BY <1>3, <2>6 DEF Run, Ask, Find, Post, Take, Record, Save, Keep, Store, DeleteState,
                        StartRealtime, StopRealtime, Fails, objVars
    <3> QED
      BY <1>a, <1>c, <2>2, <2>3, <2>4, <3>1
  <2> QED
    BY <2>5, <2>6
<1>4. ASSUME Run(p) \/ Fails(p), ~LoadCached(p) PROVE Goal
  <2>1. Find(p)
    BY <1>4, PostsFound
  <2>2. UNCHANGED <<heap, ref>>
    BY <2>1 DEF Find, objVars
  <2>3. Nothing # LPost
    BY ListTable
  <2>4. ~Plan(p, Nothing)
    <3>1. steps \in [Procs -> Seq(Steps)]
      BY <1>0 DEF TypeOK
    <3> QED
      BY <2>3, <3>1 DEF Plan
  <2>5. heap[ref[p]].react # NoMsg /\ msg' = [msg EXCEPT ![p] = heap[ref[p]].react]
    BY <2>1, <2>4 DEF Find, Mine, Nothing
  <2>6. heap[ref[p]].react \in Msgs
    BY <1>t, <2>5 DEF State
  <2> QED
    BY <1>t, <2>2, <2>5, <2>6
<1>5. CASE ListIDs \/ LoadBoot
  <2>1. PICK list \in {Nothing, LLoadBoot, SaveStart} :
          Plan(Boot, list) /\ (LoadBoot => steps[Boot] = LLoadBoot)
    BY <1>5, Boots
  <2>2. steps'[Boot] = list /\ \A r \in Procs \ {Boot} : steps'[r] = steps[r]
    BY <1>0, <2>1, Replan DEF ListsOf, BootLists
  <2>3. p # Boot /\ steps[p] = LPost
    BY <2>1, <2>2, ListTable
  <2>4. LoadBoot => ref[p] # Boot
    BY <1>0, <2>1, <2>3 DEF Private, Unmade
  <2>5. /\ UNCHANGED msg
        /\ \/ UNCHANGED heap /\ UNCHANGED ref
           \/ /\ LoadBoot /\ heap' = [heap EXCEPT ![Boot] = Cleared(disk)]
              /\ ref' = [ref EXCEPT ![Boot] = Boot]
    BY <1>5 DEF ListIDs, LoadBoot, objVars
  <2>6. ref'[p] = ref[p] /\ heap'[ref[p]] = heap[ref[p]]
    BY <1>t, <2>3, <2>4, <2>5
  <2> QED
    BY <1>a, <1>c, <2>3, <2>5, <2>6
<1>6. CASE Close \/ StopListening \/ StartReturns
           \/ \E q \in Procs : LoopRecords(q) \/ LoopEnds(q) \/ LoopCloses(q)
  <2>1. UNCHANGED <<heap, ref, steps, msg>>
    BY <1>6 DEF Close, StopListening, StartReturns, LoopRecords, LoopEnds, LoopCloses, objVars
  <2> QED
    BY <1>a, <1>c, <2>1
<1>7. CASE Restart
  <2>1. steps'[p] \in {LList, Nothing}
    BY <1>7 DEF Restart, LList, Nothing
  <2> QED
    BY <2>1, ListTable
<1> QED
  BY <1>1, <1>2, <1>3, <1>4, <1>5, <1>6, <1>7 DEF Next

\* A connection is opened and registered in one step, closed and taken out in
\* one step.
LEMMA RegisteredStep ==
  ASSUME SInv, Next
  PROVE  Registered'
<1>0. TypeOK /\ Registered /\ Boot \in Procs /\ None \notin Procs
  BY SessionAssumption DEF SInv, Procs
<1>t. /\ link \in [Procs -> {"new", "open", "closed"}]
      /\ loops \in [Procs -> {"none", "run", "end"}]
      /\ conn \in Procs \union {None}
  BY <1>0 DEF TypeOK
<1>r. /\ \A p \in Procs : link[p] = "open" <=> conn = p
      /\ conn # None => loops[conn] = "run"
  BY <1>0 DEF Registered, RegisteredIsOpen
<1>c. Closed \in [Procs -> {"new", "open", "closed"}] /\ \A p \in Procs : Closed[p] # "open"
  BY <1>t, <1>r DEF Closed
<1>1. ASSUME NEW p \in Procs, StartRealtime(p) PROVE Registered'
  BY <1>0, <1>1, <1>t, <1>c DEF StartRealtime, Registered, RegisteredIsOpen
<1>2. ASSUME NEW p \in Procs, StopRealtime(p) \/ LoopCloses(p) PROVE Registered'
  BY <1>0, <1>2, <1>t, <1>c DEF StopRealtime, LoopCloses, Registered, RegisteredIsOpen
<1>3. ASSUME NEW p \in Procs, LoopEnds(p) PROVE Registered'
  <2>1. conn # p /\ UNCHANGED <<link, conn>> /\ loops' = [loops EXCEPT ![p] = "end"]
    BY <1>3, <1>r DEF LoopEnds
  <2> QED
    BY <1>t, <1>r, <2>1 DEF Registered, RegisteredIsOpen
<1>4. CASE Restart
  BY <1>0, <1>4 DEF Restart, Registered, RegisteredIsOpen
<1>5. ASSUME UNCHANGED rtVars PROVE Registered'
  BY <1>r, <1>5 DEF rtVars, Registered, RegisteredIsOpen
<1>6. ASSUME NEW h \in Handlers, Begin(h) PROVE UNCHANGED rtVars
  BY <1>6 DEF Begin
<1>7. ASSUME NEW p \in Procs, Run(p), ~StartRealtime(p), ~StopRealtime(p) PROVE UNCHANGED rtVars
  BY <1>7 DEF Run, LoadCached, Ask, Find, Post, Take, Record, Change, Save, Keep, Store, DeleteState
<1>8. ASSUME NEW p \in Procs, Fails(p) \/ LoopRecords(p) PROVE UNCHANGED rtVars
  BY <1>8 DEF Fails, LoopRecords
<1>9. CASE ListIDs \/ LoadBoot \/ Close \/ StopListening \/ StartReturns
  BY <1>5, <1>9 DEF ListIDs, LoadBoot, Close, StopListening, StartReturns
<1> QED
  BY <1>1, <1>2, <1>3, <1>4, <1>5, <1>6, <1>7, <1>8, <1>9 DEF Next

\* App.Start ends early only when it fails, or finds a directory without a state.
LEMMA EndingStep ==
  ASSUME SInv, Next
  PROVE  Ending'
<1>0. TypeOK /\ Planned /\ Undisturbed /\ Ending /\ Boot \in Procs
  BY DEF SInv, Procs
<1>e. /\ ~listening => closing
      /\ ~up /\ ~closing => removed # "never" \/ failed > 0
      /\ failed \in Nat /\ removed \in {"never", "yes", "back"}
  <2>1. failed \in 0 .. MaxErrors /\ removed \in {"never", "yes", "back"}
    BY <1>0 DEF TypeOK
  <2>2. failed \in Nat
    BY <2>1
  <2> QED
    BY <1>0, <2>1, <2>2 DEF Ending, EndsOnlyByLogout
<1>1. removed # "never" => removed' # "never"
  <2>1. ASSUME NEW p \in Procs, Run(p) PROVE removed' \in {removed, "yes", "back"}
    BY <2>1 DEF Run, LoadCached, Ask, Find, Post, Take, Record, Change, Save, Keep, Store, DeleteState,
                StartRealtime, StopRealtime, logVars
  <2>2. ASSUME ~\E p \in Procs : Run(p) PROVE UNCHANGED removed
    BY <2>2 DEF Next, Begin, Fails, LoopRecords, LoopEnds, LoopCloses, ListIDs, LoadBoot, Close,
                StopListening, StartReturns, Restart, logVars
  <2> QED
    BY <2>1, <2>2
<1>2. failed' = failed \/ failed' = failed + 1
  <2>1. ASSUME NEW p \in Procs, Run(p) PROVE UNCHANGED failed
    BY <2>1 DEF Run, LoadCached, Ask, Find, Post, Take, Record, Change, Save, Keep, Store, DeleteState,
                StartRealtime, StopRealtime, logVars
  <2>2. ASSUME ~\E p \in Procs : Run(p) PROVE failed' = failed \/ failed' = failed + 1
    BY <2>2 DEF Next, Begin, Fails, LoopRecords, LoopEnds, LoopCloses, ListIDs, LoadBoot, Close,
                StopListening, StartReturns, Restart, logVars
  <2> QED
    BY <2>1, <2>2
<1>3. CASE UNCHANGED appVars
  BY <1>e, <1>1, <1>2, <1>3 DEF appVars, Ending, EndsOnlyByLogout
<1>4. ASSUME NEW p \in Procs, Fails(p) PROVE Ending'
  <2>1. failed' = failed + 1 /\ UNCHANGED <<listening, closing>>
    BY <1>4 DEF Fails
  <2> QED
    BY <1>e, <2>1 DEF Ending, EndsOnlyByLogout
<1>5. CASE LoadBoot
  <2>1. UNCHANGED <<listening, closing, removed, failed>> /\ up
    BY <1>5 DEF LoadBoot, logVars, At
  <2>2. steps[Boot] = LLoadBoot
    BY <1>5, Boots
  <2>3. LLoadBoot \notin {Nothing, LList}
    BY ListTable
  <2>4. disk \in State \/ ~Clean
    BY <1>0, <2>2, <2>3, <1>5 DEF Undisturbed
  <2>5. disk \in State => up'
    BY <1>5, <2>1 DEF LoadBoot
  <2> QED
    BY <1>e, <2>1, <2>4, <2>5 DEF Ending, EndsOnlyByLogout, Clean
<1>6. CASE Close \/ StopListening \/ StartReturns \/ Restart
  BY <1>e, <1>6 DEF Close, StopListening, StartReturns, Restart, Ending, EndsOnlyByLogout
<1>7. ASSUME NEW p \in Procs, Run(p) \/ LoopRecords(p) \/ LoopEnds(p) \/ LoopCloses(p)
      PROVE  UNCHANGED appVars
  BY <1>7 DEF Run, LoadCached, Ask, Find, Post, Take, Record, Change, Save, Keep, Store, DeleteState,
              StartRealtime, StopRealtime, LoopRecords, LoopEnds, LoopCloses
<1>8. ASSUME NEW h \in Handlers, Begin(h) PROVE UNCHANGED appVars
  BY <1>8 DEF Begin
<1>9. ASSUME ListIDs PROVE UNCHANGED appVars
  BY <1>9 DEF ListIDs
<1> QED
  BY <1>3, <1>4, <1>5, <1>6, <1>7, <1>8, <1>9 DEF Next

\* Who records messages had a directory when he loaded the state, and nobody
\* removes it while nobody logs out.
LEMMA UndisturbedStep ==
  ASSUME SInv, Next
  PROVE  Undisturbed'
<1>0. TypeOK /\ Planned /\ TypeOK' /\ Undisturbed /\ Boot \in Procs /\ Boot \notin Handlers
  BY TypeStep, SessionAssumption DEF SInv, Procs
<1>t. /\ heap \in [Procs -> State] /\ ref \in [Procs -> Procs]
      /\ loops \in [Procs -> {"none", "run", "end"}]
  BY <1>0 DEF TypeOK
<1>m. NoState \notin State /\ Bare \notin State /\ Torn \notin State
  BY MarksAssumption
<1> SUFFICES ASSUME Clean' PROVE
      /\ disk' \in State \union {NoState}
      /\ disk' = NoState =>
           /\ steps'[Boot] \in {Nothing, LList}
           /\ \A p \in Procs : /\ loops'[p] # "run"
                               /\ heap'[p].expect # "comment"
                               /\ steps'[p] \notin Recording \union {LStart}
  BY DEF Undisturbed
<1> DEFINE Idle == /\ steps[Boot] \in {Nothing, LList}
                   /\ \A p \in Procs : /\ loops[p] # "run"
                                       /\ heap[p].expect # "comment"
                                       /\ steps[p] \notin Recording \union {LStart}
<1>1. CASE Restart
  <2>0. failed \in Nat
    <3>1. failed \in 0 .. MaxErrors
      BY <1>0 DEF TypeOK
    <3> QED
      BY <3>1
  <2>1. /\ disk' = disk /\ removed' = removed /\ failed' = failed
        /\ steps' = [p \in Procs |-> IF p = Boot THEN LList ELSE Nothing]
        /\ loops' = [p \in Procs |-> "none"] /\ heap' = [p \in Procs |-> NewState]
    BY <1>1, <2>0 DEF Restart, Clean, LList, Nothing
  <2>2. disk \in State \union {NoState}
    BY <1>0, <2>1 DEF Undisturbed, Clean
  <2>3. {LList, Nothing} \cap (Recording \union {LStart}) = {}
    BY ListTable DEF Recording
  <2>4. NewState.expect # "comment"
    BY DEF NewState
  <2> QED
    BY <1>0, <2>1, <2>2, <2>3, <2>4
<1>2. CASE ~Restart
  <2>1. Clean /\ UNCHANGED failed /\ ~\E p \in Procs : DeleteState(p) \/ Fails(p)
    <3>1. failed \in Nat
      <4>1. failed \in 0 .. MaxErrors
        BY <1>0 DEF TypeOK
      <4> QED
        BY <4>1
    <3>2. ~\E p \in Procs : DeleteState(p) \/ Fails(p)
      BY <3>1 DEF Clean, DeleteState, Fails
    <3>3. ASSUME NEW p \in Procs, Run(p) PROVE UNCHANGED failed /\ (removed = removed' \/ removed' = "back")
      BY <3>2, <3>3 DEF Run, LoadCached, Ask, Find, Post, Take, Record, Change, Save, Keep, Store,
                  StartRealtime, StopRealtime, logVars
    <3>4. ASSUME ~\E p \in Procs : Run(p) PROVE UNCHANGED <<failed, removed>>
      BY <1>2, <3>2, <3>4 DEF Next, Begin, LoopRecords, LoopEnds, LoopCloses, ListIDs, LoadBoot, Close,
                  StopListening, StartReturns, logVars
    <3> QED
      BY <3>2, <3>3, <3>4 DEF Clean
  <2>2. disk \in State \/ (disk = NoState /\ Idle)
    BY <1>0, <2>1 DEF Undisturbed
  <2> HIDE DEF Idle
  \* Nobody makes a directory but by saving a state.
  <2>3. disk' = disk \/ disk' \in State
    <3>1. ASSUME NEW p \in Procs, Record(p), disk = NoState PROVE FALSE
      <4>1. steps[p] \in {LRecord, RecordClear}
        BY <1>0, <3>1, ListOf DEF Record
      <4> QED
        BY <1>m, <2>2, <3>1, <4>1 DEF Idle, Recording
    <3>2. ASSUME NEW p \in Procs, LoopRecords(p) PROVE FALSE
      BY <1>m, <2>2, <3>2 DEF LoopRecords, Idle
    <3>3. ASSUME NEW p \in Procs, Record(p) PROVE disk' = disk
      BY <3>1, <3>3 DEF Record, Made
    <3>4. ASSUME NEW p \in Procs, Store(p) PROVE disk' \in State
      BY <1>t, <3>4 DEF Store, Mine
    <3>5. ASSUME NEW p \in Procs, Run(p), ~Record(p), ~Store(p) PROVE disk' = disk
      BY <2>1, <3>5 DEF Run, LoadCached, Ask, Find, Post, Take, Change, Save, Keep,
                        StartRealtime, StopRealtime
    <3>6. ASSUME ~\E p \in Procs : Run(p) PROVE disk' = disk
      BY <1>2, <2>1, <3>2, <3>6 DEF Next, Begin, LoopEnds, LoopCloses, ListIDs, LoadBoot, Close,
                  StopListening, StartReturns
    <3> QED
      BY <3>3, <3>4, <3>5, <3>6
  <2>4. disk' \in State \union {NoState}
    BY <2>2, <2>3
  <2> SUFFICES ASSUME disk' = NoState
               PROVE  /\ steps'[Boot] \in {Nothing, LList}
                      /\ \A p \in Procs : /\ loops'[p] # "run"
                                          /\ heap'[p].expect # "comment"
                                          /\ steps'[p] \notin Recording \union {LStart}
    BY <2>4
  <2>5. disk = NoState /\ disk \notin State /\ Idle
    BY <1>m, <2>2, <2>3
  <2>i. /\ steps[Boot] \in {Nothing, LList}
        /\ \A p \in Procs : /\ loops[p] # "run"
                            /\ heap[p].expect # "comment"
                            /\ steps[p] \notin Recording \union {LStart}
    BY <2>5 DEF Idle
  <2>6. ASSUME NEW p \in Procs, NEW list \in ListsOf(p), Plan(p, list),
               list \notin Recording \union {LStart}, p = Boot => list \in {Nothing, LList}
        PROVE  /\ steps'[Boot] \in {Nothing, LList}
               /\ \A q \in Procs : steps'[q] \notin Recording \union {LStart}
    <3>1. steps'[p] = list /\ \A q \in Procs \ {p} : steps'[q] = steps[q]
      BY <1>0, <2>6, Replan
    <3> QED
      BY <1>0, <2>i, <2>6, <3>1
  <2>7. ASSUME NEW h \in Handlers, Begin(h)
        PROVE  /\ steps'[Boot] \in {Nothing, LList}
               /\ \A p \in Procs : /\ loops'[p] # "run"
                                   /\ heap'[p].expect # "comment"
                                   /\ steps'[p] \notin Recording \union {LStart}
    <3>1. UNCHANGED <<loops, heap>>
      BY <2>5, <2>7, Begins DEF Begin, rtVars
    <3>2. h \in Procs /\ h # Boot
      BY <2>7, Begins
    <3>3. PICK list \in HandlerLists \ {LPost, SaveStart, StoreStart, LStart} :
            Plan(h, list) /\ list \notin Recording
      BY <2>5, <2>7, Begins
    <3> QED
      BY <2>i, <2>6, <3>1, <3>2, <3>3 DEF ListsOf
  <2>8. ASSUME NEW h \in Procs, LoadCached(h)
        PROVE  /\ steps'[Boot] \in {Nothing, LList}
               /\ \A p \in Procs : /\ loops'[p] # "run"
                                   /\ heap'[p].expect # "comment"
                                   /\ steps'[p] \notin Recording \union {LStart}
    <3>1. UNCHANGED loops /\ (UNCHANGED heap \/ heap' = [heap EXCEPT ![h] = NewState])
      BY <2>8 DEF LoadCached, rtVars
    <3>2. NewState.expect # "comment"
      BY DEF NewState
    <3>3. \A p \in Procs : heap'[p].expect # "comment"
      BY <1>t, <2>i, <3>1, <3>2
    <3>4. h # Boot /\ cache' \in Procs
      BY <1>0, <2>8, Loads DEF LoadCached, TypeOK
    <3>5. PICK list \in HandlerLists \ {LLoad, LPost, SaveStart, StoreStart, LStart} :
            Plan(h, list) /\ list \notin Recording
      BY <2>5, <2>8, <3>3, <3>4, Loads
    <3> QED
      BY <2>i, <2>6, <3>1, <3>3, <3>4, <3>5 DEF ListsOf
  <2>9. ASSUME NEW p \in Procs, Run(p), ~LoadCached(p)
        PROVE  /\ steps'[Boot] \in {Nothing, LList}
               /\ \A q \in Procs : /\ loops'[q] # "run"
                                   /\ heap'[q].expect # "comment"
                                   /\ steps'[q] \notin Recording \union {LStart}
    <3>1. ~Unmade(p)
      BY <2>9, MadeByStep
    <3>2. PICK list \in After(p) : Plan(p, list) /\ steps[p] # Nothing
      BY <2>9, Continues
    <3>3. p # Boot
      BY <2>i, <3>1, <3>2 DEF Unmade
    <3>4. ~Store(p)
      BY <1>m, <1>t, <2>9 DEF Store, Mine
    <3>5. ~StartRealtime(p)
      BY <1>0, <2>i, ListOf DEF StartRealtime
    <3>6. list \notin Recording
      BY <2>i, <2>5, <3>2 DEF After
    <3>7. list # LStart
      <4>1. CASE Save(p)
        <5>1. Plan(p, <<"store">> \o Tail(steps[p])) \/ Plan(p, <<"keep">> \o Tail(steps[p]))
          BY <4>1 DEF Save
        <5>2. steps[p] \in {LSave, SaveAsk, SaveStart}
          BY <1>0, <4>1, ListOf DEF Save
        <5>3. Tail(steps[p]) \in {Nothing, LAsk, LStart}
          BY <5>2, ListTable DEF Rest
        <5>4. /\ <<"store">> \o Tail(steps[p]) \in {LStore, StoreAsk, StoreStart}
              /\ <<"keep">> \o Tail(steps[p]) \in {LKeep, KeepAsk, KeepStart}
          BY <5>3, Joined
        <5>5. LStart \notin {LStore, StoreAsk, StoreStart, LKeep, KeepAsk, KeepStart}
          BY ListTable
        <5>6. steps'[p] = list /\ steps' = [steps EXCEPT ![p] = list]
          BY <1>0, <3>2, Replan DEF After, Plan
        <5>7. steps'[p] \in {LStore, StoreAsk, StoreStart, LKeep, KeepAsk, KeepStart}
          <6>1. steps \in [Procs -> Seq(Steps)]
            BY <1>0 DEF TypeOK
          <6> QED
            BY <5>1, <5>4, <6>1 DEF Plan
        <5> QED
          BY <5>5, <5>6, <5>7
      <4>2. CASE ~Save(p)
        <5>1. list = LStart => steps[p] \in {SaveStart, StoreStart, KeepStart}
          BY <3>2 DEF After
        <5>2. steps[p] # KeepStart
          <6>1. steps[p] \in HandlerLists
            BY <1>0, <3>3 DEF Planned, ListsOf
          <6> QED
            BY <6>1, ListTable DEF HandlerLists, Recording
        <5>3. PICK st \in Steps \ {"save", "store"} : At(p, st)
          BY <2>9, <3>4, <4>2 DEF Run, Ask, Find, Post, Take, Record, Change, Keep, DeleteState,
                    StartRealtime, StopRealtime, At, Steps
        <5>4. First(steps[p]) \notin {"save", "store"}
          BY <5>3 DEF At, First
        <5> QED
          BY <5>1, <5>2, <5>4, ListTable
      <4> QED
        BY <4>1, <4>2
    <3>8. UNCHANGED loops
      BY <2>9, <3>5 DEF Run, Ask, Find, Post, Take, Record, Change, Save, Keep, Store, DeleteState,
                        StopRealtime, rtVars
    <3>9. \A q \in Procs : heap'[q].expect # "comment"
      <4>1. CASE Change(p)
        <5>1. /\ heap' = [heap EXCEPT ![ref[p]] = Changed(p, heap[ref[p]])]
              /\ Changed(p, heap[ref[p]]).expect = "comment" =>
                   heap[ref[p]].expect = "comment" \/ steps[p] = ReplySave
          BY <1>0, <4>1, ChangeTo
        <5>2. Changed(p, heap[ref[p]]).expect # "comment"
          BY <1>t, <2>i, <5>1 DEF Recording
        <5> QED
          BY <1>t, <2>i, <5>1, <5>2
      <4>2. CASE ~Change(p)
        <5>1. UNCHANGED heap
          BY <2>9, <4>2 DEF Run, Ask, Find, Post, Take, Record, Save, Keep, Store, DeleteState,
                            StartRealtime, StopRealtime, objVars
        <5> QED
          BY <2>i, <5>1
      <4> QED
        BY <4>1, <4>2
    <3>10. list \in ListsOf(p)
      BY DEF After
    <3>11. /\ steps'[Boot] \in {Nothing, LList}
           /\ \A q \in Procs : steps'[q] \notin Recording \union {LStart}
      BY <2>6, <3>2, <3>3, <3>6, <3>7, <3>10
    <3> QED
      BY <2>i, <3>8, <3>9, <3>11
  <2>10. CASE ListIDs \/ LoadBoot
    <3>1. PICK list \in {Nothing, LLoadBoot, SaveStart} :
            /\ Plan(Boot, list)
            /\ ListIDs => (list = Nothing <=> disk = NoState)
            /\ LoadBoot => steps[Boot] = LLoadBoot
      BY <2>10, Boots
    <3>2. LLoadBoot \notin {Nothing, LList} /\ Nothing \notin Recording \union {LStart}
      BY ListTable DEF Recording
    <3>3. ListIDs /\ list = Nothing
      BY <2>i, <2>5, <2>10, <3>1, <3>2
    <3>4. UNCHANGED <<loops, heap>>
      BY <3>3 DEF ListIDs, objVars, rtVars
    <3>5. Nothing \in ListsOf(Boot)
      BY DEF ListsOf, BootLists
    <3> QED
      BY <1>0, <2>i, <2>6, <3>1, <3>2, <3>3, <3>4, <3>5
  <2>11. ASSUME NEW p \in Procs, LoopRecords(p) \/ LoopEnds(p) \/ LoopCloses(p) PROVE FALSE
    BY <2>i, <2>11 DEF LoopRecords, LoopEnds, LoopCloses
  <2>12. CASE Close \/ StopListening \/ StartReturns
    <3>1. UNCHANGED <<steps, loops, heap>>
      BY <2>12 DEF Close, StopListening, StartReturns, objVars, rtVars
    <3> QED
      BY <2>i, <3>1
  <2> QED
    BY <1>2, <2>1, <2>7, <2>8, <2>9, <2>10, <2>11, <2>12 DEF Next
<1> QED
  BY <1>1, <1>2

\* Somebody will open a connection, or remove the state.
Soon == \/ steps[Boot] # Nothing
        \/ \E p \in Procs : steps[p] = LStart \/ steps[p] = LDelete

\* The same in terms of lists.
LEMMA DeafIsSoon ==
  ASSUME Planned
  PROVE  DeafIsRevived <=> (up /\ ~closing /\ disk \in State /\ conn = None => revived \/ Soon)
<1>1. ASSUME up, NEW p \in Procs
      PROVE  (At(p, "startRT") \/ At(p, "delete")) <=> steps[p] \in {LStart, LDelete}
  <2>1. At(p, "startRT") => steps[p] = LStart
    BY ListOf
  <2>2. At(p, "delete") => steps[p] = LDelete
    BY ListOf
  <2>3. steps[p] = LStart => At(p, "startRT")
    BY <1>1, ListTable DEF At, First, Nothing
  <2>4. steps[p] = LDelete => At(p, "delete")
    BY <1>1, ListTable DEF At, First, Nothing
  <2> QED
    BY <2>1, <2>2, <2>3, <2>4
<1> QED
  BY <1>1 DEF DeafIsRevived, Soon, Nothing

\* A state appears with a start of a connection behind it, a connection
\* disappears with a removal of the state behind it.
LEMMA DeafStep ==
  ASSUME SInv, Next
  PROVE  DeafIsRevived'
<1>0. /\ TypeOK /\ Planned /\ Planned' /\ Boot \in Procs /\ Boot \notin Handlers
      /\ None \notin Procs
  BY PlanStep, SessionAssumption DEF SInv, Procs
<1>t. heap \in [Procs -> State] /\ ref \in [Procs -> Procs]
  BY <1>0 DEF TypeOK
<1>m. NoState \notin State /\ Bare \notin State /\ Torn \notin State
  BY MarksAssumption
<1>d. up /\ ~closing /\ disk \in State /\ conn = None => revived \/ Soon
  BY <1>0, DeafIsSoon DEF SInv
<1>e. (up /\ ~closing /\ disk \in State /\ conn = None => revived \/ Soon)' => DeafIsRevived'
  <2>1. ASSUME up', NEW p \in Procs, steps'[p] = LStart \/ steps'[p] = LDelete
        PROVE  At(p, "startRT")' \/ At(p, "delete")'
    BY <2>1, ListTable DEF At, First, Nothing
  <2> QED
    BY <2>1 DEF DeafIsRevived, Soon, Nothing
<1> SUFFICES ASSUME up', ~closing', disk' \in State, conn' = None, ~revived'
             PROVE  Soon'
  BY <1>e
\* A goroutine that has such a list keeps it as long as others act.
<1>k. ASSUME NEW p \in Procs, NEW list \in ListsOf(p), Plan(p, list),
             Soon, steps[p] \notin {LStart, LDelete}, p = Boot => list # Nothing
      PROVE  Soon'
  <2>1. steps'[p] = list /\ \A q \in Procs \ {p} : steps'[q] = steps[q]
    BY <1>0, <1>k, Replan
  <2> QED
    BY <1>0, <1>k, <2>1 DEF Soon
<1>1. ASSUME NEW h \in Handlers, Begin(h) PROVE Soon'
  <2>1. up /\ ~closing /\ disk \in State /\ conn = None /\ ~revived
    BY <1>1 DEF Begin, rtVars, appVars, logVars
  <2>2. h \in Procs /\ h # Boot /\ steps[h] = Nothing
    BY <1>1, Begins
  <2>3. PICK list \in HandlerLists : Plan(h, list)
    BY <1>1, Begins
  <2>4. Nothing \notin {LStart, LDelete}
    BY ListTable
  <2> QED
    BY <1>d, <1>k, <2>1, <2>2, <2>3, <2>4 DEF ListsOf
<1>2. ASSUME NEW p \in Procs, LoadCached(p) PROVE Soon'
  <2>1. up /\ ~closing /\ disk \in State /\ conn = None /\ ~revived
    BY <1>2 DEF LoadCached, rtVars, appVars, logVars
  <2>2. p # Boot /\ steps[p] = LLoad
    BY <1>2, Loads
  <2>3. PICK list \in HandlerLists : Plan(p, list)
    BY <1>2, Loads
  <2>4. LLoad \notin {LStart, LDelete}
    BY ListTable
  <2> QED
    BY <1>d, <1>k, <2>1, <2>2, <2>3, <2>4 DEF ListsOf
<1>3. ASSUME NEW p \in Procs, Ask(p) \/ Find(p) \/ Post(p) \/ Take(p) \/ Record(p) \/ Change(p)
                              \/ Save(p) \/ Keep(p)
      PROVE  Soon'
  <2>1. up /\ ~closing /\ disk \in State /\ conn = None /\ ~revived
    <3>1. disk = disk' \/ disk' = Bare
      BY <1>3 DEF Ask, Find, Post, Take, Record, Change, Save, Keep, Made
    <3>2. UNCHANGED <<up, closing, conn, revived>>
      BY <1>3 DEF Ask, Find, Post, Take, Record, Change, Save, Keep, rtVars, appVars, logVars
    <3> QED
      BY <1>m, <3>1, <3>2
  <2>2. Run(p) /\ ~LoadCached(p)
    <3>1. First(steps[p]) # "load"
      BY <1>3 DEF Ask, Find, Post, Take, Record, Change, Save, Keep, At, First
    <3> QED
      BY <1>3, <3>1 DEF Run, LoadCached, At, First
  <2>3. PICK list \in After(p) : Plan(p, list)
    BY <2>2, Continues
  <2>4. PICK st \in Steps \ {"startRT", "delete"} : At(p, st)
    BY <1>3 DEF Ask, Find, Post, Take, Record, Change, Save, Keep, At, Steps
  <2>5. steps[p] \notin {LStart, LDelete}
    BY <2>4, ListTable DEF At, First
  <2>6. ASSUME p = Boot PROVE list # Nothing
    <3>1. steps[Boot] \in {SaveStart, StoreStart, KeepStart, LStart}
      <4>1. steps[Boot] \in BootLists /\ steps[Boot] # Nothing
        BY <1>0, <2>4, <2>6 DEF Planned, ListsOf, At, Nothing
      <4>2. steps[Boot] \notin {LList, LLoadBoot}
        BY <1>0, <2>2, <2>6, MadeByStep DEF Unmade
      <4> QED
        BY <4>1, <4>2 DEF BootLists
    <3>2. steps'[Boot] = list
      BY <1>0, <2>3, <2>6, Replan DEF After
    <3>3. CASE Save(Boot)
      <4>1. steps[Boot] = SaveStart
        BY <1>0, <3>3, AtList DEF Save
      <4>2. Tail(steps[Boot]) = LStart
        BY <4>1, ListTable DEF Rest
      <4>3. Plan(Boot, StoreStart) \/ Plan(Boot, KeepStart)
        BY <3>3, <4>2, Joined DEF Save
      <4>4. StoreStart \in ListsOf(Boot) /\ KeepStart \in ListsOf(Boot)
        BY DEF ListsOf, BootLists
      <4>5. steps'[Boot] \in {StoreStart, KeepStart}
        BY <1>0, <4>3, <4>4, Replan
      <4> QED
        BY <3>2, <4>5, ListTable
    <3>4. CASE Keep(Boot)
      <4>1. Plan(Boot, Tail(steps[Boot])) /\ First(steps[Boot]) = "keep"
        BY <3>4 DEF Keep, Go, At, First
      <4>2. steps[Boot] = KeepStart
        BY <3>1, <4>1, ListTable
      <4>3. Plan(Boot, LStart)
        BY <4>1, <4>2, ListTable DEF Rest
      <4>4. LStart \in ListsOf(Boot)
        BY DEF ListsOf, BootLists
      <4>5. steps'[Boot] = LStart
        BY <1>0, <4>3, <4>4, Replan
      <4> QED
        BY <3>2, <4>5, ListTable
    <3>5. CASE ~Save(Boot) /\ ~Keep(Boot)
      <4>1. First(steps[Boot]) \in {"ask", "find", "post", "take", "record", "lang", "token", "login",
                                    "reply", "clear"}
        BY <1>3, <2>6, <3>5 DEF Ask, Find, Post, Take, Record, Change, At, First
      <4> QED
        BY <3>1, <4>1, ListTable
    <3> QED
      BY <3>3, <3>4, <3>5
  <2> QED
    BY <1>d, <1>k, <2>1, <2>3, <2>5, <2>6 DEF After
<1>4. ASSUME NEW p \in Procs, Store(p) PROVE Soon'
  <2>1. Plan(p, Tail(steps[p])) /\ steps[p] # Nothing /\ First(steps[p]) = "store"
    BY <1>4 DEF Store, Go, At, First, Nothing
  <2>2. Tail(steps[p]) \in ListsOf(p)
    BY <1>0, <2>1, NextList DEF After
  <2>3. steps'[p] = Tail(steps[p])
    BY <1>0, <2>1, <2>2, Replan
  <2>4. CASE Tail(steps[p]) = LStart
    BY <2>3, <2>4 DEF Soon
  <2>5. CASE Tail(steps[p]) # LStart
    <3>1. UNCHANGED <<up, closing, conn>> /\ disk \in State /\ ~revived
      BY <1>4, <2>5 DEF Store, rtVars, appVars, LStart
    <3>2. steps[p] \notin {LStart, LDelete}
      BY <2>1, ListTable
    <3>3. ASSUME p = Boot PROVE FALSE
      <4>1. steps[p] = StoreStart
        BY <1>0, <1>4, <3>3, AtList DEF Store
      <4> QED
        BY <2>5, <4>1, ListTable DEF Rest
    <3> QED
      BY <1>d, <1>k, <2>1, <2>2, <3>1, <3>2, <3>3
  <2> QED
    BY <2>4, <2>5
<1>5. ASSUME NEW p \in Procs, DeleteState(p) \/ StartRealtime(p) \/ LoopRecords(p) \/ LoopCloses(p)
      PROVE  FALSE
  <2>1. ~DeleteState(p)
    BY <1>m DEF DeleteState
  <2>2. ~StartRealtime(p)
    BY <1>0 DEF StartRealtime
  <2>3. ~LoopRecords(p)
    BY <1>m DEF LoopRecords, Made
  <2>4. ~LoopCloses(p)
    <3>1. LoopCloses(p) => closing /\ closing' = closing
      BY DEF LoopCloses, appVars
    <3> QED
      BY <3>1
  <2> QED
    BY <1>5, <2>1, <2>2, <2>3, <2>4
<1>6. ASSUME NEW p \in Procs, StopRealtime(p) PROVE Soon'
  <2>1. steps[p] = LLogout /\ Plan(p, Tail(steps[p]))
    BY <1>0, <1>6, ListOf DEF StopRealtime, Go
  <2>2. Tail(steps[p]) = LDelete
    BY <2>1, ListTable DEF Rest
  <2>3. LDelete \in ListsOf(p)
    BY <1>0, <2>1, <2>2, NextList, ListTable DEF After
  <2>4. steps'[p] = LDelete
    BY <1>0, <2>1, <2>2, <2>3, Replan
  <2> QED
    BY <2>4 DEF Soon
<1>7. ASSUME NEW p \in Procs, Fails(p) PROVE Soon'
  <2>1. p # Boot /\ UNCHANGED <<closing, conn>> /\ ~revived /\ disk' \in State
    BY <1>7 DEF Fails, rtVars
  <2>2. ~At(p, "list") /\ ~At(p, "loadBoot") /\ ~At(p, "delete")
    BY <1>0, <1>7, <2>1, AtList DEF Fails
  <2>3. At(p, "store") /\ disk' \in {disk, Made, Torn}
    BY <1>7, <2>2 DEF Fails, Unfinished, At
  <2>4. disk \in State /\ up
    BY <1>m, <2>1, <2>3 DEF Made, At
  <2>5. PICK list \in After(p) : Plan(p, list)
    <3>1. ~LoadCached(p)
      BY <2>3 DEF LoadCached, At
    <3> QED
      BY <1>7, <3>1, Continues
  <2>6. steps[p] \notin {LStart, LDelete}
    BY <2>3, ListTable DEF At, First
  <2> QED
    BY <1>d, <1>k, <2>1, <2>4, <2>5, <2>6 DEF After
<1>8. CASE ListIDs \/ LoadBoot
  <2>1. PICK list \in {Nothing, LLoadBoot, SaveStart} :
          /\ Plan(Boot, list)
          /\ ListIDs => (list = Nothing <=> disk = NoState)
          /\ LoadBoot => (list = Nothing => ~up')
    BY <1>8, Boots
  <2>2. disk' = disk
    BY <1>8 DEF ListIDs, LoadBoot
  <2>3. list # Nothing
    BY <1>8, <1>m, <2>1, <2>2
  <2>4. steps'[Boot] = list
    BY <1>0, <2>1, Replan DEF ListsOf, BootLists
  <2> QED
    BY <2>3, <2>4 DEF Soon
<1>9. ASSUME NEW p \in Procs, LoopEnds(p) PROVE Soon'
  <2>1. UNCHANGED <<up, closing, disk, conn, revived, steps>>
    BY <1>9 DEF LoopEnds, appVars, logVars
  <2> QED
    BY <1>d, <2>1 DEF Soon
<1>10. CASE Close \/ StopListening \/ StartReturns
  <2>1. Close => closing'
    BY DEF Close
  <2>2. StopListening => closing /\ closing' = closing
    BY DEF StopListening
  <2>3. StartReturns => ~up'
    BY DEF StartReturns
  <2> QED
    BY <1>10, <2>1, <2>2, <2>3
<1>11. CASE Restart
  <2>1. steps'[Boot] = LList
    BY <1>0, <1>11 DEF Restart, LList
  <2> QED
    BY <2>1, ListTable DEF Soon
<1> QED
  BY <1>1, <1>2, <1>3, <1>4, <1>5, <1>6, <1>7, <1>8, <1>9, <1>10, <1>11 DEF Next, Run

-----------------------------------------------------------------------------
(* What is saved has a token, unless nobody asked.                         *)

\* The lists of one who is about to save, and those of the end of a pause.
Storing == {LStore, StoreAsk, StoreStart, StoreRecord}
Resumption == {LTake, TakeClear, ClearStore, ClearStoreRecord, StoreRecord}
Resumes(p) == p \in Handlers /\ upd[p] = "resume"

\* Only who resumes has a list of the end of a pause, and whoever else is about
\* to save has an authorised state.
Asked ==
  /\ \A p \in Procs : steps[p] \in Resumption => Resumes(p)
  /\ \A p \in Procs : steps[p] \in Storing => Resumes(p) \/ Mine(p).auth

\* Such lists are what is left over of the end of a pause.
LEMMA RestStores ==
  ASSUME NEW x \in HandlerLists \union BootLists, x # Nothing
  PROVE  /\ Rest(x) \in Resumption => x \in Resumption
         /\ Rest(x) \in Storing => x \in Resumption
<1>1. CASE x \in HandlerLists
  BY <1>1, ListTable DEF HandlerLists, Recording, Resumption, Storing
<1>2. CASE x \in BootLists
  BY <1>2, ListTable DEF BootLists, Resumption, Storing
<1> QED
  BY <1>1, <1>2

\* The other lists that a step may make.
LEMMA OtherLists ==
  /\ {Nothing, LLoad, LToken, LLang, LLogout, ClearSave, LLogin, ReplySave, RecordClear,
      LFind, LPost, LRecord, LList, LLoadBoot, SaveStart} \cap (Storing \union Resumption) = {}
  /\ {LStore, StoreAsk, StoreStart, LKeep, KeepAsk, KeepStart} \cap Resumption = {}
  /\ {LKeep, KeepAsk, KeepStart, LTake, TakeClear} \cap Storing = {}
  BY ListTable DEF Storing, Resumption

\* No course begins with a save, and none but that of a resumption is one of
\* the end of a pause.
LEMMA CourseStores ==
  ASSUME NEW u \in Updates, NEW s, NEW c \in Courses(u, s)
  PROVE  c \notin Storing /\ (c \in Resumption => u = "resume")
<1>1. CASE u = "start"
  <2>1. c = Nothing \/ c = LToken
    BY <1>1 DEF Courses, Nothing, LToken
  <2> QED
    BY <2>1, OtherLists
<1>2. CASE u = "lang"
  <2>1. c = LLang
    BY <1>2 DEF Courses, LLang
  <2> QED
    BY <2>1, OtherLists
<1>3. CASE u = "logout"
  <2>1. c = LLogout \/ c = Nothing
    BY <1>3 DEF Courses, Logout, Nothing, LLogout
  <2> QED
    BY <2>1, OtherLists
<1>4. CASE u = "cancel"
  <2>1. c = ClearSave
    BY <1>4 DEF Courses, ClearSave
  <2> QED
    BY <2>1, OtherLists
<1>5. CASE u = "resume"
  <2>1. c = <<"take">> \o <<"clear", "store">> \/ c = <<"take">> \o <<>>
    BY <1>5 DEF Courses
  <2> QED
    BY <1>5, <2>1, Joined, OtherLists
<1>6. CASE u \in {"reply", "replyAt"}
  <2>1. c = Nothing \/ c = ReplySave
    BY <1>6 DEF Courses, Nothing, ReplySave
  <2> QED
    BY <2>1, OtherLists
<1>7. CASE u = "text"
  <2>1. c = Nothing \/ c = LLogin \/ c = LFind \/ c = RecordClear
    BY <1>7 DEF Courses, Nothing, LLogin, LFind, RecordClear
  <2> QED
    BY <2>1, OtherLists
<1> QED
  BY <1>1, <1>2, <1>3, <1>4, <1>5, <1>6, <1>7 DEF Updates

\* Whoever is about to save after a step has asked in this step, or resumes.
LEMMA AsksFirst ==
  ASSUME SInv, NEW p \in Procs, Run(p) \/ Fails(p), ~LoadCached(p)
  PROVE  /\ steps'[p] \in Resumption => steps[p] \in Resumption
         /\ steps'[p] \in Storing =>
              steps[p] \in Resumption \/ (Mine(p).auth /\ UNCHANGED <<heap, ref>>)
<1>0. TypeOK /\ Planned /\ steps[p] \in HandlerLists \union BootLists
  BY DEF SInv, Planned, ListsOf
<1>1. PICK list \in After(p) : Plan(p, list) /\ steps[p] # Nothing
  BY Continues
<1>2. steps'[p] = list /\ \A l : Plan(p, l) => l = list
  <2>1. steps \in [Procs -> Seq(Steps)]
    BY <1>0 DEF TypeOK
  <2>2. steps'[p] = list
    BY <1>1, <2>1 DEF Plan
  <2>3. ASSUME NEW l, Plan(p, l) PROVE l = list
    BY <2>1, <2>2, <2>3 DEF Plan
  <2> QED
    BY <2>2, <2>3
<1>3. CASE Plan(p, Tail(steps[p])) \/ Plan(p, <<>>) \/ Plan(p, LToken)
  <2>1. list \in {Rest(steps[p]), Nothing, LToken}
    BY <1>2, <1>3 DEF Rest, Nothing
  <2> QED
    BY <1>0, <1>1, <1>2, <2>1, RestStores, OtherLists
<1>4. CASE Take(p)
  <2>1. steps[p] \in {LTake, TakeClear}
    BY <1>0, <1>4, ListOf DEF Take
  <2> QED
    BY <2>1 DEF Resumption
<1>5. CASE Save(p)
  <2>1. steps[p] \in {LSave, SaveAsk, SaveStart}
    BY <1>0, <1>5, ListOf DEF Save
  <2>2. Tail(steps[p]) \in {Nothing, LAsk, LStart}
    BY <2>1, ListTable DEF Rest
  <2>3. CASE Mine(p).auth
    <3>1. Plan(p, <<"store">> \o Tail(steps[p])) /\ UNCHANGED <<heap, ref>>
      BY <1>5, <2>3 DEF Save
    <3>2. <<"store">> \o Tail(steps[p]) \in {LStore, StoreAsk, StoreStart}
      BY <2>2, Joined
    <3> QED
      BY <1>2, <2>3, <3>1, <3>2, OtherLists
  <2>4. CASE ~Mine(p).auth
    <3>1. Plan(p, <<"keep">> \o Tail(steps[p]))
      BY <1>5, <2>4 DEF Save
    <3>2. <<"keep">> \o Tail(steps[p]) \in {LKeep, KeepAsk, KeepStart}
      BY <2>2, Joined
    <3> QED
      BY <1>2, <3>1, <3>2, OtherLists
  <2> QED
    BY <2>3, <2>4
<1>6. ASSUME ~Take(p), ~Save(p)
      PROVE  Plan(p, Tail(steps[p])) \/ Plan(p, <<>>) \/ Plan(p, LToken)
  BY <1>6 DEF Run, Ask, Find, Post, Record, Change, Keep, Store, DeleteState, StartRealtime,
              StopRealtime, Fails, Go, LToken
<1> QED
  BY <1>3, <1>4, <1>5, <1>6

\* No change of an object takes the token out of it.
LEMMA TokensStay ==
  ASSUME SInv, NEW p \in Procs, Run(p) \/ Fails(p), ~LoadCached(p)
  PROVE  UNCHANGED ref /\ \A q \in Procs : heap[q].auth => heap'[q].auth
<1>0. TypeOK /\ Planned /\ heap \in [Procs -> State] /\ ref \in [Procs -> Procs]
  BY DEF SInv, TypeOK
<1>1. UNCHANGED ref
  BY DEF Run, Ask, Find, Post, Take, Record, Change, Save, Keep, Store, DeleteState,
         StartRealtime, StopRealtime, Fails, objVars
<1>2. CASE Change(p)
  <2>1. /\ heap' = [heap EXCEPT ![ref[p]] = Changed(p, heap[ref[p]])]
        /\ heap[ref[p]].auth => Changed(p, heap[ref[p]]).auth
    BY <1>0, <1>2, ChangeTo
  <2> QED
    BY <1>0, <1>1, <2>1
<1>3. CASE ~Change(p)
  <2>1. UNCHANGED heap
    BY <1>3 DEF Run, Ask, Find, Post, Take, Record, Save, Keep, Store, DeleteState,
                StartRealtime, StopRealtime, Fails, objVars
  <2> QED
    BY <1>1, <2>1
<1> QED
  BY <1>2, <1>3

\* Between the question and the save nobody replaces the object, as between the
\* login and the save.
LEMMA AskedStep ==
  ASSUME SInv, Asked, Next
  PROVE  Asked'
<1>0. /\ TypeOK /\ Planned /\ Private
      /\ Boot \in Procs /\ Boot \notin Handlers /\ None \notin Procs
  BY SessionAssumption DEF SInv, Procs
<1>t. /\ heap \in [Procs -> State] /\ ref \in [Procs -> Procs]
      /\ upd \in [Procs -> Updates \union {""}]
  BY <1>0 DEF TypeOK
<1> SUFFICES ASSUME NEW p \in Procs
             PROVE  /\ steps'[p] \in Resumption => p \in Handlers /\ upd'[p] = "resume"
                    /\ steps'[p] \in Storing =>
                         (p \in Handlers /\ upd'[p] = "resume") \/ heap'[ref'[p]].auth
  BY DEF Asked, Resumes, Mine
<1>a. /\ steps[p] \in Resumption => p \in Handlers /\ upd[p] = "resume"
      /\ steps[p] \in Storing => (p \in Handlers /\ upd[p] = "resume") \/ heap[ref[p]].auth
  BY DEF Asked, Resumes, Mine
<1> DEFINE Goal == /\ steps'[p] \in Resumption => p \in Handlers /\ upd'[p] = "resume"
                   /\ steps'[p] \in Storing =>
                        (p \in Handlers /\ upd'[p] = "resume") \/ heap'[ref'[p]].auth
<1>1. ASSUME NEW h \in Handlers, Begin(h) PROVE Goal
  <2>1. /\ upd[h] = "" /\ h \in Procs /\ h # Boot /\ UNCHANGED ref
        /\ \A q \in Procs \ {h} : upd'[q] = upd[q]
    BY <1>1, Begins DEF Begin
  <2>2. PICK list \in HandlerLists :
          Plan(h, list) /\ (UNCHANGED heap \/ heap' = [heap EXCEPT ![h] = disk])
    BY <1>1, Begins
  <2>3. steps'[h] = list /\ \A q \in Procs \ {h} : steps'[q] = steps[q]
    BY <1>0, <2>1, <2>2, Replan DEF ListsOf
  <2>4. CASE p # h
    <3>1. ref[p] # h
      BY <1>0, <2>1, <2>4, <1>1 DEF Private, Unmade
    <3>2. heap'[ref'[p]] = heap[ref[p]] /\ steps'[p] = steps[p] /\ upd'[p] = upd[p]
      BY <1>t, <2>1, <2>2, <2>3, <2>4, <3>1
    <3> QED
      BY <1>a, <3>2
  <2>5. CASE p = h
    <3>1. PICK u \in Updates :
            /\ upd' = [upd EXCEPT ![h] = u]
            /\ \/ Plan(h, Nothing) \/ Plan(h, LLoad)
               \/ \E c \in Courses(u, disk) : Plan(h, c)
      BY <1>1 DEF Begin, Nothing, LLoad
    <3>2. upd'[h] = u
      BY <1>t, <2>1, <3>1
    <3>3. \A l : Plan(h, l) => steps'[h] = l
      BY <1>0, <2>1 DEF Plan, TypeOK
    <3> QED
      BY <2>5, <3>1, <3>2, <3>3, CourseStores, OtherLists
  <2> QED
    BY <2>4, <2>5
<1>2. ASSUME NEW q \in Procs, LoadCached(q) PROVE Goal
  <2>1. q \in Handlers /\ q # Boot /\ Unmade(q) /\ upd[q] # "" /\ UNCHANGED upd
    BY <1>2, Loads DEF Unmade
  <2>2. PICK c \in Courses(upd[q], heap'[cache']) : Plan(q, c)
    BY <1>2 DEF LoadCached
  <2>3. c \in HandlerLists
    <3>1. PICK list \in HandlerLists : Plan(q, list)
      BY <1>2, Loads
    <3>2. steps \in [Procs -> Seq(Steps)]
      BY <1>0 DEF TypeOK
    <3>3. steps'[q] = list /\ steps'[q] = c
      BY <2>2, <3>1, <3>2 DEF Plan
    <3> QED
      BY <3>1, <3>3
  <2>4. steps'[q] = c /\ \A r \in Procs \ {q} : steps'[r] = steps[r]
    BY <1>0, <2>1, <2>2, <2>3, Replan DEF ListsOf
  <2>5. CASE p # q
    <3>1. ref[p] # q
      BY <1>0, <2>1, <2>5 DEF Private
    <3>2. ref'[p] = ref[p] /\ heap'[ref[p]] = heap[ref[p]]
      BY <1>2, <1>t, <2>5, <3>1 DEF LoadCached
    <3> QED
      BY <1>a, <2>1, <2>4, <2>5, <3>2
  <2>6. CASE p = q
    <3>1. upd[q] \in Updates
      BY <1>t, <2>1
    <3> QED
      BY <2>1, <2>2, <2>4, <2>6, <3>1, CourseStores
  <2> QED
    BY <2>5, <2>6
<1>3. ASSUME NEW q \in Procs, Run(q) \/ Fails(q), ~LoadCached(q) PROVE Goal
  <2>1. PICK list \in After(q) : Plan(q, list) /\ UNCHANGED upd
    BY <1>3, Continues
  <2>2. \A r \in Procs \ {q} : steps'[r] = steps[r]
    BY <1>0, <2>1, Replan DEF After
  <2>3. UNCHANGED ref /\ \A r \in Procs : heap[r].auth => heap'[r].auth
    BY <1>3, TokensStay
  <2>4. CASE p # q
    BY <1>a, <1>t, <2>1, <2>2, <2>3, <2>4
  <2>5. CASE p = q
    BY <1>3, <1>a, <2>1, <2>5, AsksFirst DEF Mine
  <2> QED
    BY <2>4, <2>5
<1>4. CASE ListIDs \/ LoadBoot
  <2>1. PICK list \in {Nothing, LLoadBoot, SaveStart} :
          Plan(Boot, list) /\ (LoadBoot => steps[Boot] = LLoadBoot) /\ UNCHANGED upd
    BY <1>4, Boots
  <2>2. steps'[Boot] = list /\ \A r \in Procs \ {Boot} : steps'[r] = steps[r]
    BY <1>0, <2>1, Replan DEF ListsOf, BootLists
  <2>3. CASE p = Boot
    BY <2>1, <2>2, <2>3, OtherLists
  <2>4. CASE p # Boot
    <3>1. LoadBoot => ref[p] # Boot
      BY <1>0, <2>1, <2>4 DEF Private, Unmade
    <3>2. \/ UNCHANGED heap /\ UNCHANGED ref
          \/ /\ LoadBoot /\ heap' = [heap EXCEPT ![Boot] = Cleared(disk)]
             /\ ref' = [ref EXCEPT ![Boot] = Boot]
      BY <1>4 DEF ListIDs, LoadBoot, objVars
    <3>3. ref'[p] = ref[p] /\ heap'[ref[p]] = heap[ref[p]]
      BY <1>t, <2>4, <3>1, <3>2
    <3> QED
      BY <1>a, <2>1, <2>2, <2>4, <3>3
  <2> QED
    BY <2>3, <2>4
<1>5. CASE Close \/ StopListening \/ StartReturns
           \/ \E q \in Procs : LoopRecords(q) \/ LoopEnds(q) \/ LoopCloses(q)
  <2>1. UNCHANGED <<heap, ref, steps, upd>>
    BY <1>5 DEF Close, StopListening, StartReturns, LoopRecords, LoopEnds, LoopCloses, objVars
  <2> QED
    BY <1>a, <2>1
<1>6. CASE Restart
  <2>1. steps'[p] = Nothing \/ steps'[p] = LList
    BY <1>6 DEF Restart, Nothing, LList
  <2> QED
    BY <2>1, OtherLists
<1> QED
  BY <1>1, <1>2, <1>3, <1>4, <1>5, <1>6 DEF Next, Run

\* At first nobody is about to save.
LEMMA AskedFirst == Init => Asked
<1> SUFFICES ASSUME Init PROVE Asked
  OBVIOUS
<1>1. \A p \in Procs : steps[p] = Nothing \/ steps[p] = LList
  BY DEF Init, Nothing, LList
<1> QED
  BY <1>1, OtherLists DEF Asked

\* So a save that takes a token out of the store is one of a resumption.
LEMMA SavesToken ==
  ASSUME SInv, Asked, Next, disk \in State /\ disk.auth, disk' \in State
  PROVE  disk'.auth \/ Unasked
<1>0. Planned
  BY DEF SInv
<1>m. NoState \notin State /\ Bare \notin State /\ Torn \notin State
  BY MarksAssumption
<1>1. CASE \E p \in Procs : Store(p)
  <2>1. PICK p \in Procs : Store(p)
    BY <1>1
  <2>2. At(p, "store") /\ disk' = Mine(p)
    BY <2>1 DEF Store
  <2>3. steps[p] \in Storing
    BY <1>0, <2>2, ListOf DEF Storing
  <2>4. Mine(p).auth \/ Resumes(p)
    BY <2>3 DEF Asked
  <2> QED
    BY <2>2, <2>4 DEF Unasked, Resumes
<1>2. CASE ~\E p \in Procs : Store(p)
  BY <1>2, <1>m, StoreSaves
<1> QED
  BY <1>1, <1>2

-----------------------------------------------------------------------------
(* The theorems.                                                           *)

\* The invariant holds at first.
LEMMA Starts == Init => SInv
<1> SUFFICES ASSUME Init PROVE SInv
  OBVIOUS
<1>0. Boot \in Procs /\ Boot \notin Handlers /\ None \notin Procs /\ 0 \in 0 .. MaxErrors
  BY SessionAssumption DEF Procs
<1>1. steps = [p \in Procs |-> IF p = Boot THEN LList ELSE Nothing]
  BY DEF Init, LList, Nothing
<1>2. NewState \in State /\ Fits(NewState) /\ NewState.expect # "comment"
  BY DEF NewState, State, Fits
<1>3. \A p \in Procs : steps[p] \in ListsOf(p) /\ ListsOf(p) \subseteq Seq(Steps)
  BY <1>1, FirstLists, ListTypes DEF ListsOf
<1>4. disk \in State \union {NoState} /\ (disk \in State => Fits(disk))
  BY MarksAssumption DEF Init, Left, Fits
<1>5. TypeOK
  <2>1. steps \in [Procs -> Seq(Steps)]
    BY <1>1, <1>3
  <2> QED
    BY <1>0, <1>2, <1>4, <2>1 DEF Init, TypeOK
<1>6. Planned
  <2>1. \A h \in Handlers : steps[h] = Nothing
    BY <1>0, <1>1 DEF Procs
  <2> QED
    BY <1>3, <2>1 DEF Planned
<1>7. Private
  BY <1>0 DEF Init, Private
<1>8. TokenKept
  <2>1. \A h \in Handlers : steps[h] = Nothing
    BY <1>6, <1>0, <1>1 DEF Procs
  <2> QED
    BY <2>1, ListTable DEF TokenKept
<1>9. AllFit
  BY <1>2, <1>4 DEF Init, AllFit, CommentFits
<1>14. Looked
  <2>1. LPost \notin {LList, Nothing}
    BY ListTable
  <2> QED
    BY <1>1, <2>1 DEF Looked
<1>10. Registered
  BY <1>0 DEF Init, Registered, RegisteredIsOpen
<1>11. Undisturbed
  <2>1. {LList, Nothing} \cap (Recording \union {LStart}) = {}
    BY ListTable DEF Recording
  <2>2. loops = [p \in Procs |-> "none"] /\ heap = [p \in Procs |-> NewState]
    BY DEF Init
  <2> QED
    BY <1>0, <1>1, <1>2, <1>4, <2>1, <2>2 DEF Undisturbed
<1>12. Ending
  BY DEF Init, Ending, EndsOnlyByLogout
<1>13. DeafIsRevived
  BY <1>0, <1>1, ListTable DEF DeafIsRevived, Nothing
<1> QED
  BY <1>5, <1>6, <1>7, <1>8, <1>9, <1>10, <1>11, <1>12, <1>13, <1>14 DEF SInv

\* And ever after.
LEMMA Holds == Spec => []SInv
<1>1. SInv /\ [Next]_vars => SInv'
  <2> SUFFICES ASSUME SInv, [Next]_vars PROVE SInv'
    OBVIOUS
  <2>1. CASE Next
    BY <2>1, PlanStep, TypeStep, PrivateStep, TokenKeptStep, AllFitStep, LookedStep, RegisteredStep,
       UndisturbedStep, EndingStep, DeafStep DEF SInv
  <2>2. CASE UNCHANGED vars
    <3>1. UNCHANGED <<disk, cache, heap, ref, steps, upd, msg, conn, link, loops, listening,
                      closing, up, posted, crossed, removed, revived, failed>>
      BY <2>2 DEF vars, objVars, rtVars, appVars, logVars
    <3>5. TypeOK'
      BY <3>1, ZenonT(60) DEF SInv, TypeOK
    <3>2. Planned' /\ Private'
      BY <3>1 DEF SInv, Planned, Private, Unmade, ListsOf
    <3>3. TokenKept' /\ AllFit' /\ Looked' /\ Registered' /\ Ending'
      BY <3>1 DEF SInv, TokenKept, Mine, AllFit, Looked, Fits, CommentFits, Registered, RegisteredIsOpen,
                  Ending, EndsOnlyByLogout
    <3>4. Undisturbed' /\ DeafIsRevived'
      BY <3>1 DEF SInv, Undisturbed, Clean, DeafIsRevived, At
    <3> QED
      BY <3>2, <3>3, <3>4, <3>5 DEF SInv
  <2> QED
    BY <2>1, <2>2
<1> QED
  BY <1>1, Starts, PTL DEF Spec

\* The state of the chat, its objects and what is left to do have their types,
\* however many handlers run (package state, package app).
THEOREM SessionIsTyped == Spec => []TypeOK
<1>1. SInv => TypeOK
  BY DEF SInv
<1> QED
  BY <1>1, Holds, PTL

\* A chat has one connection at most, and it is the registered one: StartRealtime
\* and StopRealtime close what they take out of rtConns
\* (realtime.go:19-28, 61-64).
THEOREM OneConnection == Spec => []RegisteredIsOpen
<1>1. SInv => RegisteredIsOpen
  BY DEF SInv, Registered
<1> QED
  BY <1>1, Holds, PTL

\* When the app is closing and the last realtime loop has ended, no
\* connection is left: every registered one has a loop (realtime.go:38-41).
THEOREM NoConnectionSurvives == Spec => []NoneSurvives
<1>1. SInv => NoneSurvives
  BY DEF SInv, Registered, NoneSurvives, TypeOK
<1> QED
  BY <1>1, Holds, PTL

\* A chat whose state is saved has a connection or will have one, whichever
\* handlers overtook each other, or somebody saved the state of a user who had
\* logged out (handle-message.go:52-54, handle-command.go:34-35).
THEOREM DeafOnlyIfRevived == Spec => []DeafIsRevived
<1>1. SInv => DeafIsRevived
  BY DEF SInv
<1> QED
  BY <1>1, Holds, PTL

\* A comment addresses nobody, or the author of what it comments on, although
\* the message is looked up before the prefix is read: each handler has a state
\* of its own, whatever is pressed meanwhile, unless one has changed an object
\* of the cache that another one was at work on (handle-callback.go:76-84,
\* handle-message.go:62-71).
THEOREM CommentsFit == Spec => []CommentFits
<1>1. SInv => CommentFits
  BY DEF SInv, AllFit
<1> QED
  BY <1>1, Holds, PTL

\* App.Start does not end by itself, unless a user has logged out, or an
\* operation of the store has failed, or was cut by a kill in the middle of the
\* write of state.json or of the removal of its directory: however many kills
\* between the operations there were (app.go:86-104, fs-io.go:66-72).
THEOREM NoEndByItself == Spec => []EndsOnlyByLogout
<1>1. SInv => EndsOnlyByLogout
  BY DEF SInv, Ending
<1> QED
  BY <1>1, Holds, PTL

\* Whoever has logged in stays logged in: no handler that has loaded the state
\* before takes the token out of the store, for between the question of SaveState
\* and the save nobody takes it out of the object.  The end of a pause is the
\* exception, for it does not ask (app.go:185-192, pause.go:37-39).
THEOREM LoginsSurvive == Spec => LoginSurvives
<1>1. SInv /\ Asked /\ [Next]_vars => Asked'
  <2> SUFFICES ASSUME SInv, Asked, [Next]_vars PROVE Asked'
    OBVIOUS
  <2>1. CASE UNCHANGED vars
    BY <2>1 DEF vars, objVars, Asked, Resumes, Mine
  <2> QED
    BY <2>1, AskedStep
<1>2. SInv /\ Asked /\ [Next]_vars =>
        [(disk \in State /\ disk.auth) => (disk \in State => disk.auth)' \/ Unasked]_vars
  BY SavesToken
<1> QED
  BY <1>1, <1>2, AskedFirst, Holds, PTL DEF Spec, LoginSurvives
=============================================================================
