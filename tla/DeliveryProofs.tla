--------------------------- MODULE DeliveryProofs ---------------------------
(***************************************************************************)
(* Proofs about module Delivery, for any number of events, goroutines and  *)
(* updates.  An event is in one place at a time: not yet reported, in the  *)
(* hands of one goroutine, in the queue, or sent.  That invariant gives    *)
(* AtMostOnce with errors and crashes.  For the records the list has to be *)
(* the end of all those written, or an error or a kill has met the end.    *)
(***************************************************************************)
EXTENDS Delivery, SequenceTheorems, TLAPS

-----------------------------------------------------------------------------
(* Sequences as collections.                                               *)

\* Appending adds the one element.
LEMMA RanAppend ==
  ASSUME NEW S, NEW s \in Seq(S), NEW e \in S
  PROVE  Ran(Append(s, e)) = Ran(s) \union {e}
<1> DEFINE t == Append(s, e)
<1>1. /\ DOMAIN t = 1 .. Len(s) + 1 /\ DOMAIN s = 1 .. Len(s) /\ Len(s) \in Nat
      /\ t[Len(s) + 1] = e /\ \A i \in 1 .. Len(s) : t[i] = s[i]
  OBVIOUS
<1>2. Ran(t) \subseteq Ran(s) \union {e}
  BY <1>1 DEF Ran
<1>3. Ran(s) \union {e} \subseteq Ran(t)
  BY <1>1 DEF Ran
<1>. QED BY <1>2, <1>3

\* A sequence without duplicates stays so when a new element is appended.
LEMMA DistinctAppend ==
  ASSUME NEW S, NEW s \in Seq(S), NEW e \in S, Distinct(s), e \notin Ran(s)
  PROVE  Distinct(Append(s, e))
<1> DEFINE t == Append(s, e)
<1>1. /\ DOMAIN t = 1 .. Len(s) + 1 /\ DOMAIN s = 1 .. Len(s) /\ Len(s) \in Nat
      /\ t[Len(s) + 1] = e /\ \A i \in 1 .. Len(s) : t[i] = s[i]
  OBVIOUS
<1>. QED BY <1>1 DEF Ran, Distinct

\* Taking the head away from a sequence without duplicates.
LEMMA SplitHead ==
  ASSUME NEW S, NEW s \in Seq(S), s # <<>>, Distinct(s)
  PROVE  /\ Head(s) \in S /\ Tail(s) \in Seq(S)
         /\ Ran(s) = Ran(Tail(s)) \union {Head(s)}
         /\ Head(s) \notin Ran(Tail(s))
         /\ Distinct(Tail(s))
<1> DEFINE t == Tail(s)
<1>1. /\ Len(s) \in Nat \ {0} /\ DOMAIN s = 1 .. Len(s) /\ Head(s) = s[1]
      /\ t \in Seq(S) /\ DOMAIN t = 1 .. Len(s) - 1
      /\ \A i \in 1 .. Len(s) - 1 : t[i] = s[i + 1]
  OBVIOUS
<1>2. Head(s) \in S
  BY <1>1
<1>3. Head(s) \notin Ran(t)
  BY <1>1 DEF Ran, Distinct
<1>4. Distinct(t)
  BY <1>1 DEF Distinct
<1>5. Ran(t) \union {Head(s)} \subseteq Ran(s)
  BY <1>1 DEF Ran
<1>6. ASSUME NEW i \in DOMAIN s, i # 1 PROVE s[i] \in Ran(t)
  <2>1. i - 1 \in 1 .. Len(s) - 1 /\ s[i] = t[i - 1]
    BY <1>1, <1>6
  <2>. QED BY <2>1, <1>1 DEF Ran
<1>7. Ran(s) \subseteq Ran(t) \union {Head(s)}
  BY <1>1, <1>6 DEF Ran
<1>. QED BY <1>1, <1>2, <1>3, <1>4, <1>5, <1>7

\* The empty sequence.
LEMMA RanEmpty == Ran(<<>>) = {} /\ Distinct(<<>>)
BY DEF Ran, Distinct

\* What is built from sequences of events is one.
LEMMA EventSeqs ==
  /\ <<>> \in Seq(Events)
  /\ \A s \in Seq(Events), e \in Events : Append(s, e) \in Seq(Events)
OBVIOUS

\* A sequence has no elements but those of its set.
LEMMA RanWithin == ASSUME NEW S, NEW s \in Seq(S) PROVE Ran(s) \subseteq S
BY DEF Ran

\* A batch is a sequence of unseen events without duplicates.
LEMMA BatchIsNew ==
  ASSUME NEW b \in Batches, unseen \subseteq Events
  PROVE  b \in Seq(Events) /\ Ran(b) \subseteq unseen /\ Distinct(b)
<1>1. PICK n \in 1 .. MaxBatch : b \in [1 .. n -> unseen]
  BY DEF Batches
<1>. QED BY <1>1 DEF Batches, Ran

\* What the cut of a list that has become one too long returns.
LEMMA TrimmedIs ==
  ASSUME NEW S, NEW s \in Seq(S), Len(s) <= MaxSentRecords, NEW e \in S
  PROVE  /\ Len(s) < MaxSentRecords => Trimmed(Append(s, e)) = Append(s, e)
         /\ Len(s) = MaxSentRecords =>
              /\ Trimmed(Append(s, e)) \in Seq(S)
              /\ Len(Trimmed(Append(s, e))) = Len(s)
              /\ \A i \in 1 .. Len(s) : Trimmed(Append(s, e))[i] = Append(s, e)[i + 1]
<1> DEFINE a == Append(s, e)
<1>1. a \in Seq(S) /\ Len(a) = Len(s) + 1
  BY AppendProperties
<1>2. Len(s) \in Nat /\ MaxSentRecords \in Nat \ {0}
  BY DeliveryAssumption, LenProperties
<1>3. Len(s) < MaxSentRecords => Trimmed(a) = a
  BY <1>1, <1>2 DEF Trimmed
<1>4. Len(s) = MaxSentRecords => Trimmed(a) = SubSeq(a, 2, Len(s) + 1)
  BY <1>1, <1>2 DEF Trimmed
<1>5. /\ SubSeq(a, 2, Len(s) + 1) \in Seq(S)
      /\ Len(SubSeq(a, 2, Len(s) + 1)) = Len(s)
      /\ \A i \in 1 .. Len(s) : SubSeq(a, 2, Len(s) + 1)[i] = a[i + 1]
  <2> HIDE DEF a
  <2>. QED BY <1>1, <1>2, SubSeqProperties
<1>6. Len(s) = MaxSentRecords =>
        /\ Trimmed(a) \in Seq(S) /\ Len(Trimmed(a)) = Len(s)
        /\ \A i \in 1 .. Len(s) : Trimmed(a)[i] = a[i + 1]
  <2> HIDE DEF a
  <2>. QED BY <1>4, <1>5
<1>. QED BY <1>3, <1>6

-----------------------------------------------------------------------------
(* Type correctness.                                                       *)

\* A list without records.
LEMMA NoRecords == <<>> \in Seq(Events \union {NoEvent}) /\ Len(<<>>) <= MaxSentRecords
<1>1. Len(<<>>) = 0 /\ MaxSentRecords \in Nat
  BY DeliveryAssumption
<1>2. <<>> \in Seq(Events \union {NoEvent})
  OBVIOUS
<1>. QED BY <1>1, <1>2

\* The record of a message is put in a list of records.
LEMMA PutTypes ==
  ASSUME TypeOK, NEW e \in Events \union {NoEvent}, PutMsgRec(e)
  PROVE  /\ recs' \in Seq(Events \union {NoEvent}) /\ Len(recs') <= MaxSentRecords
         /\ badRecs' \in BOOLEAN
         /\ noted' \in Seq(Events \union {NoEvent})
         /\ harmed' \subseteq Events
<1> DEFINE S == Events \union {NoEvent}
<1>0. /\ recs \in Seq(S) /\ noted \in Seq(S) /\ badRecs \in BOOLEAN /\ harmed \subseteq Events
      /\ Len(recs) <= MaxSentRecords /\ Len(recs) \in Nat /\ MaxSentRecords \in Nat \ {0}
  BY DeliveryAssumption, LenProperties DEF TypeOK
<1>1. CASE recs' = Trimmed(Append(recs, e)) /\ noted' = Append(noted, e) /\ UNCHANGED <<badRecs, harmed>>
  <2>1. \/ recs' = Append(recs, e) /\ Len(recs) < MaxSentRecords
        \/ recs' \in Seq(S) /\ Len(recs') = Len(recs)
    BY <1>0, <1>1, TrimmedIs
  <2>3. Append(recs, e) \in Seq(S) /\ Len(Append(recs, e)) = Len(recs) + 1
    BY <1>0, AppendProperties
  <2>2. Len(recs') <= MaxSentRecords
    BY <1>0, <2>1, <2>3
  <2>. QED BY <1>0, <1>1, <2>1, <2>2, <2>3, AppendProperties
<1>2. CASE /\ (badRecs' = TRUE /\ recs' = <<>>) \/ UNCHANGED <<badRecs, recs>>
           /\ Harms(({e} \union (Ran(recs) \ Ran(recs'))) \ {NoEvent}) /\ UNCHANGED noted
  <2>1. Ran(recs) \subseteq S
    BY <1>0, RanWithin
  <2>2. harmed' \subseteq Events
    BY <1>0, <1>2, <2>1 DEF Harms
  <2>. QED BY <1>0, <1>2, <2>2, NoRecords
<1>. QED BY <1>1, <1>2 DEF PutMsgRec

LEMMA TypeInit == Init => TypeOK
<1> SUFFICES ASSUME Init PROVE TypeOK
  OBVIOUS
<1>1. /\ queue \in Seq(Events) /\ sent \in Seq(Events)
      /\ todo \in [Procs -> Seq(Events)]
  BY EventSeqs DEF Init
<1>5. /\ recs \in Seq(Events \union {NoEvent}) /\ Len(recs) <= MaxSentRecords
      /\ badRecs \in BOOLEAN /\ noted \in Seq(Events \union {NoEvent})
  BY NoRecords DEF Init
<1>2. commands \in 0 .. MaxCommands
  <2>1. commands = 0
    BY DEF Init
  <2>2. MaxCommands \in Nat
    BY DeliveryAssumption
  <2>. QED BY <2>1, <2>2
<1>3. doing \in [Handlers -> Updates]
  BY DEF Init, Updates
<1>4. /\ pc \in [Procs -> {"idle", "load", "take", "clear", "check", "run", "record"}]
      /\ \A p \in Procs : pc[p] # "record"
  BY DEF Init
<1>. QED BY <1>1, <1>2, <1>3, <1>4, <1>5 DEF Init, TypeOK

LEMMA TypeStep == TypeOK /\ [Next]_vars => TypeOK'
<1> SUFFICES ASSUME TypeOK, [Next]_vars PROVE TypeOK'
  OBVIOUS
<1> USE DEF Goto, Harms, recVars
<1>0. Ran(queue) \subseteq Events /\ \A p \in Procs : Ran(todo[p]) \subseteq Events
  BY RanWithin DEF TypeOK
<1>1. ASSUME NEW w \in Workers, Arrive(w) PROVE TypeOK'
  <2>1. PICK b \in Batches :
          /\ unseen' = unseen \ Ran(b)
          /\ \/ todo' = [todo EXCEPT ![w] = b] /\ Goto(w, "check") /\ UNCHANGED harmed
             \/ harmed' = harmed \union Ran(b) /\ UNCHANGED <<todo, pc>>
    BY <1>1 DEF Arrive
  <2>2. b \in Seq(Events)
    BY BatchIsNew DEF TypeOK
  <2>3. w \in Procs
    BY DEF Procs
  <2>4. todo' \in [Procs -> Seq(Events)]
    BY <2>1, <2>2, <2>3 DEF TypeOK
  <2>5. /\ pc' \in [Procs -> {"idle", "load", "take", "clear", "check", "run", "record"}]
        /\ \A p \in Procs : pc'[p] = "record" => pc[p] = "record"
    BY <2>1, <2>3 DEF TypeOK
  <2>6. unseen' \subseteq Events
    BY <2>1 DEF TypeOK
  <2>7. harmed' \subseteq Events
    BY <2>1, <2>2, RanWithin DEF TypeOK
  <2>. QED BY <1>1, <2>4, <2>5, <2>6, <2>7 DEF Arrive, TypeOK, fileVars, userVars, ctlVars
<1>2. ASSUME NEW p \in Procs, Process(p) PROVE TypeOK'
  <2>1. CASE Check(p)
    BY <2>1 DEF Check, TypeOK, fileVars, userVars, ctlVars
  <2>2. CASE Enqueue(p)
    <3>1. todo[p] \in Seq(Events) /\ todo[p] # <<>>
      BY <2>2 DEF Enqueue, More, TypeOK
    <3>2. Head(todo[p]) \in Events /\ Tail(todo[p]) \in Seq(Events)
      BY <3>1
    <3>3. Append(queue, Head(todo[p])) \in Seq(Events) /\ <<>> \in Seq(Events)
      BY <3>2, EventSeqs DEF TypeOK
    <3>4. harmed' \subseteq Events
      BY <1>0, <2>2, <3>2 DEF Enqueue, TypeOK
    <3>. QED BY <2>2, <3>2, <3>3, <3>4 DEF Enqueue, TypeOK, ctlVars
  <2>3. CASE SendEvent(p)
    <3>1. todo[p] \in Seq(Events) /\ todo[p] # <<>>
      BY <2>3 DEF SendEvent, More, TypeOK
    <3>2. Head(todo[p]) \in Events /\ Tail(todo[p]) \in Seq(Events)
      BY <3>1
    <3>3. Append(sent, Head(todo[p])) \in Seq(Events)
      BY <3>2, EventSeqs DEF TypeOK
    <3>4. harmed' \subseteq Events
      BY <2>3, <3>2 DEF SendEvent, TypeOK
    <3>. QED BY <2>3, <3>2, <3>3, <3>4 DEF SendEvent, TypeOK, fileVars, ctlVars
  <2>4. CASE SkipEvent(p)
    <3>1. todo[p] \in Seq(Events) /\ todo[p] # <<>>
      BY <2>4 DEF SkipEvent, More, TypeOK
    <3>2. Tail(todo[p]) \in Seq(Events)
      BY <3>1
    <3>. QED BY <2>4, <3>2 DEF SkipEvent, TypeOK, fileVars, userVars, ctlVars
  <2>5. CASE Record(p)
    <3>1. cur[p] \in Events \union {NoEvent} /\ PutMsgRec(cur[p])
      BY <2>5 DEF Record, TypeOK
    <3>2. /\ recs' \in Seq(Events \union {NoEvent}) /\ Len(recs') <= MaxSentRecords
          /\ badRecs' \in BOOLEAN /\ noted' \in Seq(Events \union {NoEvent})
          /\ harmed' \subseteq Events
      BY <3>1, PutTypes
    <3>. QED BY <2>5, <3>2 DEF Record, TypeOK, ctlVars
  <2>6. CASE Finish(p)
    BY <2>6 DEF Finish, TypeOK, fileVars, userVars, ctlVars
  <2>. QED BY <1>2, <2>1, <2>2, <2>3, <2>4, <2>5, <2>6 DEF Process
<1>3. ASSUME NEW r \in Resumers, Restore(r) PROVE TypeOK'
  <2>0. r \in Procs
    BY DEF Procs
  <2>1. CASE LoadChat(r)
    BY <1>0, <2>0, <2>1 DEF LoadChat, TypeOK, fileVars, ctlVars
  <2>2. CASE TakeQueue(r)
    <3>1. /\ todo' \in [Procs -> Seq(Events)] /\ queue' \in Seq(Events)
      BY <2>0, <2>2, EventSeqs DEF TakeQueue, TypeOK
    <3>2. /\ pc' \in [Procs -> {"idle", "load", "take", "clear", "check", "run", "record"}]
          /\ \A p \in Procs : pc'[p] = "record" => pc[p] = "record"
      BY <2>0, <2>2 DEF TakeQueue, TypeOK
    <3>3. saw' \in [Procs -> {"", "comment"}]
      BY <2>0, <2>2 DEF TakeQueue, TypeOK
    <3>4. harmed' \subseteq Events
      BY <1>0, <2>2 DEF TakeQueue, TypeOK
    <3>. QED BY <2>2, <3>1, <3>2, <3>3, <3>4 DEF TakeQueue, TypeOK, ctlVars
  <2>3. CASE Clear(r)
    <3>1. todo' \in [Procs -> Seq(Events)]
      BY <2>0, <2>3, EventSeqs DEF Clear, TypeOK
    <3>2. /\ pc' \in [Procs -> {"idle", "load", "take", "clear", "check", "run", "record"}]
          /\ \A p \in Procs : pc'[p] = "record" => pc[p] = "record"
      BY <2>0, <2>3 DEF Clear, TypeOK
    <3>3. /\ saw' \in [Procs -> {"", "comment"}] /\ expect' \in {"", "comment"}
      BY <2>0, <2>3 DEF Clear, TypeOK
    <3>4. harmed' \subseteq Events
      BY <1>0, <2>0, <2>3 DEF Clear, TypeOK
    <3>. QED BY <2>3, <3>1, <3>2, <3>3, <3>4 DEF Clear, TypeOK, ctlVars
  <2>. QED BY <1>3, <2>1, <2>2, <2>3 DEF Restore
<1>4. ASSUME NEW h \in Handlers, Begin(h) \/ Handle(h) PROVE TypeOK'
  <2>1. CASE Begin(h)
    <3>1. /\ doing' \in [Handlers -> Updates]
          /\ hpc' \in [Handlers -> {"idle", "note", "save", "signal", "tell"}]
      BY <2>1 DEF Begin, TypeOK
    <3>2. commands' \in 0 .. MaxCommands
      <4>1. commands \in 0 .. MaxCommands
        BY DEF TypeOK
      <4>2. commands < MaxCommands /\ commands' = commands + 1
        BY <2>1 DEF Begin
      <4>3. MaxCommands \in Nat
        BY DeliveryAssumption
      <4>. QED BY <4>1, <4>2, <4>3
    <3>. QED BY <2>1, <3>1, <3>2 DEF Begin, TypeOK, procVars, fileVars, userVars
  <2>5. CASE Note(h)
    <3>1. /\ recs' \in Seq(Events \union {NoEvent}) /\ Len(recs') <= MaxSentRecords
          /\ badRecs' \in BOOLEAN /\ noted' \in Seq(Events \union {NoEvent})
          /\ harmed' \subseteq Events
      BY <2>5, PutTypes DEF Note, TypeOK
    <3>. QED BY <2>5, <3>1 DEF Note, TypeOK, procVars
  <2>2. CASE Save(h)
    BY <2>2 DEF Save, TypeOK, procVars, userVars
  <2>3. CASE Signal(h)
    BY <2>3 DEF Signal, TypeOK, procVars, fileVars, userVars
  <2>4. CASE Tell(h)
    BY <2>4 DEF Tell, TypeOK, procVars, fileVars
  <2>. QED BY <1>4, <2>1, <2>2, <2>3, <2>4, <2>5 DEF Handle
<1>5. ASSUME Manager PROVE TypeOK'
  <2>1. CASE MgrPause
    BY <2>1 DEF MgrPause, TypeOK, procVars, fileVars
  <2>2. CASE MgrResume
    BY <2>2 DEF MgrResume, Resume, TypeOK, Procs, fileVars
  <2>3. CASE Cleanup
    BY <2>3 DEF Cleanup, Resume, TypeOK, Procs, fileVars
  <2>4. CASE MgrEnds
    BY <2>4 DEF MgrEnds, TypeOK, procVars, fileVars, userVars
  <2>. QED BY <1>5, <2>1, <2>2, <2>3, <2>4 DEF Manager
<1>6. CASE Crash
  <2>1. /\ todo' \in [Procs -> Seq(Events)] /\ queue' \in Seq(Events)
    BY <1>6, EventSeqs DEF Crash, TypeOK
  <2>2. /\ pc' \in [Procs -> {"idle", "load", "take", "clear", "check", "run", "record"}]
        /\ \A p \in Procs : pc'[p] # "record"
        /\ cur' \in [Procs -> Events \union {NoEvent}]
    BY <1>6 DEF Crash
  <2>3. /\ flag' \in [Procs -> BOOLEAN] /\ saw' \in [Procs -> {"", "comment"}]
        /\ hpc' \in [Handlers -> {"idle", "note", "save", "signal", "tell"}]
        /\ torn' \in BOOLEAN
    BY <1>6 DEF Crash, TypeOK
  <2>4. harmed' \subseteq Events
    <3>1. InHand \subseteq Events
      BY <1>0 DEF InHand
    <3>2. {cur[p] : p \in Procs} \subseteq Events \union {NoEvent}
      BY DEF TypeOK
    <3>3. Ran(recs) \subseteq Events \union {NoEvent}
      BY RanWithin DEF TypeOK
    <3>. QED BY <1>0, <1>6, <3>1, <3>2, <3>3 DEF Crash, TypeOK
  <2>5. /\ recs' \in Seq(Events \union {NoEvent}) /\ Len(recs') <= MaxSentRecords
        /\ badRecs' \in BOOLEAN
    <3>1. (recs' = <<>> /\ badRecs' = TRUE) \/ UNCHANGED <<recs, badRecs>>
      BY <1>6 DEF Crash
    <3>. QED BY <3>1, NoRecords DEF TypeOK
  <2>. QED BY <1>6, <2>1, <2>2, <2>3, <2>4, <2>5 DEF Crash, TypeOK
<1>7. CASE UNCHANGED vars
  BY <1>7 DEF vars, procVars, fileVars, userVars, ctlVars, TypeOK
<1>. QED BY <1>1, <1>2, <1>3, <1>4, <1>5, <1>6, <1>7 DEF Next

\* Every variable keeps its type, and a message that is being recorded has
\* an event.
THEOREM DeliveryTypes == Spec => []TypeOK
<1>. QED BY TypeInit, TypeStep, PTL DEF Spec

-----------------------------------------------------------------------------
(* Every event is in one place.                                            *)

\* What has not been reported, what is in the queue and what was sent is
\* apart from each other and without duplicates.
Listed ==
  /\ Distinct(sent) /\ Distinct(queue)
  /\ unseen \cap Ran(sent) = {} /\ unseen \cap Ran(queue) = {}
  /\ Ran(sent) \cap Ran(queue) = {}

\* And apart from what the goroutines hold, each for itself.
Held ==
  /\ \A p \in Procs : /\ Distinct(todo[p])
                      /\ Ran(todo[p]) \cap unseen = {}
                      /\ Ran(todo[p]) \cap Ran(queue) = {}
                      /\ Ran(todo[p]) \cap Ran(sent) = {}
  /\ \A p, q \in Procs : p # q => Ran(todo[p]) \cap Ran(todo[q]) = {}

OnePlace == Listed /\ Held

LEMMA PlaceInit == Init => OnePlace
<1> SUFFICES ASSUME Init PROVE OnePlace
  OBVIOUS
<1>1. \A p \in Procs : todo[p] = <<>>
  BY DEF Init
<1>2. sent = <<>> /\ queue = <<>>
  BY DEF Init
<1>. QED BY <1>1, <1>2, RanEmpty DEF OnePlace, Listed, Held

LEMMA PlaceStep == TypeOK /\ OnePlace /\ [Next]_vars => OnePlace'
<1> SUFFICES ASSUME TypeOK, OnePlace, [Next]_vars PROVE OnePlace'
  OBVIOUS
<1>0. ASSUME UNCHANGED <<unseen, todo, queue, sent>> PROVE OnePlace'
  BY <1>0 DEF OnePlace, Listed, Held
<1>1. ASSUME NEW w \in Workers, Arrive(w) PROVE OnePlace'
  <2>1. PICK b \in Batches :
          /\ unseen' = unseen \ Ran(b)
          /\ \/ todo' = [todo EXCEPT ![w] = b]
             \/ UNCHANGED todo
    BY <1>1 DEF Arrive
  <2>2. b \in Seq(Events) /\ Ran(b) \subseteq unseen /\ Distinct(b)
    BY BatchIsNew DEF TypeOK
  <2>3. todo \in [Procs -> Seq(Events)] /\ w \in Procs /\ UNCHANGED <<queue, sent>>
    BY <1>1 DEF Arrive, TypeOK, Procs, fileVars, userVars
  <2>. QED BY <2>1, <2>2, <2>3 DEF OnePlace, Listed, Held
<1>2. ASSUME NEW p \in Procs, Process(p) PROVE OnePlace'
  <2> DEFINE e == Head(todo[p])
             t == Tail(todo[p])
  <2>0. ASSUME More(p) PROVE /\ e \in Events /\ t \in Seq(Events) /\ Distinct(t)
                             /\ Ran(todo[p]) = Ran(t) \union {e} /\ e \notin Ran(t)
    <3>1. todo[p] \in Seq(Events) /\ todo[p] # <<>> /\ Distinct(todo[p])
      BY <2>0 DEF More, TypeOK, OnePlace, Held
    <3>. QED BY <3>1, SplitHead
  <2>1. ASSUME More(p), UNCHANGED unseen, todo' = [todo EXCEPT ![p] = t],
               \/ UNCHANGED <<queue, sent>>
               \/ queue' = <<>> /\ UNCHANGED sent
               \/ queue' = Append(queue, e) /\ UNCHANGED sent
               \/ sent' = Append(sent, e) /\ UNCHANGED queue
        PROVE  OnePlace'
    <3>1. todo \in [Procs -> Seq(Events)] /\ queue \in Seq(Events) /\ sent \in Seq(Events)
      BY DEF TypeOK
    <3>2. e \notin Ran(queue) /\ e \notin Ran(sent) /\ e \notin unseen
      BY <2>0, <2>1 DEF OnePlace, Held
    <3>3. /\ Distinct(Append(queue, e)) /\ Ran(Append(queue, e)) = Ran(queue) \union {e}
          /\ Distinct(Append(sent, e)) /\ Ran(Append(sent, e)) = Ran(sent) \union {e}
      BY <3>1, <3>2, <2>0, <2>1, RanAppend, DistinctAppend DEF OnePlace, Listed
    <3>4. todo'[p] = t /\ \A q \in Procs : q # p => todo'[q] = todo[q]
      BY <2>1, <3>1
    <3>5. \A q \in Procs : /\ Distinct(todo'[q]) /\ Ran(todo'[q]) \subseteq Ran(todo[q])
                           /\ e \notin Ran(todo'[q])
      BY <3>4, <2>0, <2>1 DEF OnePlace, Held
    <3>6. Listed'
      BY <3>2, <3>3, <2>1, RanEmpty DEF OnePlace, Listed
    <3>7. Held'
      <4>1. \A q \in Procs : Ran(todo'[q]) \cap unseen' = {}
        BY <3>5, <2>1 DEF OnePlace, Held
      <4>0. Ran(queue') \subseteq Ran(queue) \union {e} /\ Ran(sent') \subseteq Ran(sent) \union {e}
        BY <3>3, <2>1, RanEmpty
      <4>2. \A q \in Procs : Ran(todo'[q]) \cap Ran(queue') = {}
        BY <4>0, <3>5 DEF OnePlace, Held
      <4>3. \A q \in Procs : Ran(todo'[q]) \cap Ran(sent') = {}
        BY <4>0, <3>5 DEF OnePlace, Held
      <4>4. \A q, r \in Procs : q # r => Ran(todo'[q]) \cap Ran(todo'[r]) = {}
        BY <3>5 DEF OnePlace, Held
      <4>. QED BY <3>5, <4>1, <4>2, <4>3, <4>4 DEF Held
    <3>. QED BY <3>6, <3>7 DEF OnePlace
  <2>2. CASE Check(p)
    BY <2>2, <1>0 DEF Check, fileVars, userVars
  <2>3. CASE Enqueue(p)
    BY <2>3, <2>1 DEF Enqueue
  <2>4. CASE SendEvent(p)
    BY <2>4, <2>1 DEF SendEvent, fileVars
  <2>5. CASE SkipEvent(p)
    BY <2>5, <2>1 DEF SkipEvent, fileVars, userVars
  <2>6. CASE Record(p)
    BY <2>6, <1>0 DEF Record, userVars
  <2>7. CASE Finish(p)
    BY <2>7, <1>0 DEF Finish, fileVars, userVars
  <2>. QED BY <1>2, <2>2, <2>3, <2>4, <2>5, <2>6, <2>7 DEF Process
<1>3. ASSUME NEW r \in Resumers, Restore(r) PROVE OnePlace'
  <2>0. todo \in [Procs -> Seq(Events)] /\ r \in Procs
    BY DEF TypeOK, Procs
  <2>1. CASE LoadChat(r)
    BY <2>1, <1>0 DEF LoadChat, fileVars, userVars
  <2>2. CASE TakeQueue(r)
    <3>1. /\ \/ todo' = [todo EXCEPT ![r] = queue] /\ queue' = <<>>
             \/ UNCHANGED <<todo, queue>>
          /\ UNCHANGED <<unseen, sent>>
      BY <2>2 DEF TakeQueue, userVars
    <3>. QED BY <3>1, <2>0, RanEmpty DEF OnePlace, Listed, Held
  <2>3. CASE Clear(r)
    <3>1. /\ todo' = [todo EXCEPT ![r] = <<>>] \/ UNCHANGED todo
          /\ UNCHANGED <<unseen, sent, queue>>
      BY <2>3 DEF Clear, userVars
    <3>. QED BY <3>1, <2>0, RanEmpty DEF OnePlace, Listed, Held
  <2>. QED BY <1>3, <2>1, <2>2, <2>3 DEF Restore
<1>4. ASSUME NEW h \in Handlers, Begin(h) \/ Handle(h) PROVE OnePlace'
  BY <1>4, <1>0 DEF Begin, Handle, Note, Save, Signal, Tell, procVars, fileVars, userVars
<1>5. ASSUME Manager PROVE OnePlace'
  BY <1>5, <1>0 DEF Manager, MgrPause, MgrResume, Cleanup, MgrEnds, Resume,
                    procVars, fileVars, userVars
<1>6. CASE Crash
  <2>1. /\ todo' = [p \in Procs |-> <<>>]
        /\ queue' = queue \/ queue' = <<>>
        /\ UNCHANGED <<unseen, sent>>
    BY <1>6 DEF Crash
  <2>. QED BY <2>1, RanEmpty DEF OnePlace, Listed, Held
<1>7. CASE UNCHANGED vars
  BY <1>7, <1>0 DEF vars, procVars, fileVars, userVars
<1>. QED BY <1>1, <1>2, <1>3, <1>4, <1>5, <1>6, <1>7 DEF Next

\* No event is shown twice, whatever fails and however often the program is
\* killed.
THEOREM ShownAtMostOnce == Spec => []AtMostOnce
<1>1. OnePlace => AtMostOnce
  BY DEF OnePlace, Listed, AtMostOnce
<1>. QED BY <1>1, TypeInit, TypeStep, PlaceInit, PlaceStep, PTL DEF Spec

-----------------------------------------------------------------------------
(* Nothing is lost or stranded but what an error or a crash has met.       *)

\* A goroutine holds events only between Check and Finish, a message only
\* while it is recorded.
Tidy ==
  /\ \A p \in Procs : pc[p] \in {"idle", "load", "take"} => todo[p] = <<>>
  /\ \A p \in Procs : pc[p] # "record" => cur[p] = NoEvent

LEMMA TidyInit == Init => Tidy
<1> SUFFICES ASSUME Init PROVE Tidy
  OBVIOUS
<1>1. \A p \in Procs : todo[p] = <<>> /\ cur[p] = NoEvent
  BY DEF Init
<1>. QED BY <1>1 DEF Tidy

LEMMA TidyStep ==
  ASSUME TypeOK, Tidy, [Next]_vars PROVE Tidy'
<1> USE DEF Goto, Tidy
<1>0. Workers \subseteq Procs /\ Resumers \subseteq Procs
  BY DEF Procs
<1>1. ASSUME NEW w \in Workers, Arrive(w) PROVE Tidy'
  BY <1>0, <1>1 DEF Arrive, TypeOK, fileVars
<1>2. ASSUME NEW p \in Procs, Process(p) PROVE Tidy'
  <2>1. CASE Check(p)
    BY <2>1 DEF Check, TypeOK, fileVars
  <2>2. CASE Enqueue(p)
    <3>1. UNCHANGED <<pc, cur>>
      BY <2>2 DEF Enqueue
    <3>2. pc[p] = "run" /\ \A q \in Procs : q # p => todo'[q] = todo[q]
      BY <2>2 DEF Enqueue, More, TypeOK
    <3>. QED BY <3>1, <3>2
  <2>3. CASE SendEvent(p)
    BY <2>3 DEF SendEvent, More, TypeOK, fileVars
  <2>4. CASE SkipEvent(p)
    BY <2>4 DEF SkipEvent, More, TypeOK, fileVars
  <2>5. CASE Record(p)
    BY <2>5 DEF Record, TypeOK
  <2>6. CASE Finish(p)
    BY <2>6 DEF Finish, TypeOK, fileVars
  <2>. QED BY <1>2, <2>1, <2>2, <2>3, <2>4, <2>5, <2>6 DEF Process
<1>3. ASSUME NEW r \in Resumers, Restore(r) PROVE Tidy'
  <2>1. CASE LoadChat(r)
    BY <1>0, <2>1 DEF LoadChat, TypeOK, fileVars
  <2>2. CASE TakeQueue(r)
    BY <1>0, <2>2 DEF TakeQueue, TypeOK
  <2>3. CASE Clear(r)
    BY <1>0, <2>3 DEF Clear, TypeOK
  <2>. QED BY <1>3, <2>1, <2>2, <2>3 DEF Restore
<1>4. ASSUME NEW h \in Handlers, Begin(h) \/ Handle(h) PROVE Tidy'
  <2>1. UNCHANGED <<pc, todo, cur>>
    BY <1>4 DEF Begin, Handle, Note, Save, Signal, Tell, procVars, fileVars
  <2>. QED BY <2>1
<1>5. CASE Manager
  <2>1. CASE MgrPause
    BY <2>1 DEF MgrPause, procVars, fileVars
  <2>2. CASE MgrResume \/ Cleanup
    <3>1. PICK r \in Resumers : pc[r] = "idle" /\ pc' = [pc EXCEPT ![r] = "load"]
      BY <2>2 DEF MgrResume, Cleanup, Resume
    <3>2. UNCHANGED <<todo, cur>>
      BY <2>2 DEF MgrResume, Cleanup, Resume, fileVars
    <3>. QED BY <1>0, <3>1, <3>2 DEF TypeOK
  <2>3. CASE MgrEnds
    BY <2>3 DEF MgrEnds, procVars, fileVars
  <2>. QED BY <1>5, <2>1, <2>2, <2>3 DEF Manager
<1>6. CASE Crash
  BY <1>6 DEF Crash
<1>7. CASE UNCHANGED vars
  BY <1>7 DEF vars, procVars, fileVars
<1>. QED BY <1>1, <1>2, <1>3, <1>4, <1>5, <1>6, <1>7 DEF Next

\* What has been harmed stays so.
LEMMA HarmGrows == [Next]_vars => harmed \subseteq harmed'
<1> SUFFICES ASSUME [Next]_vars PROVE harmed \subseteq harmed'
  OBVIOUS
<1> USE DEF Harms, PutMsgRec, userVars
<1>1. ASSUME NEW w \in Workers, Arrive(w) PROVE harmed \subseteq harmed'
  BY <1>1 DEF Arrive
<1>2. ASSUME NEW p \in Procs, Process(p) PROVE harmed \subseteq harmed'
  BY <1>2 DEF Process, Check, Enqueue, SendEvent, SkipEvent, Record, Finish
<1>3. ASSUME NEW r \in Resumers, Restore(r) PROVE harmed \subseteq harmed'
  BY <1>3 DEF Restore, LoadChat, TakeQueue, Clear
<1>4. ASSUME NEW h \in Handlers, Begin(h) \/ Handle(h) PROVE harmed \subseteq harmed'
  BY <1>4 DEF Begin, Handle, Note, Save, Signal, Tell
<1>5. CASE Manager
  BY <1>5 DEF Manager, MgrPause, MgrResume, Cleanup, MgrEnds, Resume
<1>6. CASE Crash
  BY <1>6 DEF Crash
<1>7. CASE UNCHANGED vars
  BY <1>7 DEF vars
<1>. QED BY <1>1, <1>2, <1>3, <1>4, <1>5, <1>6, <1>7 DEF Next

\* What a goroutine that goes through its events does with the next one.
LEMMA NextEvent ==
  ASSUME TypeOK, OnePlace, NEW p \in Procs, More(p)
  PROVE  /\ Head(todo[p]) \in Events
         /\ Ran(todo[p]) = Ran(Tail(todo[p])) \union {Head(todo[p])}
<1>1. todo[p] \in Seq(Events) /\ todo[p] # <<>> /\ Distinct(todo[p])
  BY DEF More, TypeOK, OnePlace, Held
<1>. QED BY <1>1, SplitHead

LEMMA LostStep ==
  ASSUME TypeOK, OnePlace, Tidy, NothingLost, [Next]_vars
  PROVE  NothingLost'
<1> USE DEF Harms
<1> DEFINE Safe(e) == e \in unseen \/ e \in Muted \/ e \in harmed \/ e \in Ran(sent) \/ e \in Ran(queue)
                        \/ \E p \in Procs : e \in Ran(todo[p])
<1>a. \A e \in Events : Safe(e)
  BY DEF NothingLost, InHand
<1>b. SUFFICES ASSUME NEW e \in Events PROVE Safe(e)'
  BY DEF NothingLost, InHand
<1>c. todo \in [Procs -> Seq(Events)] /\ queue \in Seq(Events) /\ sent \in Seq(Events)
  BY DEF TypeOK
<1>d. harmed \subseteq harmed'
  BY HarmGrows
<1>0. ASSUME UNCHANGED <<unseen, todo, queue, sent>> PROVE Safe(e)'
  BY <1>a, <1>d, <1>0
<1>1. ASSUME NEW w \in Workers, Arrive(w) PROVE Safe(e)'
  <2>1. PICK b \in Batches :
          /\ unseen' = unseen \ Ran(b)
          /\ \/ todo' = [todo EXCEPT ![w] = b]
             \/ harmed' = harmed \union Ran(b) /\ UNCHANGED todo
    BY <1>1 DEF Arrive
  <2>2. w \in Procs /\ todo[w] = <<>> /\ UNCHANGED <<queue, sent>>
    BY <1>1 DEF Procs, Tidy, Arrive, fileVars
  <2>3. \A q \in Procs : q # w => todo'[q] = todo[q]
    BY <2>1, <2>2, <1>c
  <2>4. Ran(b) \subseteq Ran(todo'[w]) \union harmed'
    BY <2>1, <2>2, <1>c
  <2>. QED BY <1>a, <1>d, <2>1, <2>2, <2>3, <2>4, RanEmpty
<1>2. ASSUME NEW p \in Procs, Process(p) PROVE Safe(e)'
  <2>1. ASSUME More(p), UNCHANGED unseen, todo' = [todo EXCEPT ![p] = Tail(@)],
               \/ queue' = Append(queue, Head(todo[p])) /\ UNCHANGED sent
               \/ sent' = Append(sent, Head(todo[p])) /\ UNCHANGED queue
               \/ Head(todo[p]) \in Muted \union harmed' /\ UNCHANGED <<queue, sent>>
               \/ Ran(queue) \union {Head(todo[p])} \subseteq harmed' /\ UNCHANGED sent
        PROVE  Safe(e)'
    <3>1. Head(todo[p]) \in Events /\ Ran(todo[p]) = Ran(Tail(todo[p])) \union {Head(todo[p])}
      BY <2>1, NextEvent
    <3>2. /\ Ran(Append(queue, Head(todo[p]))) = Ran(queue) \union {Head(todo[p])}
          /\ Ran(Append(sent, Head(todo[p]))) = Ran(sent) \union {Head(todo[p])}
      BY <3>1, <1>c, RanAppend
    <3>3. todo'[p] = Tail(todo[p]) /\ \A q \in Procs : q # p => todo'[q] = todo[q]
      BY <2>1, <1>c
    <3>4. /\ Ran(queue) \subseteq Ran(queue') \union harmed' /\ Ran(sent) \subseteq Ran(sent')
          /\ Head(todo[p]) \in Muted \union Ran(sent') \union Ran(queue') \union harmed'
      BY <2>1, <3>2
    <3>. QED BY <1>a, <1>d, <2>1, <3>1, <3>3, <3>4
  <2>2. CASE Check(p)
    BY <2>2, <1>0 DEF Check, fileVars, userVars
  <2>3. CASE Enqueue(p)
    BY <2>3, <2>1 DEF Enqueue
  <2>4. CASE SendEvent(p)
    BY <2>4, <2>1 DEF SendEvent, fileVars
  <2>5. CASE SkipEvent(p)
    BY <2>5, <2>1 DEF SkipEvent, fileVars, userVars
  <2>6. CASE Record(p)
    BY <2>6, <1>0 DEF Record
  <2>7. CASE Finish(p)
    BY <2>7, <1>0 DEF Finish, fileVars, userVars
  <2>. QED BY <1>2, <2>2, <2>3, <2>4, <2>5, <2>6, <2>7 DEF Process
<1>3. ASSUME NEW r \in Resumers, Restore(r) PROVE Safe(e)'
  <2>1. CASE LoadChat(r)
    BY <2>1, <1>0 DEF LoadChat, fileVars
  <2>2. CASE TakeQueue(r)
    <3>1. CASE UNCHANGED <<todo, queue>>
      BY <2>2, <3>1, <1>0 DEF TakeQueue
    <3>2. CASE todo' = [todo EXCEPT ![r] = queue]
      <4>1. r \in Procs /\ todo[r] = <<>> /\ UNCHANGED <<unseen, sent>>
        BY <2>2 DEF Procs, Tidy, TakeQueue
      <4>2. todo'[r] = queue /\ \A q \in Procs : q # r => todo'[q] = todo[q]
        BY <3>2, <4>1, <1>c
      <4>. QED BY <1>a, <1>d, <4>1, <4>2, RanEmpty
    <3>. QED BY <2>2, <3>1, <3>2 DEF TakeQueue
  <2>3. CASE Clear(r)
    <3>1. CASE UNCHANGED todo
      BY <2>3, <3>1, <1>0 DEF Clear
    <3>2. CASE todo' = [todo EXCEPT ![r] = <<>>] /\ harmed' = harmed \union Ran(todo[r])
      <4>1. r \in Procs /\ UNCHANGED <<unseen, sent, queue>>
        BY <2>3 DEF Procs, Clear
      <4>2. \A q \in Procs : q # r => todo'[q] = todo[q]
        BY <3>2, <4>1, <1>c
      <4>. QED BY <1>a, <1>d, <3>2, <4>1, <4>2
    <3>. QED BY <2>3, <3>1, <3>2 DEF Clear
  <2>. QED BY <1>3, <2>1, <2>2, <2>3 DEF Restore
<1>4. ASSUME NEW h \in Handlers, Begin(h) \/ Handle(h) PROVE Safe(e)'
  BY <1>4, <1>0 DEF Begin, Handle, Note, Save, Signal, Tell, procVars, fileVars, userVars
<1>5. ASSUME Manager PROVE Safe(e)'
  BY <1>5, <1>0 DEF Manager, MgrPause, MgrResume, Cleanup, MgrEnds, Resume,
                    procVars, fileVars, userVars
<1>6. CASE Crash
  <2>1. /\ harmed' = harmed \union ((InHand \union Ran(queue) \union {cur[p] : p \in Procs} \union (Ran(recs) \ Ran(recs')))
                                       \ {NoEvent})
        /\ UNCHANGED <<unseen, sent>>
    BY <1>6 DEF Crash
  <2>2. e # NoEvent
    BY DeliveryAssumption
  <2>. QED BY <1>a, <2>1, <2>2 DEF InHand
<1>7. CASE UNCHANGED vars
  BY <1>7, <1>0 DEF vars, procVars, fileVars, userVars
<1>. QED BY <1>1, <1>2, <1>3, <1>4, <1>5, <1>6, <1>7 DEF Next

\* Every event that came in is shown, muted, queued or in the hands of a
\* goroutine, unless an error or a crash has met it.
THEOREM NoEventIsLost == Spec => []NothingLost
<1>1. Init => NothingLost
  BY DEF Init, NothingLost
<1>2. TypeOK /\ OnePlace /\ Tidy /\ NothingLost /\ [Next]_vars => NothingLost' /\ Tidy'
  BY LostStep, TidyStep
<1>. QED BY <1>1, <1>2, TypeInit, TypeStep, PlaceInit, PlaceStep, TidyInit, PTL DEF Spec

LEMMA StrandedStep ==
  ASSUME TypeOK, Tidy, OnePlace, OnlyStaleStranded, [Next]_vars
  PROVE  OnlyStaleStranded'
<1> USE DEF Goto, Harms
<1>a. harmed \subseteq harmed'
  BY HarmGrows
<1>0. ASSUME UNCHANGED <<paused, queue, stale>>,
             \A r \in Resumers : pc[r] \in {"load", "take"} => pc'[r] \in {"load", "take"}
      PROVE  OnlyStaleStranded'
  BY <1>a, <1>0 DEF OnlyStaleStranded
<1>1. ASSUME NEW w \in Workers, Arrive(w) PROVE OnlyStaleStranded'
  BY <1>1, <1>0 DEF Arrive, TypeOK, fileVars, ctlVars, Procs
<1>2. ASSUME NEW p \in Procs, Process(p) PROVE OnlyStaleStranded'
  <2>0. \A r \in Resumers : pc[r] \in {"load", "take"} => pc'[r] \in {"load", "take"}
    BY <1>2 DEF Process, Check, Enqueue, SendEvent, SkipEvent, Record, Finish, More, TypeOK, Procs
  <2>1. CASE Enqueue(p)
    <3>1. /\ UNCHANGED paused
          /\ \/ queue' = <<>>
             \/ UNCHANGED <<queue, stale>>
             \/ /\ queue' = Append(queue, Head(todo[p]))
                /\ ~paused => stale' = stale \union {Head(todo[p])}
      BY <2>1 DEF Enqueue, ctlVars
    <3>2. Head(todo[p]) \in Events /\ queue \in Seq(Events)
      BY <2>1, NextEvent DEF Enqueue, TypeOK
    <3>3. Ran(Append(queue, Head(todo[p]))) = Ran(queue) \union {Head(todo[p])}
      BY <3>2, RanAppend
    <3>. QED BY <1>a, <2>0, <3>1, <3>3, RanEmpty DEF OnlyStaleStranded
  <2>2. CASE ~Enqueue(p)
    <3>1. UNCHANGED <<paused, queue, stale>>
      BY <1>2, <2>2 DEF Process, Check, SendEvent, SkipEvent, Record, Finish,
                        fileVars, userVars, ctlVars
    <3>. QED BY <2>0, <3>1, <1>0
  <2>. QED BY <2>1, <2>2
<1>3. ASSUME NEW r \in Resumers, Restore(r) PROVE OnlyStaleStranded'
  <2>1. CASE LoadChat(r)
    <3>1. CASE pc' = [pc EXCEPT ![r] = "take"]
      BY <2>1, <3>1, <1>0 DEF LoadChat, TypeOK, Procs, fileVars, ctlVars
    <3>2. CASE harmed' = harmed \union Ran(queue)
      BY <2>1, <3>2 DEF LoadChat, OnlyStaleStranded, fileVars
    <3>. QED BY <2>1, <3>1, <3>2 DEF LoadChat
  <2>2. CASE TakeQueue(r)
    <3>1. queue' = <<>> \/ (UNCHANGED queue /\ harmed' = harmed \union Ran(queue))
      BY <2>2 DEF TakeQueue
    <3>. QED BY <3>1, RanEmpty DEF OnlyStaleStranded
  <2>3. CASE Clear(r)
    BY <2>3, <1>0 DEF Clear, TypeOK, Procs, ctlVars
  <2>. QED BY <1>3, <2>1, <2>2, <2>3 DEF Restore
<1>4. ASSUME NEW h \in Handlers, Begin(h) \/ Handle(h) PROVE OnlyStaleStranded'
  BY <1>4, <1>0 DEF Begin, Handle, Note, Save, Signal, Tell, procVars, fileVars, userVars
<1>5. CASE Manager
  <2>1. CASE MgrPause
    BY <2>1 DEF MgrPause, OnlyStaleStranded
  <2>2. CASE MgrResume \/ Cleanup
    <3>1. PICK r \in Resumers : pc' = [pc EXCEPT ![r] = "load"]
      BY <2>2 DEF MgrResume, Cleanup, Resume
    <3>2. pc'[r] = "load"
      BY <3>1 DEF TypeOK, Procs
    <3>. QED BY <3>2 DEF OnlyStaleStranded
  <2>3. CASE MgrEnds
    BY <2>3, <1>0 DEF MgrEnds, procVars, fileVars, userVars
  <2>. QED BY <1>5, <2>1, <2>2, <2>3 DEF Manager
<1>6. CASE Crash
  <2>1. harmed' = harmed \union ((InHand \union Ran(queue) \union {cur[p] : p \in Procs} \union (Ran(recs) \ Ran(recs')))
                                       \ {NoEvent})
    BY <1>6 DEF Crash
  <2>2. queue' = queue \/ queue' = <<>>
    BY <1>6 DEF Crash
  <2>3. Ran(queue) \subseteq Events
    BY RanWithin DEF TypeOK
  <2>4. Ran(queue) \subseteq harmed'
    BY <2>1, <2>3, DeliveryAssumption
  <2>. QED BY <2>2, <2>4, RanEmpty DEF OnlyStaleStranded
<1>7. CASE UNCHANGED vars
  BY <1>7, <1>0 DEF vars, procVars, fileVars, userVars, ctlVars
<1>. QED BY <1>1, <1>2, <1>3, <1>4, <1>5, <1>6, <1>7 DEF Next

\* Only an event queued behind a stale flag, or one that an error or a crash
\* has met, can stay in the queue of a chat that is not paused.
THEOREM StaleFlagIsTheOnlyCause == Spec => []OnlyStaleStranded
<1>1. Init => OnlyStaleStranded
  BY RanEmpty DEF Init, OnlyStaleStranded
<1>2. TypeOK /\ Tidy /\ OnePlace /\ OnlyStaleStranded /\ [Next]_vars
        => OnlyStaleStranded' /\ Tidy'
  BY StrandedStep, TidyStep
<1>. QED BY <1>1, <1>2, TypeInit, TypeStep, PlaceInit, PlaceStep, TidyInit, PTL DEF Spec

\* Every message has had its record written, or will.
SentNoted == Ran(sent) \subseteq Ran(noted) \union {cur[p] : p \in Procs} \union harmed

\* The list of records is the end of all that were written, or it cannot be
\* read and a fault has met that end.
RecsKept ==
  /\ ~badRecs => /\ Len(noted) <= MaxSentRecords => Len(recs) = Len(noted)
                 /\ Len(noted) > MaxSentRecords => Len(recs) = MaxSentRecords
                 /\ \A i \in 1 .. Len(recs) : recs[i] = noted[Len(noted) - Len(recs) + i]
  /\ badRecs => /\ recs = <<>>
                /\ \A i \in DOMAIN noted :
                     i > Len(noted) - MaxSentRecords => noted[i] \in harmed \union {NoEvent}

LEMMA EndOfList ==
  ASSUME NEW n \in Nat, NEW r \in Nat, NEW m \in Nat, NEW i \in 1 .. n, i > n - m,
         n <= m => r = n, n > m => r = m
  PROVE  i - (n - r) \in 1 .. r
OBVIOUS

LEMMA LastAreRead ==
  ASSUME TypeOK, RecsKept, NEW i \in DOMAIN noted, i > Len(noted) - MaxSentRecords
  PROVE  noted[i] \in Ran(recs) \union harmed \union {NoEvent}
<1>1. CASE badRecs
  BY <1>1 DEF RecsKept
<1>2. CASE ~badRecs
  <2>1. /\ DOMAIN noted = 1 .. Len(noted) /\ Len(noted) \in Nat
        /\ DOMAIN recs = 1 .. Len(recs) /\ Len(recs) \in Nat /\ MaxSentRecords \in Nat \ {0}
    BY DeliveryAssumption, LenProperties DEF TypeOK
  <2>2. /\ Len(noted) <= MaxSentRecords => Len(recs) = Len(noted)
        /\ Len(noted) > MaxSentRecords => Len(recs) = MaxSentRecords
    BY <1>2 DEF RecsKept
  <2>3. PICK k \in 1 .. Len(recs) : Len(noted) - Len(recs) + k = i
    <3>0. i \in 1 .. Len(noted) /\ i > Len(noted) - MaxSentRecords
      BY <2>1
    <3>1. i - (Len(noted) - Len(recs)) \in 1 .. Len(recs)
      BY <2>1, <2>2, <3>0, EndOfList
    <3>2. Len(noted) - Len(recs) + (i - (Len(noted) - Len(recs))) = i
      BY <2>1
    <3>. QED BY <3>1, <3>2
  <2>4. recs[k] = noted[i]
    BY <1>2, <2>3 DEF RecsKept
  <2>. QED BY <2>1, <2>4 DEF Ran
<1>3. badRecs \in BOOLEAN
  BY DEF TypeOK
<1>. QED BY <1>1, <1>2, <1>3

\* An unfinished write harms the records there were.
LEMMA LostRecsKept ==
  ASSUME TypeOK, RecsKept, badRecs' = TRUE, recs' = <<>>, UNCHANGED noted,
         harmed \subseteq harmed', Ran(recs) \ {NoEvent} \subseteq harmed'
  PROVE  RecsKept'
<1>1. ASSUME NEW i \in DOMAIN noted', i > Len(noted') - MaxSentRecords
      PROVE  noted'[i] \in harmed' \union {NoEvent}
  <2>1. noted[i] \in Ran(recs) \union harmed \union {NoEvent} /\ noted'[i] = noted[i]
    BY <1>1, LastAreRead
  <2>. QED BY <2>1
<1>. QED BY <1>1 DEF RecsKept

LEMMA PutKeeps ==
  ASSUME TypeOK, RecsKept, NEW e \in Events \union {NoEvent}, PutMsgRec(e)
  PROVE  /\ RecsKept'
         /\ Ran(noted) \subseteq Ran(noted')
         /\ e \in Ran(noted') \union harmed' \union {NoEvent}
<1> DEFINE S == Events \union {NoEvent}
<1>0. /\ recs \in Seq(S) /\ noted \in Seq(S) /\ Len(recs) <= MaxSentRecords
      /\ Len(recs) \in Nat /\ Len(noted) \in Nat /\ MaxSentRecords \in Nat \ {0}
  BY DeliveryAssumption, LenProperties DEF TypeOK
<1>1. CASE /\ ~badRecs /\ recs' = Trimmed(Append(recs, e)) /\ noted' = Append(noted, e)
           /\ UNCHANGED <<badRecs, harmed>>
  <2>1. /\ Len(noted') = Len(noted) + 1 /\ noted'[Len(noted) + 1] = e
        /\ \A i \in 1 .. Len(noted) : noted'[i] = noted[i]
    BY <1>0, <1>1, AppendProperties
  <2>2. /\ Len(Append(recs, e)) = Len(recs) + 1 /\ Append(recs, e)[Len(recs) + 1] = e
        /\ \A i \in 1 .. Len(recs) : Append(recs, e)[i] = recs[i]
    BY <1>0, AppendProperties
  <2>3. /\ Len(noted) <= MaxSentRecords => Len(recs) = Len(noted)
        /\ Len(noted) > MaxSentRecords => Len(recs) = MaxSentRecords
        /\ \A i \in 1 .. Len(recs) : recs[i] = noted[Len(noted) - Len(recs) + i]
    BY <1>1 DEF RecsKept
  <2>0. Len(noted) - Len(recs) \in Nat
    BY <1>0, <2>3
  <2>4. ASSUME Len(recs) < MaxSentRecords PROVE RecsKept'
    <3>1. recs' = Append(recs, e) /\ Len(recs) = Len(noted)
      BY <1>0, <1>1, <2>3, <2>4, TrimmedIs
    <3>2. Len(recs') = Len(noted') /\ Len(noted') <= MaxSentRecords
      BY <1>0, <2>1, <2>2, <2>4, <3>1
    <3>3. ASSUME NEW i \in 1 .. Len(recs')
          PROVE  recs'[i] = noted'[Len(noted') - Len(recs') + i]
      <4>1. Len(noted') - Len(recs') + i = i /\ (i \in 1 .. Len(recs) \/ i = Len(recs) + 1)
        BY <1>0, <2>1, <3>1, <3>2
      <4>2. CASE i \in 1 .. Len(recs)
        <5>1. Len(noted) - Len(recs) + i = i
          BY <1>0, <3>1, <4>2
        <5>. QED BY <2>1, <2>2, <2>3, <3>1, <4>1, <4>2, <5>1
      <4>3. CASE i = Len(recs) + 1
        BY <2>1, <2>2, <3>1, <4>1, <4>3
      <4>. QED BY <4>1, <4>2, <4>3
    <3>. QED BY <1>0, <1>1, <3>2, <3>3 DEF RecsKept
  <2>5. ASSUME Len(recs) = MaxSentRecords PROVE RecsKept'
    <3>1. Len(recs') = Len(recs) /\ \A i \in 1 .. Len(recs) : recs'[i] = Append(recs, e)[i + 1]
      BY <1>0, <1>1, <2>5, TrimmedIs
    <3>2. Len(recs') = MaxSentRecords /\ ~(Len(noted') <= MaxSentRecords)
      BY <1>0, <2>0, <2>1, <2>5, <3>1
    <3>3. ASSUME NEW i \in 1 .. Len(recs')
          PROVE  recs'[i] = noted'[Len(noted') - Len(recs') + i]
      <4>1. Len(noted') - Len(recs') + i = Len(noted) - Len(recs) + (i + 1)
        BY <1>0, <2>1, <3>1
      <4>2. CASE i + 1 \in 1 .. Len(recs)
        <5>1. recs'[i] = noted[Len(noted) - Len(recs) + (i + 1)]
          BY <2>2, <2>3, <3>1, <3>3, <4>2
        <5>2. Len(noted) - Len(recs) + (i + 1) \in 1 .. Len(noted)
          BY <1>0, <2>0, <4>2
        <5>. QED BY <2>1, <4>1, <5>1, <5>2
      <4>3. CASE i = Len(recs)
        <5>1. Len(noted) - Len(recs) + (i + 1) = Len(noted) + 1
          BY <1>0, <4>3
        <5>2. recs'[i] = e
          BY <1>0, <2>2, <3>1, <3>3, <4>3
        <5>. QED BY <2>1, <4>1, <5>1, <5>2
      <4>4. i + 1 \in 1 .. Len(recs) \/ i = Len(recs)
        BY <1>0, <3>1
      <4>. QED BY <4>2, <4>3, <4>4
    <3>. QED BY <1>1, <3>2, <3>3 DEF RecsKept
  <2>6. Ran(noted') = Ran(noted) \union {e}
    BY <1>0, <1>1, RanAppend
  <2>7. RecsKept'
    BY <1>0, <2>4, <2>5
  <2>. QED BY <2>6, <2>7
<1>2. CASE /\ UNCHANGED <<badRecs, recs, noted>>
           /\ harmed' = harmed \union (({e} \union (Ran(recs) \ Ran(recs'))) \ {NoEvent})
  BY <1>2 DEF RecsKept
<1>3. CASE /\ badRecs' = TRUE /\ recs' = <<>> /\ UNCHANGED noted
           /\ harmed' = harmed \union (({e} \union (Ran(recs) \ Ran(recs'))) \ {NoEvent})
  BY <1>3, LostRecsKept, RanEmpty
<1>. QED BY <1>1, <1>2, <1>3 DEF PutMsgRec, Harms

LEMMA ButtonStep ==
  ASSUME TypeOK, Tidy, OnePlace, SentNoted, RecsKept, [Next]_vars
  PROVE  SentNoted' /\ RecsKept'
<1> USE DEF Goto, Harms
<1>a. harmed \subseteq harmed'
  BY HarmGrows
<1>b. NoEvent \notin Ran(sent)
  BY RanWithin, DeliveryAssumption DEF TypeOK
<1>c. ASSUME UNCHANGED <<recs, badRecs, noted>> PROVE RecsKept'
  BY <1>a, <1>c DEF RecsKept
<1>0. ASSUME UNCHANGED <<sent, recs, badRecs, noted, cur>> PROVE SentNoted' /\ RecsKept'
  BY <1>a, <1>c, <1>0 DEF SentNoted
<1>1. ASSUME NEW w \in Workers, Arrive(w) PROVE SentNoted' /\ RecsKept'
  BY <1>1, <1>0 DEF Arrive, fileVars, recVars
<1>2. ASSUME NEW p \in Procs, Process(p) PROVE SentNoted' /\ RecsKept'
  <2>1. CASE SendEvent(p)
    <3>1. /\ sent' = sent \/ sent' = Append(sent, Head(todo[p]))
          /\ UNCHANGED <<recs, badRecs, noted>>
          /\ \/ cur' = [cur EXCEPT ![p] = Head(todo[p])]
             \/ UNCHANGED cur /\ Head(todo[p]) \in harmed'
      BY <2>1 DEF SendEvent, fileVars, recVars
    <3>2. Head(todo[p]) \in Events /\ sent \in Seq(Events)
      BY <2>1, NextEvent DEF SendEvent, TypeOK
    <3>3. Ran(sent') \subseteq Ran(sent) \union {Head(todo[p])}
      BY <3>1, <3>2, RanAppend
    <3>4. cur[p] = NoEvent
      BY <2>1 DEF SendEvent, More, Tidy
    <3>5. /\ cur'[p] = Head(todo[p]) \/ Head(todo[p]) \in harmed'
          /\ \A q \in Procs : q # p => cur'[q] = cur[q]
      BY <3>1 DEF TypeOK
    <3>6. SentNoted'
      BY <1>a, <1>b, <3>1, <3>3, <3>4, <3>5 DEF SentNoted
    <3>. QED BY <1>c, <3>1, <3>6
  <2>2. CASE Record(p)
    <3>1. PutMsgRec(cur[p]) /\ UNCHANGED sent /\ cur' = [cur EXCEPT ![p] = NoEvent]
      BY <2>2 DEF Record
    <3>2. cur[p] \in Events \union {NoEvent} /\ \A q \in Procs : q # p => cur'[q] = cur[q]
      BY <3>1 DEF TypeOK
    <3>3. /\ RecsKept' /\ Ran(noted) \subseteq Ran(noted')
          /\ cur[p] \in Ran(noted') \union harmed' \union {NoEvent}
      BY <3>1, <3>2, PutKeeps
    <3>4. SentNoted'
      BY <1>a, <1>b, <3>1, <3>2, <3>3 DEF SentNoted
    <3>. QED BY <3>3, <3>4
  <2>3. CASE ~SendEvent(p) /\ ~Record(p)
    BY <1>2, <2>3, <1>0 DEF Process, Check, Enqueue, SkipEvent, Finish, fileVars, recVars, userVars
  <2>. QED BY <2>1, <2>2, <2>3
<1>3. ASSUME NEW r \in Resumers, Restore(r) PROVE SentNoted' /\ RecsKept'
  BY <1>3, <1>0 DEF Restore, LoadChat, TakeQueue, Clear, fileVars, recVars, userVars
<1>4. ASSUME NEW h \in Handlers, Begin(h) \/ Handle(h) PROVE SentNoted' /\ RecsKept'
  <2>1. CASE Note(h)
    <3>1. UNCHANGED <<sent, cur>>
      BY <2>1 DEF Note, procVars
    <3>2. RecsKept' /\ Ran(noted) \subseteq Ran(noted')
      <4>1. CASE PutMsgRec(NoEvent)
        BY <4>1, PutKeeps
      <4>2. CASE UNCHANGED recVars
        BY <1>c, <4>2 DEF recVars
      <4>. QED BY <2>1, <4>1, <4>2 DEF Note
    <3>. QED BY <1>a, <3>1, <3>2 DEF SentNoted
  <2>2. CASE ~Note(h)
    BY <1>4, <2>2, <1>0 DEF Begin, Handle, Save, Signal, Tell, procVars, fileVars, recVars, userVars
  <2>. QED BY <2>1, <2>2
<1>5. ASSUME Manager PROVE SentNoted' /\ RecsKept'
  BY <1>5, <1>0 DEF Manager, MgrPause, MgrResume, Cleanup, MgrEnds, Resume,
                    procVars, fileVars, recVars, userVars
<1>6. CASE Crash
  <2>1. /\ {cur[p] : p \in Procs} \ {NoEvent} \subseteq harmed'
        /\ (Ran(recs) \ Ran(recs')) \ {NoEvent} \subseteq harmed'
        /\ UNCHANGED <<sent, noted>>
    BY <1>6 DEF Crash
  <2>2. SentNoted'
    BY <1>a, <1>b, <2>1 DEF SentNoted
  <2>3. CASE UNCHANGED <<badRecs, recs>>
    BY <1>c, <2>1, <2>2, <2>3
  <2>4. CASE badRecs' = TRUE /\ recs' = <<>>
    <3>1. Ran(recs) \ {NoEvent} \subseteq harmed'
      BY <2>1, <2>4, RanEmpty
    <3>. QED BY <1>a, <2>1, <2>2, <2>4, <3>1, LostRecsKept
  <2>. QED BY <1>6, <2>3, <2>4 DEF Crash
<1>7. CASE UNCHANGED vars
  BY <1>7, <1>0 DEF vars, procVars, fileVars, recVars, userVars
<1>. QED BY <1>1, <1>2, <1>3, <1>4, <1>5, <1>6, <1>7 DEF Next

\* Every message with an event has had its record written, or the goroutine
\* that sent it is about to, and the last maxSentRecords records written are
\* in the file, unless an error or a kill has met the event: for any bound of
\* the list and any number of goroutines that send and comment at once.
THEOREM EveryMessageRecorded == Spec => []ButtonsWork
<1>1. Init => SentNoted /\ RecsKept
  <2>. SUFFICES ASSUME Init PROVE SentNoted /\ RecsKept
    OBVIOUS
  <2>1. recs = <<>> /\ noted = <<>> /\ sent = <<>> /\ badRecs = FALSE
    BY DEF Init
  <2>2. MaxSentRecords \in Nat
    BY DeliveryAssumption
  <2>. QED BY <2>1, <2>2, RanEmpty DEF SentNoted, RecsKept
<1>2. TypeOK /\ SentNoted /\ RecsKept => ButtonsWork
  BY LastAreRead DEF SentNoted, ButtonsWork
<1>3. TypeOK /\ Tidy /\ OnePlace /\ SentNoted /\ RecsKept /\ [Next]_vars
        => SentNoted' /\ RecsKept' /\ Tidy'
  BY ButtonStep, TidyStep
<1>. QED BY <1>1, <1>2, <1>3, TypeInit, TypeStep, PlaceInit, PlaceStep, TidyInit, PTL DEF Spec

-----------------------------------------------------------------------------
(* The events flow as EventFlow says.  A goroutine is known to it only by  *)
(* the batch it has in hand, so that two batches in hand must not be equal: *)
(* OnePlace.                                                               *)

\* Only an error or a kill leaves queue.json unfinished.
TornByFault == torn => Failures \/ Crashes

LEMMA TornStep ==
  ASSUME TornByFault, [Next]_vars
  PROVE  TornByFault'
<1>1. ASSUME NEW w \in Workers, Arrive(w) PROVE TornByFault'
  BY <1>1 DEF Arrive, fileVars, TornByFault
<1>2. ASSUME NEW p \in Procs, Process(p) PROVE TornByFault'
  BY <1>2 DEF Process, Check, Enqueue, SendEvent, SkipEvent, Record, Finish, fileVars, TornByFault
<1>3. ASSUME NEW r \in Resumers, Restore(r) PROVE TornByFault'
  BY <1>3 DEF Restore, LoadChat, TakeQueue, Clear, fileVars, TornByFault
<1>4. ASSUME NEW h \in Handlers, Begin(h) \/ Handle(h) PROVE TornByFault'
  BY <1>4 DEF Begin, Handle, Note, Save, Signal, Tell, fileVars, TornByFault
<1>5. CASE Manager
  BY <1>5 DEF Manager, MgrPause, MgrResume, Cleanup, MgrEnds, Resume, fileVars, TornByFault
<1>6. CASE Crash
  BY <1>6 DEF Crash, TornByFault
<1>7. CASE UNCHANGED vars
  BY <1>7 DEF vars, fileVars, TornByFault
<1>. QED BY <1>1, <1>2, <1>3, <1>4, <1>5, <1>6, <1>7 DEF Next

\* What the batches in hand are, as membership.
LEMMA InHandsAre ==
  ASSUME NEW s PROVE s \in InHands <=> s # <<>> /\ \E p \in Procs : todo[p] = s
BY DEF InHands

\* A goroutine takes the front event: no other one has the same batch.
LEMMA HandAdvances ==
  ASSUME TypeOK, OnePlace, NEW p \in Procs, More(p), todo' = [todo EXCEPT ![p] = Tail(@)]
  PROVE  todo[p] \in InHands /\ InHands' = Flow!Without(todo[p])
<1>1. todo[p] # <<>> /\ todo'[p] = Tail(todo[p]) /\ \A q \in Procs : q # p => todo'[q] = todo[q]
  BY DEF More, TypeOK
<1>2. Ran(todo[p]) # {}
  BY NextEvent
<1>3. \A q \in Procs : q # p => todo[q] # todo[p]
  BY <1>2 DEF OnePlace, Held
<1>4. \A s : s \in InHands' <=> s # <<>> /\ \E q \in Procs : todo'[q] = s
  BY DEF InHands
<1>5. ASSUME NEW s \in InHands' PROVE s \in Flow!Without(todo[p])
  <2>1. PICK q \in Procs : s # <<>> /\ todo'[q] = s
    BY <1>4, <1>5
  <2>2. CASE q = p
    BY <1>1, <2>1, <2>2 DEF Flow!Without
  <2>3. CASE q # p
    <3>1. s = todo[q] /\ s # todo[p]
      BY <1>1, <1>3, <2>1, <2>3
    <3>. QED BY <2>1, <3>1, InHandsAre DEF Flow!Without
  <2>. QED BY <2>2, <2>3
<1>6. ASSUME NEW s \in Flow!Without(todo[p]) PROVE s \in InHands'
  <2>1. CASE s \in InHands \ {todo[p]}
    <3>1. PICK q \in Procs : s # <<>> /\ todo[q] = s
      BY <2>1, InHandsAre
    <3>2. q # p
      BY <2>1, <3>1
    <3>. QED BY <1>1, <1>4, <3>1, <3>2
  <2>2. CASE s = Tail(todo[p]) /\ s # <<>>
    BY <1>1, <1>4, <2>2
  <2>. QED BY <1>6, <2>1, <2>2 DEF Flow!Without
<1>. QED BY <1>1, <1>5, <1>6, InHandsAre

\* A goroutine with empty hands gets a batch.
LEMMA HandFills ==
  ASSUME TypeOK, NEW p \in Procs, todo[p] = <<>>, NEW b, b # <<>>, todo' = [todo EXCEPT ![p] = b]
  PROVE  InHands' = InHands \union {b}
<1>1. todo'[p] = b /\ \A q \in Procs : q # p => todo'[q] = todo[q]
  BY DEF TypeOK
<1>2. \A s : s \in InHands' <=> s # <<>> /\ \E q \in Procs : todo'[q] = s
  BY DEF InHands
<1>. QED BY <1>1, <1>2, InHandsAre

\* A step of a goroutine with its front event is one of EventFlow.
LEMMA ProcessFlows ==
  ASSUME TypeOK, OnePlace, TornByFault, NEW p \in Procs, Process(p)
  PROVE  [Flow!Next]_(Flow!vars)
<1>0. ASSUME UNCHANGED <<unseen, todo, queue, sent>> PROVE UNCHANGED Flow!vars
  BY <1>0 DEF Flow!vars, InHands
<1>1. ASSUME More(p), todo' = [todo EXCEPT ![p] = Tail(@)], UNCHANGED unseen,
             Flow!Show(todo[p]) \/ Flow!Ignore(todo[p]) \/ Flow!Postpone(todo[p])
      PROVE  Flow!Next
  BY <1>1, HandAdvances DEF Flow!Next, Flow!Advance
<1>2. CASE Check(p)
  BY <1>0, <1>2 DEF Check, fileVars, userVars
<1>3. CASE Enqueue(p)
  <2>1. Flow!Postpone(todo[p]) \/ Flow!Ignore(todo[p])
    BY <1>3 DEF Enqueue, TornByFault, Flow!Postpone, Flow!Ignore
  <2>. QED BY <1>1, <1>3, <2>1 DEF Enqueue
<1>4. CASE SendEvent(p)
  <2>1. Flow!Show(todo[p]) \/ Flow!Ignore(todo[p])
    BY <1>4 DEF SendEvent, fileVars, Flow!Show, Flow!Ignore
  <2>. QED BY <1>1, <1>4, <2>1 DEF SendEvent
<1>5. CASE SkipEvent(p)
  <2>1. Flow!Ignore(todo[p])
    BY <1>5 DEF SkipEvent, fileVars, userVars, Flow!Ignore
  <2>. QED BY <1>1, <1>5, <2>1 DEF SkipEvent
<1>6. CASE Record(p)
  BY <1>0, <1>6 DEF Record
<1>7. CASE Finish(p)
  BY <1>0, <1>7 DEF Finish, fileVars, userVars
<1>. QED BY <1>2, <1>3, <1>4, <1>5, <1>6, <1>7 DEF Process

\* Taking the queue makes a batch of it; a resumption that fails drops the
\* batch it has, if any.
LEMMA RestoreFlows ==
  ASSUME TypeOK, Tidy, NEW r \in Resumers, Restore(r)
  PROVE  [Flow!Next]_(Flow!vars)
<1>0. ASSUME UNCHANGED <<unseen, todo, queue, sent>> PROVE UNCHANGED Flow!vars
  BY <1>0 DEF Flow!vars, InHands
<1>1. r \in Procs /\ todo \in [Procs -> Seq(Events)]
  BY DEF Procs, TypeOK
<1>2. CASE LoadChat(r)
  BY <1>0, <1>2 DEF LoadChat, fileVars
<1>3. CASE TakeQueue(r)
  <2>1. todo[r] = <<>> /\ UNCHANGED <<unseen, sent>>
    BY <1>1, <1>3 DEF TakeQueue, Tidy
  <2>2. CASE UNCHANGED <<todo, queue>>
    BY <1>0, <2>1, <2>2
  <2>3. CASE queue = <<>> /\ queue' = <<>> /\ todo' = [todo EXCEPT ![r] = queue]
    <3>1. todo' = todo
      BY <1>1, <2>1, <2>3
    <3>. QED BY <1>0, <2>1, <2>3, <3>1
  <2>4. CASE queue # <<>> /\ queue' = <<>> /\ todo' = [todo EXCEPT ![r] = queue]
    <3>1. InHands' = InHands \union {queue}
      BY <1>1, <2>1, <2>4, HandFills
    <3>. QED BY <2>1, <2>4, <3>1 DEF Flow!Next, Flow!TakeUp
  <2>. QED BY <1>3, <2>2, <2>3, <2>4 DEF TakeQueue
<1>4. CASE Clear(r)
  <2>1. UNCHANGED <<unseen, queue, sent>>
    BY <1>4 DEF Clear
  <2>2. CASE UNCHANGED todo
    BY <1>0, <2>1, <2>2
  <2>3. CASE Failures /\ todo' = [todo EXCEPT ![r] = <<>>]
    <3>1. \A q \in Procs : todo'[q] \in {todo[q], <<>>}
      BY <1>1, <2>3
    <3>2. InHands' \subseteq InHands
      BY <3>1 DEF InHands
    <3>. QED BY <2>1, <2>3, <3>2 DEF Flow!Next, Flow!Drop
  <2>. QED BY <1>4, <2>2, <2>3 DEF Clear
<1>. QED BY <1>2, <1>3, <1>4 DEF Restore

LEMMA StepFlows ==
  ASSUME TypeOK, OnePlace, Tidy, TornByFault, [Next]_vars
  PROVE  [Flow!Next]_(Flow!vars)
<1>0. ASSUME UNCHANGED <<unseen, todo, queue, sent>> PROVE UNCHANGED Flow!vars
  BY <1>0 DEF Flow!vars, InHands
<1>1. ASSUME NEW w \in Workers, Arrive(w) PROVE Flow!Next
  <2>1. PICK b \in Batches :
          /\ unseen' = unseen \ Ran(b)
          /\ \/ todo' = [todo EXCEPT ![w] = b]
             \/ Failures /\ UNCHANGED todo
    BY <1>1 DEF Arrive
  <2>2. PICK n \in 1 .. MaxBatch : b \in [1 .. n -> unseen]
    BY DEF Batches
  <2>3. /\ \A i, j \in 1 .. n : b[i] = b[j] => i = j
        /\ Ran(b) = {b[i] : i \in 1 .. n}
    BY <2>2 DEF Batches, Distinct, Ran
  <2>4. b # <<>>
    <3>1. DOMAIN b = 1 .. n /\ n \in Nat \ {0}
      BY <2>2, DeliveryAssumption
    <3>. QED BY <3>1
  <2>5. w \in Procs /\ todo[w] = <<>> /\ UNCHANGED <<queue, sent>>
    BY <1>1 DEF Procs, Tidy, Arrive, fileVars
  <2>6. \/ InHands' = InHands \union {b}
        \/ Failures /\ UNCHANGED InHands
    BY <2>1, <2>4, <2>5, HandFills DEF InHands
  <2>7. Flow!Report
    BY <2>1, <2>2, <2>3, <2>5, <2>6 DEF Flow!Report
  <2>. QED BY <2>7 DEF Flow!Next
<1>2. ASSUME NEW p \in Procs, Process(p) PROVE [Flow!Next]_(Flow!vars)
  BY <1>2, ProcessFlows
<1>3. ASSUME NEW r \in Resumers, Restore(r) PROVE [Flow!Next]_(Flow!vars)
  BY <1>3, RestoreFlows
<1>4. ASSUME NEW h \in Handlers, Begin(h) \/ Handle(h) PROVE UNCHANGED Flow!vars
  BY <1>4, <1>0 DEF Begin, Handle, Note, Save, Signal, Tell, procVars, fileVars, userVars
<1>5. ASSUME Manager PROVE UNCHANGED Flow!vars
  BY <1>5, <1>0 DEF Manager, MgrPause, MgrResume, Cleanup, MgrEnds, Resume,
                    procVars, fileVars, userVars
<1>6. CASE Crash
  <2>1. /\ Crashes /\ todo' = [p \in Procs |-> <<>>] /\ queue' \in {queue, <<>>}
        /\ UNCHANGED <<unseen, sent>>
    BY <1>6 DEF Crash
  <2>2. InHands' = {}
    BY <2>1 DEF InHands
  <2>. QED BY <2>1, <2>2 DEF Flow!Next, Flow!Drop
<1>7. CASE UNCHANGED vars
  BY <1>7, <1>0 DEF vars, procVars, fileVars, userVars
<1>. QED BY <1>1, <1>2, <1>3, <1>4, <1>5, <1>6, <1>7 DEF Next

\* The delivery of events, with its goroutines, its pauses and its queue on
\* disk, is an implementation of EventFlow (process-event.go:13-32,
\* pause.go:16-43, pause-manager.go:41-73).
THEOREM EventsFlow == Spec => IsFlow
<1>1. Init => Flow!Init /\ TornByFault
  <2>. SUFFICES ASSUME Init PROVE Flow!Init /\ TornByFault
    OBVIOUS
  <2>1. \A p \in Procs : todo[p] = <<>>
    BY DEF Init
  <2>2. InHands = {}
    BY <2>1 DEF InHands
  <2>. QED BY <2>2 DEF Init, Flow!Init, TornByFault
<1>2. TypeOK /\ OnePlace /\ Tidy /\ TornByFault /\ [Next]_vars
        => OnePlace' /\ Tidy' /\ TornByFault' /\ [Flow!Next]_(Flow!vars)
  BY PlaceStep, TidyStep, TornStep, StepFlows
<1>. QED BY <1>1, <1>2, TypeInit, TypeStep, PlaceInit, TidyInit, PTL DEF Spec, IsFlow, Flow!Spec

-----------------------------------------------------------------------------
(* The queue of Delivery and the file of the store: a step that changes    *)
(* queue and torn the way an operation of the store, which takes effect at *)
(* one moment (see FsStoreProofs), changes queue.json is a step of         *)
(* Delivery.                                                               *)

CONSTANTS
  Chat,         \* the chat
  NoFile, NotOK \* contents of a file: there is none, it is no JSON

Store == INSTANCE StoreOps WITH Keys <- {Chat}, Items <- Events, Torn <- NotOK

\* A file is the queue q, or torn.
Shows(c, q, t) ==
  IF t THEN c["queue"] = NotOK /\ q = <<>>
  ELSE c["queue"] # NotOK /\ q = Store!Readable(c["queue"])

\* How an operation of the store may end.
Outcomes(o, c) ==
  Store!Success(o, c) \union IF Failures THEN Store!Failure(o, c) ELSE {}

\* What an addition may make of the files.
LEMMA AddEnds ==
  ASSUME Store!ContentAssumption, NEW c \in [Store!Files -> Store!Contents], NEW i \in Events,
         NEW e \in Outcomes(Store!Add(Chat, i), c)
  PROVE  \/ /\ e[2] = Store!Ok /\ c["queue"] # NotOK
            /\ e[1]["queue"] = Append(Store!Readable(c["queue"]), i)
         \/ /\ e[2] = Store!Error /\ (c["queue"] = NotOK \/ Failures)
            /\ e[1]["queue"] = c["queue"]
         \/ /\ e[2] = Store!Error /\ Failures
            /\ e[1]["queue"] = NotOK
<1>1. "queue" \in Store!Files /\ Store!Add(Chat, i).kind = "add"
      /\ Store!Add(Chat, i).file = "queue" /\ Store!Add(Chat, i).item = i
  BY DEF Store!Files, Store!Add
<1>2. CASE e \in Store!Success(Store!Add(Chat, i), c)
  <2>1. e = IF c["queue"] = NotOK THEN <<c, Store!Error>>
            ELSE <<[c EXCEPT !["queue"] = Append(Store!Readable(@), i)], Store!Ok>>
    BY <1>1, <1>2 DEF Store!Success
  <2> QED
    BY <1>1, <2>1
<1>3. CASE Failures /\ e \in Store!Failure(Store!Add(Chat, i), c)
  <2>1. e = <<c, Store!Error>> \/ e = <<[c EXCEPT !["queue"] = NotOK], Store!Error>>
    BY <1>1, <1>3 DEF Store!Failure
  <2> QED
    BY <1>1, <1>3, <2>1
<1> QED
  BY <1>2, <1>3 DEF Outcomes

\* What LoadAndDeleteQueue may make of them, and return.
LEMMA TakeEnds ==
  ASSUME Store!ContentAssumption, NEW c \in [Store!Files -> Store!Contents],
         NEW e \in Outcomes(Store!Take(Chat), c)
  PROVE  \/ /\ e[2] = Store!Data(Store!Readable(c["queue"])) /\ c["queue"] # NotOK
            /\ e[1]["queue"] = NoFile
         \/ /\ e[2] = Store!Error /\ e[1]["queue"] = c["queue"]
            /\ c["queue"] \in {NoFile, NotOK} \/ Failures
<1>1. "queue" \in Store!Files /\ Store!Take(Chat).kind = "take" /\ NoFile # NotOK
  BY DEF Store!Files, Store!Take, Store!ContentAssumption
<1>2. CASE e \in Store!Success(Store!Take(Chat), c)
  <2>1. e \in IF c["queue"] = NoFile THEN {<<c, Store!Data(<<>>)>>, <<c, Store!Error>>}
              ELSE IF c["queue"] = NotOK THEN {<<c, Store!Error>>}
              ELSE {<<[c EXCEPT !["queue"] = NoFile], Store!Data(c["queue"])>>}
    BY <1>1, <1>2 DEF Store!Success
  <2> QED
    BY <1>1, <2>1 DEF Store!Readable
<1>3. CASE Failures /\ e \in Store!Failure(Store!Take(Chat), c)
  <2>1. e = <<c, Store!Error>>
    BY <1>1, <1>3 DEF Store!Failure
  <2> QED
    BY <1>3, <2>1
<1> QED
  BY <1>2, <1>3 DEF Outcomes

\* AddToQueue, however it ends, is what Enqueue makes of the queue and of the
\* events it loses (process-event.go:22-26, fs-store.go:117-123, fs-io.go:75-117).
THEOREM AddIsEnqueue ==
  ASSUME TypeOK, Store!ContentAssumption,
         NEW p \in Procs, More(p), flag[p],
         NEW c \in [Store!Files -> Store!Contents], Shows(c, queue, torn),
         NEW e \in Outcomes(Store!Add(Chat, Head(todo[p])), c), Shows(e[1], queue', torn'),
         torn' \in BOOLEAN,
         todo' = [todo EXCEPT ![p] = Tail(@)],
         e[2] = Store!Ok =>
           /\ stale' = IF paused THEN stale \ {Head(todo[p])} ELSE stale \union {Head(todo[p])}
           /\ UNCHANGED harmed,
         e[2] # Store!Ok =>
           /\ Harms({Head(todo[p])} \union (Ran(queue) \ Ran(queue')))
           /\ UNCHANGED stale,
         UNCHANGED <<unseen, pc, flag, saw, cur, expect, recVars, sent, told, ctlVars>>
  PROVE  Enqueue(p)
<1> DEFINE i == Head(todo[p])
<1>1. i \in Events /\ queue \in Seq(Events) /\ torn \in BOOLEAN
  <2>1. todo[p] \in Seq(Events) /\ todo[p] # <<>> /\ queue \in Seq(Events) /\ torn \in BOOLEAN
    BY DEF TypeOK, More
  <2> QED
    BY <2>1
<1>2. /\ NoFile # NotOK /\ NotOK \notin Seq(Events) /\ NoFile \notin Seq(Events)
      /\ Store!Ok # Store!Error
  BY DEF Store!ContentAssumption, Store!Ok, Store!Error
<1>3. /\ torn => c["queue"] = NotOK /\ queue = <<>>
      /\ ~torn => c["queue"] # NotOK /\ queue = Store!Readable(c["queue"])
      /\ torn' => e[1]["queue"] = NotOK /\ queue' = <<>>
      /\ ~torn' => e[1]["queue"] # NotOK /\ queue' = Store!Readable(e[1]["queue"])
  BY DEF Shows
<1>4. Ran(<<>>) = {}
  BY DEF Ran
<1> HIDE DEF i
<1>5. CASE /\ e[2] = Store!Ok /\ c["queue"] # NotOK
           /\ e[1]["queue"] = Append(Store!Readable(c["queue"]), i)
  <2>1. ~torn /\ queue = Store!Readable(c["queue"])
    BY <1>1, <1>3, <1>5
  <2>2. Append(queue, i) \in Seq(Events)
    BY <1>1
  <2>3. ~torn' /\ queue' = Append(queue, i)
    BY <1>2, <1>3, <1>5, <2>1, <2>2 DEF Store!Readable
  <2>4. UNCHANGED torn
    BY <1>1, <2>1, <2>3
  <2>5. /\ stale' = IF paused THEN stale \ {i} ELSE stale \union {i}
        /\ UNCHANGED harmed
    BY <1>5 DEF i
  <2> QED
    BY <2>1, <2>3, <2>4, <2>5 DEF Enqueue, i
<1>6. CASE /\ e[2] = Store!Error /\ (c["queue"] = NotOK \/ Failures)
           /\ e[1]["queue"] = c["queue"]
  <2>1. UNCHANGED <<torn, queue>>
    BY <1>1, <1>3, <1>6
  <2>2. torn \/ Failures
    BY <1>1, <1>3, <1>6
  <2>3. Harms({i} \union (Ran(queue) \ Ran(queue'))) /\ UNCHANGED stale
    BY <1>2, <1>6 DEF i
  <2>4. Harms({i})
    BY <2>1, <2>3 DEF Harms
  <2> QED
    BY <2>1, <2>2, <2>3, <2>4 DEF Enqueue, i
<1>7. CASE e[2] = Store!Error /\ Failures /\ e[1]["queue"] = NotOK
  <2>1. torn' = TRUE /\ queue' = <<>>
    BY <1>3, <1>7
  <2>2. Harms({i} \union Ran(queue)) /\ UNCHANGED stale
    <3>1. Harms({i} \union (Ran(queue) \ Ran(queue'))) /\ UNCHANGED stale
      BY <1>2, <1>7 DEF i
    <3> QED
      BY <1>4, <2>1, <3>1 DEF Harms
  <2> QED
    BY <1>7, <2>1, <2>2 DEF Enqueue, i
<1>8. e \in Outcomes(Store!Add(Chat, i), c)
  BY DEF i
<1> QED
  BY <1>1, <1>5, <1>6, <1>7, <1>8, AddEnds

\* LoadAndDeleteQueue, however it ends, is what TakeQueue does: it returns the
\* whole queue and leaves none, or an error and the queue as it was
\* (pause.go:23, fs-store.go:125-131, fs-io.go:24-56).
THEOREM TakeIsTakeQueue ==
  ASSUME TypeOK, Store!ContentAssumption,
         NEW r \in Resumers, pc[r] = "take",
         NEW c \in [Store!Files -> Store!Contents], Shows(c, queue, torn),
         NEW e \in Outcomes(Store!Take(Chat), c), Shows(e[1], queue', torn'),
         torn' \in BOOLEAN,
         e[2] # Store!Error =>
           /\ todo' = [todo EXCEPT ![r] = e[2].data] /\ Goto(r, "clear")
           /\ UNCHANGED <<saw, harmed>>,
         e[2] = Store!Error =>
           /\ UNCHANGED todo /\ Goto(r, "idle") /\ saw' = [saw EXCEPT ![r] = ""]
           /\ Harms(Ran(queue)),
         UNCHANGED <<unseen, flag, cur, expect, recVars, sent, told, stale, ctlVars>>
  PROVE  TakeQueue(r)
<1>1. queue \in Seq(Events) /\ torn \in BOOLEAN
  BY DEF TypeOK
<1>2. NoFile # NotOK
  BY DEF Store!ContentAssumption
<1>3. /\ torn => c["queue"] = NotOK /\ queue = <<>>
      /\ ~torn => c["queue"] # NotOK /\ queue = Store!Readable(c["queue"])
      /\ torn' => e[1]["queue"] = NotOK /\ queue' = <<>>
      /\ ~torn' => e[1]["queue"] # NotOK /\ queue' = Store!Readable(e[1]["queue"])
  BY DEF Shows
<1>4. CASE /\ e[2] = Store!Data(Store!Readable(c["queue"])) /\ c["queue"] # NotOK
           /\ e[1]["queue"] = NoFile
  <2>1. ~torn /\ queue = Store!Readable(c["queue"])
    BY <1>1, <1>3, <1>4
  <2>2. ~torn' /\ queue' = <<>>
    BY <1>2, <1>3, <1>4 DEF Store!Readable
  <2>3. e[2] # Store!Error /\ e[2].data = queue
    <3>1. Store!Data(queue).is = "data" /\ Store!Data(queue).data = queue
      BY DEF Store!Data
    <3>2. Store!Error.is = "error"
      BY DEF Store!Error
    <3>3. e[2] = Store!Data(queue)
      BY <1>4, <2>1
    <3> QED
      BY <3>1, <3>2, <3>3
  <2> QED
    BY <1>1, <2>1, <2>2, <2>3 DEF TakeQueue
<1>5. CASE /\ e[2] = Store!Error /\ e[1]["queue"] = c["queue"]
           /\ c["queue"] \in {NoFile, NotOK} \/ Failures
  <2>1. UNCHANGED <<torn, queue>>
    BY <1>1, <1>3, <1>5
  <2>2. torn \/ Failures \/ queue = <<>>
    BY <1>1, <1>3, <1>5 DEF Store!Readable
  <2> QED
    BY <1>5, <2>1, <2>2 DEF TakeQueue
<1> QED
  BY <1>4, <1>5, TakeEnds
=============================================================================
