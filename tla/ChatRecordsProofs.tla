--------------------------- MODULE ChatRecordsProofs ---------------------------
(***************************************************************************)
(* Theorems about the lists of records of a chat, for every bound of the   *)
(* list of messages and every number of messages and posts.                *)
(*                                                                         *)
(* That the buttons of the last messages work is not inductive: the list   *)
(* has to be the end of all the records put (Kept), and their ids have to  *)
(* grow, for the first record of a message to be its only one.             *)
(***************************************************************************)
EXTENDS ChatRecords, SequenceTheorems, WellFoundedInduction, TLAPS

\* The list is the end of what was put, in the order of growing ids.
Kept ==
  /\ Len(put) <= MaxSentRecords => Len(records) = Len(put)
  /\ Len(put) > MaxSentRecords => Len(records) = MaxSentRecords
  /\ \A i \in 1 .. Len(records) : records[i] = put[Len(put) - Len(records) + i]
Growing ==
  /\ \A i, j \in 1 .. Len(put) : i < j => put[i].msg < put[j].msg
  /\ \A i \in 1 .. Len(put) : put[i].msg <= lastID

RInv == TypeOK /\ Kept /\ Growing /\ OthersStayTracked

\* What the cut of a list that has become one too long returns.
LEMMA TrimmedIs ==
  ASSUME NEW s \in Seq(Record), Len(s) <= MaxSentRecords, NEW r \in Record
  PROVE  \E n \in {0, 1} :
           /\ n = 0 => Len(s) < MaxSentRecords
           /\ n = 1 => Len(s) = MaxSentRecords
           /\ Trimmed(Append(s, r)) \in Seq(Record)
           /\ Len(Trimmed(Append(s, r))) = Len(s) + 1 - n
           /\ \A i \in 1 .. Len(s) + 1 - n : Trimmed(Append(s, r))[i] = Append(s, r)[i + n]
<1> DEFINE a == Append(s, r)
<1>1. a \in Seq(Record) /\ Len(a) = Len(s) + 1
  BY AppendProperties
<1>2. Len(s) \in Nat /\ MaxSentRecords \in Nat \ {0}
  BY RecordsAssumption, LenProperties
<1>3. CASE Len(s) < MaxSentRecords
  <2>1. Trimmed(a) = a
    BY <1>1, <1>2, <1>3 DEF Trimmed
  <2> QED
    BY <1>1, <1>2, <1>3, <2>1
<1>4. CASE Len(s) = MaxSentRecords
  <2>1. Trimmed(a) = SubSeq(a, 2, Len(s) + 1)
    BY <1>1, <1>2, <1>4 DEF Trimmed
  <2>2. /\ SubSeq(a, 2, Len(s) + 1) \in Seq(Record)
        /\ Len(SubSeq(a, 2, Len(s) + 1)) = Len(s)
        /\ \A i \in 1 .. Len(s) : SubSeq(a, 2, Len(s) + 1)[i] = a[i + 1]
    <3> HIDE DEF a
    <3> QED
      BY <1>1, <1>2, SubSeqProperties
  <2> QED
    BY <1>2, <1>4, <2>1, <2>2
<1> QED
  BY <1>2, <1>3, <1>4

\* A record that is the only one of its message is found.
LEMMA FindsOnly ==
  ASSUME NEW m, NEW k \in DOMAIN records, records[k].msg = m,
         \A j \in DOMAIN records : records[j].msg = m => j = k,
         DOMAIN records \subseteq Nat
  PROVE  GetMsgRec(m) = records[k]
<1>1. {i \in DOMAIN records : records[i].msg = m} = {k}
  OBVIOUS
<1>2. \A j \in {k} : k <= j
  OBVIOUS
<1> QED
  BY <1>1, <1>2 DEF GetMsgRec

\* Deleting an element moves the later ones up and loses no other.
LEMMA ShiftedKeeps ==
  ASSUME NEW S, NEW s \in Seq(S), NEW i \in 1 .. Len(s)
  PROVE  /\ Shifted(s, i) \in Seq(S)
         /\ \A x \in Ran(s) : x # s[i] => x \in Ran(Shifted(s, i))
<1>1. DOMAIN s = 1 .. Len(s) /\ Len(s) \in Nat
  BY LenProperties
<1>2. Shifted(s, i) = [j \in 1 .. Len(s) |-> IF j < i \/ j = Len(s) THEN s[j] ELSE s[j + 1]]
  BY <1>1 DEF Shifted
<1>a. \A j \in 1 .. Len(s) : s[j] \in S
  BY ElementOfSeq
<1>n. Len(s) \in Nat
  BY <1>1
<1>b. \A j \in 1 .. Len(s) : j # Len(s) => j + 1 \in 1 .. Len(s)
  BY <1>n
<1>3. \A j \in 1 .. Len(s) : Shifted(s, i)[j] \in S
  BY <1>2, <1>a, <1>b
<1>4. Shifted(s, i) \in Seq(S) /\ DOMAIN Shifted(s, i) = 1 .. Len(s)
  <2>1. Shifted(s, i) \in [1 .. Len(s) -> S]
    BY <1>2, <1>3
  <2> QED
    BY <1>n, <2>1, SeqDef
<1>5. ASSUME NEW j \in 1 .. Len(s), s[j] # s[i] PROVE s[j] \in Ran(Shifted(s, i))
  <2>1. CASE j < i
    BY <1>1, <1>2, <1>4, <2>1 DEF Ran
  <2>2. CASE j > i
    <3> DEFINE k == j - 1
    <3>2. k \in 1 .. Len(s) /\ ~(k < i) /\ k # Len(s) /\ k + 1 = j
      BY <1>n, <2>2
    <3>1. Shifted(s, i)[k] = s[j]
      <4> HIDE DEF k
      <4> QED
        BY <1>2, <3>2
    <3> QED
      BY <1>4, <3>1, <3>2 DEF Ran
  <2> QED
    BY <1>1, <1>5, <2>1, <2>2
<1> QED
  BY <1>1, <1>4, <1>5 DEF Ran

LEMMA LessIsWellFounded ==
  \E R : IsWellFoundedOn(R, Nat) /\ \A j, k \in Nat : j < k => <<j, k>> \in R
<1>1. \A j, k \in Nat : j < k => <<j, k>> \in OpToRel(<, Nat)
  BY DEF OpToRel
<1> QED
  BY <1>1, NatLessThanWellFounded

\* A set of naturals that is not empty has a least element.
LEMMA SmallestOne ==
  ASSUME NEW T, T \subseteq Nat, T # {}
  PROVE  \E k \in T : \A j \in T : k <= j
<1>1. PICK R : IsWellFoundedOn(R, Nat) /\ \A j, k \in Nat : j < k => <<j, k>> \in R
  BY LessIsWellFounded
<1>w. IsWellFoundedOn(R, Nat)
  BY <1>1
<1>2. PICK k \in T : \A j \in T : ~ (<<j, k>> \in R)
  BY <1>w, WFMin
<1>3. \A j \in Nat : j < k => <<j, k>> \in R
  BY <1>1
<1>5. \A j \in T : ~(j < k)
  BY <1>2, <1>3, Zenon
<1>4. \A j \in T : k <= j
  BY <1>5
<1> QED
  BY <1>4

LEMMA RecordStep == RInv /\ [Next]_vars => RInv'
<1> SUFFICES ASSUME RInv, [Next]_vars PROVE RInv'
  OBVIOUS
<1>0. /\ records \in Seq(Record) /\ Len(records) <= MaxSentRecords /\ tracked \in Seq(Posts)
      /\ lastID \in 0 .. MaxMessages /\ put \in Seq(Record) /\ wanted \subseteq Posts
      /\ Len(records) \in Nat /\ Len(put) \in Nat /\ MaxSentRecords \in Nat \ {0}
      /\ MaxMessages \in Nat
  BY RecordsAssumption, LenProperties DEF RInv, TypeOK
<1>k. Kept /\ Growing /\ OthersStayTracked
  BY DEF RInv
<1>1. ASSUME NEW e \in Events, PutMsgRec(e) PROVE RInv'
  <2> DEFINE rec == [msg |-> lastID + 1, event |-> e]
  <2>1. /\ lastID < MaxMessages /\ lastID' = lastID + 1
        /\ records' = Trimmed(Append(records, rec)) /\ put' = Append(put, rec)
        /\ UNCHANGED <<tracked, wanted>>
    BY <1>1 DEF PutMsgRec
  <2>2. rec \in Record /\ rec.msg = lastID + 1
    BY <1>0, <2>1 DEF Record
  <2> HIDE DEF rec
  <2>3. PICK n \in {0, 1} :
        /\ n = 0 => Len(records) < MaxSentRecords
        /\ n = 1 => Len(records) = MaxSentRecords
        /\ records' \in Seq(Record) /\ Len(records') = Len(records) + 1 - n
        /\ \A i \in 1 .. Len(records) + 1 - n : records'[i] = Append(records, rec)[i + n]
    BY <1>0, <2>1, <2>2, TrimmedIs
  <2>4. /\ put' \in Seq(Record) /\ Len(put') = Len(put) + 1
        /\ \A i \in 1 .. Len(put) : put'[i] = put[i]
        /\ put'[Len(put) + 1] = rec
    BY <1>0, <2>1, <2>2, AppendProperties
  <2>5. /\ \A i \in 1 .. Len(records) : Append(records, rec)[i] = records[i]
        /\ Append(records, rec)[Len(records) + 1] = rec
    BY <1>0, <2>2, AppendProperties
  <2>6. TypeOK'
    BY <1>0, <2>1, <2>3, <2>4 DEF TypeOK
  <2>7. Growing'
    <3>1. \A i \in 1 .. Len(put) : put[i].msg \in Int /\ put[i].msg <= lastID
      <4>1. \A i \in 1 .. Len(put) : put[i] \in Record
        BY <1>0, ElementOfSeq
      <4> QED
        BY <1>k, <4>1 DEF Growing, Record
    <3>2. \A i \in 1 .. Len(put') : i \in 1 .. Len(put) \/ i = Len(put) + 1
      BY <1>0, <2>4
    <3>3. \A i \in 1 .. Len(put') : put'[i].msg <= lastID'
      BY <1>0, <2>1, <2>2, <2>4, <3>1, <3>2
    <3>4. ASSUME NEW i \in 1 .. Len(put'), NEW j \in 1 .. Len(put'), i < j
          PROVE  put'[i].msg < put'[j].msg
      <4>1. i \in 1 .. Len(put)
        BY <1>0, <2>4, <3>4
      <4>2. CASE j \in 1 .. Len(put)
        BY <1>k, <2>4, <3>4, <4>1, <4>2 DEF Growing
      <4>3. CASE j = Len(put) + 1
        BY <1>0, <2>2, <2>4, <3>1, <4>1, <4>3
      <4> QED
        BY <3>2, <4>2, <4>3
    <3> QED
      BY <3>3, <3>4 DEF Growing
  <2>8. Kept'
    <3>1. /\ Len(put') <= MaxSentRecords => Len(records') = Len(put')
          /\ Len(put') > MaxSentRecords => Len(records') = MaxSentRecords
      <4>1. /\ Len(put) <= MaxSentRecords => Len(records) = Len(put)
            /\ Len(put) > MaxSentRecords => Len(records) = MaxSentRecords
        BY <1>k DEF Kept
      <4>2. Len(put') = Len(put) + 1
        BY <2>4
      <4>3. CASE n = 0
        <5>1. Len(records') = Len(records) + 1 /\ Len(records) < MaxSentRecords
          BY <1>0, <2>3, <4>3
        <5> QED
          BY <1>0, <4>1, <4>2, <5>1
      <4>4. CASE n = 1
        <5>1. Len(records') = Len(records) /\ Len(records) = MaxSentRecords
          BY <1>0, <2>3, <4>4
        <5> QED
          BY <1>0, <4>1, <4>2, <5>1
      <4> QED
        BY <4>3, <4>4
    <3>2. ASSUME NEW i \in 1 .. Len(records')
          PROVE  records'[i] = put'[Len(put') - Len(records') + i]
      <4>1. records'[i] = Append(records, rec)[i + n] /\ i + n \in 1 .. Len(records) + 1
        BY <1>0, <2>3, <3>2
      <4>2. Len(put') - Len(records') + i = Len(put) - Len(records) + (i + n)
        BY <1>0, <2>3, <2>4
      <4>3. CASE i + n = Len(records) + 1
        BY <1>0, <2>4, <2>5, <4>1, <4>2, <4>3
      <4>4. CASE i + n # Len(records) + 1
        <5>1. i + n \in 1 .. Len(records)
          BY <1>0, <4>1, <4>4
        <5>2. records[i + n] = put[Len(put) - Len(records) + (i + n)]
          BY <1>k, <5>1 DEF Kept
        <5>3. Len(put) - Len(records) + (i + n) \in 1 .. Len(put)
          BY <1>0, <1>k, <5>1 DEF Kept
        <5> QED
          BY <2>4, <2>5, <4>1, <4>2, <5>1, <5>2, <5>3
      <4> QED
        BY <4>3, <4>4
    <3> QED
      BY <3>1, <3>2 DEF Kept
  <2> QED
    BY <1>k, <2>1, <2>6, <2>7, <2>8 DEF RInv, OthersStayTracked
<1>2. ASSUME NEW p \in Posts, TrackPost(p) PROVE RInv'
  <2>1. UNCHANGED <<records, lastID, put>> /\ wanted' = wanted \union {p}
        /\ tracked' = IF IsPostTracked(p) THEN tracked ELSE Append(tracked, p)
    BY <1>2 DEF TrackPost
  <2>2. tracked' \in Seq(Posts) /\ Ran(tracked) \union {p} \subseteq Ran(tracked')
    <3>1. CASE IsPostTracked(p)
      BY <1>0, <2>1, <3>1 DEF IsPostTracked
    <3>2. CASE ~IsPostTracked(p)
      <4>1. /\ tracked' \in Seq(Posts) /\ Len(tracked') = Len(tracked) + 1
            /\ \A i \in 1 .. Len(tracked) : tracked'[i] = tracked[i]
            /\ tracked'[Len(tracked) + 1] = p
        BY <1>0, <2>1, <3>2, AppendProperties
      <4>2. DOMAIN tracked = 1 .. Len(tracked) /\ DOMAIN tracked' = 1 .. Len(tracked) + 1
            /\ Len(tracked) \in Nat
        BY <1>0, <4>1, LenProperties
      <4> QED
        BY <4>1, <4>2 DEF Ran
    <3> QED
      BY <3>1, <3>2
  <2> QED
    BY <1>0, <1>k, <2>1, <2>2 DEF RInv, TypeOK, Kept, Growing, OthersStayTracked
<1>3. ASSUME NEW p \in Posts, UntrackPost(p) PROVE RInv'
  <2>1. UNCHANGED <<records, lastID, put>> /\ wanted' = wanted \ {p}
    BY <1>3 DEF UntrackPost
  <2>2. tracked' \in Seq(Posts) /\ Ran(tracked) \ {p} \subseteq Ran(tracked')
    <3>1. CASE IsPostTracked(p)
      <4> DEFINE First(k) == tracked[k] = p /\ \A j \in DOMAIN tracked : tracked[j] = p => k <= j
      <4>1. \E k \in DOMAIN tracked : First(k)
        <5> DEFINE T == {k \in Nat : k \in DOMAIN tracked /\ tracked[k] = p}
        <5>1. DOMAIN tracked = 1 .. Len(tracked) /\ Len(tracked) \in Nat
          BY <1>0, LenProperties
        <5>2. T # {} /\ T \subseteq Nat
          BY <3>1, <5>1 DEF IsPostTracked, Ran
        <5>3. \E k \in T : \A j \in T : k <= j
          BY <5>2, SmallestOne
        <5> QED
          BY <5>1, <5>3
      <4>2. PICK k \in DOMAIN tracked : First(k) /\ tracked' = Shifted(tracked, k)
        BY <1>3, <3>1, <4>1 DEF UntrackPost
      <4> QED
        BY <1>0, <4>2, ShiftedKeeps
    <3>2. CASE ~IsPostTracked(p)
      BY <1>0, <1>3, <3>2 DEF UntrackPost
    <3> QED
      BY <3>1, <3>2
  <2> QED
    BY <1>0, <1>k, <2>1, <2>2 DEF RInv, TypeOK, Kept, Growing, OthersStayTracked
<1>4. CASE DeleteState
  <2>1. records' = <<>> /\ tracked' = <<>> /\ put' = <<>> /\ wanted' = {} /\ lastID' = lastID
    BY <1>4 DEF DeleteState
  <2> QED
    BY <1>0, <2>1 DEF RInv, TypeOK, Kept, Growing, OthersStayTracked
<1>5. CASE UNCHANGED vars
  BY <1>5 DEF vars, RInv, TypeOK, Kept, Growing, OthersStayTracked
<1> QED
  BY <1>1, <1>2, <1>3, <1>4, <1>5 DEF Next

LEMMA RecordsStart == Init => RInv
  BY RecordsAssumption DEF Init, RInv, TypeOK, Kept, Growing, OthersStayTracked

\* The buttons of a message are found as long as it is one of the last ones.
LEMMA LastAreFound == RInv => LastAreKept
<1> SUFFICES ASSUME RInv PROVE LastAreKept
  OBVIOUS
<1>0. /\ records \in Seq(Record) /\ put \in Seq(Record)
      /\ Len(records) \in Nat /\ Len(put) \in Nat /\ MaxSentRecords \in Nat \ {0}
  BY RecordsAssumption, LenProperties DEF RInv, TypeOK
<1>d. DOMAIN records = 1 .. Len(records) /\ DOMAIN put = 1 .. Len(put)
  BY <1>0, LenProperties
<1>k. Kept /\ Growing
  BY DEF RInv
<1>l. /\ Len(put) <= MaxSentRecords => Len(records) = Len(put)
      /\ Len(put) > MaxSentRecords => Len(records) = MaxSentRecords
  BY <1>k DEF Kept
<1>m. Len(put) - Len(records) \in Nat
  BY <1>0, <1>l
<1>1. PICK d \in Nat : d = Len(put) - Len(records)
  BY <1>m
<1>n. d >= Len(put) - MaxSentRecords /\ (d = 0 \/ d = Len(put) - MaxSentRecords)
  BY <1>0, <1>l, <1>1
<1>2. \A j \in 1 .. Len(records) : d + j \in 1 .. Len(put)
  BY <1>0, <1>1
<1>3. \A j \in 1 .. Len(records) : records[j] = put[d + j]
  BY <1>k, <1>1 DEF Kept
<1>4. \A k, j \in 1 .. Len(put) : put[k].msg = put[j].msg => k = j
  <2>1. \A k \in 1 .. Len(put) : put[k].msg \in Int
    <3>1. \A k \in 1 .. Len(put) : put[k] \in Record
      BY <1>0, ElementOfSeq
    <3> QED
      BY <3>1 DEF Record
  <2>2. \A k, j \in 1 .. Len(put) : k < j \/ k = j \/ j < k
    OBVIOUS
  <2>3. \A k, j \in 1 .. Len(put) : k < j => put[k].msg # put[j].msg
    BY <1>k, <2>1 DEF Growing
  <2> QED
    BY <2>2, <2>3
<1>5. ASSUME NEW i \in 1 .. Len(put), i > Len(put) - MaxSentRecords
      PROVE  GetMsgRec(put[i].msg) = put[i]
  <2>1. PICK k \in 1 .. Len(records) : d + k = i
    <3>1. i - d \in 1 .. Len(records) /\ d + (i - d) = i
      BY <1>0, <1>1, <1>5, <1>n
    <3> QED
      BY <3>1
  <2>2. records[k] = put[i]
    BY <1>3, <2>1
  <2>3. ASSUME NEW j \in 1 .. Len(records), records[j].msg = put[i].msg PROVE j = k
    <3>1. d + j = i
      BY <1>2, <1>3, <1>4, <2>3
    <3> QED
      BY <2>1, <3>1
  <2> QED
    BY <1>0, <1>d, <2>2, <2>3, FindsOnly
<1>6. ASSUME NEW i \in 1 .. Len(put), ~(i > Len(put) - MaxSentRecords)
      PROVE  GetMsgRec(put[i].msg) = NotFound
  <2>1. \A j \in 1 .. Len(records) : d + j # i
    BY <1>0, <1>1, <1>6, <1>n
  <2>2. \A j \in 1 .. Len(records) : records[j].msg # put[i].msg
    BY <1>2, <1>3, <1>4, <2>1
  <2>3. {j \in DOMAIN records : records[j].msg = put[i].msg} = {}
    BY <1>d, <2>2
  <2> QED
    BY <2>3 DEF GetMsgRec
<1> QED
  BY <1>d, <1>5, <1>6 DEF LastAreKept

LEMMA RecordsHold == Spec => []RInv
  BY RecordsStart, RecordStep, PTL DEF Spec

\* The buttons of the last maxSentRecords messages work and those of older
\* ones do not, for every value of maxSentRecords (fs-events-store.go:34-39).
THEOREM LastMessagesWork == Spec => []LastAreKept
  BY RecordsHold, LastAreFound, PTL

\* Untracking one post untracks no other, however many entries slices.Delete
\* has left twice before (fs-tracked-posts.go:44-47).
THEOREM NoOtherIsUntracked == Spec => []OthersStayTracked
<1>1. RInv => OthersStayTracked
  BY DEF RInv
<1> QED
  BY <1>1, RecordsHold, PTL
=============================================================================
