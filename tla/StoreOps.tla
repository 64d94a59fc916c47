------------------------------ MODULE StoreOps ------------------------------
(***************************************************************************)
(* The operations of the interface store.Store that this project models as *)
(* concurrent ones, their results and their effects on the files of a chat *)
(* when nothing interferes.                                                *)
(***************************************************************************)
EXTENDS Naturals, Sequences

CONSTANTS
  Keys,    \* chats
  Items,   \* what is saved or queued
  NoFile,  \* content of a file that does not exist
  Torn     \* content of a file that was not written to its end

ASSUME ContentAssumption ==
  NoFile # Torn /\ {NoFile, Torn} \cap Seq(Items) = {}

Contents == Seq(Items) \union {NoFile, Torn}

Files == {"state", "queue"}

\* SaveState, LoadState, AddToQueue, LoadAndDeleteQueue and DeleteState.
Save(k, i)   == [kind |-> "save", key |-> k, file |-> "state", item |-> i]
Load(k)      == [kind |-> "load", key |-> k, file |-> "state"]
Add(k, i)    == [kind |-> "add", key |-> k, file |-> "queue", item |-> i]
Take(k)      == [kind |-> "take", key |-> k, file |-> "queue"]
Delete(k)    == [kind |-> "delete", key |-> k]
Ops == {Save(k, i) : k \in Keys, i \in Items} \union {Load(k) : k \in Keys}
         \union {Add(k, i) : k \in Keys, i \in Items} \union {Take(k) : k \in Keys}
         \union {Delete(k) : k \in Keys}
Idle == [kind |-> "none"]

\* Results.
Ok       == [is |-> "ok"]
NotFound == [is |-> "notFound"]
Error    == [is |-> "error"]
Data(s)  == [is |-> "data", data |-> s]
Pending  == [is |-> "pending"]

NoFiles == [f \in Files |-> NoFile]
Readable(c) == IF c = NoFile THEN <<>> ELSE c

\* The file contents and the result an operation may end with.  Of several
\* operations that take a queue at once one gets it; another one finds no
\* file, or meets an error when it removes a file that is already gone.
Success(o, c) ==
  CASE o.kind = "save" -> {<<[c EXCEPT !["state"] = <<o.item>>], Ok>>}
    [] o.kind = "load" ->
         {<<c, IF c["state"] = NoFile THEN NotFound
               ELSE IF c["state"] = Torn THEN Error ELSE Data(c["state"])>>}
    [] o.kind = "add" ->
         {IF c["queue"] = Torn THEN <<c, Error>>
          ELSE <<[c EXCEPT !["queue"] = Append(Readable(@), o.item)], Ok>>}
    [] o.kind = "take" ->
         IF c["queue"] = NoFile THEN {<<c, Data(<<>>)>>, <<c, Error>>}
         ELSE IF c["queue"] = Torn THEN {<<c, Error>>}
         ELSE {<<[c EXCEPT !["queue"] = NoFile], Data(c["queue"])>>}
    [] o.kind = "delete" -> {<<NoFiles, Ok>>}

\* The same when an I/O error, or the end of the program, stops it.
Failure(o, c) ==
  {<<c, Error>>}
    \union (IF o.kind \in {"save", "add"}
            THEN {<<[c EXCEPT ![o.file] = Torn], Error>>} ELSE {})
    \union (IF o.kind = "delete"
            THEN {<<[f \in Files |-> IF f \in g THEN NoFile ELSE c[f]], Error>> :
                    g \in SUBSET Files}
            ELSE {})
=============================================================================
