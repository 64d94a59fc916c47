----------------------------- MODULE AtomicStore -----------------------------
(***************************************************************************)
(* What the users of package store rely on: every operation on the files   *)
(* of a chat takes effect at one moment between its call and its return.   *)
(*                                                                         *)
(* An operation that meets an I/O error, or a crash, may leave the file it *)
(* was writing torn, and a removal may be left half done; both report an   *)
(* error, if there is still somebody to report to.                         *)
(***************************************************************************)
EXTENDS StoreOps

CONSTANTS
  Procs,    \* goroutines that use the store
  IOErrors, \* may reading, writing and removing files fail?
  Crashes   \* may the program be killed?

VARIABLES
  store,   \* store[k][f]: the content of file f of chat k
  op,      \* op[p]: the operation p is in, Idle if none
  res      \* res[p]: its result, Pending until it takes effect
vars == <<store, op, res>>

Init ==
  /\ store = [k \in Keys |-> NoFiles]
  /\ op = [p \in Procs |-> Idle]
  /\ res = [p \in Procs |-> Pending]

Call(p) ==
  /\ op[p] = Idle
  /\ \E o \in Ops : op' = [op EXCEPT ![p] = o]
  /\ UNCHANGED <<store, res>>

TakeEffect(p) ==
  /\ op[p] # Idle
  /\ res[p] = Pending
  /\ \E e \in Success(op[p], store[op[p].key])
                \union (IF IOErrors THEN Failure(op[p], store[op[p].key]) ELSE {}) :
       /\ store' = [store EXCEPT ![op[p].key] = e[1]]
       /\ res' = [res EXCEPT ![p] = e[2]]
  /\ UNCHANGED op

Return(p) ==
  /\ res[p] # Pending
  /\ op' = [op EXCEPT ![p] = Idle]
  /\ res' = [res EXCEPT ![p] = Pending]
  /\ UNCHANGED store

\* The program is killed: an operation in progress may have had its effect,
\* or that of a failure, but nobody learns the result.
Survivors(k) ==
  {store[k]} \union
    {e[1] : e \in UNION {Success(op[p], store[k]) \union Failure(op[p], store[k]) :
                          p \in {q \in Procs : /\ op[q] # Idle /\ res[q] = Pending
                                               /\ op[q].key = k}}}

Crash ==
  /\ Crashes
  /\ store' \in {s \in [Keys -> UNION {Survivors(k) : k \in Keys}] :
                   \A k \in Keys : s[k] \in Survivors(k)}
  /\ op' = [p \in Procs |-> Idle]
  /\ res' = [p \in Procs |-> Pending]

Next == Crash \/ \E p \in Procs : Call(p) \/ TakeEffect(p) \/ Return(p)

Spec == Init /\ [][Next]_vars
=============================================================================
