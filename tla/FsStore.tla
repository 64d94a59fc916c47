------------------------------- MODULE FsStore -------------------------------
(***************************************************************************)
(* The file store of package store: its two levels of locks, and the steps *)
(* in which its operations read, write and remove files.                   *)
(*                                                                         *)
(* The files of a chat are guarded by an RWMutex found in a map; the map   *)
(* and the directories are guarded by dirLock, an RWMutex too, which every *)
(* operation holds, in one mode or the other, until it returns.  An        *)
(* operation that has to create the lock of its chat keeps dirLock for     *)
(* writing.  DeleteState forgets the lock of a chat, and the next          *)
(* operation creates another one.                                          *)
(*                                                                         *)
(* One file is written as a whole (state) and one is appended to and       *)
(* emptied (queue); sent-events.json and tracked-posts.json go through the *)
(* same functions.                                                         *)
(***************************************************************************)
EXTENDS StoreOps, FiniteSets

CONSTANTS
  Procs,    \* goroutines that use the store
  Locks,    \* the RWMutexes of chats
  None,     \* no lock, no goroutine
  MaxQueue, \* bound: entries of a queue, those being added included
  IOErrors, \* may reading, writing and removing files fail?
  Crashes   \* may the program be killed?

ASSUME StoreAssumption ==
  /\ None \notin Procs \union Locks
  /\ IOErrors \in BOOLEAN /\ Crashes \in BOOLEAN
  /\ MaxQueue \in Nat

VARIABLES
  pc,        \* pc[p]: where p is
  op,        \* op[p]: the operation p is in, Idle if none
  res,       \* res[p]: what it will return
  lk,        \* lk[p]: the lock of its chat, None before it is looked up
  buf,       \* buf[p]: the content p has read, with its own entry if it adds one
  dirR,      \* goroutines that hold dirLock for reading
  dirW,      \* the one that holds it for writing, None if there is none
  fileLocks, \* fileLocks[k]: the lock of chat k, None if not in the map
  lockR,     \* lockR[l]: goroutines that hold lock l for reading
  lockW,     \* lockW[l]: the one that holds it for writing, None if none
  dir,       \* dir[k]: does the directory of chat k exist?
  disk,      \* disk[k][f]: the content of its file f
  was        \* was[p]: the files of its chat before p changes them (history)

procVars == <<pc, op, res, lk, buf>>
lockVars == <<dirR, dirW, fileLocks, lockR, lockW>>
diskVars == <<dir, disk, was>>
vars == <<procVars, lockVars, diskVars>>

PcStates ==
  {"idle", "find", "create", "createWait", "lock", "lockWait", "read", "mkdir",
   "open", "fill", "remove", "unlock", "delete", "deleteWait", "rm", "release"}

TypeOK ==
  /\ pc \in [Procs -> PcStates]
  /\ op \in [Procs -> Ops \union {Idle}]
  /\ lk \in [Procs -> Locks \union {None}]
  /\ \A p \in Procs :
       pc[p] \in {"lock", "lockWait", "read", "mkdir", "open", "fill", "remove",
                 "unlock"} => lk[p] \in Locks
  /\ buf \in [Procs -> Contents]
  /\ dirR \subseteq Procs /\ dirW \in Procs \union {None}
  /\ fileLocks \in [Keys -> Locks \union {None}]
  /\ lockR \in [Locks -> SUBSET Procs]
  /\ lockW \in [Locks -> Procs \union {None}]
  /\ dir \in [Keys -> BOOLEAN]
  /\ disk \in [Keys -> [Files -> Contents]]
  /\ was \in [Procs -> [Files -> Contents]]

Init ==
  /\ pc = [p \in Procs |-> "idle"]
  /\ op = [p \in Procs |-> Idle]
  /\ res = [p \in Procs |-> Pending]
  /\ lk = [p \in Procs |-> None]
  /\ buf = [p \in Procs |-> NoFile]
  /\ dirR = {} /\ dirW = None
  /\ fileLocks = [k \in Keys |-> None]
  /\ lockR = [l \in Locks |-> {}]
  /\ lockW = [l \in Locks |-> None]
  /\ dir = [k \in Keys |-> FALSE]
  /\ disk = [k \in Keys |-> NoFiles]
  /\ was = [p \in Procs |-> NoFiles]

Goto(p, label) == pc' = [pc EXCEPT ![p] = label]
Finish(p, r, label) == Goto(p, label) /\ res' = [res EXCEPT ![p] = r]
SetFile(p, c) == disk' = [disk EXCEPT ![op[p].key][op[p].file] = c]
File(p) == disk[op[p].key][op[p].file]

\* loadData takes the lock of the chat for reading, the others for writing.
AddShares(o) == o.kind \in {"load", "take", "add"}  \* mutant
Shared(o) == o.kind \in {"load", "take"}

\* The files as operations have left them, with a write or a removal that is
\* not finished yet undone.
Settled ==
  [k \in Keys |->
     IF \E p \in Procs : pc[p] \in {"fill", "rm"} /\ op[p].key = k
     THEN was[CHOOSE p \in Procs : pc[p] \in {"fill", "rm"} /\ op[p].key = k]
     ELSE disk[k]]

\* The entries a queue has or is about to get.
Entries(k) ==
  (IF Settled[k]["queue"] \in {NoFile, Torn} THEN 0 ELSE Len(Settled[k]["queue"]))
    + Cardinality({p \in Procs : op[p] # Idle /\ op[p].kind = "add" /\ op[p].key = k})

Call(p) ==
  /\ pc[p] = "idle"
  /\ \E o \in Ops :
       /\ o.kind = "add" => Entries(o.key) < MaxQueue
       /\ op' = [op EXCEPT ![p] = o]
       /\ Goto(p, IF o.kind = "delete" THEN "delete" ELSE "find")
  /\ UNCHANGED <<res, lk, buf, lockVars, diskVars>>

-----------------------------------------------------------------------------
(* The RWMutexes.  A goroutine that wants one for writing while others     *)
(* read first announces itself: it keeps later readers out, and waits for  *)
(* those that are in.                                                      *)

DirWaiting == {q \in Procs : pc[q] \in {"createWait", "deleteWait"}}
LockWaiting(l) == {q \in Procs : pc[q] = "lockWait" /\ lk[q] = l}

\* dirLock can be taken for reading; by p, for writing.
DirShareable == dirW = None /\ DirWaiting = {}
DirFree(p) == dirW = None /\ dirR = {} /\ DirWaiting \subseteq {p}

AnnounceDir(p) ==
  /\ pc[p] \in {"create", "delete"}
  /\ DirShareable /\ dirR # {}
  /\ Goto(p, IF pc[p] = "create" THEN "createWait" ELSE "deleteWait")
  /\ UNCHANGED <<op, res, lk, buf, lockVars, diskVars>>

AnnounceLock(p) ==
  /\ pc[p] = "lock"
  /\ ~Shared(op[p])
  /\ lockW[lk[p]] = None /\ lockR[lk[p]] # {} /\ LockWaiting(lk[p]) = {}
  /\ Goto(p, "lockWait")
  /\ UNCHANGED <<op, res, lk, buf, lockVars, diskVars>>

-----------------------------------------------------------------------------
(* fileLock.                                                               *)

FindUnchecked(p) ==  \* mutant: takes what the map gives, nil or not
  /\ pc[p] = "find"
  /\ DirShareable
  /\ dirR' = dirR \union {p}
  /\ lk' = [lk EXCEPT ![p] = fileLocks[op[p].key]]
  /\ Goto(p, "lock")
  /\ UNCHANGED <<op, res, buf, dirW, fileLocks, lockR, lockW, diskVars>>

FindReleases(p) ==  \* mutant: gives dirLock back at once
  /\ pc[p] = "find"
  /\ DirShareable
  /\ IF fileLocks[op[p].key] # None
     THEN /\ lk' = [lk EXCEPT ![p] = fileLocks[op[p].key]]
          /\ Goto(p, "lock")
     ELSE UNCHANGED lk /\ Goto(p, "create")
  /\ UNCHANGED <<op, res, buf, dirR, dirW, fileLocks, lockR, lockW, diskVars>>

Find(p) ==
  /\ pc[p] = "find"
  /\ DirShareable
  /\ IF fileLocks[op[p].key] # None
     THEN /\ dirR' = dirR \union {p}
          /\ lk' = [lk EXCEPT ![p] = fileLocks[op[p].key]]
          /\ Goto(p, "lock")
     ELSE UNCHANGED <<dirR, lk>> /\ Goto(p, "create")
  /\ UNCHANGED <<op, res, buf, dirW, fileLocks, lockR, lockW, diskVars>>

\* Another goroutine may have created the lock in the meantime.
Create(p) ==
  /\ pc[p] \in {"create", "createWait"}
  /\ DirFree(p)
  /\ dirW' = p
  /\ \E l \in Locks :
       /\ IF fileLocks[op[p].key] # None THEN l = fileLocks[op[p].key]
          ELSE \A k \in Keys : fileLocks[k] # l
       /\ fileLocks' = [fileLocks EXCEPT ![op[p].key] = l]
       /\ lk' = [lk EXCEPT ![p] = l]
  /\ Goto(p, "lock")
  /\ UNCHANGED <<op, res, buf, dirR, lockR, lockW, diskVars>>

-----------------------------------------------------------------------------
(* loadData, saveData and updateData.                                      *)

Lock(p) ==
  /\ pc[p] \in {"lock", "lockWait"}
  /\ lockW[lk[p]] = None /\ LockWaiting(lk[p]) \subseteq {p}
  /\ IF Shared(op[p])
     THEN /\ lockR' = [lockR EXCEPT ![lk[p]] = @ \union {p}]
          /\ UNCHANGED <<lockW, was>>
     ELSE /\ lockR[lk[p]] = {}
          /\ lockW' = [lockW EXCEPT ![lk[p]] = p]
          /\ was' = [was EXCEPT ![p] = disk[op[p].key]]
          /\ UNCHANGED lockR
  /\ Goto(p, IF op[p].kind = "save" THEN "mkdir" ELSE "read")
  /\ UNCHANGED <<op, res, lk, buf, dirR, dirW, fileLocks, dir, disk>>

\* An I/O error ends the operation where it is.
Fail(p) ==
  /\ IOErrors
  /\ pc[p] \in {"read", "mkdir", "open", "fill", "remove"}
  /\ Finish(p, Error, "unlock")
  /\ UNCHANGED <<op, lk, buf, lockVars, diskVars>>

\* A torn file is no JSON.
ReadTorn(p) ==
  /\ pc[p] = "read"
  /\ File(p) = Torn
  /\ Finish(p, Error, "unlock")
  /\ UNCHANGED <<op, lk, buf, lockVars, diskVars>>

ReadFile(p) ==
  /\ pc[p] = "read"
  /\ File(p) # Torn
  /\ \/ /\ op[p].kind = "load"
        /\ Finish(p, IF File(p) = NoFile THEN NotFound ELSE Data(File(p)), "unlock")
        /\ UNCHANGED buf
     \/ /\ op[p].kind = "take" /\ File(p) = NoFile
        /\ Finish(p, Data(<<>>), "unlock")
        /\ UNCHANGED buf
     \/ /\ op[p].kind = "take" /\ File(p) # NoFile
        /\ buf' = [buf EXCEPT ![p] = File(p)]
        /\ Goto(p, "remove")
        /\ UNCHANGED res
     \/ /\ op[p].kind = "add"
        /\ buf' = [buf EXCEPT ![p] = Append(Readable(File(p)), op[p].item)]
        /\ Goto(p, "mkdir")
        /\ UNCHANGED res
  /\ UNCHANGED <<op, lk, lockVars, diskVars>>

RemoveFile(p) ==
  /\ pc[p] = "remove"
  /\ IF File(p) = NoFile
     THEN Finish(p, Error, "unlock") /\ UNCHANGED disk
     ELSE Finish(p, Data(buf[p]), "unlock") /\ SetFile(p, NoFile)
  /\ UNCHANGED <<op, lk, buf, lockVars, dir, was>>

MkdirAll(p) ==
  /\ pc[p] = "mkdir"
  /\ dir' = [dir EXCEPT ![op[p].key] = TRUE]
  /\ Goto(p, "open")
  /\ UNCHANGED <<op, res, lk, buf, lockVars, disk, was>>

\* os.WriteFile truncates the file, or creates it, and then writes it.
OpenFile(p) ==
  /\ pc[p] = "open"
  /\ SetFile(p, Torn)
  /\ Goto(p, "fill")
  /\ UNCHANGED <<op, res, lk, buf, lockVars, dir, was>>

FillFile(p) ==
  /\ pc[p] = "fill"
  /\ SetFile(p, IF op[p].kind = "save" THEN <<op[p].item>> ELSE buf[p])
  /\ Finish(p, Ok, "unlock")
  /\ UNCHANGED <<op, lk, buf, lockVars, dir, was>>

Unlock(p) ==
  /\ pc[p] = "unlock"
  /\ lockR' = [lockR EXCEPT ![lk[p]] = @ \ {p}]
  /\ lockW' = [lockW EXCEPT ![lk[p]] = IF @ = p THEN None ELSE @]
  /\ Goto(p, "release")
  /\ UNCHANGED <<op, res, lk, buf, dirR, dirW, fileLocks, diskVars>>

-----------------------------------------------------------------------------
(* DeleteState.                                                            *)

TakeDirShared(p) ==  \* mutant: dirLock.RLock
  /\ pc[p] = "delete"
  /\ DirShareable
  /\ dirR' = dirR \union {p}
  /\ was' = [was EXCEPT ![p] = disk[op[p].key]]
  /\ Goto(p, "rm")
  /\ UNCHANGED <<op, res, lk, buf, dirW, fileLocks, lockR, lockW, dir, disk>>

TakeDir(p) ==
  /\ pc[p] \in {"delete", "deleteWait"}
  /\ DirFree(p)
  /\ dirW' = p
  /\ was' = [was EXCEPT ![p] = disk[op[p].key]]
  /\ Goto(p, "rm")
  /\ UNCHANGED <<op, res, lk, buf, dirR, fileLocks, lockR, lockW, dir, disk>>

\* os.RemoveAll removes one file after the other and then the directory.
RemoveOne(p) ==
  /\ pc[p] = "rm"
  /\ \E f \in Files :
       /\ disk[op[p].key][f] # NoFile
       /\ disk' = [disk EXCEPT ![op[p].key][f] = NoFile]
  /\ UNCHANGED <<procVars, lockVars, dir, was>>

RemoveDir(p) ==
  /\ pc[p] = "rm"
  /\ disk[op[p].key] = NoFiles
  /\ dir' = [dir EXCEPT ![op[p].key] = FALSE]
  /\ fileLocks' = [fileLocks EXCEPT ![op[p].key] = None]
  /\ Finish(p, Ok, "release")
  /\ UNCHANGED <<op, lk, buf, dirR, dirW, lockR, lockW, disk, was>>

RemoveFails(p) ==
  /\ IOErrors
  /\ pc[p] = "rm"
  /\ Finish(p, Error, "release")
  /\ UNCHANGED <<op, lk, buf, lockVars, diskVars>>

-----------------------------------------------------------------------------
ReleaseKeeps(p) ==  \* mutant: returns without releasing dirLock
  /\ pc[p] = "release"
  /\ Finish(p, Pending, "idle")
  /\ op' = [op EXCEPT ![p] = Idle]
  /\ lk' = [lk EXCEPT ![p] = None]
  /\ buf' = [buf EXCEPT ![p] = NoFile]
  /\ was' = [was EXCEPT ![p] = NoFiles]
  /\ UNCHANGED <<lockVars, dir, disk>>

\* dirLock is released, in the mode it was taken in, and the call returns.
Release(p) ==
  /\ pc[p] = "release"
  /\ dirR' = dirR \ {p}
  /\ dirW' = IF dirW = p THEN None ELSE dirW
  /\ Finish(p, Pending, "idle")
  /\ op' = [op EXCEPT ![p] = Idle]
  /\ lk' = [lk EXCEPT ![p] = None]
  /\ buf' = [buf EXCEPT ![p] = NoFile]
  /\ was' = [was EXCEPT ![p] = NoFiles]
  /\ UNCHANGED <<fileLocks, lockR, lockW, dir, disk>>

\* The program is killed and started again: the files are as they are.
Crash ==
  /\ Crashes
  /\ pc' = [p \in Procs |-> "idle"]
  /\ op' = [p \in Procs |-> Idle]
  /\ res' = [p \in Procs |-> Pending]
  /\ lk' = [p \in Procs |-> None]
  /\ buf' = [p \in Procs |-> NoFile]
  /\ dirR' = {} /\ dirW' = None
  /\ fileLocks' = [k \in Keys |-> None]
  /\ lockR' = [l \in Locks |-> {}]
  /\ lockW' = [l \in Locks |-> None]
  /\ was' = [p \in Procs |-> NoFiles]
  /\ UNCHANGED <<dir, disk>>

Work(p) ==
  \/ AnnounceDir(p) \/ AnnounceLock(p)
  \/ Find(p) \/ Create(p) \/ Lock(p) \/ Fail(p) \/ ReadTorn(p) \/ ReadFile(p)
  \/ RemoveFile(p) \/ MkdirAll(p) \/ OpenFile(p) \/ FillFile(p) \/ Unlock(p)
  \/ TakeDir(p) \/ RemoveOne(p) \/ RemoveDir(p) \/ RemoveFails(p) \/ Release(p)

Next == Crash \/ \E p \in Procs : Call(p) \/ Work(p)

Spec == Init /\ [][Next]_vars

-----------------------------------------------------------------------------
(* Correctness.                                                            *)

InFiles(p) == pc[p] \in {"read", "mkdir", "open", "fill", "remove", "rm"}
Changes(p) == InFiles(p) /\ ~Shared(op[p])

\* While an operation may write or remove files of a chat no other one is
\* among them, though the lock of the chat may be another object after
\* every DeleteState (fs-store.go:49-64, 83-92).
Exclusive ==
  \A p, q \in Procs :
    p # q /\ Changes(p) /\ InFiles(q) => op[p].key # op[q].key

\* A lock that somebody uses, or waits for, is the one the map has for the
\* chat: it was not forgotten in the meantime (fs-store.go:53, 91).
LockIsMapped ==
  \A p \in Procs : lk[p] # None => fileLocks[op[p].key] = lk[p]

\* Every operation takes effect at one moment: no update is lost, a queue is
\* taken once, and nobody reads a half-written file, unless an I/O error or
\* a crash left it so (fs-io.go:24-117, fs-store.go:83-131).
Atomic == INSTANCE AtomicStore WITH store <- Settled
IsAtomic == Atomic!Spec

\* p is in RLock or Lock, and can neither take the RWMutex nor announce itself.
Waits(p) ==
  \/ pc[p] = "find" /\ ~DirShareable
  \/ /\ pc[p] \in {"create", "createWait", "delete", "deleteWait"} /\ ~DirFree(p)
     /\ pc[p] \in {"create", "delete"} => ~(DirShareable /\ dirR # {})
  \/ /\ pc[p] \in {"lock", "lockWait"}
     /\ ~(/\ lockW[lk[p]] = None /\ LockWaiting(lk[p]) \subseteq {p}
          /\ Shared(op[p]) \/ lockR[lk[p]] = {})
     /\ ~(/\ pc[p] = "lock" /\ ~Shared(op[p]) /\ lockW[lk[p]] = None
          /\ LockWaiting(lk[p]) = {})

SomebodyGoes ==
  (\E p \in Procs : pc[p] # "idle") => \E p \in Procs : pc[p] # "idle" /\ ~Waits(p)

\* The two levels of locks do not deadlock: an operation stops nowhere but in
\* front of a lock, and as long as operations are under way they do not all
\* stop, though a goroutine that waits to write keeps readers out and may
\* itself be waited for (fs-store.go:49-64, fs-io.go:32-35).
NeverStuck ==
  /\ \A p \in Procs : pc[p] # "idle" /\ ~Waits(p) => ENABLED Work(p)
  /\ SomebodyGoes
=============================================================================
