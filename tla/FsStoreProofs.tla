---------------------------- MODULE FsStoreProofs ----------------------------
(***************************************************************************)
(* The locks and the files of the store, for any number of goroutines, of  *)
(* chats and of contents, with I/O errors and kills.                       *)
(*                                                                         *)
(* The argument about the locks: a goroutine that uses the lock of a chat  *)
(* holds dirLock (Holding), so DeleteState, which needs dirLock alone,     *)
(* cannot forget that lock meanwhile (Mapped); two operations on a chat    *)
(* then use the same RWMutex (ChatLock), and DeleteState meets none of     *)
(* them (DirLock).  About the files: hence what an operation has read or   *)
(* written is as it left it (Snapshot, Copy), and the step that ends a     *)
(* write or a removal is the moment it takes effect.                       *)
(***************************************************************************)
EXTENDS FsStore, TLAPS

\* Where an operation has the lock of its chat, and where it has dirLock.
InLock(p)  == pc[p] \in {"read", "mkdir", "open", "fill", "remove", "unlock"}
Holding(p) ==
  pc[p] \in {"lock", "lockWait"} \/ InLock(p) \/ pc[p] \in {"rm", "release"}

\* Only what the argument needs of the types.
LockTypes ==
  /\ pc \in [Procs -> PcStates]
  /\ op \in [Procs -> Ops \union {Idle}]
  /\ lk \in [Procs -> Locks \union {None}]
  /\ dirR \subseteq Procs /\ dirW \in Procs \union {None}
  /\ fileLocks \in [Keys -> Locks \union {None}]
  /\ lockR \in [Locks -> SUBSET Procs]
  /\ lockW \in [Locks -> Procs \union {None}]
  /\ \A p \in Procs : pc[p] # "idle" => op[p] \in Ops

DirLock ==
  /\ dirW # None => dirR = {}
  /\ \A p \in Procs : Holding(p) <=> p \in dirR \/ dirW = p
  /\ \A p \in Procs : pc[p] = "rm" => dirW = p

Mapped ==
  /\ \A p \in Procs : pc[p] \in {"lock", "lockWait"} \/ InLock(p) => lk[p] # None
  /\ \A p \in Procs : lk[p] # None =>
       /\ pc[p] \in {"lock", "lockWait"} \/ InLock(p) \/ pc[p] = "release"
       /\ fileLocks[op[p].key] = lk[p]

ChatLock ==
  /\ \A l \in Locks : lockW[l] # None => lockR[l] = {}
  /\ \A l \in Locks, p \in Procs :
       /\ p \in lockR[l] <=> lk[p] = l /\ InLock(p) /\ Shared(op[p])
       /\ lockW[l] = p   <=> lk[p] = l /\ InLock(p) /\ ~Shared(op[p])

LInv == LockTypes /\ DirLock /\ Mapped /\ ChatLock

\* An operation that looks its lock up has a chat.
LEMMA OpHasKey == \A o \in Ops : o.key \in Keys /\ o # Idle
  BY DEF Ops, Save, Load, Add, Take, Delete, Idle
\* The steps among the files change neither locks nor who holds them.
InFilesStep(p) ==
  /\ InLock(p)
  /\ pc' = [pc EXCEPT ![p] = pc'[p]]
  /\ pc'[p] \in {"read", "mkdir", "open", "fill", "remove", "unlock"}
  /\ UNCHANGED <<op, lk, lockVars>>

LEMMA WorkInFiles ==
  ASSUME NEW p \in Procs, LInv,
         \/ Fail(p) \/ ReadTorn(p) \/ ReadFile(p) \/ RemoveFile(p)
         \/ MkdirAll(p) \/ OpenFile(p) \/ FillFile(p)
  PROVE  InFilesStep(p)
  BY DEF LInv, LockTypes, InFilesStep, InLock, Fail, ReadTorn, ReadFile,
     RemoveFile, MkdirAll, OpenFile, FillFile, Finish, Goto

LEMMA LInvStep == LInv /\ [Next]_vars => LInv'
<1> SUFFICES ASSUME LInv, [Next]_vars PROVE LInv'
  OBVIOUS
<1> USE StoreAssumption, OpHasKey
<1>0. LockTypes /\ DirLock /\ Mapped /\ ChatLock
  BY DEF LInv
<1>1. ASSUME NEW p \in Procs, InFilesStep(p)
      PROVE  LInv'
  <2>1. LockTypes'
    BY <1>0, <1>1 DEF InFilesStep, LockTypes, InLock, lockVars, PcStates
  <2>2. \A q \in Procs : /\ InLock(q)' <=> InLock(q)
                         /\ Holding(q)' <=> Holding(q)
                         /\ (pc'[q] = pc[q] \/ (InLock(q) /\ InLock(q)'))
    BY <1>0, <1>1 DEF InFilesStep, LockTypes, InLock, Holding
  <2>3. DirLock' /\ Mapped' /\ ChatLock'
    BY <1>0, <1>1, <2>2 DEF InFilesStep, DirLock, Mapped, ChatLock, InLock, lockVars
  <2> QED
    BY <2>1, <2>3 DEF LInv
<1>2. ASSUME NEW p \in Procs, Call(p)
      PROVE  LInv'
  <2>1. PICK o \in Ops :
          /\ op' = [op EXCEPT ![p] = o] /\ pc[p] = "idle"
          /\ pc' = [pc EXCEPT ![p] = IF o.kind = "delete" THEN "delete" ELSE "find"]
          /\ UNCHANGED <<lk, lockVars>>
    BY <1>2 DEF Call, Goto
  <2>2. LockTypes'
    BY <1>0, <2>1 DEF LockTypes, PcStates, lockVars
  <2>3. \A q \in Procs : /\ InLock(q)' <=> InLock(q)
                         /\ Holding(q)' <=> Holding(q)
                         /\ (q # p => op'[q] = op[q] /\ pc'[q] = pc[q])
    BY <1>0, <2>1 DEF LockTypes, InLock, Holding
  <2>4. ~InLock(p) /\ lk[p] = None /\ pc'[p] \notin {"rm", "lock", "lockWait", "release"}
    BY <1>0, <2>1 DEF InLock, Mapped, LockTypes
  <2>5. DirLock' /\ Mapped' /\ ChatLock'
    BY <1>0, <2>1, <2>3, <2>4 DEF DirLock, Mapped, ChatLock, lockVars
  <2> QED
    BY <2>2, <2>5 DEF LInv
<1>3. ASSUME NEW p \in Procs, Find(p)
      PROVE  LInv'
  <2>1. /\ pc[p] = "find" /\ dirW = None
        /\ UNCHANGED <<op, dirW, fileLocks, lockR, lockW>>
        /\ \/ /\ fileLocks[op[p].key] # None /\ dirR' = dirR \union {p}
              /\ lk' = [lk EXCEPT ![p] = fileLocks[op[p].key]]
              /\ pc' = [pc EXCEPT ![p] = "lock"]
           \/ dirR' = dirR /\ lk' = lk /\ pc' = [pc EXCEPT ![p] = "create"]
    BY <1>3 DEF Find, DirShareable, Goto
  <2>2. op[p].key \in Keys /\ lk[p] = None
    BY <1>0, <2>1 DEF LockTypes, Mapped, InLock
  <2>3. LockTypes'
    BY <1>0, <2>1, <2>2 DEF LockTypes, PcStates
  <2>4. \A q \in Procs : /\ InLock(q)' <=> InLock(q)
                         /\ (q # p => /\ pc'[q] = pc[q] /\ lk'[q] = lk[q]
                                      /\ (Holding(q)' <=> Holding(q)))
    BY <1>0, <2>1 DEF LockTypes, InLock, Holding
  <2>5. ~InLock(p) /\ ~Holding(p)
    BY <2>1 DEF InLock, Holding
  <2>6. pc'[p] \in {"lock", "create"} /\ (Holding(p)' <=> pc'[p] = "lock")
    BY <1>0, <2>1 DEF LockTypes, Holding, InLock
  <2>7. DirLock'
    BY <1>0, <2>1, <2>4, <2>5, <2>6 DEF LockTypes, DirLock
  <2>8. Mapped'
    BY <1>0, <2>1, <2>2, <2>4, <2>5 DEF LockTypes, Mapped
  <2>9. ChatLock'
    BY <1>0, <2>1, <2>4, <2>5 DEF ChatLock
  <2> QED
    BY <2>3, <2>7, <2>8, <2>9 DEF LInv
<1>4. ASSUME NEW p \in Procs, Create(p)
      PROVE  LInv'
  <2>1. PICK l \in Locks :
          /\ pc[p] \in {"create", "createWait"} /\ dirW = None /\ dirR = {} /\ dirW' = p
          /\ fileLocks[op[p].key] # None => l = fileLocks[op[p].key]
          /\ fileLocks' = [fileLocks EXCEPT ![op[p].key] = l]
          /\ lk' = [lk EXCEPT ![p] = l]
          /\ pc' = [pc EXCEPT ![p] = "lock"]
          /\ UNCHANGED <<op, dirR, lockR, lockW>>
    BY <1>4 DEF Create, DirFree, Goto
  <2>2. op[p].key \in Keys
    BY <1>0, <2>1 DEF LockTypes
  <2>3. LockTypes'
    BY <1>0, <2>1, <2>2 DEF LockTypes, PcStates
  <2>4. \A q \in Procs : ~Holding(q) /\ ~InLock(q)
    BY <1>0, <2>1 DEF DirLock, Holding
  <2>5. \A q \in Procs : lk[q] = None
    BY <1>0, <2>4 DEF Mapped, Holding
  <2>6. \A q \in Procs : ~InLock(q)' /\ (Holding(q)' <=> q = p)
    BY <1>0, <2>1, <2>4 DEF LockTypes, InLock, Holding
  <2>7. DirLock'
    BY <1>0, <2>1, <2>4, <2>6 DEF DirLock, Holding, LockTypes
  <2>8. Mapped'
    BY <1>0, <2>1, <2>2, <2>5, <2>6 DEF Mapped, LockTypes
  <2>9. ChatLock'
    BY <1>0, <2>1, <2>4, <2>6 DEF ChatLock
  <2> QED
    BY <2>3, <2>7, <2>8, <2>9 DEF LInv
<1>5. ASSUME NEW p \in Procs, Lock(p)
      PROVE  LInv'
  <2>1. /\ pc[p] \in {"lock", "lockWait"} /\ lockW[lk[p]] = None
        /\ \/ /\ Shared(op[p]) /\ lockW' = lockW
              /\ lockR' = [lockR EXCEPT ![lk[p]] = @ \union {p}]
           \/ /\ ~Shared(op[p]) /\ lockR' = lockR /\ lockR[lk[p]] = {}
              /\ lockW' = [lockW EXCEPT ![lk[p]] = p]
        /\ pc' = [pc EXCEPT ![p] = pc'[p]] /\ pc'[p] \in {"mkdir", "read"}
        /\ UNCHANGED <<op, lk, dirR, dirW, fileLocks>>
    BY <1>0, <1>5 DEF Lock, Goto, LockTypes
  <2>2. lk[p] \in Locks
    BY <1>0, <2>1 DEF LockTypes, Mapped
  <2>3. LockTypes'
    BY <1>0, <2>1, <2>2 DEF LockTypes, PcStates
  <2>4. \A q \in Procs : /\ InLock(q)' <=> (InLock(q) \/ q = p)
                         /\ Holding(q)' <=> Holding(q)
                         /\ (q # p => pc'[q] = pc[q])
    BY <1>0, <2>1 DEF LockTypes, InLock, Holding
  <2>5. ~InLock(p) /\ InLock(p)' /\ pc'[p] # "rm"
    BY <1>0, <2>1 DEF InLock, LockTypes
  <2>6. DirLock'
    BY <1>0, <2>1, <2>4, <2>5 DEF DirLock
  <2>7. Mapped'
    BY <1>0, <2>1, <2>4, <2>5 DEF Mapped
  <2>8. ChatLock'
    BY <1>0, <2>1, <2>2, <2>4, <2>5 DEF ChatLock, LockTypes
  <2> QED
    BY <2>3, <2>6, <2>7, <2>8 DEF LInv
<1>6. ASSUME NEW p \in Procs, Unlock(p)
      PROVE  LInv'
  <2>1. /\ pc[p] = "unlock" /\ InLock(p) /\ Holding(p)
        /\ lockR' = [lockR EXCEPT ![lk[p]] = @ \ {p}]
        /\ lockW' = [lockW EXCEPT ![lk[p]] = IF @ = p THEN None ELSE @]
        /\ pc' = [pc EXCEPT ![p] = "release"]
        /\ UNCHANGED <<op, lk, dirR, dirW, fileLocks>>
    BY <1>6 DEF Unlock, Goto, InLock, Holding
  <2>2. lk[p] \in Locks
    BY <1>0, <2>1 DEF LockTypes, Mapped
  <2>3. LockTypes'
    BY <1>0, <2>1, <2>2 DEF LockTypes, PcStates
  <2>4. \A q \in Procs : /\ InLock(q)' <=> (InLock(q) /\ q # p)
                         /\ Holding(q)' <=> Holding(q)
                         /\ (q # p => pc'[q] = pc[q])
    BY <1>0, <2>1 DEF LockTypes, InLock, Holding
  <2>5. pc'[p] = "release"
    BY <1>0, <2>1 DEF LockTypes
  <2>6. DirLock'
    BY <1>0, <2>1, <2>4, <2>5 DEF DirLock
  <2>7. Mapped'
    BY <1>0, <2>1, <2>4, <2>5 DEF Mapped
  <2>8. ChatLock'
    BY <1>0, <2>1, <2>2, <2>4, <2>5 DEF ChatLock, LockTypes
  <2> QED
    BY <2>3, <2>6, <2>7, <2>8 DEF LInv
<1>7. ASSUME NEW p \in Procs, TakeDir(p)
      PROVE  LInv'
  <2>1. /\ pc[p] \in {"delete", "deleteWait"} /\ dirW = None /\ dirR = {} /\ dirW' = p
        /\ pc' = [pc EXCEPT ![p] = "rm"]
        /\ UNCHANGED <<op, lk, dirR, fileLocks, lockR, lockW>>
    BY <1>7 DEF TakeDir, DirFree, Goto
  <2>2. LockTypes'
    BY <1>0, <2>1 DEF LockTypes, PcStates
  <2>3. \A q \in Procs : ~Holding(q) /\ ~InLock(q) /\ lk[q] = None
    BY <1>0, <2>1 DEF DirLock, Holding, Mapped
  <2>4. \A q \in Procs : /\ ~InLock(q)' /\ (Holding(q)' <=> q = p)
                         /\ (pc'[q] = "rm" => q = p) /\ pc'[q] \notin {"lock", "lockWait"}
    BY <1>0, <2>1, <2>3 DEF LockTypes, InLock, Holding
  <2>5. DirLock' /\ Mapped' /\ ChatLock'
    BY <1>0, <2>1, <2>3, <2>4 DEF DirLock, Mapped, ChatLock
  <2> QED
    BY <2>2, <2>5 DEF LInv
<1>8. ASSUME NEW p \in Procs, RemoveDir(p) \/ RemoveFails(p)
      PROVE  LInv'
  <2>1. /\ pc[p] = "rm" /\ pc' = [pc EXCEPT ![p] = "release"]
        /\ \/ fileLocks' = [fileLocks EXCEPT ![op[p].key] = None]
           \/ fileLocks' = fileLocks
        /\ UNCHANGED <<op, lk, dirR, dirW, lockR, lockW>>
    BY <1>8 DEF RemoveDir, RemoveFails, Finish, Goto, lockVars
  <2>2. dirW = p /\ dirR = {} /\ p # None /\ lk[p] = None
    BY <1>0, <2>1 DEF DirLock, Mapped, InLock
  <2>3. \A q \in Procs : Holding(q) <=> q = p
    BY <1>0, <2>2 DEF DirLock
  <2>4. \A q \in Procs : ~InLock(q) /\ pc[q] \notin {"lock", "lockWait"} /\ lk[q] = None
    BY <1>0, <2>1, <2>2, <2>3 DEF Holding, Mapped, InLock
  <2>5. \A q \in Procs : /\ ~InLock(q)' /\ (Holding(q)' <=> Holding(q))
                         /\ pc'[q] \notin {"lock", "lockWait", "rm"}
    BY <1>0, <2>1, <2>3, <2>4 DEF LockTypes, InLock, Holding
  <2>6. LockTypes'
    BY <1>0, <2>1 DEF LockTypes, PcStates
  <2>7. DirLock' /\ Mapped' /\ ChatLock'
    BY <1>0, <2>1, <2>4, <2>5 DEF DirLock, Mapped, ChatLock
  <2> QED
    BY <2>6, <2>7 DEF LInv
<1>9. ASSUME NEW p \in Procs, Release(p)
      PROVE  LInv'
  <2>1. /\ pc[p] = "release" /\ pc' = [pc EXCEPT ![p] = "idle"]
        /\ dirR' = dirR \ {p} /\ dirW' = IF dirW = p THEN None ELSE dirW
        /\ op' = [op EXCEPT ![p] = Idle] /\ lk' = [lk EXCEPT ![p] = None]
        /\ UNCHANGED <<fileLocks, lockR, lockW>>
    BY <1>9 DEF Release, Finish, Goto
  <2>2. LockTypes'
    BY <1>0, <2>1 DEF LockTypes, PcStates
  <2>3. \A q \in Procs : /\ InLock(q)' <=> InLock(q)
                         /\ Holding(q)' <=> (Holding(q) /\ q # p)
                         /\ (q # p => /\ pc'[q] = pc[q] /\ op'[q] = op[q]
                                      /\ lk'[q] = lk[q])
    BY <1>0, <2>1 DEF LockTypes, InLock, Holding
  <2>4. ~InLock(p) /\ pc'[p] = "idle" /\ lk'[p] = None
    BY <1>0, <2>1 DEF LockTypes, InLock
  <2>5. DirLock'
    BY <1>0, <2>1, <2>3, <2>4 DEF DirLock, LockTypes
  <2>6. Mapped'
    BY <1>0, <2>1, <2>3, <2>4 DEF Mapped
  <2>7. ChatLock'
    BY <1>0, <2>1, <2>3, <2>4 DEF ChatLock
  <2> QED
    BY <2>2, <2>5, <2>6, <2>7 DEF LInv
<1>10. CASE Crash
  BY <1>10 DEF Crash, LInv, LockTypes, DirLock, Mapped, ChatLock, InLock,
     Holding, PcStates
<1>12. ASSUME NEW p \in Procs, AnnounceDir(p) \/ AnnounceLock(p)
       PROVE  LInv'
  <2>1. /\ UNCHANGED <<op, lk, lockVars>>
        /\ \/ /\ pc[p] \in {"create", "delete"}
              /\ pc' = [pc EXCEPT ![p] = pc'[p]]
              /\ pc'[p] \in {"createWait", "deleteWait"}
           \/ pc[p] = "lock" /\ pc' = [pc EXCEPT ![p] = "lockWait"]
    BY <1>0, <1>12 DEF AnnounceDir, AnnounceLock, Goto, LockTypes
  <2>2. LockTypes'
    BY <1>0, <2>1 DEF LockTypes, lockVars, PcStates
  <2>3. \A q \in Procs : /\ InLock(q)' <=> InLock(q)
                         /\ Holding(q)' <=> Holding(q)
                         /\ (pc[q] \in {"lock", "lockWait"})' <=> pc[q] \in {"lock", "lockWait"}
                         /\ (pc[q] = "rm")' <=> pc[q] = "rm"
                         /\ (pc[q] = "idle")' <=> pc[q] = "idle"
                         /\ (pc[q] = "release")' <=> pc[q] = "release"
    BY <1>0, <2>1 DEF LockTypes, InLock, Holding
  <2>4. DirLock' /\ Mapped' /\ ChatLock'
    BY <1>0, <2>1, <2>3 DEF DirLock, Mapped, ChatLock, lockVars
  <2> QED
    BY <2>2, <2>4 DEF LInv
<1>11. CASE UNCHANGED <<pc, op, lk, lockVars>>
  BY <1>0, <1>11 DEF LInv, LockTypes, DirLock, Mapped, ChatLock, InLock,
     Holding, lockVars
<1> QED
  <2>1. ASSUME NEW p \in Procs, RemoveOne(p) PROVE UNCHANGED <<pc, op, lk, lockVars>>
    BY <2>1 DEF RemoveOne, procVars
  <2>2. UNCHANGED vars => UNCHANGED <<pc, op, lk, lockVars>>
    BY DEF vars, procVars
  <2> QED
    BY <1>1, <1>2, <1>3, <1>4, <1>5, <1>6, <1>7, <1>8, <1>9, <1>10, <1>11, <1>12,
       <2>1, <2>2, WorkInFiles DEF Next, Work

LEMMA LocksStart == Init => LInv
  BY StoreAssumption DEF Init, LInv, LockTypes, DirLock, Mapped, ChatLock,
     InLock, Holding, PcStates

LEMMA LockInvariance == Spec => []LInv
  BY LocksStart, LInvStep, PTL DEF Spec

\* The lock of a chat is not forgotten while an operation uses it or waits
\* for it, whatever logins and logouts happen (fs-store.go:49-64, 83-92).
THEOREM LockStaysMapped == Spec => []LockIsMapped
<1>1. LInv => LockIsMapped
  BY DEF LInv, Mapped, LockIsMapped
<1> QED
  BY <1>1, LockInvariance, PTL

\* An operation among the files of a chat has its lock, and both have found
\* the same one.
LEMMA Alone == LInv => Exclusive
<1> SUFFICES ASSUME LInv, NEW p \in Procs, NEW q \in Procs, p # q,
                    Changes(p), InFiles(q), op[p].key = op[q].key
             PROVE  FALSE
  BY DEF Exclusive
<1>0. LockTypes /\ DirLock /\ Mapped /\ ChatLock
  BY DEF LInv
<1>1. Holding(p) /\ Holding(q)
  BY DEF Changes, InFiles, Holding, InLock
<1>2. pc[p] # "rm" /\ pc[q] # "rm"
  BY <1>0, <1>1, StoreAssumption DEF DirLock
<1>3. InLock(p) /\ InLock(q) /\ ~Shared(op[p])
  BY <1>2 DEF Changes, InFiles, InLock
<1>4. lk[p] \in Locks /\ lk[p] = lk[q]
  BY <1>0, <1>3 DEF LockTypes, Mapped
<1>5. lockW[lk[p]] = p
  BY <1>0, <1>3, <1>4 DEF ChatLock
<1>6. q \in lockR[lk[p]] \/ lockW[lk[p]] = q
  BY <1>0, <1>3, <1>4 DEF ChatLock
<1> QED
  BY <1>0, <1>4, <1>5, <1>6, StoreAssumption DEF ChatLock

\* An operation that changes files of a chat is alone among them, for any
\* number of goroutines, chats and generations of the lock of a chat
\* (fs-store.go:49-64, 83-92; fs-io.go:32-35, 61-64, 83-86).
THEOREM MutualExclusion == Spec => []Exclusive
  BY Alone, LockInvariance, PTL

-----------------------------------------------------------------------------
(* The two levels of locks do not deadlock.  Nobody who has both levels    *)
(* waits; if nobody has both, nobody uses the lock of a chat, so the one   *)
(* that waits to write is served; and if nobody has dirLock either, the    *)
(* one that waits to write it is.                                          *)

\* One goroutine at most waits to write: those that come later wait for it.
OneWaits ==
  /\ \A p, q \in DirWaiting : p = q
  /\ \A l \in Locks : \A p, q \in LockWaiting(l) : p = q

LEMMA OneWaitsStep == LInv /\ OneWaits /\ [Next]_vars => OneWaits'
<1> SUFFICES ASSUME LInv, OneWaits, [Next]_vars PROVE OneWaits'
  OBVIOUS
<1>0. pc \in [Procs -> PcStates] /\ lk \in [Procs -> Locks \union {None}]
  BY DEF LInv, LockTypes
\* Who begins to wait finds nobody waiting.
<1>1. ASSUME NEW p \in Procs, AnnounceDir(p) PROVE OneWaits'
  <2>1. /\ DirWaiting = {} /\ lk' = lk /\ pc[p] # "lockWait"
        /\ pc' = [pc EXCEPT ![p] = pc'[p]] /\ pc'[p] # "lockWait"
    BY <1>0, <1>1 DEF AnnounceDir, DirShareable, Goto
  <2>2. DirWaiting' \subseteq {p} /\ \A l \in Locks : LockWaiting(l)' = LockWaiting(l)
    BY <1>0, <2>1 DEF DirWaiting, LockWaiting
  <2> QED
    BY <2>2 DEF OneWaits
<1>2. ASSUME NEW p \in Procs, AnnounceLock(p) PROVE OneWaits'
  <2>1. /\ LockWaiting(lk[p]) = {} /\ lk' = lk /\ pc[p] = "lock"
        /\ pc' = [pc EXCEPT ![p] = "lockWait"]
    BY <1>0, <1>2 DEF AnnounceLock, Goto
  <2>2. /\ DirWaiting' = DirWaiting
        /\ \A l \in Locks : IF l = lk[p] THEN LockWaiting(l)' \subseteq {p}
                            ELSE LockWaiting(l)' = LockWaiting(l)
    BY <1>0, <2>1 DEF DirWaiting, LockWaiting
  <2> QED
    BY <2>2 DEF OneWaits
\* The other steps make nobody wait.
<1>3. ASSUME \A q \in Procs : /\ pc'[q] \in {"createWait", "deleteWait"} => pc'[q] = pc[q]
                              /\ pc'[q] = "lockWait" => pc'[q] = pc[q] /\ lk'[q] = lk[q]
      PROVE  OneWaits'
  <2>1. DirWaiting' \subseteq DirWaiting /\ \A l \in Locks : LockWaiting(l)' \subseteq LockWaiting(l)
    BY <1>3 DEF DirWaiting, LockWaiting
  <2> QED
    BY <2>1 DEF OneWaits
<1>4. ASSUME NEW p \in Procs, Call(p) \/ Find(p) \/ Create(p) \/ Lock(p) PROVE OneWaits'
  <2>1. /\ pc[p] # "lockWait" \/ lk' = lk
        /\ lk' = [lk EXCEPT ![p] = lk'[p]]
        /\ \E l \in {"delete", "find", "lock", "create", "mkdir", "read"} :
             pc' = [pc EXCEPT ![p] = l]
    BY <1>0, <1>4 DEF Call, Find, Create, Lock, Goto
  <2> QED
    BY <1>0, <1>3, <2>1
<1>5. ASSUME NEW p \in Procs, InFilesStep(p) \/ Unlock(p) PROVE OneWaits'
  <2>1. /\ lk' = lk /\ \E l \in {"read", "mkdir", "open", "fill", "remove", "unlock", "release"} :
                         pc' = [pc EXCEPT ![p] = l]
    BY <1>5 DEF InFilesStep, Unlock, Goto
  <2> QED
    BY <1>0, <1>3, <2>1
<1>6. ASSUME NEW p \in Procs, TakeDir(p) \/ RemoveOne(p) \/ RemoveDir(p) \/ RemoveFails(p)
      PROVE  OneWaits'
  <2>1. lk' = lk /\ (pc' = pc \/ \E l \in {"rm", "release"} : pc' = [pc EXCEPT ![p] = l])
    BY <1>6 DEF TakeDir, RemoveOne, RemoveDir, RemoveFails, Finish, Goto, procVars
  <2> QED
    BY <1>0, <1>3, <2>1
<1>7. ASSUME NEW p \in Procs, Release(p) PROVE OneWaits'
  <2>1. /\ pc' = [pc EXCEPT ![p] = "idle"] /\ lk' = [lk EXCEPT ![p] = None]
    BY <1>7 DEF Release, Finish, Goto
  <2> QED
    BY <1>0, <1>3, <2>1
<1>8. CASE Crash
  BY <1>3, <1>8 DEF Crash
<1>9. CASE UNCHANGED vars
  BY <1>3, <1>9 DEF vars, procVars
<1> QED
  BY <1>1, <1>2, <1>4, <1>5, <1>6, <1>7, <1>8, <1>9, WorkInFiles DEF Next, Work

\* The two levels of locks do not deadlock, for any number of goroutines and
\* of chats: while operations are under way one of them is not stopped by a
\* lock (fs-store.go:49-64, 83-92; fs-io.go:32-35, 61-64, 83-86).
THEOREM LocksDoNotDeadlock == Spec => []SomebodyGoes
<1>1. Init => OneWaits
  BY DEF Init, OneWaits, DirWaiting, LockWaiting
<1>2. LInv /\ OneWaits => SomebodyGoes
  <2> SUFFICES ASSUME LInv, OneWaits, \A p \in Procs : pc[p] # "idle" => Waits(p),
                      NEW r \in Procs, pc[r] # "idle"
               PROVE  FALSE
    BY DEF SomebodyGoes
  <2>0. LockTypes /\ DirLock /\ Mapped /\ ChatLock
    BY DEF LInv
  <2>1. \A p \in Procs : /\ ~InLock(p) /\ pc[p] \notin {"rm", "release"}
                         /\ pc[p] # "idle" => Waits(p)
    BY DEF InLock, Waits
  <2>2. \A l \in Locks : lockR[l] = {} /\ lockW[l] = None
    BY <2>0, <2>1 DEF LockTypes, ChatLock
  <2>3. ASSUME NEW p \in Procs, pc[p] \in {"lock", "lockWait"} PROVE FALSE
    <3>1. lk[p] \in Locks
      BY <2>0, <2>3 DEF LockTypes, Mapped
    <3>2. CASE LockWaiting(lk[p]) = {}
      BY <2>1, <2>2, <2>3, <3>1, <3>2 DEF Waits
    <3>3. ASSUME NEW q \in LockWaiting(lk[p]) PROVE FALSE
      <4>1. q \in Procs /\ pc[q] = "lockWait" /\ lk[q] = lk[p]
        BY DEF LockWaiting
      <4>2. LockWaiting(lk[q]) \subseteq {q}
        BY <3>1, <4>1 DEF OneWaits
      <4> QED
        BY <2>1, <2>2, <3>1, <4>1, <4>2 DEF Waits
    <3> QED
      BY <3>2, <3>3
  <2>4. dirR = {} /\ dirW = None
    BY <2>0, <2>1, <2>3 DEF LockTypes, DirLock, Holding
  <2>5. CASE DirWaiting = {}
    BY <2>1, <2>3, <2>4, <2>5 DEF Waits, DirFree, DirShareable
  <2>6. ASSUME NEW q \in DirWaiting PROVE FALSE
    <3>1. q \in Procs /\ pc[q] \in {"createWait", "deleteWait"} /\ DirWaiting \subseteq {q}
      BY DEF DirWaiting, OneWaits
    <3> QED
      BY <2>1, <2>4, <3>1 DEF Waits, DirFree
  <2> QED
    BY <2>5, <2>6
<1> QED
  BY <1>1, <1>2, OneWaitsStep, LockInvariance, PTL DEF Spec

-----------------------------------------------------------------------------
(* The files.  What is true of one operation (Sound) speaks of its own     *)
(* state and of the files of its chat only; MutualExclusion says that no   *)
(* other operation changes those while the operation relies on them.       *)

DataTypes ==
  /\ buf \in [Procs -> Contents]
  /\ DOMAIN res = Procs
  /\ dir \in [Keys -> BOOLEAN]
  /\ disk \in [Keys -> [Files -> Contents]]
  /\ was \in [Procs -> [Files -> Contents]]

\* Which operations come where, and where they have a result.
Phase(p) ==
  /\ pc[p] \in {"mkdir", "open", "fill"} => op[p].kind \in {"save", "add"}
  /\ pc[p] = "read" => op[p].kind \in {"load", "take", "add"}
  /\ pc[p] = "remove" => op[p].kind = "take"
  /\ pc[p] \in {"rm", "delete", "deleteWait"} => op[p].kind = "delete"
  /\ pc[p] \in {"find", "create", "createWait", "lock", "lockWait"} =>
       op[p].kind # "delete"
  /\ res[p] = Pending <=> pc[p] \notin {"unlock", "release"}
  /\ op[p] = Idle <=> pc[p] = "idle"

\* How the files of its chat differ from what it found.
Snapshot(p) ==
  /\ pc[p] \in {"read", "mkdir", "open"} /\ ~Shared(op[p]) => was[p] = disk[op[p].key]
  /\ pc[p] = "fill" => disk[op[p].key] = [was[p] EXCEPT ![op[p].file] = Torn]
  /\ pc[p] = "rm" => \A f \in Files : disk[op[p].key][f] \in {was[p][f], NoFile}

\* What it has read is what it found; a queue that was read may be gone.
Copy(p) ==
  /\ pc[p] \in {"mkdir", "open", "fill"} /\ op[p].kind = "add" =>
       /\ was[p]["queue"] # Torn
       /\ buf[p] = Append(Readable(was[p]["queue"]), op[p].item)
  /\ pc[p] = "remove" =>
       buf[p] \in Seq(Items) /\ disk[op[p].key]["queue"] \in {NoFile, buf[p]}

Sound(p) == Phase(p) /\ Snapshot(p) /\ Copy(p)

FInv == LInv /\ DataTypes /\ \A p \in Procs : Sound(p)

LEMMA OpsAre ==
  \A o \in Ops : /\ o.key \in Keys
                 /\ o.kind \in {"save", "load", "add", "take", "delete"}
                 /\ o.kind = "save" => o.file = "state" /\ o.item \in Items
                 /\ o.kind = "load" => o.file = "state"
                 /\ o.kind = "add"  => o.file = "queue" /\ o.item \in Items
                 /\ o.kind = "take" => o.file = "queue"
  BY DEF Ops, Save, Load, Add, Take, Delete

LEMMA ContentsAre ==
  /\ NoFile \in Contents /\ Torn \in Contents /\ NoFile # Torn
  /\ \A s \in Seq(Items) : s \in Contents /\ s # NoFile /\ s # Torn
  /\ \A c \in Contents : c # Torn => Readable(c) \in Seq(Items)
  /\ \A c \in Contents : c \notin {NoFile, Torn} => c \in Seq(Items)
  /\ \A s \in Seq(Items), i \in Items : Append(s, i) \in Seq(Items)
  /\ \A i \in Items : <<i>> \in Seq(Items)
<1>1. NoFile \in Contents /\ Torn \in Contents /\ NoFile # Torn
  BY ContentAssumption DEF Contents
<1>2. \A s \in Seq(Items) : s \in Contents /\ s # NoFile /\ s # Torn
  BY ContentAssumption, Zenon DEF Contents
<1>3. \A c \in Contents : c \notin {NoFile, Torn} => c \in Seq(Items)
  BY DEF Contents
<1>4. <<>> \in Seq(Items)
  OBVIOUS
<1>5. \A c \in Contents : c # Torn => Readable(c) \in Seq(Items)
  BY <1>3, <1>4 DEF Readable
<1> QED
  BY <1>1, <1>2, <1>3, <1>5

LEMMA ResultsDiffer ==
  Pending \notin {Ok, NotFound, Error} /\ \A s : Data(s) # Pending
  BY DEF Pending, Ok, NotFound, Error, Data


\* A step of p leaves the state of the other operations alone, and of the
\* files those of its own chat at most.
Steps(p) ==
  /\ \A q \in Procs \ {p} : /\ pc'[q] = pc[q] /\ op'[q] = op[q] /\ res'[q] = res[q]
                            /\ buf'[q] = buf[q] /\ was'[q] = was[q]
  /\ pc[p] = "idle" => disk' = disk
  /\ \A k \in Keys : k # op[p].key => disk'[k] = disk[k]

LEMMA OneSteps ==
  ASSUME NEW p \in Procs, FInv, Call(p) \/ Work(p)
  PROVE  Steps(p)
<1> USE DEF Steps, FInv, DataTypes, LInv, LockTypes, diskVars, procVars, Goto, Finish
<1>0. pc[p] # "idle" => op[p].key \in Keys
  BY OpHasKey
<1>1. CASE Call(p)
  BY <1>1 DEF Call
<1>2. CASE AnnounceDir(p) \/ AnnounceLock(p) \/ Find(p)
  BY <1>2 DEF AnnounceDir, AnnounceLock, Find
<1>3. CASE Create(p)
  <2>1. op' = op /\ res' = res /\ buf' = buf /\ UNCHANGED diskVars
        /\ pc' = [pc EXCEPT ![p] = "lock"]
    BY <1>3 DEF Create
  <2> QED
    BY <2>1
<1>4. CASE Lock(p)
  <2>1. op' = op /\ res' = res /\ buf' = buf /\ disk' = disk
        /\ pc' = [pc EXCEPT ![p] = IF op[p].kind = "save" THEN "mkdir" ELSE "read"]
    BY <1>4 DEF Lock
  <2>2. was' = was \/ was' = [was EXCEPT ![p] = disk[op[p].key]]
    BY <1>4 DEF Lock
  <2> QED
    BY <2>1, <2>2
<1>5. CASE Fail(p) \/ ReadTorn(p) \/ MkdirAll(p) \/ Unlock(p)
  BY <1>5 DEF Fail, ReadTorn, MkdirAll, Unlock
<1>6. CASE ReadFile(p)
  BY <1>6 DEF ReadFile
<1>7. CASE RemoveFile(p) \/ OpenFile(p) \/ FillFile(p)
  BY <1>0, <1>7 DEF RemoveFile, OpenFile, FillFile, SetFile
<1>8. CASE RemoveOne(p) \/ RemoveDir(p) \/ RemoveFails(p)
  BY <1>0, <1>8 DEF RemoveOne, RemoveDir, RemoveFails
<1>9. CASE TakeDir(p) \/ Release(p)
  BY <1>9 DEF TakeDir, Release
<1> QED
  BY <1>1, <1>2, <1>3, <1>4, <1>5, <1>6, <1>7, <1>8, <1>9 DEF Work

\* Only a step among the files of a chat changes them; one that shares its
\* lock with others removes the queue.
LEMMA DiskSteps ==
  ASSUME NEW p \in Procs, FInv, Call(p) \/ Work(p), disk' # disk
  PROVE  /\ InFiles(p)
         /\ Shared(op[p]) => disk' = [disk EXCEPT ![op[p].key]["queue"] = NoFile]
<1>1. RemoveFile(p) \/ OpenFile(p) \/ FillFile(p) \/ RemoveOne(p)
  BY DEF Call, Work, AnnounceDir, AnnounceLock, Find, Create, Lock, Fail, ReadTorn,
     ReadFile, MkdirAll, Unlock, TakeDir, RemoveDir, RemoveFails, Release, diskVars
<1>2. InFiles(p)
  BY <1>1 DEF RemoveFile, OpenFile, FillFile, RemoveOne, InFiles
<1>3. Phase(p) /\ op[p] \in Ops
  BY <1>2, StoreAssumption DEF FInv, Sound, LInv, LockTypes, InFiles
<1>4. ASSUME Shared(op[p]) PROVE disk' = [disk EXCEPT ![op[p].key]["queue"] = NoFile]
  <2>1. pc[p] \in {"open", "fill", "rm"} => op[p].kind \in {"save", "add", "delete"}
    BY <1>3 DEF Phase
  <2>2. RemoveFile(p) /\ pc[p] = "remove"
    BY <1>1, <1>4, <2>1 DEF Shared, RemoveFile, OpenFile, FillFile, RemoveOne
  <2>3. op[p].file = "queue"
    BY <1>3, <2>2, OpsAre DEF Phase
  <2> QED
    BY <2>2, <2>3 DEF RemoveFile, SetFile
<1> QED
  BY <1>2, <1>4

LEMMA OthersStaySound ==
  ASSUME NEW p \in Procs, FInv, Call(p) \/ Work(p), NEW q \in Procs \ {p}
  PROVE  Sound(q)'
<1>1. /\ pc'[q] = pc[q] /\ op'[q] = op[q] /\ res'[q] = res[q]
      /\ buf'[q] = buf[q] /\ was'[q] = was[q]
  BY OneSteps DEF Steps
<1>2. Phase(q) /\ Snapshot(q) /\ Copy(q)
  BY DEF FInv, Sound
<1>3. Phase(q)'
  BY <1>1, <1>2 DEF Phase
<1>4. CASE disk'[op[q].key] = disk[op[q].key]
  BY <1>1, <1>2, <1>3, <1>4 DEF Sound, Snapshot, Copy
<1>5. CASE ~InFiles(q)
  BY <1>1, <1>3, <1>5 DEF Sound, Snapshot, Copy, InFiles
<1>6. ASSUME InFiles(q), disk'[op[q].key] # disk[op[q].key] PROVE Sound(q)'
  <2>1. op[q].key \in Keys
    BY <1>6, OpHasKey DEF FInv, LInv, LockTypes, InFiles
  <2>2. op[p].key = op[q].key
    BY <1>6, <2>1, OneSteps DEF Steps
  <2>3. InFiles(p)
    BY <1>6, DiskSteps
  <2>4. ~Changes(p) /\ ~Changes(q)
    BY <1>6, <2>2, <2>3, Alone DEF FInv, Exclusive
  <2>5. Shared(op[p]) /\ Shared(op[q])
    BY <1>6, <2>3, <2>4 DEF Changes
  <2>6. disk' = [disk EXCEPT ![op[p].key]["queue"] = NoFile]
    BY <1>6, <2>5, DiskSteps
  <2>7. disk'[op[q].key]["queue"] = NoFile
    BY <2>1, <2>2, <2>6 DEF FInv, DataTypes, Files
  <2>8. Snapshot(q)'
    BY <1>1, <1>2, <2>5 DEF Snapshot, Phase, Shared
  <2>9. Copy(q)'
    BY <1>1, <1>2, <2>5, <2>7 DEF Copy, Phase, Shared
  <2> QED
    BY <1>3, <2>8, <2>9 DEF Sound
<1> QED
  BY <1>4, <1>5, <1>6

LEMMA TypesKept ==
  ASSUME NEW p \in Procs, FInv, Call(p) \/ Work(p)
  PROVE  DataTypes'
<1>0. /\ DataTypes /\ Phase(p) /\ Snapshot(p) /\ Copy(p)
      /\ pc[p] # "idle" => op[p] \in Ops
      /\ NoFile \in Contents /\ Torn \in Contents
  BY ContentsAre DEF FInv, Sound, LInv, LockTypes
<1>1. CASE Call(p) \/ AnnounceDir(p) \/ AnnounceLock(p) \/ Find(p) \/ Create(p)
             \/ Unlock(p)
  <2>1. UNCHANGED <<res, buf, diskVars>>
    BY <1>1 DEF Call, AnnounceDir, AnnounceLock, Find, Create, Unlock
  <2> QED
    BY <1>0, <2>1 DEF DataTypes, diskVars
<1>2. CASE Lock(p) \/ TakeDir(p)
  <2>1. pc[p] # "idle" /\ UNCHANGED <<res, buf, dir, disk>>
    BY <1>2 DEF Lock, TakeDir
  <2>2. was' = was \/ was' = [was EXCEPT ![p] = disk[op[p].key]]
    BY <1>2 DEF Lock, TakeDir
  <2> QED
    BY <1>0, <2>1, <2>2, OpsAre DEF DataTypes
<1>3. CASE Fail(p) \/ ReadTorn(p) \/ RemoveFails(p)
  BY <1>0, <1>3 DEF Fail, ReadTorn, RemoveFails, Finish, DataTypes, diskVars
<1>4. CASE ReadFile(p)
  <2>1. pc[p] = "read" /\ UNCHANGED diskVars /\ DOMAIN res' = Procs
    BY <1>0, <1>4 DEF ReadFile, Finish, DataTypes
  <2>2. op[p] \in Ops /\ File(p) \in Contents /\ File(p) # Torn
    <3>1. op[p] \in Ops /\ op[p].key \in Keys /\ op[p].file \in Files
      BY <1>0, <2>1, OpsAre DEF Phase, Files
    <3>2. File(p) # Torn
      BY <1>4 DEF ReadFile
    <3>3. File(p) \in Contents
      BY <1>0, <3>1 DEF File, DataTypes
    <3> QED
      BY <3>1, <3>2, <3>3
  <2>3. op[p].kind = "add" => Append(Readable(File(p)), op[p].item) \in Contents
    BY <2>2, OpsAre, ContentsAre
  <2>4. buf' = buf \/ \E c \in Contents : buf' = [buf EXCEPT ![p] = c]
    BY <1>4, <2>2, <2>3 DEF ReadFile
  <2>5. buf' \in [Procs -> Contents]
    BY <1>0, <2>4 DEF DataTypes
  <2> QED
    BY <1>0, <2>1, <2>5 DEF DataTypes, diskVars
<1>5. CASE MkdirAll(p) \/ RemoveDir(p)
  <2>1. UNCHANGED <<buf, disk, was>> /\ DOMAIN res' = Procs
    BY <1>0, <1>5 DEF MkdirAll, RemoveDir, Finish, DataTypes
  <2>2. dir' \in [Keys -> BOOLEAN]
    BY <1>0, <1>5 DEF MkdirAll, RemoveDir, DataTypes
  <2> QED
    BY <1>0, <2>1, <2>2 DEF DataTypes
<1>6. CASE RemoveFile(p) \/ OpenFile(p) \/ FillFile(p)
  <2>1. /\ pc[p] \in {"remove", "open", "fill"} /\ UNCHANGED <<buf, dir, was>>
        /\ DOMAIN res' = Procs
    BY <1>0, <1>6 DEF RemoveFile, OpenFile, FillFile, Finish, DataTypes
  <2>2. op[p] \in Ops /\ op[p].key \in Keys /\ op[p].file \in Files
    BY <1>0, <2>1, OpsAre DEF Phase, Files
  <2>3. op[p].kind = "save" => <<op[p].item>> \in Contents
    BY <2>2, OpsAre, ContentsAre
  <2>4. buf[p] \in Contents
    BY <1>0 DEF DataTypes
  <2>5. disk' = disk \/ \E c \in Contents : SetFile(p, c)
    BY <1>0, <1>6, <2>3, <2>4 DEF RemoveFile, OpenFile, FillFile
  <2>6. disk' \in [Keys -> [Files -> Contents]]
    <3>1. ASSUME NEW c \in Contents, SetFile(p, c) PROVE disk' \in [Keys -> [Files -> Contents]]
      <4>1. disk \in [Keys -> [Files -> Contents]] /\ disk[op[p].key] \in [Files -> Contents]
        BY <1>0, <2>2 DEF DataTypes
      <4>2. [disk[op[p].key] EXCEPT ![op[p].file] = c] \in [Files -> Contents]
        BY <2>2, <4>1
      <4>3. disk' = [disk EXCEPT ![op[p].key] = [disk[op[p].key] EXCEPT ![op[p].file] = c]]
        BY <3>1 DEF SetFile
      <4> QED
        BY <2>2, <4>1, <4>2, <4>3
    <3> QED
      BY <1>0, <2>5, <3>1 DEF DataTypes
  <2> QED
    BY <1>0, <2>1, <2>6 DEF DataTypes
<1>7. CASE RemoveOne(p)
  <2>1. /\ UNCHANGED <<res, buf, dir, was>> /\ op[p].key \in Keys
        /\ \E f \in Files : disk' = [disk EXCEPT ![op[p].key][f] = NoFile]
    BY <1>0, <1>7, OpsAre DEF RemoveOne, procVars
  <2> QED
    BY <1>0, <2>1 DEF DataTypes
<1>8. CASE Release(p)
  BY <1>0, <1>8 DEF Release, Finish, DataTypes, NoFiles
<1> QED
  BY <1>1, <1>2, <1>3, <1>4, <1>5, <1>6, <1>7, <1>8 DEF Work

LEMMA StaysSound ==
  ASSUME NEW p \in Procs, FInv, Call(p) \/ Work(p)
  PROVE  Sound(p)'
<1>0. /\ DataTypes /\ Phase(p) /\ Snapshot(p) /\ Copy(p)
      /\ pc \in [Procs -> PcStates] /\ op \in [Procs -> Ops \union {Idle}]
      /\ pc[p] # "idle" => /\ op[p] \in Ops /\ op[p].key \in Keys
                           /\ op[p].kind \in {"save", "load", "add", "take", "delete"}
  BY OpsAre DEF FInv, Sound, LInv, LockTypes
<1> USE ResultsDiffer
<1>1. CASE Call(p)
  <2>1. PICK o \in Ops :
          /\ op' = [op EXCEPT ![p] = o] /\ pc[p] = "idle"
          /\ pc' = [pc EXCEPT ![p] = IF o.kind = "delete" THEN "delete" ELSE "find"]
          /\ UNCHANGED <<res, diskVars>>
    BY <1>1 DEF Call, Goto
  <2>2. /\ op'[p] # Idle /\ pc'[p] \in {"delete", "find"}
        /\ op'[p].kind = "delete" <=> pc'[p] = "delete"
    BY <1>0, <2>1, OpHasKey
  <2> QED
    BY <1>0, <2>1, <2>2 DEF Sound, Phase, Snapshot, Copy
<1>2. CASE AnnounceDir(p) \/ AnnounceLock(p) \/ Find(p)
  <2>1. UNCHANGED <<op, res>> /\ pc[p] \in {"create", "delete", "lock", "find"}
    BY <1>2 DEF AnnounceDir, AnnounceLock, Find
  <2>2. \/ pc'[p] \in {"createWait", "create", "lock", "lockWait"} /\ pc[p] # "delete"
        \/ pc'[p] = "deleteWait" /\ pc[p] = "delete"
    BY <1>0, <1>2 DEF AnnounceDir, AnnounceLock, Find, Goto
  <2> QED
    BY <1>0, <2>1, <2>2 DEF Sound, Phase, Snapshot, Copy
<1>3. CASE Create(p)
  <2>1. /\ UNCHANGED <<op, res>> /\ pc[p] \in {"create", "createWait"}
        /\ pc' = [pc EXCEPT ![p] = "lock"]
    BY <1>3 DEF Create, Goto
  <2>2. pc'[p] = "lock"
    BY <1>0, <2>1
  <2> QED
    BY <1>0, <2>1, <2>2 DEF Sound, Phase, Snapshot, Copy
<1>4. CASE Lock(p)
  <2>1. /\ UNCHANGED <<op, res, disk>> /\ pc[p] \in {"lock", "lockWait"}
        /\ pc' = [pc EXCEPT ![p] = IF op[p].kind = "save" THEN "mkdir" ELSE "read"]
        /\ ~Shared(op[p]) => was' = [was EXCEPT ![p] = disk[op[p].key]]
    BY <1>4 DEF Lock, Goto
  <2>2. pc'[p] = IF op[p].kind = "save" THEN "mkdir" ELSE "read"
    BY <1>0, <2>1
  <2>3. ~Shared(op[p]) => was'[p] = disk[op[p].key]
    BY <1>0, <2>1 DEF DataTypes
  <2> QED
    BY <1>0, <2>1, <2>2, <2>3 DEF Sound, Phase, Snapshot, Copy
<1>5. ASSUME NEW r, res' = [res EXCEPT ![p] = r], r # Pending, UNCHANGED op,
             pc[p] # "idle", NEW l \in {"unlock", "release"}, pc' = [pc EXCEPT ![p] = l]
      PROVE  Sound(p)'
  <2>1. res'[p] = r /\ pc'[p] = l
    BY <1>0, <1>5 DEF DataTypes
  <2> QED
    BY <1>0, <1>5, <2>1 DEF Sound, Phase, Snapshot, Copy
<1>6. CASE Fail(p) \/ ReadTorn(p) \/ FillFile(p) \/ RemoveDir(p) \/ RemoveFails(p)
  BY <1>5, <1>6 DEF Fail, ReadTorn, FillFile, RemoveDir, RemoveFails, Finish, Goto
<1>7. CASE ReadFile(p)
  <2>1. pc[p] = "read" /\ UNCHANGED <<op, diskVars>> /\ File(p) # Torn
    BY <1>7 DEF ReadFile
  <2>2. op[p].file \in Files /\ File(p) = disk[op[p].key][op[p].file] /\ File(p) \in Contents
    BY <1>0, <2>1, OpsAre DEF Phase, Files, File, DataTypes
  <2>3. CASE op[p].kind = "load"
    BY <1>5, <1>7, <2>1, <2>3 DEF ReadFile, Finish, Goto
  <2>4. CASE op[p].kind = "take" /\ File(p) = NoFile
    BY <1>5, <1>7, <2>1, <2>4 DEF ReadFile, Finish, Goto
  <2>5. CASE op[p].kind = "take" /\ File(p) # NoFile
    <3>1. /\ buf' = [buf EXCEPT ![p] = File(p)] /\ pc' = [pc EXCEPT ![p] = "remove"]
          /\ res' = res
      BY <1>7, <2>5 DEF ReadFile, Goto
    <3>2. buf'[p] = File(p) /\ pc'[p] = "remove" /\ op[p].file = "queue"
      BY <1>0, <2>1, <2>5, <3>1, OpsAre DEF DataTypes
    <3>3. File(p) \in Seq(Items)
      BY <2>1, <2>2, <2>5, ContentsAre
    <3> QED
      BY <1>0, <2>1, <2>2, <2>5, <3>1, <3>2, <3>3
         DEF Sound, Phase, Snapshot, Copy, diskVars
  <2>6. CASE op[p].kind = "add"
    <3>1. /\ buf' = [buf EXCEPT ![p] = Append(Readable(File(p)), op[p].item)]
          /\ pc' = [pc EXCEPT ![p] = "mkdir"] /\ res' = res
      BY <1>7, <2>6 DEF ReadFile, Goto
    <3>2. /\ buf'[p] = Append(Readable(File(p)), op[p].item) /\ pc'[p] = "mkdir"
          /\ op[p].file = "queue" /\ was[p] = disk[op[p].key]
      BY <1>0, <2>1, <2>6, <3>1, OpsAre DEF DataTypes, Snapshot, Shared
    <3> QED
      BY <1>0, <2>1, <2>2, <2>6, <3>1, <3>2 DEF Sound, Phase, Snapshot, Copy, diskVars
  <2> QED
    BY <1>0, <2>1, <2>3, <2>4, <2>5, <2>6 DEF Phase
<1>8. CASE RemoveFile(p)
  BY <1>5, <1>8 DEF RemoveFile, Finish, Goto
<1>9. CASE MkdirAll(p)
  <2>1. /\ pc[p] = "mkdir" /\ UNCHANGED <<op, res, buf, disk, was>>
        /\ pc' = [pc EXCEPT ![p] = "open"]
    BY <1>9 DEF MkdirAll, Goto
  <2>2. pc'[p] = "open"
    BY <1>0, <2>1
  <2> QED
    BY <1>0, <2>1, <2>2 DEF Sound, Phase, Snapshot, Copy
<1>10. CASE OpenFile(p)
  <2>1. /\ pc[p] = "open" /\ UNCHANGED <<op, res, buf, was>>
        /\ disk' = [disk EXCEPT ![op[p].key][op[p].file] = Torn]
        /\ pc' = [pc EXCEPT ![p] = "fill"]
    BY <1>10 DEF OpenFile, Goto, SetFile
  <2>2. pc'[p] = "fill" /\ was[p] = disk[op[p].key]
    BY <1>0, <2>1 DEF Phase, Snapshot, Shared
  <2>3. disk'[op[p].key] = [was[p] EXCEPT ![op[p].file] = Torn]
    BY <1>0, <2>1, <2>2 DEF DataTypes
  <2> QED
    BY <1>0, <2>1, <2>2, <2>3 DEF Sound, Phase, Snapshot, Copy
<1>11. CASE Unlock(p)
  <2>1. pc[p] = "unlock" /\ UNCHANGED <<op, res>> /\ pc' = [pc EXCEPT ![p] = "release"]
    BY <1>11 DEF Unlock, Goto
  <2>2. pc'[p] = "release"
    BY <1>0, <2>1
  <2> QED
    BY <1>0, <2>1, <2>2 DEF Sound, Phase, Snapshot, Copy
<1>12. CASE TakeDir(p)
  <2>1. /\ pc[p] \in {"delete", "deleteWait"} /\ UNCHANGED <<op, res, disk>>
        /\ pc' = [pc EXCEPT ![p] = "rm"] /\ was' = [was EXCEPT ![p] = disk[op[p].key]]
    BY <1>12 DEF TakeDir, Goto
  <2>2. pc'[p] = "rm" /\ was'[p] = disk[op[p].key]
    BY <1>0, <2>1 DEF DataTypes
  <2> QED
    BY <1>0, <2>1, <2>2 DEF Sound, Phase, Snapshot, Copy
<1>13. CASE RemoveOne(p)
  <2>1. PICK f \in Files : /\ disk' = [disk EXCEPT ![op[p].key][f] = NoFile]
                           /\ pc[p] = "rm" /\ UNCHANGED <<procVars, was>>
    BY <1>13 DEF RemoveOne
  <2>2. \A g \in Files : disk'[op[p].key][g] \in {disk[op[p].key][g], NoFile}
    BY <1>0, <2>1 DEF DataTypes
  <2> QED
    BY <1>0, <2>1, <2>2 DEF Sound, Phase, Snapshot, Copy, procVars
<1>14. CASE Release(p)
  <2>1. /\ pc[p] = "release" /\ pc' = [pc EXCEPT ![p] = "idle"]
        /\ op' = [op EXCEPT ![p] = Idle] /\ res' = [res EXCEPT ![p] = Pending]
    BY <1>14 DEF Release, Finish, Goto
  <2>2. pc'[p] = "idle" /\ op'[p] = Idle /\ res'[p] = Pending
    BY <1>0, <2>1 DEF DataTypes
  <2> QED
    BY <2>2 DEF Sound, Phase, Snapshot, Copy
<1> QED
  BY <1>1, <1>2, <1>3, <1>4, <1>6, <1>7, <1>8, <1>9, <1>10, <1>11, <1>12, <1>13, <1>14
     DEF Work

LEMMA FilesInvariance == Spec => []FInv
<1>1. Init => FInv
  <2> SUFFICES ASSUME Init PROVE FInv
    OBVIOUS
  <2>1. LInv
    BY LocksStart
  <2>2. DataTypes
    BY ContentsAre DEF Init, DataTypes, NoFiles
  <2>3. \A p \in Procs : Sound(p)
    BY DEF Init, Sound, Phase, Snapshot, Copy
  <2> QED
    BY <2>1, <2>2, <2>3 DEF FInv
<1>2. FInv /\ [Next]_vars => FInv'
  <2> SUFFICES ASSUME FInv, [Next]_vars PROVE FInv'
    OBVIOUS
  <2>1. LInv'
    BY LInvStep DEF FInv
  <2>2. ASSUME NEW p \in Procs, Call(p) \/ Work(p) PROVE FInv'
    BY <2>1, <2>2, TypesKept, StaysSound, OthersStaySound DEF FInv
  <2>3. CASE Crash
    <3>1. DataTypes'
      BY <2>3, ContentsAre DEF FInv, Crash, DataTypes, NoFiles
    <3>2. \A p \in Procs : Sound(p)'
      BY <2>3 DEF Crash, Sound, Phase, Snapshot, Copy
    <3> QED
      BY <2>1, <3>1, <3>2 DEF FInv
  <2>4. CASE UNCHANGED vars
    <3>1. DataTypes'
      BY <2>4 DEF FInv, DataTypes, vars, procVars, diskVars
    <3>2. \A p \in Procs : Sound(p)'
      BY <2>4 DEF FInv, Sound, Phase, Snapshot, Copy, vars, procVars, diskVars
    <3> QED
      BY <2>1, <3>1, <3>2 DEF FInv
  <2> QED
    BY <2>2, <2>3, <2>4 DEF Next
<1> QED
  BY <1>1, <1>2, PTL DEF Spec

\* The variables of the store hold what the model says they hold; an
\* operation that is about to use the lock of its chat, or uses it, has one.
THEOREM StoreIsTyped == Spec => []TypeOK
<1>1. FInv => TypeOK
  BY DEF FInv, DataTypes, LInv, LockTypes, Mapped, InLock, TypeOK
<1> QED
  BY <1>1, FilesInvariance, PTL

-----------------------------------------------------------------------------
(* The store implements AtomicStore: while an operation is in the middle   *)
(* of a write or a removal the abstract files are those it found, so the   *)
(* step that ends the write or the removal is the one that takes effect.   *)

LEMMA SameOps ==
  /\ Atomic!Ops = Ops /\ Atomic!Idle = Idle /\ Atomic!Pending = Pending
  /\ Atomic!NoFiles = NoFiles
  /\ \A o, c : Atomic!Success(o, c) = Success(o, c) /\ Atomic!Failure(o, c) = Failure(o, c)
  BY DEF Atomic!Ops, Ops, Atomic!Save, Save, Atomic!Load, Load, Atomic!Add, Add,
     Atomic!Take, Take, Atomic!Delete, Delete, Atomic!Idle, Idle,
     Atomic!Pending, Pending, Atomic!NoFiles, NoFiles, Atomic!Files, Files,
     Atomic!Success, Success, Atomic!Failure, Failure, Atomic!Ok, Ok,
     Atomic!NotFound, NotFound, Atomic!Error, Error, Atomic!Data, Data,
     Atomic!Readable, Readable

Midway(p) == pc[p] \in {"fill", "rm"}

\* What the abstract files of a chat are.
SettledAre ==
  /\ Settled = [k \in Keys |-> Settled[k]]
  /\ \A p \in Procs : Midway(p) => Settled[op[p].key] = was[p]
  /\ \A k \in Keys :
       (\A p \in Procs : ~(Midway(p) /\ op[p].key = k)) => Settled[k] = disk[k]

LEMMA SettledHolds == FInv => SettledAre
<1> SUFFICES ASSUME FInv PROVE SettledAre
  OBVIOUS
<1>1. ASSUME NEW p \in Procs, Midway(p) PROVE Settled[op[p].key] = was[p]
  <2>1. op[p].key \in Keys
    BY <1>1, OpHasKey DEF FInv, LInv, LockTypes, Midway
  <2>2. \A q \in Procs : Midway(q) /\ op[q].key = op[p].key => q = p
    <3>1. \A q \in Procs : Midway(q) => Changes(q)
      BY OpsAre DEF FInv, Sound, Phase, Midway, Changes, InFiles, Shared
    <3> QED
      BY <1>1, <3>1, Alone DEF FInv, Exclusive, Changes
  <2> QED
    BY <1>1, <2>1, <2>2 DEF Settled, Midway
<1>2. ASSUME NEW k \in Keys, \A p \in Procs : ~(Midway(p) /\ op[p].key = k)
      PROVE  Settled[k] = disk[k]
  BY <1>2 DEF Settled, Midway
<1>3. Settled = [k \in Keys |-> Settled[k]]
  BY DEF Settled
<1> QED
  BY <1>1, <1>2, <1>3 DEF SettledAre

LEMMA SettledNext == FInv' => SettledAre'
  BY SettledHolds, PTL

\* The abstract files of a chat change only where p changes the files, or
\* begins or ends a write or a removal.
LEMMA SettledStays ==
  ASSUME NEW p \in Procs, FInv, FInv', Call(p) \/ Work(p), NEW k \in Keys,
         disk'[k] = disk[k],
         ~(Midway(p) /\ op[p].key = k), ~(Midway(p)' /\ op'[p].key = k)
  PROVE  Settled'[k] = Settled[k]
<1>1. SettledAre /\ SettledAre'
  BY SettledHolds, SettledNext
<1>2. \A q \in Procs \ {p} : /\ op'[q] = op[q] /\ was'[q] = was[q]
                             /\ Midway(q)' <=> Midway(q)
  BY OneSteps DEF Steps, Midway
<1>3. CASE \E q \in Procs : Midway(q) /\ op[q].key = k
  <2>1. PICK q \in Procs \ {p} : Midway(q) /\ op[q].key = k
    BY <1>3
  <2> QED
    BY <1>1, <1>2, <2>1 DEF SettledAre
<1>4. CASE ~\E q \in Procs : Midway(q) /\ op[q].key = k
  <2>1. \A q \in Procs : ~(Midway(q)' /\ op'[q].key = k)
    BY <1>2, <1>4
  <2> QED
    BY <1>1, <1>4, <2>1 DEF SettledAre
<1> QED
  BY <1>3, <1>4

\* A step that neither changes files nor begins or ends changing them.
LEMMA SettledSame ==
  ASSUME NEW p \in Procs, FInv, FInv', Call(p) \/ Work(p),
         UNCHANGED disk, ~Midway(p), ~Midway(p)'
  PROVE  Settled' = Settled
<1>1. \A k \in Keys : Settled'[k] = Settled[k]
  BY SettledStays
<1>2. /\ Settled = [k \in Keys |-> Settled[k]]
      /\ Settled' = [k \in Keys |-> Settled'[k]]
  BY SettledHolds, SettledNext DEF SettledAre
<1> QED
  BY <1>1, <1>2

\* An operation of which the files and the result are those of Success, or
\* of Failure when reading and writing may fail, has taken effect.
LEMMA TakesEffect ==
  ASSUME NEW p \in Procs, FInv, FInv', Work(p), op[p] \in Ops, res[p] = Pending,
         NEW c, NEW r,
         \/ <<c, r>> \in Success(op[p], Settled[op[p].key])
         \/ IOErrors /\ <<c, r>> \in Failure(op[p], Settled[op[p].key]),
         Settled'[op[p].key] = c,
         UNCHANGED op, res' = [res EXCEPT ![p] = r]
  PROVE  Atomic!TakeEffect(p)
<1>1. op[p].key \in Keys /\ op[p] # Idle
  BY OpHasKey
<1>2. \A k \in Keys \ {op[p].key} : Settled'[k] = Settled[k]
  BY SettledStays, OneSteps DEF Steps
<1>3. Settled' = [Settled EXCEPT ![op[p].key] = c]
  <2>1. /\ Settled = [k \in Keys |-> Settled[k]]
        /\ Settled' = [k \in Keys |-> Settled'[k]]
    BY SettledHolds, SettledNext DEF SettledAre
  <2> QED
    BY <1>1, <1>2, <2>1
<1>4. PICK e : /\ e = <<c, r>> /\ e[1] = c /\ e[2] = r
               /\ \/ e \in Success(op[p], Settled[op[p].key])
                  \/ IOErrors /\ e \in Failure(op[p], Settled[op[p].key])
  OBVIOUS
<1>5. e \in Success(op[p], Settled[op[p].key])
             \union (IF IOErrors THEN Failure(op[p], Settled[op[p].key]) ELSE {})
  BY <1>4
<1>6. /\ Settled' = [Settled EXCEPT ![op[p].key] = e[1]]
      /\ res' = [res EXCEPT ![p] = e[2]]
  BY <1>3, <1>4
<1> QED
  BY <1>1, <1>5, <1>6, SameOps DEF Atomic!TakeEffect

\* What each kind of operation may end with.
LEMMA Successes ==
  ASSUME NEW o, NEW c
  PROVE  /\ o.kind = "save" => <<[c EXCEPT !["state"] = <<o.item>>], Ok>> \in Success(o, c)
         /\ o.kind = "load" =>
              /\ c["state"] = NoFile => <<c, NotFound>> \in Success(o, c)
              /\ c["state"] = Torn /\ NoFile # Torn => <<c, Error>> \in Success(o, c)
              /\ c["state"] \notin {NoFile, Torn} => <<c, Data(c["state"])>> \in Success(o, c)
         /\ o.kind = "add" =>
              /\ c["queue"] = Torn => <<c, Error>> \in Success(o, c)
              /\ c["queue"] # Torn =>
                   <<[c EXCEPT !["queue"] = Append(Readable(@), o.item)], Ok>> \in Success(o, c)
         /\ o.kind = "take" =>
              /\ c["queue"] = NoFile =>
                   <<c, Data(<<>>)>> \in Success(o, c) /\ <<c, Error>> \in Success(o, c)
              /\ c["queue"] = Torn /\ NoFile # Torn => <<c, Error>> \in Success(o, c)
              /\ c["queue"] \notin {NoFile, Torn} =>
                   <<[c EXCEPT !["queue"] = NoFile], Data(c["queue"])>> \in Success(o, c)
         /\ o.kind = "delete" => <<NoFiles, Ok>> \in Success(o, c)
  BY DEF Success

LEMMA Failures ==
  ASSUME NEW o, NEW c
  PROVE  /\ <<c, Error>> \in Failure(o, c)
         /\ o.kind \in {"save", "add"} =>
              <<[c EXCEPT ![o.file] = Torn], Error>> \in Failure(o, c)
         /\ o.kind = "delete" =>
              \A g \in SUBSET Files :
                <<[f \in Files |-> IF f \in g THEN NoFile ELSE c[f]], Error>> \in Failure(o, c)
  BY DEF Failure

\* Among the files, and not in the middle of a write or a removal, an
\* operation sees the abstract files, and those it leaves are the abstract ones.
LEMMA SeesSettled ==
  ASSUME NEW p \in Procs, FInv, InFiles(p)
  PROVE  /\ op[p] \in Ops /\ op[p].key \in Keys /\ res[p] = Pending
         /\ \A q \in Procs \ {p} : ~(Midway(q) /\ op[q].key = op[p].key)
         /\ ~Midway(p) => Settled[op[p].key] = disk[op[p].key]
<1>1. op[p] \in Ops /\ op[p].key \in Keys /\ res[p] = Pending
  BY OpHasKey DEF FInv, LInv, LockTypes, InFiles, Sound, Phase
<1>2. ASSUME NEW q \in Procs \ {p}, Midway(q) PROVE op[q].key # op[p].key
  <2>1. Changes(q)
    BY <1>2, OpsAre DEF FInv, Sound, Phase, Midway, Changes, InFiles, Shared
  <2> QED
    BY <2>1, Alone DEF FInv, Exclusive
<1> QED
  BY <1>1, <1>2, SettledHolds DEF SettledAre

LEMMA LeavesSettled ==
  ASSUME NEW p \in Procs, FInv, FInv', Work(p), InFiles(p), op' = op, ~Midway(p)'
  PROVE  Settled'[op[p].key] = disk'[op[p].key]
<1>1. \A q \in Procs \ {p} : Midway(q)' <=> Midway(q)
  BY OneSteps DEF Steps, Midway
<1>2. \A q \in Procs : ~(Midway(q)' /\ op'[q].key = op[p].key)
  BY <1>1, SeesSettled
<1> QED
  BY <1>2, SeesSettled, SettledNext DEF SettledAre

\* The steps in which an operation gets its result.
LEMMA ReadTakesEffect ==
  ASSUME NEW p \in Procs, FInv, FInv', Work(p), pc[p] = "read",
         ReadTorn(p) \/ ReadFile(p), pc'[p] = "unlock"
  PROVE  Atomic!TakeEffect(p)
<1>1. InFiles(p) /\ ~Midway(p) /\ ~Midway(p)' /\ UNCHANGED <<op, disk>>
  BY DEF InFiles, Midway, ReadTorn, ReadFile, diskVars
<1>2. /\ op[p] \in Ops /\ op[p].key \in Keys /\ res[p] = Pending
      /\ Settled[op[p].key] = disk[op[p].key] /\ Settled'[op[p].key] = disk[op[p].key]
  BY <1>1, SeesSettled, LeavesSettled
<1>3. Phase(p) /\ op[p].kind \in {"load", "take", "add"} /\ pc \in [Procs -> PcStates]
  BY DEF FInv, Sound, Phase, LInv, LockTypes
<1>4. PICK c : c = disk[op[p].key]
  OBVIOUS
<1>5. File(p) = c[op[p].file] /\ NoFile # Torn
  BY <1>4, ContentsAre DEF File
<1>6. ASSUME NEW r, res' = [res EXCEPT ![p] = r], <<c, r>> \in Success(op[p], c)
      PROVE  Atomic!TakeEffect(p)
  BY <1>1, <1>2, <1>4, <1>6, TakesEffect
<1>7. CASE ReadTorn(p)
  <2>1. File(p) = Torn /\ res' = [res EXCEPT ![p] = Error]
    BY <1>7 DEF ReadTorn, Finish
  <2>2. <<c, Error>> \in Success(op[p], c)
    BY <1>2, <1>3, <1>5, <2>1, OpsAre, Successes
  <2> QED
    BY <1>6, <2>1, <2>2
<1>8. CASE ReadFile(p)
  <2>1. \/ /\ op[p].kind = "load" /\ File(p) # Torn
           /\ res' = [res EXCEPT ![p] =
                        IF File(p) = NoFile THEN NotFound ELSE Data(File(p))]
        \/ /\ op[p].kind = "take" /\ File(p) = NoFile
           /\ res' = [res EXCEPT ![p] = Data(<<>>)]
    BY <1>3, <1>8 DEF ReadFile, Finish, Goto
  <2>2. CASE op[p].kind = "load" /\ File(p) = NoFile
    <3>1. <<c, NotFound>> \in Success(op[p], c)
      BY <1>2, <1>5, <2>2, OpsAre, Successes
    <3> QED
      BY <1>6, <2>1, <2>2, <3>1
  <2>3. CASE op[p].kind = "load" /\ File(p) # NoFile
    <3>1. <<c, Data(File(p))>> \in Success(op[p], c)
      <4>1. File(p) = c["state"] /\ File(p) \notin {NoFile, Torn}
        BY <1>2, <1>5, <2>1, <2>3, OpsAre
      <4> QED
        BY <2>3, <4>1, Successes
    <3> QED
      BY <1>6, <2>1, <2>3, <3>1
  <2>4. CASE op[p].kind = "take"
    <3>1. <<c, Data(<<>>)>> \in Success(op[p], c)
      BY <1>2, <1>5, <2>1, <2>4, OpsAre, Successes
    <3> QED
      BY <1>6, <2>1, <2>4, <3>1
  <2> QED
    BY <2>1, <2>2, <2>3, <2>4
<1> QED
  BY <1>7, <1>8

LEMMA RemoveTakesEffect ==
  ASSUME NEW p \in Procs, FInv, FInv', Work(p), RemoveFile(p)
  PROVE  Atomic!TakeEffect(p)
<1>1. /\ InFiles(p) /\ ~Midway(p) /\ UNCHANGED op
      /\ pc' = [pc EXCEPT ![p] = "unlock"]
  BY DEF InFiles, Midway, RemoveFile, Finish, Goto
<1>2. /\ DataTypes /\ pc \in [Procs -> PcStates] /\ op[p].kind = "take"
      /\ buf[p] \in Seq(Items) /\ disk[op[p].key]["queue"] \in {NoFile, buf[p]}
  BY DEF RemoveFile, FInv, Sound, Phase, Copy, LInv, LockTypes
<1>3. ~Midway(p)'
  BY <1>1, <1>2 DEF Midway
<1>4. /\ op[p] \in Ops /\ op[p].key \in Keys /\ res[p] = Pending /\ op[p].file = "queue"
      /\ Settled[op[p].key] = disk[op[p].key]
      /\ Settled'[op[p].key] = disk'[op[p].key]
  BY <1>1, <1>2, <1>3, SeesSettled, LeavesSettled, OpsAre
<1>5. PICK c : c = disk[op[p].key]
  OBVIOUS
<1>6. CASE File(p) = NoFile
  <2>1. disk' = disk /\ res' = [res EXCEPT ![p] = Error] /\ c["queue"] = NoFile
    BY <1>4, <1>5, <1>6 DEF RemoveFile, Finish, File
  <2>2. <<c, Error>> \in Success(op[p], c)
    BY <1>2, <2>1, Successes
  <2> QED
    BY <1>1, <1>4, <1>5, <2>1, <2>2, TakesEffect
<1>7. CASE File(p) # NoFile
  <2>1. /\ disk' = [disk EXCEPT ![op[p].key]["queue"] = NoFile]
        /\ res' = [res EXCEPT ![p] = Data(buf[p])]
    BY <1>4, <1>7 DEF RemoveFile, Finish, SetFile
  <2>2. c["queue"] = buf[p] /\ c["queue"] \notin {NoFile, Torn}
    BY <1>2, <1>4, <1>5, <1>7, ContentsAre DEF File
  <2>3. disk'[op[p].key] = [c EXCEPT !["queue"] = NoFile]
    BY <1>2, <1>4, <1>5, <2>1 DEF DataTypes
  <2>4. <<[c EXCEPT !["queue"] = NoFile], Data(buf[p])>> \in Success(op[p], c)
    BY <1>2, <2>2, Successes
  <2> QED
    BY <1>1, <1>4, <1>5, <2>1, <2>3, <2>4, TakesEffect
<1> QED
  BY <1>6, <1>7

LEMMA FillTakesEffect ==
  ASSUME NEW p \in Procs, FInv, FInv', Work(p), FillFile(p)
  PROVE  Atomic!TakeEffect(p)
<1>1. /\ InFiles(p) /\ Midway(p) /\ UNCHANGED op /\ res' = [res EXCEPT ![p] = Ok]
      /\ pc' = [pc EXCEPT ![p] = "unlock"]
      /\ disk' = [disk EXCEPT ![op[p].key][op[p].file] =
                    IF op[p].kind = "save" THEN <<op[p].item>> ELSE buf[p]]
  BY DEF InFiles, Midway, FillFile, Finish, Goto, SetFile
<1>2. /\ DataTypes /\ pc \in [Procs -> PcStates] /\ op[p].kind \in {"save", "add"}
      /\ disk[op[p].key] = [was[p] EXCEPT ![op[p].file] = Torn] /\ Copy(p)
      /\ pc[p] = "fill"
  BY DEF FillFile, FInv, Sound, Phase, Snapshot, LInv, LockTypes
<1>3. ~Midway(p)'
  BY <1>1, <1>2 DEF Midway
<1>4. /\ op[p] \in Ops /\ op[p].key \in Keys /\ res[p] = Pending
      /\ op[p].kind = "save" => op[p].file = "state"
      /\ op[p].kind = "add" => op[p].file = "queue"
      /\ Settled'[op[p].key] = disk'[op[p].key]
  BY <1>1, <1>2, <1>3, SeesSettled, LeavesSettled, OpsAre
<1>5. Settled[op[p].key] = was[p]
  BY <1>1, SettledHolds DEF SettledAre
<1>6. PICK c : c = was[p]
  OBVIOUS
<1>7. c \in [Files -> Contents]
  BY <1>2, <1>6 DEF DataTypes
<1>8. CASE op[p].kind = "save"
  <2>1. disk'[op[p].key] = [c EXCEPT !["state"] = <<op[p].item>>]
    BY <1>1, <1>2, <1>4, <1>6, <1>7, <1>8 DEF DataTypes, Files
  <2>2. <<[c EXCEPT !["state"] = <<op[p].item>>], Ok>> \in Success(op[p], c)
    BY <1>8, Successes
  <2> QED
    BY <1>1, <1>4, <1>5, <1>6, <2>1, <2>2, TakesEffect
<1>9. CASE op[p].kind = "add"
  <2>1. c["queue"] # Torn /\ buf[p] = Append(Readable(c["queue"]), op[p].item)
    BY <1>2, <1>6, <1>9 DEF Copy
  <2>2. disk'[op[p].key] = [c EXCEPT !["queue"] = buf[p]]
    BY <1>1, <1>2, <1>4, <1>6, <1>7, <1>9 DEF DataTypes, Files
  <2>3. <<[c EXCEPT !["queue"] = Append(Readable(@), op[p].item)], Ok>> \in Success(op[p], c)
    BY <1>9, <2>1, Successes
  <2> QED
    BY <1>1, <1>4, <1>5, <1>6, <2>1, <2>2, <2>3, TakesEffect
<1> QED
  BY <1>2, <1>8, <1>9

LEMMA FailTakesEffect ==
  ASSUME NEW p \in Procs, FInv, FInv', Work(p), Fail(p) \/ RemoveFails(p)
  PROVE  Atomic!TakeEffect(p)
<1>1. /\ InFiles(p) /\ UNCHANGED <<op, disk>> /\ res' = [res EXCEPT ![p] = Error]
      /\ pc' = [pc EXCEPT ![p] = pc'[p]] /\ pc'[p] \in {"unlock", "release"} /\ IOErrors
  BY DEF FInv, LInv, LockTypes, InFiles, Fail, RemoveFails, Finish, Goto, diskVars
<1>2. ~Midway(p)'
  BY <1>1 DEF Midway
<1>3. /\ op[p] \in Ops /\ op[p].key \in Keys /\ res[p] = Pending
      /\ Settled'[op[p].key] = disk[op[p].key]
  BY <1>1, <1>2, SeesSettled, LeavesSettled
<1>4. PICK c, d : c = Settled[op[p].key] /\ d = disk[op[p].key]
  OBVIOUS
<1>5. <<d, Error>> \in Failure(op[p], c)
  <2>1. CASE ~Midway(p)
    BY <1>1, <1>4, <2>1, SeesSettled, Failures
  <2>2. CASE Midway(p)
    <3>1. c = was[p] /\ Phase(p) /\ Snapshot(p)
      BY <1>4, <2>2, SettledHolds DEF SettledAre, FInv, Sound
    <3>2. CASE pc[p] = "fill"
      BY <1>4, <3>1, <3>2, Failures DEF Phase, Snapshot
    <3>3. CASE pc[p] = "rm"
      <4>1. op[p].kind = "delete" /\ \A f \in Files : d[f] \in {c[f], NoFile}
        BY <1>4, <3>1, <3>3 DEF Phase, Snapshot
      <4>2. PICK g \in SUBSET Files : g = {f \in Files : d[f] = NoFile}
        OBVIOUS
      <4>3. d \in [Files -> Contents]
        BY <1>3, <1>4 DEF FInv, DataTypes
      <4>4. d = [f \in Files |-> IF f \in g THEN NoFile ELSE c[f]]
        BY <4>1, <4>2, <4>3
      <4> QED
        BY <4>1, <4>4, Failures
    <3> QED
      BY <2>2, <3>2, <3>3 DEF Midway
  <2> QED
    BY <2>1, <2>2
<1> QED
  BY <1>1, <1>3, <1>4, <1>5, TakesEffect

LEMMA DeleteTakesEffect ==
  ASSUME NEW p \in Procs, FInv, FInv', Work(p), RemoveDir(p)
  PROVE  Atomic!TakeEffect(p)
<1>1. /\ InFiles(p) /\ UNCHANGED <<op, disk>> /\ res' = [res EXCEPT ![p] = Ok]
      /\ pc[p] = "rm" /\ pc' = [pc EXCEPT ![p] = "release"]
      /\ disk[op[p].key] = NoFiles
  BY DEF InFiles, RemoveDir, Finish, Goto
<1>2. ~Midway(p)' /\ op[p].kind = "delete"
  BY <1>1 DEF FInv, Sound, Phase, LInv, LockTypes, Midway
<1>3. /\ op[p] \in Ops /\ res[p] = Pending /\ Settled'[op[p].key] = NoFiles
  BY <1>1, <1>2, SeesSettled, LeavesSettled
<1>4. <<NoFiles, Ok>> \in Success(op[p], Settled[op[p].key])
  BY <1>2, Successes
<1> QED
  BY <1>1, <1>3, <1>4, TakesEffect

\* The steps that only come nearer to the files, or go on among them, change
\* nothing an observer sees: where one begins a write or a removal the files
\* it found are those it leaves.
LEMMA GoesOn ==
  ASSUME NEW p \in Procs, FInv, FInv', Work(p), UNCHANGED <<op, res>>
  PROVE  Settled' = Settled
<1>0. pc \in [Procs -> PcStates] /\ Phase(p) /\ Snapshot(p) /\ DataTypes
  BY DEF FInv, Sound, LInv, LockTypes
<1>1. CASE UNCHANGED disk /\ ~Midway(p) /\ ~Midway(p)'
  BY <1>1, SettledSame
<1>2. ASSUME Midway(p)', op[p] \in Ops, was'[p] = Settled[op[p].key]
      PROVE  Settled' = Settled
  <2>1. \A k \in Keys \ {op[p].key} : Settled'[k] = Settled[k]
    BY SettledStays, OneSteps DEF Steps
  <2>2. Settled'[op[p].key] = Settled[op[p].key]
    BY <1>2, SettledNext DEF SettledAre
  <2>3. /\ Settled = [k \in Keys |-> Settled[k]]
        /\ Settled' = [k \in Keys |-> Settled'[k]]
    BY SettledHolds, SettledNext DEF SettledAre
  <2> QED
    BY <2>1, <2>2, <2>3
<1>3. CASE OpenFile(p)
  <2>1. InFiles(p) /\ ~Midway(p) /\ was' = was /\ pc' = [pc EXCEPT ![p] = "fill"]
        /\ pc[p] = "open"
    BY <1>3 DEF OpenFile, Goto, InFiles, Midway
  <2>2. was[p] = disk[op[p].key] /\ Midway(p)'
    BY <1>0, <2>1 DEF Snapshot, Phase, Shared, Midway
  <2> QED
    BY <1>2, <2>1, <2>2, SeesSettled
<1>4. CASE TakeDir(p)
  <2>1. /\ dirW = None /\ dirR = {} /\ was' = [was EXCEPT ![p] = disk[op[p].key]]
        /\ pc' = [pc EXCEPT ![p] = "rm"] /\ pc[p] # "idle"
    BY <1>4 DEF TakeDir, DirFree, Goto
  <2>2. \A q \in Procs : ~Midway(q)
    BY <2>1, StoreAssumption DEF FInv, LInv, DirLock, Holding, InLock, Midway
  <2>3. op[p] \in Ops /\ op[p].key \in Keys /\ was'[p] = disk[op[p].key] /\ Midway(p)'
    BY <1>0, <2>1, OpHasKey DEF FInv, LInv, LockTypes, DataTypes, Midway
  <2>4. Settled[op[p].key] = disk[op[p].key]
    BY <2>2, <2>3, SettledHolds DEF SettledAre
  <2> QED
    BY <1>2, <2>3, <2>4
<1>5. CASE RemoveOne(p)
  <2>1. Midway(p) /\ Midway(p)' /\ InFiles(p) /\ was' = was
    BY <1>5 DEF RemoveOne, procVars, Midway, InFiles
  <2> QED
    BY <1>2, <2>1, SeesSettled, SettledHolds DEF SettledAre
<1>6. CASE AnnounceDir(p) \/ AnnounceLock(p) \/ Find(p) \/ Create(p) \/ Lock(p)
             \/ MkdirAll(p) \/ Unlock(p)
  BY <1>0, <1>1, <1>6 DEF AnnounceDir, AnnounceLock, Find, Create, Lock, MkdirAll,
     Unlock, Goto, diskVars, Midway
<1>7. CASE ReadFile(p)
  BY <1>0, <1>1, <1>7 DEF ReadFile, Goto, Finish, diskVars, Midway
<1>8. ASSUME Fail(p) \/ ReadTorn(p) \/ RemoveFile(p) \/ FillFile(p) \/ RemoveDir(p)
               \/ RemoveFails(p) \/ Release(p)
      PROVE  FALSE
  <2>1. CASE Release(p)
    <3>1. pc[p] = "release" /\ res' = [res EXCEPT ![p] = Pending]
      BY <2>1 DEF Release, Finish
    <3> QED
      BY <1>0, <3>1 DEF Phase, DataTypes
  <2>2. CASE ~Release(p)
    <3>1. PICK r : res' = [res EXCEPT ![p] = r] /\ r # Pending /\ res[p] = Pending
      BY <1>0, <1>8, <2>2, ResultsDiffer DEF Fail, ReadTorn, RemoveFile, FillFile,
         RemoveDir, RemoveFails, Finish, Phase
    <3> QED
      BY <1>0, <3>1 DEF DataTypes
  <2> QED
    BY <2>1, <2>2
<1> QED
  BY <1>3, <1>4, <1>5, <1>6, <1>7, <1>8 DEF Work

\* A crash leaves a file that was being written torn, and a removal half
\* done: what a failure may leave.
LEMMA CrashIsAtomic ==
  ASSUME FInv, FInv', Crash
  PROVE  Atomic!Crash
<1>1. /\ Crashes /\ disk' = disk
      /\ op' = [p \in Procs |-> Idle] /\ res' = [p \in Procs |-> Pending]
      /\ pc' = [p \in Procs |-> "idle"]
  BY DEF Crash
<1>2. \A k \in Keys : Settled'[k] = disk[k]
  BY <1>1, SettledNext DEF SettledAre, Midway
<1>3. ASSUME NEW k \in Keys PROVE disk[k] \in Atomic!Survivors(k)
  <2>1. CASE \A p \in Procs : ~(Midway(p) /\ op[p].key = k)
    BY <2>1, SettledHolds DEF SettledAre, Atomic!Survivors
  <2>2. ASSUME NEW p \in Procs, Midway(p), op[p].key = k
        PROVE  disk[k] \in Atomic!Survivors(k)
    <3>1. /\ Settled[k] = was[p] /\ Phase(p) /\ Snapshot(p) /\ InFiles(p)
          /\ op[p] # Idle /\ res[p] = Pending /\ disk[k] \in [Files -> Contents]
      BY <2>2, SettledHolds, SeesSettled, OpHasKey
         DEF SettledAre, FInv, Sound, DataTypes, Midway, InFiles
    <3>2. PICK c, d : c = Settled[k] /\ d = disk[k]
      OBVIOUS
    <3>3. \E e \in Failure(op[p], c) : e[1] = d
      <4>1. CASE pc[p] = "fill"
        <5>1. <<d, Error>> \in Failure(op[p], c)
          BY <2>2, <3>1, <3>2, <4>1, Failures DEF Phase, Snapshot
        <5> QED
          BY <5>1
      <4>2. CASE pc[p] = "rm"
        <5>1. op[p].kind = "delete" /\ \A f \in Files : d[f] \in {c[f], NoFile}
          BY <2>2, <3>1, <3>2, <4>2 DEF Phase, Snapshot
        <5>2. PICK g \in SUBSET Files : g = {f \in Files : d[f] = NoFile}
          OBVIOUS
        <5>3. d = [f \in Files |-> IF f \in g THEN NoFile ELSE c[f]]
          BY <3>1, <3>2, <5>1, <5>2
        <5>4. <<d, Error>> \in Failure(op[p], c)
          BY <5>1, <5>3, Failures
        <5> QED
          BY <5>4
      <4> QED
        BY <2>2, <4>1, <4>2 DEF Midway
    <3> QED
      BY <2>2, <3>1, <3>2, <3>3, SameOps DEF Atomic!Survivors
  <2> QED
    BY <2>1, <2>2
<1>4. Settled' = [k \in Keys |-> Settled'[k]]
  BY SettledNext DEF SettledAre
<1>5. Settled' \in {s \in [Keys -> UNION {Atomic!Survivors(k) : k \in Keys}] :
                      \A k \in Keys : s[k] \in Atomic!Survivors(k)}
  BY <1>2, <1>3, <1>4
<1> QED
  BY <1>1, <1>5, SameOps DEF Atomic!Crash

LEMMA StepIsAtomic == FInv /\ FInv' /\ [Next]_vars => [Atomic!Next]_(Atomic!vars)
<1> SUFFICES ASSUME FInv, FInv', [Next]_vars PROVE [Atomic!Next]_(Atomic!vars)
  OBVIOUS
<1>1. ASSUME NEW p \in Procs, Call(p) PROVE Atomic!Call(p)
  <2>1. PICK o \in Ops : /\ op' = [op EXCEPT ![p] = o] /\ pc[p] = "idle"
                         /\ pc' = [pc EXCEPT ![p] = IF o.kind = "delete" THEN "delete"
                                                    ELSE "find"]
                         /\ UNCHANGED <<res, disk>>
    BY <1>1 DEF Call, Goto, diskVars
  <2>2. op[p] = Idle /\ ~Midway(p) /\ ~Midway(p)'
    BY <2>1 DEF FInv, Sound, Phase, LInv, LockTypes, Midway
  <2>3. Settled' = Settled
    BY <1>1, <2>1, <2>2, SettledSame
  <2> QED
    BY <2>1, <2>2, <2>3, SameOps DEF Atomic!Call
<1>2. ASSUME NEW p \in Procs, Release(p) PROVE Atomic!Return(p)
  <2>1. /\ pc[p] = "release" /\ pc' = [pc EXCEPT ![p] = "idle"] /\ disk' = disk
        /\ op' = [op EXCEPT ![p] = Idle] /\ res' = [res EXCEPT ![p] = Pending]
    BY <1>2 DEF Release, Finish, Goto
  <2>2. res[p] # Pending /\ ~Midway(p) /\ ~Midway(p)'
    BY <2>1 DEF FInv, Sound, Phase, LInv, LockTypes, Midway
  <2>3. Settled' = Settled
    BY <1>2, <2>1, <2>2, SettledSame DEF Work
  <2> QED
    BY <2>1, <2>2, <2>3, SameOps DEF Atomic!Return
<1>3. ASSUME NEW p \in Procs, Work(p), ~Release(p)
      PROVE  Atomic!TakeEffect(p) \/ UNCHANGED Atomic!vars
  <2>1. CASE UNCHANGED <<op, res>>
    BY <1>3, <2>1, GoesOn DEF Atomic!vars
  <2>2. CASE RemoveFile(p) \/ FillFile(p) \/ Fail(p) \/ RemoveFails(p) \/ RemoveDir(p)
    BY <1>3, <2>2, RemoveTakesEffect, FillTakesEffect, FailTakesEffect, DeleteTakesEffect
  <2>3. CASE ReadTorn(p) \/ ReadFile(p)
    <3>1. pc[p] = "read" /\ op' = op /\ pc \in [Procs -> PcStates]
      BY <2>3 DEF ReadTorn, ReadFile, FInv, LInv, LockTypes
    <3>2. pc'[p] = "unlock" \/ res' = res
      BY <2>3, <3>1 DEF ReadTorn, ReadFile, Finish, Goto
    <3> QED
      BY <1>3, <2>1, <2>3, <3>1, <3>2, ReadTakesEffect
  <2>4. CASE AnnounceDir(p) \/ AnnounceLock(p) \/ Find(p) \/ Create(p) \/ Lock(p)
               \/ MkdirAll(p) \/ OpenFile(p) \/ Unlock(p) \/ TakeDir(p) \/ RemoveOne(p)
    BY <2>1, <2>4 DEF AnnounceDir, AnnounceLock, Find, Create, Lock, MkdirAll,
       OpenFile, Unlock, TakeDir, RemoveOne, procVars
  <2> QED
    BY <1>3, <2>2, <2>3, <2>4 DEF Work
<1>4. CASE Crash
  BY <1>4, CrashIsAtomic DEF Atomic!Next
<1>5. CASE UNCHANGED vars
  BY <1>5 DEF vars, procVars, diskVars, Settled, Atomic!vars
<1> QED
  BY <1>1, <1>2, <1>3, <1>4, <1>5 DEF Next, Atomic!Next

\* The store implements its specification, for any number of goroutines and
\* of chats, with errors and crashes: no update is lost, a queue is taken
\* once, and a half-written file is read only after an error or a crash
\* (fs-io.go:24-117, fs-store.go:83-131).
THEOREM StoreIsAtomic == Spec => IsAtomic
<1>1. Init => Atomic!Init
  BY SameOps DEF Init, Atomic!Init, Settled
<1> QED
  BY <1>1, FilesInvariance, StepIsAtomic, PTL DEF Spec, IsAtomic, Atomic!Spec
=============================================================================
