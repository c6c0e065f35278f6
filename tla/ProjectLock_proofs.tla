-------------------------- MODULE ProjectLock_proofs --------------------------
(***************************************************************************)
(* Proof that the project lock is exclusive, for any number of processes   *)
(* and threads, any assignment of threads to processes, any nesting bound. *)
(*                                                                         *)
(* The argument: a thread in a body owns its process's mutex (OwnsMutex),  *)
(* the mutex counts exactly what its owner has entered (MutexCounts), and  *)
(* its process's description holds the OS lock (HoldsFlock).  Two threads  *)
(* in a body are then in the same process and own the same mutex.          *)
(* On top of it FileInv follows the descriptors (the lock is never         *)
(* stranded) and EventInv the cancel events (a body obeys its own).        *)
(***************************************************************************)
EXTENDS ProjectLock, TLAPS

InCritical == {"flock", "flockWait", "locked", "unlock", "release"}

(* Threads that own the mutex: those in a body and those between taking    *)
(* and releasing it.                                                       *)
Owns(t) == level[t] > 0 \/ pc[t] \in InCritical

OwnsMutex == \A t \in Threads : Owns(t) => mutexOwner[ProcOf[t]] = t

(* What the owner has entered: its levels, and one more on the way in or   *)
(* out of a level.                                                         *)
Entered(t) == level[t] + (IF pc[t] \in InCritical THEN 1 ELSE 0)

MutexCounts ==
  \A p \in Procs :
    IF mutexOwner[p] = None
    THEN mutexCount[p] = 0 /\ depth[p] = 0
    ELSE /\ ProcOf[mutexOwner[p]] = p
         /\ Owns(mutexOwner[p])
         /\ mutexCount[p] = Entered(mutexOwner[p])
         /\ depth[p] = level[mutexOwner[p]]

HoldsFlock ==
  \A t \in Threads :
    level[t] > 0 \/ pc[t] \in {"locked", "unlock"} => flock = ProcOf[t]

PcAndLevel ==
  \A t \in Threads :
    /\ pc[t] = "out" => level[t] = 0
    /\ pc[t] = "body" => level[t] > 0
    /\ pc[t] \in {"flock", "flockWait", "locked", "unlock"} => level[t] = 0
    /\ pc[t] \in {"mutex", "mutexWait"} => level[t] < MaxDepth

OnlyAliveRun ==
  \A t \in Threads : pc[t] # "out" \/ level[t] > 0 => life[ProcOf[t]] = "alive"

(* A child inherits from a process that was started before it.             *)
Inheritance ==
  \A p \in Procs : inherited[p] # None =>
    inherited[p] # p /\ life[inherited[p]] # "unborn"

LockInv == /\ TypeOK /\ OwnsMutex /\ MutexCounts /\ HoldsFlock
           /\ PcAndLevel /\ OnlyAliveRun /\ Inheritance

-----------------------------------------------------------------------------
LEMMA LockInit == Init => LockInv
  <1> USE ProcOfAssumption, NoneAssumption, MaxDepthAssumption
  <1> SUFFICES ASSUME Init PROVE LockInv
    OBVIOUS
  <1>1. TypeOK
    BY DEF Init, TypeOK, NoEvents, MayEvent, Levels, Positions
  <1>2. OwnsMutex /\ MutexCounts /\ HoldsFlock
    BY DEF Init, OwnsMutex, MutexCounts, HoldsFlock, Owns, InCritical
  <1>3. PcAndLevel /\ OnlyAliveRun /\ Inheritance
    BY DEF Init, PcAndLevel, OnlyAliveRun, Inheritance
  <1> QED
    BY <1>1, <1>2, <1>3 DEF LockInv

LEMMA AcquireMutexKeeps ==
  ASSUME LockInv, NEW t \in Threads, AcquireMutex(t)
  PROVE  LockInv'
  <1> USE ProcOfAssumption, NoneAssumption, MaxDepthAssumption
  <1> DEFINE p == ProcOf[t]
  <1>0. TypeOK /\ OwnsMutex /\ MutexCounts /\ HoldsFlock /\ PcAndLevel /\ OnlyAliveRun /\ Inheritance
    BY DEF LockInv
  <1>1. /\ p \in Procs
        /\ pc[t] = "mutex"
        /\ level[t] < MaxDepth
        /\ mutexOwner[p] = None => mutexCount[p] = 0 /\ depth[p] = 0
        /\ mutexOwner[p] = t => mutexCount[p] = level[t] /\ depth[p] = level[t]
        /\ mutexOwner[p] \in {None, t}
        /\ mutexOwner' = [mutexOwner EXCEPT ![p] = t]
        /\ mutexCount' = [mutexCount EXCEPT ![p] = @ + 1]
        /\ level[t] > 0 => mutexOwner[p] = t
        /\ UNCHANGED <<procVars, cancelled>>
    BY <1>0 DEF TypeOK, OwnsMutex, Owns, MutexCounts, Entered, InCritical, PcAndLevel,
               AcquireMutex, EnterRLock
  <1>2. CASE depth[p] = 0
    <2>1. /\ level[t] = 0
          /\ fd' = [fd EXCEPT ![p] = TRUE]
          /\ pc' = [pc EXCEPT ![t] = "flock"]
          /\ UNCHANGED <<depth, cancelEvent, level, arg, own, saved, late>>
      BY <1>0, <1>1, <1>2 DEF TypeOK, AcquireMutex, Goto
    <2>2. TypeOK'
      BY <1>0, <1>1, <2>1 DEF TypeOK, Positions, procVars
    <2>3. OwnsMutex'
      BY <1>0, <1>1, <2>1 DEF TypeOK, OwnsMutex, Owns, InCritical
    <2>4. MutexCounts'
      BY <1>0, <1>1, <1>2, <2>1 DEF TypeOK, MutexCounts, OwnsMutex, Owns, Entered, InCritical
    <2>5. HoldsFlock' /\ PcAndLevel' /\ OnlyAliveRun' /\ Inheritance'
      BY <1>0, <1>1, <2>1
      DEF TypeOK, HoldsFlock, PcAndLevel, OnlyAliveRun, Inheritance, procVars
    <2> QED
      BY <2>2, <2>3, <2>4, <2>5 DEF LockInv
  <1>3. CASE depth[p] > 0
    <2>1. /\ mutexOwner[p] = t /\ level[t] > 0
          /\ depth' = [depth EXCEPT ![p] = @ + 1]
          /\ level' = [level EXCEPT ![t] = @ + 1]
          /\ own' = [own EXCEPT ![t][level[t] + 1] = arg[t]]
          /\ saved' = [saved EXCEPT ![t][level[t] + 1] = cancelEvent[p]]
          /\ cancelEvent' = [cancelEvent EXCEPT ![p] = IF arg[t] = None THEN @ ELSE arg[t]]
          /\ arg' = [arg EXCEPT ![t] = None]
          /\ late' = [late EXCEPT ![t] = FALSE]
          /\ pc' = [pc EXCEPT ![t] = "body"]
          /\ UNCHANGED fd
      BY <1>0, <1>1, <1>3 DEF TypeOK, AcquireMutex, EnterBody, EndCall, Goto
    <2>2. TypeOK'
      BY <1>0, <1>1, <2>1 DEF TypeOK, Positions, MayEvent, Levels, procVars
    <2>3. OwnsMutex'
      BY <1>0, <1>1, <2>1 DEF TypeOK, OwnsMutex, Owns, InCritical
    <2>4. MutexCounts'
      BY <1>0, <1>1, <2>1 DEF TypeOK, MutexCounts, OwnsMutex, Owns, Entered, InCritical
    <2>5. HoldsFlock' /\ PcAndLevel' /\ OnlyAliveRun' /\ Inheritance'
      BY <1>0, <1>1, <2>1
      DEF TypeOK, HoldsFlock, PcAndLevel, OnlyAliveRun, Inheritance, procVars
    <2> QED
      BY <2>2, <2>3, <2>4, <2>5 DEF LockInv
  <1> QED
    BY <1>0, <1>1, <1>2, <1>3 DEF TypeOK

LEMMA TryLockKeeps ==
  ASSUME LockInv, NEW t \in Threads, TryLock(t)
  PROVE  LockInv'
  <1> USE ProcOfAssumption, NoneAssumption, MaxDepthAssumption
  <1>0. TypeOK /\ OwnsMutex /\ MutexCounts /\ HoldsFlock /\ PcAndLevel /\ OnlyAliveRun /\ Inheritance
    BY DEF LockInv
  <1>1. TypeOK'
    BY <1>0 DEF TypeOK, Positions, TryLock, Goto, procVars, entryVars
  <1>2. OwnsMutex'
    BY <1>0 DEF OwnsMutex, Owns, InCritical, TryLock, Goto, procVars, entryVars, threadVars
  <1>3. MutexCounts'
    BY <1>0 DEF TypeOK, OwnsMutex, Owns, MutexCounts, PcAndLevel, Entered, InCritical, TryLock, Goto, procVars, entryVars, threadVars
  <1>4. HoldsFlock'
    BY <1>0 DEF TypeOK, HoldsFlock, PcAndLevel, OwnsMutex, MutexCounts, Owns, InCritical, OnlyAliveRun, Inheritance, TryLock, Goto, procVars, entryVars, threadVars
  <1>5. PcAndLevel'
    BY <1>0 DEF TypeOK, PcAndLevel, OwnsMutex, MutexCounts, Owns, Entered, InCritical, TryLock, Goto, procVars, entryVars, threadVars
  <1>6. OnlyAliveRun'
    BY <1>0 DEF TypeOK, OnlyAliveRun, PcAndLevel, TryLock, Goto, procVars, entryVars, threadVars
  <1>7. Inheritance'
    BY <1>0 DEF Inheritance, TryLock
  <1> QED
    BY <1>1, <1>2, <1>3, <1>4, <1>5, <1>6, <1>7 DEF LockInv

LEMMA EnterOutermostKeeps ==
  ASSUME LockInv, NEW t \in Threads, EnterOutermost(t)
  PROVE  LockInv'
  <1> USE ProcOfAssumption, NoneAssumption, MaxDepthAssumption
  <1>0. TypeOK /\ OwnsMutex /\ MutexCounts /\ HoldsFlock /\ PcAndLevel /\ OnlyAliveRun /\ Inheritance
    BY DEF LockInv
  <1>1. TypeOK'
    BY <1>0 DEF TypeOK, PcAndLevel, Positions, MayEvent, Levels, NoEvents, EnterOutermost, EnterBody, EndCall, Goto, procVars, entryVars, threadVars
  <1>2. OwnsMutex'
    BY <1>0
    DEF OwnsMutex, Owns, InCritical, EnterOutermost, EnterBody, EndCall, Goto, procVars
  <1>3. MutexCounts'
    BY <1>0 DEF TypeOK, OwnsMutex, Owns, MutexCounts, PcAndLevel, Entered, InCritical, EnterOutermost, EnterBody, EndCall, Goto, procVars, entryVars, threadVars
  <1>4. HoldsFlock'
    BY <1>0 DEF TypeOK, HoldsFlock, PcAndLevel, OwnsMutex, MutexCounts, Owns, InCritical, OnlyAliveRun, Inheritance, EnterOutermost, EnterBody, EndCall, Goto, procVars, entryVars, threadVars
  <1>5. PcAndLevel'
    BY <1>0 DEF TypeOK, PcAndLevel, OwnsMutex, MutexCounts, Owns, Entered, InCritical, EnterOutermost, EnterBody, EndCall, Goto, procVars, entryVars, threadVars
  <1>6. OnlyAliveRun'
    BY <1>0 DEF TypeOK, OnlyAliveRun, PcAndLevel, EnterOutermost, EnterBody, EndCall, Goto, procVars, entryVars, threadVars
  <1>7. Inheritance'
    BY <1>0 DEF Inheritance, EnterOutermost, procVars, entryVars
  <1> QED
    BY <1>1, <1>2, <1>3, <1>4, <1>5, <1>6, <1>7 DEF LockInv

LEMMA AttemptFailsKeeps ==
  ASSUME LockInv, NEW t \in Threads, AttemptFails(t)
  PROVE  LockInv'
  <1> USE ProcOfAssumption, NoneAssumption, MaxDepthAssumption
  <1>0. TypeOK /\ OwnsMutex /\ MutexCounts /\ HoldsFlock /\ PcAndLevel /\ OnlyAliveRun /\ Inheritance
    BY DEF LockInv
  <1>1. TypeOK'
    BY <1>0
    DEF TypeOK, PcAndLevel, Positions, MayEvent, Levels, NoEvents, AttemptFails, Goto,
        procVars, entryVars, threadVars
  <1>2. OwnsMutex'
    BY <1>0
    DEF TypeOK, OwnsMutex, Owns, InCritical, AttemptFails, Goto, procVars, entryVars,
        threadVars
  <1>3. MutexCounts'
    <2>1. /\ mutexOwner' = mutexOwner /\ mutexCount' = mutexCount
          /\ depth' = depth /\ level' = level
      BY DEF AttemptFails, entryVars
    <2>2. \A s \in Threads : Owns(s) => Owns(s)' /\ Entered(s)' = Entered(s)
      BY <1>0, <2>1 DEF TypeOK, PcAndLevel, Owns, Entered, InCritical, AttemptFails, Goto
    <2>3. \A p \in Procs : mutexOwner[p] # None => mutexOwner[p] \in Threads
      BY <1>0 DEF TypeOK
    <2> QED
      BY <1>0, <2>1, <2>2, <2>3 DEF MutexCounts
  <1>4. HoldsFlock'
    BY <1>0 DEF TypeOK, HoldsFlock, PcAndLevel, OwnsMutex, MutexCounts, Owns, InCritical, OnlyAliveRun, Inheritance, AttemptFails, Goto, procVars, entryVars, threadVars
  <1>5. PcAndLevel'
    BY <1>0 DEF TypeOK, PcAndLevel, OwnsMutex, MutexCounts, Owns, Entered, InCritical, AttemptFails, Goto, procVars, entryVars, threadVars
  <1>6. OnlyAliveRun'
    BY <1>0 DEF TypeOK, OnlyAliveRun, PcAndLevel, AttemptFails, Goto, procVars, entryVars, threadVars
  <1>7. Inheritance'
    BY <1>0 DEF Inheritance, AttemptFails, procVars
  <1> QED
    BY <1>1, <1>2, <1>3, <1>4, <1>5, <1>6, <1>7 DEF LockInv

LEMMA PollAgainKeeps ==
  ASSUME LockInv, NEW t \in Threads, PollAgain(t)
  PROVE  LockInv'
  <1> USE ProcOfAssumption, NoneAssumption, MaxDepthAssumption
  <1>0. TypeOK /\ OwnsMutex /\ MutexCounts /\ HoldsFlock /\ PcAndLevel /\ OnlyAliveRun /\ Inheritance
    BY DEF LockInv
  <1>1. TypeOK'
    BY <1>0
    DEF TypeOK, PcAndLevel, Positions, MayEvent, Levels, NoEvents, PollAgain, Goto,
        procVars, entryVars, threadVars
  <1>2. OwnsMutex'
    BY <1>0
    DEF TypeOK, OwnsMutex, Owns, InCritical, PollAgain, Goto, procVars, entryVars,
        threadVars
  <1>3. MutexCounts'
    <2>1. /\ mutexOwner' = mutexOwner /\ mutexCount' = mutexCount
          /\ depth' = depth /\ level' = level
      BY DEF PollAgain, entryVars
    <2>2. \A s \in Threads : Owns(s) => Owns(s)' /\ Entered(s)' = Entered(s)
      BY <1>0, <2>1 DEF TypeOK, PcAndLevel, Owns, Entered, InCritical, PollAgain, Goto
    <2>3. \A p \in Procs : mutexOwner[p] # None => mutexOwner[p] \in Threads
      BY <1>0 DEF TypeOK
    <2> QED
      BY <1>0, <2>1, <2>2, <2>3 DEF MutexCounts
  <1>4. HoldsFlock'
    BY <1>0 DEF TypeOK, HoldsFlock, PcAndLevel, OwnsMutex, MutexCounts, Owns, InCritical, OnlyAliveRun, Inheritance, PollAgain, Goto, procVars, entryVars, threadVars
  <1>5. PcAndLevel'
    BY <1>0 DEF TypeOK, PcAndLevel, OwnsMutex, MutexCounts, Owns, Entered, InCritical, PollAgain, Goto, procVars, entryVars, threadVars
  <1>6. OnlyAliveRun'
    BY <1>0 DEF TypeOK, OnlyAliveRun, PcAndLevel, PollAgain, Goto, procVars, entryVars, threadVars
  <1>7. Inheritance'
    BY <1>0 DEF Inheritance, PollAgain, procVars
  <1> QED
    BY <1>1, <1>2, <1>3, <1>4, <1>5, <1>6, <1>7 DEF LockInv

LEMMA GiveUpKeeps ==
  ASSUME LockInv, NEW t \in Threads, GiveUp(t)
  PROVE  LockInv'
  <1> USE ProcOfAssumption, NoneAssumption, MaxDepthAssumption
  <1>0. TypeOK /\ OwnsMutex /\ MutexCounts /\ HoldsFlock /\ PcAndLevel /\ OnlyAliveRun /\ Inheritance
    BY DEF LockInv
  <1>1. TypeOK'
    BY <1>0
    DEF TypeOK, PcAndLevel, Positions, MayEvent, Levels, NoEvents, GiveUp, EndCall,
        CloseLockFile, CallerOf, Goto, procVars, entryVars, threadVars
  <1>2. OwnsMutex'
    BY <1>0 DEF TypeOK, OwnsMutex, Owns, InCritical, GiveUp, CallerOf, Goto
  <1>3. MutexCounts'
    <2>1. /\ mutexOwner' = mutexOwner /\ mutexCount' = mutexCount
          /\ depth' = depth /\ level' = level
      BY DEF GiveUp, entryVars
    <2>2. \A s \in Threads : Owns(s) => Owns(s)' /\ Entered(s)' = Entered(s)
      BY <1>0, <2>1 DEF TypeOK, PcAndLevel, Owns, Entered, InCritical, GiveUp, EndCall, CloseLockFile, CallerOf, Goto
    <2>3. \A p \in Procs : mutexOwner[p] # None => mutexOwner[p] \in Threads
      BY <1>0 DEF TypeOK
    <2> QED
      BY <1>0, <2>1, <2>2, <2>3 DEF MutexCounts
  <1>4. HoldsFlock'
    BY <1>0 DEF TypeOK, HoldsFlock, PcAndLevel, OwnsMutex, MutexCounts, Owns, InCritical, OnlyAliveRun, Inheritance, GiveUp, EndCall, CloseLockFile, CallerOf, Goto, procVars, entryVars, threadVars
  <1>5. PcAndLevel'
    BY <1>0 DEF TypeOK, PcAndLevel, OwnsMutex, MutexCounts, Owns, Entered, InCritical, GiveUp, EndCall, CloseLockFile, CallerOf, Goto, procVars, entryVars, threadVars
  <1>6. OnlyAliveRun'
    BY <1>0 DEF TypeOK, OnlyAliveRun, PcAndLevel, GiveUp, EndCall, CloseLockFile, CallerOf, Goto, procVars, entryVars, threadVars
  <1>7. Inheritance'
    BY <1>0 DEF Inheritance, GiveUp, CloseLockFile
  <1> QED
    BY <1>1, <1>2, <1>3, <1>4, <1>5, <1>6, <1>7 DEF LockInv

LEMMA AbandonLockKeeps ==
  ASSUME LockInv, NEW t \in Threads, AbandonLock(t)
  PROVE  LockInv'
  <1> USE ProcOfAssumption, NoneAssumption, MaxDepthAssumption
  <1>0. TypeOK /\ OwnsMutex /\ MutexCounts /\ HoldsFlock /\ PcAndLevel /\ OnlyAliveRun /\ Inheritance
    BY DEF LockInv
  <1>1. TypeOK'
    BY <1>0 DEF TypeOK, PcAndLevel, Positions, MayEvent, Levels, NoEvents, AbandonLock, EndCall, UnlockAndClose, CloseLockFile, Goto, procVars, entryVars, threadVars
  <1>2. OwnsMutex'
    BY <1>0 DEF OwnsMutex, Owns, InCritical, AbandonLock, CloseLockFile, Goto
  <1>3. MutexCounts'
    BY <1>0 DEF TypeOK, OwnsMutex, Owns, MutexCounts, PcAndLevel, Entered, InCritical, AbandonLock, EndCall, UnlockAndClose, CloseLockFile, Goto, procVars, entryVars, threadVars
  <1>4. HoldsFlock'
    BY <1>0 DEF TypeOK, HoldsFlock, PcAndLevel, OwnsMutex, MutexCounts, Owns, InCritical, OnlyAliveRun, Inheritance, AbandonLock, EndCall, UnlockAndClose, CloseLockFile, Goto, procVars, entryVars, threadVars
  <1>5. PcAndLevel'
    BY <1>0 DEF TypeOK, PcAndLevel, OwnsMutex, MutexCounts, Owns, Entered, InCritical, AbandonLock, EndCall, UnlockAndClose, CloseLockFile, Goto, procVars, entryVars, threadVars
  <1>6. OnlyAliveRun'
    BY <1>0 DEF TypeOK, OnlyAliveRun, PcAndLevel, AbandonLock, EndCall, UnlockAndClose, CloseLockFile, Goto, procVars, entryVars, threadVars
  <1>7. Inheritance'
    BY <1>0 DEF Inheritance, AbandonLock, UnlockAndClose, CloseLockFile
  <1> QED
    BY <1>1, <1>2, <1>3, <1>4, <1>5, <1>6, <1>7 DEF LockInv

LEMMA UnlockKeeps ==
  ASSUME LockInv, NEW t \in Threads, Unlock(t)
  PROVE  LockInv'
  <1> USE ProcOfAssumption, NoneAssumption, MaxDepthAssumption
  <1>0. TypeOK /\ OwnsMutex /\ MutexCounts /\ HoldsFlock /\ PcAndLevel /\ OnlyAliveRun /\ Inheritance
    BY DEF LockInv
  <1>1. TypeOK'
    BY <1>0 DEF TypeOK, Positions, Unlock, EndCall, CloseLockFile, Goto
  <1>2. OwnsMutex'
    BY <1>0 DEF OwnsMutex, Owns, InCritical, Unlock, Goto, procVars
  <1>3. MutexCounts'
    BY <1>0 DEF TypeOK, OwnsMutex, Owns, MutexCounts, PcAndLevel, Entered, InCritical, Unlock, EndCall, CloseLockFile, Goto, procVars, entryVars, threadVars
  <1>4. HoldsFlock'
    BY <1>0 DEF TypeOK, HoldsFlock, PcAndLevel, OwnsMutex, MutexCounts, Owns, InCritical, OnlyAliveRun, Inheritance, Unlock, EndCall, CloseLockFile, Goto, procVars, entryVars, threadVars
  <1>5. PcAndLevel'
    BY <1>0 DEF TypeOK, PcAndLevel, OwnsMutex, MutexCounts, Owns, Entered, InCritical, Unlock, EndCall, CloseLockFile, Goto, procVars, entryVars, threadVars
  <1>6. OnlyAliveRun'
    BY <1>0 DEF TypeOK, OnlyAliveRun, PcAndLevel, Unlock, EndCall, CloseLockFile, Goto, procVars, entryVars, threadVars
  <1>7. Inheritance'
    BY <1>0 DEF TypeOK, Inheritance, Unlock, EndCall, CloseLockFile, Goto, procVars, entryVars, threadVars
  <1> QED
    BY <1>1, <1>2, <1>3, <1>4, <1>5, <1>6, <1>7 DEF LockInv

LEMMA ReleaseMutexKeeps ==
  ASSUME LockInv, NEW t \in Threads, ReleaseMutex(t)
  PROVE  LockInv'
  <1> USE ProcOfAssumption, NoneAssumption, MaxDepthAssumption
  <1>0. TypeOK /\ OwnsMutex /\ MutexCounts /\ HoldsFlock /\ PcAndLevel /\ OnlyAliveRun /\ Inheritance
    BY DEF LockInv
  <1>1. TypeOK'
    BY <1>0
    DEF TypeOK, Positions, MutexCounts, OwnsMutex, Owns, Entered, InCritical, ReleaseMutex,
        CallerOf, Goto, procVars
  <1>2. OwnsMutex'
    BY <1>0 DEF TypeOK, OwnsMutex, Owns, MutexCounts, PcAndLevel, Entered, InCritical, ReleaseMutex, CallerOf, Goto, procVars, entryVars, threadVars
  <1>3. MutexCounts'
    BY <1>0 DEF TypeOK, OwnsMutex, Owns, MutexCounts, PcAndLevel, Entered, InCritical, ReleaseMutex, CallerOf, Goto, procVars, entryVars, threadVars
  <1>4. HoldsFlock'
    BY <1>0 DEF TypeOK, HoldsFlock, PcAndLevel, OwnsMutex, MutexCounts, Owns, InCritical, OnlyAliveRun, Inheritance, ReleaseMutex, CallerOf, Goto, procVars, entryVars, threadVars
  <1>5. PcAndLevel'
    BY <1>0 DEF TypeOK, PcAndLevel, OwnsMutex, MutexCounts, Owns, Entered, InCritical, ReleaseMutex, CallerOf, Goto, procVars, entryVars, threadVars
  <1>6. OnlyAliveRun'
    BY <1>0 DEF TypeOK, OnlyAliveRun, PcAndLevel, ReleaseMutex, CallerOf, Goto, procVars, entryVars, threadVars
  <1>7. Inheritance'
    BY <1>0 DEF Inheritance, ReleaseMutex, Goto, procVars
  <1> QED
    BY <1>1, <1>2, <1>3, <1>4, <1>5, <1>6, <1>7 DEF LockInv

LEMMA LeaveKeeps ==
  ASSUME LockInv, NEW t \in Threads, Leave(t)
  PROVE  LockInv'
  <1> USE ProcOfAssumption, NoneAssumption, MaxDepthAssumption
  <1>0. TypeOK /\ OwnsMutex /\ MutexCounts /\ HoldsFlock /\ PcAndLevel /\ OnlyAliveRun /\ Inheritance
    BY DEF LockInv
  <1>1. TypeOK'
    BY <1>0 DEF TypeOK, PcAndLevel, Positions, MayEvent, Levels, NoEvents, MutexCounts, OwnsMutex, Owns, Entered, InCritical, Leave, RestoredEvent, AfterBody, Goto, procVars, entryVars, threadVars
  <1>2. OwnsMutex'
    BY <1>0 DEF OwnsMutex, Owns, PcAndLevel, Entered, InCritical, Leave, Goto, procVars
  <1>3. MutexCounts'
    BY <1>0 DEF TypeOK, OwnsMutex, Owns, MutexCounts, PcAndLevel, Entered, InCritical, Leave, RestoredEvent, AfterBody, Goto, procVars, entryVars, threadVars
  <1>4. HoldsFlock'
    BY <1>0
    DEF TypeOK, HoldsFlock, MutexCounts, Inheritance, Leave, RestoredEvent, AfterBody, Goto,
        procVars
  <1>5. PcAndLevel'
    BY <1>0 DEF TypeOK, PcAndLevel, OwnsMutex, MutexCounts, Owns, Entered, InCritical, Leave, RestoredEvent, AfterBody, Goto, procVars, entryVars, threadVars
  <1>6. OnlyAliveRun'
    BY <1>0 DEF TypeOK, OnlyAliveRun, PcAndLevel, Leave, RestoredEvent, AfterBody, Goto, procVars, entryVars, threadVars
  <1>7. Inheritance'
    BY <1>0 DEF Inheritance, Leave, procVars, entryVars
  <1> QED
    BY <1>1, <1>2, <1>3, <1>4, <1>5, <1>6, <1>7 DEF LockInv

LEMMA ExpireKeeps ==
  ASSUME LockInv, NEW t \in Threads, Expire(t)
  PROVE  LockInv'
  <1> USE ProcOfAssumption, NoneAssumption, MaxDepthAssumption
  <1>0. TypeOK /\ OwnsMutex /\ MutexCounts /\ HoldsFlock /\ PcAndLevel /\ OnlyAliveRun /\ Inheritance
    BY DEF LockInv
  <1>1. TypeOK'
    BY <1>0 DEF TypeOK, Expire, procVars, entryVars
  <1>2. OwnsMutex'
    BY <1>0 DEF OwnsMutex, Owns, InCritical, Expire, entryVars, threadVars
  <1>3. MutexCounts'
    BY <1>0 DEF TypeOK, OwnsMutex, Owns, MutexCounts, PcAndLevel, Entered, InCritical, Expire, Waiting, procVars, entryVars, threadVars
  <1>4. HoldsFlock'
    BY <1>0 DEF TypeOK, HoldsFlock, PcAndLevel, OwnsMutex, MutexCounts, Owns, InCritical, OnlyAliveRun, Inheritance, Expire, Waiting, procVars, entryVars, threadVars
  <1>5. PcAndLevel'
    BY <1>0 DEF TypeOK, PcAndLevel, OwnsMutex, MutexCounts, Owns, Entered, InCritical, Expire, Waiting, procVars, entryVars, threadVars
  <1>6. OnlyAliveRun'
    BY <1>0 DEF TypeOK, OnlyAliveRun, PcAndLevel, Expire, Waiting, procVars, entryVars, threadVars
  <1>7. Inheritance'
    BY <1>0 DEF Inheritance, Expire, procVars
  <1> QED
    BY <1>1, <1>2, <1>3, <1>4, <1>5, <1>6, <1>7 DEF LockInv

LEMMA CallKeeps ==
  ASSUME LockInv, NEW t \in Threads, NEW e \in MayEvent, Call(t, e)
  PROVE  LockInv'
  <1> USE ProcOfAssumption, NoneAssumption, MaxDepthAssumption
  <1>0. TypeOK /\ OwnsMutex /\ MutexCounts /\ HoldsFlock /\ PcAndLevel /\ OnlyAliveRun /\ Inheritance
    BY DEF LockInv
  <1>1. TypeOK'
    <2>1. flock' \in Procs \cup {None}
      BY <1>0 DEF TypeOK, Call, FlockAfterClose
    <2>2. pc' \in [Threads -> Positions]
      <3>1. "mutex" \in Positions
        BY DEF Positions
      <3>2. pc' = pc \/ pc' = [pc EXCEPT ![t] = "mutex"]
        BY DEF Call, Goto
      <3> QED
        BY <1>0, <3>1, <3>2 DEF TypeOK
    <2>3. arg' \in [Threads -> MayEvent]
      BY <1>0 DEF TypeOK, Call
    <2>4. inherited' \in [Procs -> Procs \cup {None}]
      BY <1>0 DEF TypeOK, Call
    <2> QED
      BY <1>0, <2>1, <2>2, <2>3, <2>4 DEF TypeOK, Call, entryVars
  <1>2. OwnsMutex'
    BY <1>0
    DEF TypeOK, OwnsMutex, Owns, InCritical, Call, Goto, procVars, entryVars, threadVars
  <1>3. MutexCounts'
    BY <1>0 DEF TypeOK, OwnsMutex, Owns, MutexCounts, PcAndLevel, Entered, InCritical, Call, FlockAfterClose, OtherCopies, Goto, procVars, entryVars, threadVars
  <1>4. HoldsFlock'
    BY <1>0 DEF TypeOK, HoldsFlock, PcAndLevel, OwnsMutex, MutexCounts, Owns, InCritical, OnlyAliveRun, Inheritance, Call, FlockAfterClose, OtherCopies, Goto, procVars, entryVars, threadVars
  <1>5. PcAndLevel'
    BY <1>0 DEF TypeOK, PcAndLevel, OwnsMutex, MutexCounts, Owns, Entered, InCritical, Call, FlockAfterClose, OtherCopies, Goto, procVars, entryVars, threadVars
  <1>6. OnlyAliveRun'
    BY <1>0 DEF TypeOK, OnlyAliveRun, PcAndLevel, Call, FlockAfterClose, OtherCopies, Goto, procVars, entryVars, threadVars
  <1>7. Inheritance'
    BY <1>0 DEF Inheritance, Call
  <1> QED
    BY <1>1, <1>2, <1>3, <1>4, <1>5, <1>6, <1>7 DEF LockInv

LEMMA CancelKeeps ==
  ASSUME LockInv, NEW e \in Events, Cancel(e)
  PROVE  LockInv'
  <1> USE ProcOfAssumption, NoneAssumption, MaxDepthAssumption
  <1>0. TypeOK /\ OwnsMutex /\ MutexCounts /\ HoldsFlock /\ PcAndLevel /\ OnlyAliveRun /\ Inheritance
    BY DEF LockInv
  <1>1. TypeOK'
    BY <1>0 DEF TypeOK, PcAndLevel, Positions, MayEvent, Levels, NoEvents, Cancel, procVars, entryVars, threadVars
  <1>2. OwnsMutex'
    BY <1>0 DEF OwnsMutex, Owns, InCritical, Cancel, procVars, entryVars, threadVars
  <1>3. MutexCounts'
    BY <1>0 DEF TypeOK, OwnsMutex, Owns, MutexCounts, PcAndLevel, Entered, InCritical, Cancel, procVars, entryVars, threadVars
  <1>4. HoldsFlock'
    BY <1>0 DEF TypeOK, HoldsFlock, PcAndLevel, OwnsMutex, MutexCounts, Owns, InCritical, OnlyAliveRun, Inheritance, Cancel, procVars, entryVars, threadVars
  <1>5. PcAndLevel'
    BY <1>0 DEF TypeOK, PcAndLevel, OwnsMutex, MutexCounts, Owns, Entered, InCritical, Cancel, procVars, entryVars, threadVars
  <1>6. OnlyAliveRun'
    BY <1>0 DEF TypeOK, OnlyAliveRun, PcAndLevel, Cancel, procVars, entryVars, threadVars
  <1>7. Inheritance'
    BY <1>0 DEF TypeOK, Inheritance, Cancel, procVars, entryVars, threadVars
  <1> QED
    BY <1>1, <1>2, <1>3, <1>4, <1>5, <1>6, <1>7 DEF LockInv

LEMMA ForkKeeps ==
  ASSUME LockInv, NEW p \in Procs, NEW c \in Procs, Fork(p, c)
  PROVE  LockInv'
  <1> USE ProcOfAssumption, NoneAssumption, MaxDepthAssumption
  <1>0. TypeOK /\ OwnsMutex /\ MutexCounts /\ HoldsFlock /\ PcAndLevel /\ OnlyAliveRun /\ Inheritance
    BY DEF LockInv
  <1>1. TypeOK'
    BY <1>0 DEF TypeOK, Fork, entryVars, threadVars
  <1>2. OwnsMutex'
    BY <1>0 DEF OwnsMutex, Owns, InCritical, Fork, procVars, entryVars, threadVars
  <1>3. MutexCounts'
    BY <1>0 DEF TypeOK, OwnsMutex, Owns, MutexCounts, PcAndLevel, Entered, InCritical, Fork, procVars, entryVars, threadVars
  <1>4. HoldsFlock'
    BY <1>0 DEF TypeOK, HoldsFlock, PcAndLevel, OwnsMutex, MutexCounts, Owns, InCritical, OnlyAliveRun, Inheritance, Fork, procVars, entryVars, threadVars
  <1>5. PcAndLevel'
    BY <1>0 DEF TypeOK, PcAndLevel, OwnsMutex, MutexCounts, Owns, Entered, InCritical, Fork, procVars, entryVars, threadVars
  <1>6. OnlyAliveRun'
    BY <1>0 DEF TypeOK, OnlyAliveRun, PcAndLevel, Fork, procVars, entryVars, threadVars
  <1>7. Inheritance'
    BY <1>0 DEF Inheritance, Fork
  <1> QED
    BY <1>1, <1>2, <1>3, <1>4, <1>5, <1>6, <1>7 DEF LockInv

LEMMA CrashKeeps ==
  ASSUME LockInv, NEW p \in Procs, Crash(p)
  PROVE  LockInv'
  <1> USE ProcOfAssumption, NoneAssumption, MaxDepthAssumption
  <1>0. TypeOK /\ OwnsMutex /\ MutexCounts /\ HoldsFlock /\ PcAndLevel /\ OnlyAliveRun /\ Inheritance
    BY DEF LockInv
  <1>1. TypeOK'
    <2>1. flock' \in Procs \cup {None}
      BY <1>0 DEF TypeOK, Crash, FlockAfterClose
    <2>2. /\ life' \in [Procs -> {"unborn", "alive", "dead"}]
          /\ inherited' \in [Procs -> Procs \cup {None}]
          /\ mutexOwner' \in [Procs -> Threads \cup {None}]
          /\ mutexCount' \in [Procs -> Nat]
          /\ depth' \in [Procs -> Nat]
          /\ fd' \in [Procs -> BOOLEAN]
          /\ cancelEvent' \in [Procs -> MayEvent]
      BY <1>0 DEF TypeOK, Crash, MayEvent
    <2>3. pc' \in [Threads -> Positions]
      BY <1>0 DEF TypeOK, Crash, Positions
    <2>4. level' \in [Threads -> 0 .. MaxDepth]
      BY <1>0 DEF TypeOK, Crash
    <2>5. late' \in [Threads -> BOOLEAN] /\ arg' \in [Threads -> MayEvent]
      BY <1>0 DEF TypeOK, Crash, MayEvent
    <2>6. /\ own' \in [Threads -> [Levels -> MayEvent]]
          /\ saved' \in [Threads -> [Levels -> MayEvent]]
      BY <1>0 DEF TypeOK, Crash, NoEvents, MayEvent
    <2> QED
      BY <1>0, <2>1, <2>2, <2>3, <2>4, <2>5, <2>6 DEF TypeOK, Crash
  <1>2. OwnsMutex'
    BY <1>0 DEF OwnsMutex, Owns, InCritical, Crash
  <1>3. MutexCounts'
    BY <1>0 DEF TypeOK, OwnsMutex, Owns, MutexCounts, PcAndLevel, Entered, InCritical, Crash, FlockAfterClose, OtherCopies, procVars, entryVars, threadVars
  <1>4. HoldsFlock'
    BY <1>0 DEF TypeOK, HoldsFlock, PcAndLevel, OwnsMutex, MutexCounts, Owns, InCritical, OnlyAliveRun, Inheritance, Crash, FlockAfterClose, OtherCopies, procVars, entryVars, threadVars
  <1>5. PcAndLevel'
    BY <1>0 DEF TypeOK, PcAndLevel, OwnsMutex, MutexCounts, Owns, Entered, InCritical, Crash, FlockAfterClose, OtherCopies, procVars, entryVars, threadVars
  <1>6. OnlyAliveRun'
    BY <1>0 DEF TypeOK, OnlyAliveRun, PcAndLevel, Crash, FlockAfterClose, OtherCopies, procVars, entryVars, threadVars
  <1>7. Inheritance'
    BY <1>0 DEF Inheritance, Crash
  <1> QED
    BY <1>1, <1>2, <1>3, <1>4, <1>5, <1>6, <1>7 DEF LockInv
-----------------------------------------------------------------------------
LEMMA LockStutter == ASSUME LockInv, UNCHANGED vars PROVE LockInv'
  BY DEF LockInv, TypeOK, OwnsMutex, MutexCounts, HoldsFlock, PcAndLevel, OnlyAliveRun,
         Inheritance, Owns, Entered, vars, procVars, entryVars, threadVars

(* LockInv is an inductive invariant of the lock.                          *)
THEOREM LockInvariant == Spec => []LockInv
  <1>1. LockInv /\ [Next]_vars => LockInv'
    BY LockStutter, AcquireMutexKeeps, TryLockKeeps, EnterOutermostKeeps, AttemptFailsKeeps,
        PollAgainKeeps, GiveUpKeeps, AbandonLockKeeps, UnlockKeeps, ReleaseMutexKeeps,
        LeaveKeeps, ExpireKeeps, CallKeeps, CancelKeeps, ForkKeeps, CrashKeeps
    DEF Next, LockStep
  <1> QED
    BY LockInit, <1>1, PTL DEF Spec

(* Every variable of the lock keeps its type: in particular depth and      *)
(* mutexCount, decremented on exit, never go below zero, and no thread is  *)
(* nested deeper than MaxDepth.                                            *)
THEOREM LockTyped == Spec => []TypeOK
  <1>1. LockInv => TypeOK
    BY DEF LockInv
  <1> QED
    BY LockInvariant, <1>1, PTL

LEMMA LockInvExcludes == LockInv => MutualExclusion
  <1> SUFFICES ASSUME LockInv, NEW s \in Threads, NEW t \in Threads, InBody(s), InBody(t)
               PROVE  s = t
    BY DEF MutualExclusion
  <1>1. flock = ProcOf[s] /\ flock = ProcOf[t]
    BY DEF LockInv, HoldsFlock, InBody
  <1>2. mutexOwner[ProcOf[s]] = s /\ mutexOwner[ProcOf[t]] = t
    BY DEF LockInv, OwnsMutex, Owns, InBody
  <1> QED
    BY <1>1, <1>2

(* At most one thread of all processes is in a transaction body, whatever  *)
(* the processes, threads, nesting, cancellations, crashes and forks.      *)
THEOREM LockExcludes == Spec => []MutualExclusion
  BY LockInvariant, LockInvExcludes, PTL
-----------------------------------------------------------------------------
(* A body's lock can only be taken away by the death of its process: the   *)
(* children that close what they inherited find the parent among the other *)
(* holders of the description.                                             *)
LEMMA LockKeptByBody ==
  ASSUME LockInv, [Next]_vars, NEW t \in Threads, InBody(t), flock' # flock
  PROVE  ~InBody(t)' /\ life'[ProcOf[t]] = "dead"
  <1> USE ProcOfAssumption, NoneAssumption
  <1>0. TypeOK /\ OwnsMutex /\ HoldsFlock /\ PcAndLevel /\ OnlyAliveRun /\ Inheritance
    BY DEF LockInv
  <1>1. /\ flock = ProcOf[t] /\ flock \in Procs /\ flock # None
        /\ life[flock] = "alive" /\ mutexOwner[flock] = t
    BY <1>0 DEF HoldsFlock, OnlyAliveRun, OwnsMutex, Owns, InBody, TypeOK
  <1>2. \A p \in Procs : inherited[p] # None /\ flock # p => FlockAfterClose(inherited[p], p) = flock
    BY <1>0, <1>1 DEF FlockAfterClose, OtherCopies, Inheritance
  <1>3. ASSUME NEW s \in Threads, pc[s] \in {"locked", "unlock"} PROVE FALSE
    <2>1. flock = ProcOf[s] /\ level[s] = 0 /\ mutexOwner[ProcOf[s]] = s
      BY <1>0, <1>3 DEF HoldsFlock, PcAndLevel, OwnsMutex, Owns, InCritical
    <2> QED
      BY <1>1, <2>1 DEF InBody
  <1>4. CASE \E p \in Procs : Crash(p)
    <2>1. PICK p \in Procs : Crash(p)
      BY <1>4
    <2>2. CASE p = flock
      <3>1. life'[p] = "dead" /\ level'[t] = 0
        BY <1>0, <1>1, <2>1, <2>2 DEF Crash, TypeOK
      <3> QED
        BY <1>1, <2>2, <3>1 DEF InBody
    <2>3. CASE p # flock
      <3>1. flock' = flock
        BY <1>1, <1>2, <2>1, <2>3 DEF Crash, FlockAfterClose
      <3> QED
        BY <3>1
    <2> QED
      BY <2>2, <2>3
  <1>5. CASE \E s \in Threads, e \in MayEvent : Call(s, e)
    <2>1. PICK s \in Threads, e \in MayEvent : Call(s, e)
      BY <1>5
    <2>2. inherited[ProcOf[s]] # None => flock # ProcOf[s] \/ inherited[ProcOf[s]] # flock
      BY <1>0 DEF Inheritance
    <2>3. flock' = flock
      BY <1>0, <1>1, <1>2, <2>1, <2>2 DEF Call, FlockAfterClose
    <2> QED
      BY <2>3
  <1>6. CASE \E s \in Threads : LockStep(s)
    BY <1>1, <1>3, <1>6
    DEF LockStep, AcquireMutex, TryLock, EnterOutermost, AttemptFails, PollAgain, GiveUp,
        AbandonLock, Unlock, ReleaseMutex, procVars
  <1>7. CASE \E s \in Threads : Leave(s) \/ Expire(s)
    BY <1>7 DEF Leave, Expire, procVars
  <1>8. CASE (\E e \in Events : Cancel(e)) \/ (\E p, c \in Procs : Fork(p, c)) \/ UNCHANGED vars
    BY <1>8 DEF Cancel, Fork, vars, procVars
  <1> QED
    BY <1>4, <1>5, <1>6, <1>7, <1>8 DEF Next

(* Only the holder's own exit, or its death, ends the lock of a body.      *)
THEOREM LockStaysWithHolder == Spec => OnlyTheHolderUnlocks
  <1>1. LockInv /\ [Next]_vars =>
          [\A t \in Threads :
             InBody(t) /\ flock' # flock => ~InBody(t)' /\ life'[ProcOf[t]] = "dead"]_vars
    BY LockKeptByBody
  <1> QED
    BY LockInvariant, <1>1, PTL DEF Spec, OnlyTheHolderUnlocks
-----------------------------------------------------------------------------
(* The refinement mapping: Holder is the thread in a body, None if there   *)
(* is none.                                                                *)
Nesting == IF Holder = None THEN 0 ELSE level[Holder]

HolderIsInside ==
  /\ \A t \in Threads : InBody(t) => Holder = t
  /\ (\A t \in Threads : ~InBody(t)) => Holder = None

LEMMA HolderInBody == LockInv => HolderIsInside
  <1> SUFFICES ASSUME LockInv, NEW t \in Threads, InBody(t) PROVE Holder = t
    BY DEF Holder, HolderIsInside
  <1>1. \E s \in Threads : InBody(s)
    OBVIOUS
  <1>2. Holder = CHOOSE s \in Threads : InBody(s)
    BY <1>1 DEF Holder
  <1>3. Holder \in Threads /\ InBody(Holder)
    BY <1>1, <1>2
  <1> QED
    BY <1>3, LockInvExcludes DEF MutualExclusion

LEMMA HolderInBodyNext == LockInv' => HolderIsInside'
  BY HolderInBody, PTL

LEMMA LevelsAreMappedSteps ==
  ASSUME LockInv, LockInv', NEW t \in Threads,
         \A s \in Threads \ {t} : level'[s] = level[s]
  PROVE  /\ level[t] = 0 /\ level'[t] = 1 => Section!Enter(t)
         /\ level[t] > 0 /\ level'[t] = level[t] + 1 => Section!EnterAgain(t)
         /\ level[t] > 0 /\ level'[t] = level[t] - 1 => Section!Leave(t)
  <1> USE NoneAssumption, MaxDepthAssumption
  <1>0. TypeOK /\ TypeOK'
    BY DEF LockInv
  <1>1. /\ \A s \in Threads : level[s] > 0 => Holder = s
        /\ (\A s \in Threads : ~(level[s] > 0)) => Holder = None
    BY HolderInBody DEF HolderIsInside, InBody
  <1>2. /\ \A s \in Threads : level'[s] > 0 => Holder' = s
        /\ (\A s \in Threads : ~(level'[s] > 0)) => Holder' = None
    BY HolderInBodyNext DEF HolderIsInside, InBody
  <1>3. t # None
    OBVIOUS
  <1>4. ASSUME level[t] = 0, level'[t] = 1 PROVE Section!Enter(t)
    <2>1. Holder' = t
      BY <1>2, <1>4
    <2>2. ASSUME NEW s \in Threads, level[s] > 0 PROVE FALSE
      <3>1. s # t /\ level'[s] > 0
        BY <1>4, <2>2
      <3> QED
        BY <1>2, <2>1, <3>1
    <2>3. Holder = None
      BY <1>1, <2>2
    <2> QED
      BY <1>3, <1>4, <2>1, <2>3 DEF Section!Enter
  <1>5. ASSUME level[t] > 0, level'[t] = level[t] + 1 PROVE Section!EnterAgain(t)
    <2>1. Holder = t /\ Holder' = t
      BY <1>0, <1>1, <1>2, <1>5 DEF TypeOK
    <2>2. level[t] < MaxDepth
      BY <1>0, <1>5 DEF TypeOK
    <2> QED
      BY <1>3, <1>5, <2>1, <2>2 DEF Section!EnterAgain
  <1>6. ASSUME level[t] > 0, level'[t] = level[t] - 1 PROVE Section!Leave(t)
    <2>1. Holder = t
      BY <1>1, <1>6
    <2>2. CASE level[t] = 1
      <3>1. ASSUME NEW s \in Threads, level'[s] > 0 PROVE FALSE
        <4>1. s # t /\ level[s] > 0
          BY <1>6, <2>2, <3>1
        <4> QED
          BY <1>1, <2>1, <4>1
      <3>2. Holder' = None
        BY <1>2, <3>1
      <3> QED
        BY <1>3, <1>6, <2>1, <2>2, <3>2 DEF Section!Leave
    <2>3. CASE level[t] # 1
      <3>1. level'[t] > 0
        BY <1>0, <1>6, <2>3 DEF TypeOK
      <3>2. Holder' = t
        BY <1>2, <3>1
      <3> QED
        BY <1>3, <1>6, <2>1, <2>3, <3>2 DEF Section!Leave
    <2> QED
      BY <2>2, <2>3
  <1> QED
    BY <1>4, <1>5, <1>6

(* A process that dies takes its thread out of the section; a death        *)
(* elsewhere leaves the section alone.                                     *)
LEMMA CrashIsMapped ==
  ASSUME LockInv, LockInv', NEW p \in Procs, Crash(p)
  PROVE  (\E t \in Threads : Section!Die(t)) \/ UNCHANGED <<Holder, Nesting>>
  <1> USE NoneAssumption
  <1>0. TypeOK
    BY DEF LockInv
  <1>1. \A t \in Threads : level'[t] = IF ProcOf[t] = p THEN 0 ELSE level[t]
    BY DEF Crash
  <1>2. /\ \A s \in Threads : level[s] > 0 => Holder = s
        /\ (\A s \in Threads : ~(level[s] > 0)) => Holder = None
    BY HolderInBody DEF HolderIsInside, InBody
  <1>3. /\ \A s \in Threads : level'[s] > 0 => Holder' = s
        /\ (\A s \in Threads : ~(level'[s] > 0)) => Holder' = None
    BY HolderInBodyNext DEF HolderIsInside, InBody
  <1>4. CASE \E t \in Threads : level[t] > 0 /\ ProcOf[t] = p
    <2>1. PICK t \in Threads : level[t] > 0 /\ ProcOf[t] = p
      BY <1>4
    <2>2. Holder = t
      BY <1>2, <2>1
    <2>3. ASSUME NEW s \in Threads, level'[s] > 0 PROVE FALSE
      <3>1. ProcOf[s] # p /\ level[s] > 0
        BY <1>1, <2>3
      <3> QED
        BY <1>2, <2>1, <2>2, <3>1
    <2>4. Holder' = None
      BY <1>3, <2>3
    <2>5. Section!Die(t)
      BY <2>2, <2>4 DEF Section!Die
    <2> QED
      BY <2>5
  <1>5. CASE \A t \in Threads : level[t] > 0 => ProcOf[t] # p
    <2>1. \A t \in Threads : level[t] \in Nat
      BY <1>0, MaxDepthAssumption DEF TypeOK
    <2>2. \A t \in Threads : level'[t] = level[t]
      BY <1>1, <1>5, <2>1
    <2>3. Holder' = Holder
      BY <1>2, <1>3, <2>2
    <2>4. Holder = None \/ Holder \in Threads
      BY <1>2
    <2> QED
      BY <2>2, <2>3, <2>4 DEF Nesting
  <1> QED
    BY <1>4, <1>5

(* The lock implements the abstract exclusive section: every step is a     *)
(* step of the section or leaves it alone.                                 *)
THEOREM LockImplementsSection == Spec => ImplementsSection
  <1> USE NoneAssumption
  <1>1. Init => Section!Init
    BY DEF Init, Section!Init, Holder, InBody
  <1>2. LockInv /\ LockInv' /\ [Next]_vars => [Section!Next]_<<Holder, Nesting>>
    <2> SUFFICES ASSUME LockInv, LockInv', [Next]_vars
                 PROVE  [Section!Next]_<<Holder, Nesting>>
      OBVIOUS
    <2>0. TypeOK /\ PcAndLevel /\ MaxDepth \in Nat
      BY MaxDepthAssumption DEF LockInv
    <2>1. ASSUME level' = level PROVE UNCHANGED <<Holder, Nesting>>
      BY <2>1 DEF Holder, Nesting, InBody
    <2>2. ASSUME NEW t \in Threads, NEW previous, EnterBody(t, previous) PROVE Section!Next
      <3>1. /\ \A s \in Threads \ {t} : level'[s] = level[s]
            /\ level[t] \in Nat
            /\ level'[t] = level[t] + 1
        BY <2>0, <2>2 DEF EnterBody, TypeOK
      <3>2. Section!Enter(t) \/ Section!EnterAgain(t)
        BY <3>1, LevelsAreMappedSteps
      <3> QED
        BY <3>2 DEF Section!Next
    <2>3. ASSUME NEW t \in Threads, Leave(t) PROVE Section!Next
      <3>1. /\ \A s \in Threads \ {t} : level'[s] = level[s]
            /\ level[t] \in Nat /\ level[t] > 0
            /\ level'[t] = level[t] - 1
        BY <2>0, <2>3 DEF Leave, TypeOK, PcAndLevel
      <3>2. Section!Leave(t)
        BY <3>1, LevelsAreMappedSteps
      <3> QED
        BY <3>2 DEF Section!Next
    <2>4. ASSUME NEW p \in Procs, Crash(p) PROVE [Section!Next]_<<Holder, Nesting>>
      BY <2>4, CrashIsMapped DEF Section!Next
    <2>5. ASSUME NEW t \in Threads, LockStep(t) PROVE [Section!Next]_<<Holder, Nesting>>
      <3>1. (\E previous : EnterBody(t, previous)) \/ level' = level
        BY <2>5
        DEF LockStep, AcquireMutex, TryLock, EnterOutermost, AttemptFails, PollAgain, GiveUp,
            AbandonLock, Unlock, ReleaseMutex
      <3> QED
        BY <2>1, <2>2, <3>1
    <2>6. ASSUME \/ \E t \in Threads : Expire(t)
                 \/ \E t \in Threads, e \in MayEvent : Call(t, e)
                 \/ \E e \in Events : Cancel(e)
                 \/ \E p, c \in Procs : Fork(p, c)
                 \/ UNCHANGED vars
          PROVE  level' = level
      BY <2>6 DEF Expire, Call, Cancel, Fork, threadVars, vars
    <2> QED
      BY <2>1, <2>3, <2>4, <2>5, <2>6 DEF Next
  <1>3. Spec => []LockInv
    BY LockInvariant
  <1> QED
    BY <1>1, <1>2, <1>3, PTL DEF Spec, ImplementsSection, Section!Spec, Nesting
-----------------------------------------------------------------------------
(* Who keeps the lock file open.  A thread on its way in or inside has its *)
(* process's descriptor (HasFile); a descriptor belongs to a live process  *)
(* that inherited none (FileIsOwn); a thread that made a call has dropped  *)
(* what its process inherited (DropsInherited).                            *)
UsesFile(t) == level[t] > 0 \/ pc[t] \in {"flock", "flockWait", "locked", "unlock"}

HasFile == \A t \in Threads : UsesFile(t) => fd[ProcOf[t]]

FileIsOwn == \A p \in Procs : fd[p] => life[p] = "alive" /\ inherited[p] = None

DropsInherited == \A t \in Threads : pc[t] # "out" => inherited[ProcOf[t]] = None

HolderWasStarted == flock # None => life[flock] # "unborn"

FileInv == HasFile /\ FileIsOwn /\ DropsInherited /\ HolderWasStarted /\ LockIsNotStranded

LEMMA FileInit == Init => FileInv
  <1> USE ProcOfAssumption, NoneAssumption
  <1> QED
    BY DEF Init, FileInv, HasFile, UsesFile, FileIsOwn, DropsInherited, HolderWasStarted,
           LockIsNotStranded

(* A thread of the holder's process that waits for the file is not the one *)
(* inside: the mutex keeps the two apart.                                  *)
LEMMA OneUserOfTheFile ==
  ASSUME LockInv, NEW s \in Threads, NEW t \in Threads,
         UsesFile(s), UsesFile(t), ProcOf[s] = ProcOf[t]
  PROVE  s = t
  BY DEF LockInv, OwnsMutex, Owns, InCritical, UsesFile

(* The steps that leave the processes and the lock alone.                  *)
LEMMA QuietKeepsFile ==
  ASSUME LockInv, FileInv, UNCHANGED <<life, inherited, flock>>,
         \A p \in Procs : fd[p] => fd'[p],
         \A p \in Procs : fd'[p] => fd[p] \/ \E t \in Threads : ProcOf[t] = p /\ pc[t] # "out",
         \A t \in Threads : UsesFile(t)' => UsesFile(t) \/ fd'[ProcOf[t]],
         \A t \in Threads : pc'[t] # "out" => pc[t] # "out",
         \A t \in Threads : InBody(t) \/ pc[t] \in {"locked", "unlock"} =>
                              (InBody(t) \/ pc[t] \in {"locked", "unlock"})'
  PROVE  FileInv'
  <1> USE ProcOfAssumption, NoneAssumption
  <1>0. TypeOK /\ OnlyAliveRun
    BY DEF LockInv
  <1>1. HasFile'
    BY <1>0 DEF FileInv, HasFile, TypeOK
  <1>2. FileIsOwn'
    <2> SUFFICES ASSUME NEW p \in Procs, fd'[p] PROVE life[p] = "alive" /\ inherited[p] = None
      BY DEF FileIsOwn
    <2>1. CASE fd[p]
      BY <2>1 DEF FileInv, FileIsOwn
    <2>2. CASE \E t \in Threads : ProcOf[t] = p /\ pc[t] # "out"
      BY <1>0, <2>2 DEF FileInv, DropsInherited, OnlyAliveRun
    <2> QED
      BY <2>1, <2>2
  <1>3. DropsInherited'
    BY DEF FileInv, DropsInherited
  <1>4. HolderWasStarted' /\ LockIsNotStranded'
    BY DEF FileInv, HolderWasStarted, LockIsNotStranded, Releasable, InBody
  <1> QED
    BY <1>1, <1>2, <1>3, <1>4 DEF FileInv

LEMMA QuietSteps ==
  ASSUME LockInv, FileInv, NEW t \in Threads,
         \/ AcquireMutex(t) \/ EnterOutermost(t) \/ AttemptFails(t) \/ PollAgain(t)
         \/ ReleaseMutex(t) \/ Leave(t) \/ Expire(t)
  PROVE  FileInv'
  <1> USE ProcOfAssumption, NoneAssumption, MaxDepthAssumption
  <1>0. TypeOK /\ PcAndLevel /\ OwnsMutex /\ MutexCounts /\ HasFile
    BY DEF LockInv, FileInv
  <1>t. /\ pc \in [Threads -> Positions] /\ ProcOf[t] \in Procs
        /\ fd \in [Procs -> BOOLEAN]
        /\ \A s \in Threads : level[s] \in Nat
    BY <1>0 DEF TypeOK
  <1>1. CASE AcquireMutex(t) /\ depth[ProcOf[t]] = 0
    <2>1. /\ UNCHANGED <<life, inherited, flock, level>>
          /\ pc[t] = "mutex"
          /\ fd' = [fd EXCEPT ![ProcOf[t]] = TRUE]
          /\ pc' = [pc EXCEPT ![t] = "flock"]
      BY <1>0, <1>1 DEF AcquireMutex, Goto, procVars, TypeOK
    <2>2. \A s \in Threads : UsesFile(s)' => UsesFile(s) \/ fd'[ProcOf[s]]
      BY <1>t, <2>1 DEF UsesFile
    <2>3. \A p \in Procs : fd[p] => fd'[p]
      BY <1>t, <2>1
    <2>4. \A p \in Procs : fd'[p] => fd[p] \/ \E s \in Threads : ProcOf[s] = p /\ pc[s] # "out"
      BY <1>t, <2>1
    <2>5. \A s \in Threads : pc'[s] # "out" => pc[s] # "out"
      BY <1>t, <2>1
    <2>6. \A s \in Threads : InBody(s) \/ pc[s] \in {"locked", "unlock"} =>
                              (InBody(s) \/ pc[s] \in {"locked", "unlock"})'
      BY <1>t, <2>1 DEF InBody
    <2> QED
      BY <2>1, <2>2, <2>3, <2>4, <2>5, <2>6, QuietKeepsFile
  <1>7. CASE AcquireMutex(t) /\ depth[ProcOf[t]] > 0
    <2>1. /\ UNCHANGED <<life, inherited, flock, fd>>
          /\ pc[t] = "mutex"
          /\ pc' = [pc EXCEPT ![t] = "body"]
          /\ level' = [level EXCEPT ![t] = level[t] + 1]
      BY <1>0, <1>7 DEF AcquireMutex, EnterBody, EndCall, Goto, procVars, TypeOK
    <2>2. fd[ProcOf[t]]
      BY <1>0, <1>7, <2>1
      DEF AcquireMutex, TypeOK, OwnsMutex, MutexCounts, Owns, InCritical, UsesFile, HasFile
    <2>3. \A s \in Threads : UsesFile(s)' => UsesFile(s) \/ fd'[ProcOf[s]]
      BY <1>t, <2>1, <2>2 DEF UsesFile
    <2> QED
      BY <1>t, <2>1, <2>3, QuietKeepsFile DEF InBody
  <1>2. CASE EnterOutermost(t)
    <2>1. /\ UNCHANGED <<life, inherited, flock, fd>>
          /\ pc[t] = "locked" /\ pc' = [pc EXCEPT ![t] = "body"]
          /\ level' = [level EXCEPT ![t] = level[t] + 1]
      BY <1>2 DEF EnterOutermost, EnterBody, EndCall, Goto, procVars
    <2>2. \A s \in Threads : UsesFile(s)' => UsesFile(s) \/ fd'[ProcOf[s]]
      BY <1>t, <2>1 DEF UsesFile
    <2> QED
      BY <1>0, <1>t, <2>1, <2>2, QuietKeepsFile DEF InBody, TypeOK
  <1>3. CASE AttemptFails(t) \/ PollAgain(t)
    <2>1. /\ UNCHANGED <<life, inherited, flock, fd, level>>
          /\ \/ pc[t] \in {"mutex", "mutexWait"} /\ pc' \in {[pc EXCEPT ![t] = q] : q \in {"mutex", "mutexWait"}}
             \/ pc[t] \in {"flock", "flockWait"} /\ pc' \in {[pc EXCEPT ![t] = q] : q \in {"flock", "flockWait"}}
      BY <1>3 DEF AttemptFails, PollAgain, Goto, procVars, entryVars
    <2>2. \A s \in Threads : UsesFile(s)' => UsesFile(s) \/ fd'[ProcOf[s]]
      BY <1>t, <2>1 DEF UsesFile
    <2> QED
      BY <1>t, <2>1, <2>2, QuietKeepsFile DEF InBody
  <1>4. CASE ReleaseMutex(t)
    <2>1. /\ UNCHANGED <<life, inherited, flock, fd, level>>
          /\ pc[t] = "release"
          /\ pc' = [pc EXCEPT ![t] = CallerOf(t)]
      BY <1>4 DEF ReleaseMutex, Goto, procVars
    <2>2. \A s \in Threads : UsesFile(s)' => UsesFile(s) \/ fd'[ProcOf[s]]
      BY <1>t, <2>1 DEF UsesFile, CallerOf
    <2> QED
      BY <1>t, <2>1, <2>2, QuietKeepsFile DEF InBody
  <1>5. CASE Leave(t)
    <2>1. /\ UNCHANGED <<life, inherited, flock, fd>>
          /\ pc[t] = "body" /\ level[t] > 0
          /\ level' = [level EXCEPT ![t] = level[t] - 1]
          /\ pc' = [pc EXCEPT ![t] = AfterBody(ProcOf[t])]
      BY <1>0, <1>5 DEF Leave, Goto, procVars, PcAndLevel
    <2>2. level[t] = 1 => AfterBody(ProcOf[t]) = "unlock"
      BY <1>0, <2>1 DEF OwnsMutex, Owns, MutexCounts, AfterBody
    <2>3. \A s \in Threads : UsesFile(s)' => UsesFile(s) \/ fd'[ProcOf[s]]
      BY <1>t, <2>1, <2>2 DEF UsesFile
    <2>4. (InBody(t) \/ pc[t] \in {"locked", "unlock"})'
      BY <1>t, <2>1, <2>2 DEF InBody, TypeOK
    <2> QED
      BY <1>t, <2>1, <2>3, <2>4, QuietKeepsFile DEF InBody
  <1>6. CASE Expire(t)
    BY <1>6, QuietKeepsFile DEF Expire, procVars, entryVars, InBody, UsesFile
  <1> QED
    <2>1. depth[ProcOf[t]] \in Nat
      BY <1>0, <1>t DEF TypeOK
    <2> QED
      BY <1>1, <1>2, <1>3, <1>4, <1>5, <1>6, <1>7, <2>1

(* A descriptor of somebody else's description closes: whoever holds the   *)
(* lock through another copy still holds it.                               *)
LEMMA CloseInherited ==
  ASSUME LockInv, FileInv, NEW p \in Procs, life[p] = "alive", inherited[p] # None,
         flock' = FlockAfterClose(inherited[p], p), flock' # None
  PROVE  /\ flock' = flock
         /\ flock # p
         /\ life[flock] # "alive" =>
              \E c \in Procs \ {p} : life[c] = "alive" /\ inherited[c] = flock
  <1> USE ProcOfAssumption, NoneAssumption
  <1>0. TypeOK /\ HoldsFlock /\ HasFile /\ FileIsOwn /\ LockIsNotStranded
    BY DEF LockInv, FileInv
  <1>1. flock' = flock /\ flock # None
    BY DEF FlockAfterClose
  <1>2. flock # p
    <2> SUFFICES ASSUME flock = p PROVE FALSE
      OBVIOUS
    <2>1. PICK t \in Threads : ProcOf[t] = p /\ UsesFile(t)
      BY <1>0, <1>1 DEF LockIsNotStranded, Releasable, InBody, UsesFile
    <2> QED
      BY <1>0, <2>1 DEF HasFile, FileIsOwn
  <1>3. ASSUME life[flock] # "alive"
        PROVE  \E c \in Procs \ {p} : life[c] = "alive" /\ inherited[c] = flock
    <2>1. PICK c \in Procs : life[c] = "alive" /\ inherited[c] = flock
      BY <1>0, <1>1, <1>3 DEF LockIsNotStranded, Releasable
    <2>2. CASE c # p
      BY <2>1, <2>2
    <2>3. CASE c = p
      <3>1. OtherCopies(flock, p) # {}
        BY <1>1, <2>1, <2>3 DEF FlockAfterClose
      <3> QED
        BY <1>3, <3>1 DEF OtherCopies
    <2> QED
      BY <2>2, <2>3
  <1> QED
    BY <1>1, <1>2, <1>3

LEMMA IdleKeepsFile ==
  ASSUME LockInv, FileInv, (\E e \in Events : Cancel(e)) \/ UNCHANGED vars
  PROVE  FileInv'
  BY QuietKeepsFile
  DEF Cancel, vars, procVars, entryVars, threadVars, InBody, UsesFile

LEMMA CallKeepsFile ==
  ASSUME LockInv, FileInv, NEW t \in Threads, NEW e \in MayEvent, Call(t, e)
  PROVE  FileInv'
  <1> USE ProcOfAssumption, NoneAssumption
  <1> DEFINE p == ProcOf[t]
  <1>0. TypeOK /\ PcAndLevel /\ HasFile /\ FileIsOwn /\ DropsInherited /\ HolderWasStarted
        /\ LockIsNotStranded
    BY DEF LockInv, FileInv
  <1>1. /\ p \in Procs /\ life[p] = "alive"
        /\ pc[t] \in {"out", "body"}
        /\ UNCHANGED <<life, fd, level>>
        /\ inherited' = [inherited EXCEPT ![p] = None]
        /\ pc' = pc \/ pc' = [pc EXCEPT ![t] = "mutex"]
        /\ flock' = IF inherited[p] = None THEN flock ELSE FlockAfterClose(inherited[p], p)
    BY DEF Call, Goto, entryVars
  <1>2. /\ inherited \in [Procs -> Procs \cup {None}]
        /\ pc \in [Threads -> Positions]
    BY <1>0 DEF TypeOK
  <1>3. HasFile'
    BY <1>0, <1>1, <1>2 DEF HasFile, UsesFile
  <1>4. FileIsOwn'
    BY <1>0, <1>1, <1>2 DEF FileIsOwn
  <1>5. DropsInherited'
    BY <1>0, <1>1, <1>2 DEF DropsInherited
  <1>6. /\ flock' # None => flock' = flock
        /\ flock' # None /\ life[flock] # "alive" =>
             \E c \in Procs \ {p} : life[c] = "alive" /\ inherited[c] = flock
    <2>1. CASE inherited[p] = None
      BY <1>0, <1>1, <2>1 DEF LockIsNotStranded, Releasable
    <2>2. CASE inherited[p] # None
      BY <1>1, <2>2, CloseInherited
    <2> QED
      BY <2>1, <2>2
  <1>7. HolderWasStarted'
    BY <1>0, <1>1, <1>6 DEF HolderWasStarted
  <1>8. LockIsNotStranded'
    <2> SUFFICES ASSUME flock' # None PROVE Releasable(flock)'
      BY <1>6 DEF LockIsNotStranded, Releasable
    <2>1. CASE life[flock] = "alive"
      <3>1. PICK s \in Threads : ProcOf[s] = flock /\ (InBody(s) \/ pc[s] \in {"locked", "unlock"})
        BY <1>0, <1>6, <2>1 DEF LockIsNotStranded, Releasable
      <3>2. InBody(s)' \/ pc'[s] \in {"locked", "unlock"}
        BY <1>1, <1>2, <3>1 DEF InBody
      <3> QED
        BY <1>1, <1>6, <2>1, <3>1, <3>2 DEF Releasable
    <2>2. CASE life[flock] # "alive"
      <3>1. PICK c \in Procs \ {p} : life[c] = "alive" /\ inherited[c] = flock
        BY <1>6, <2>2
      <3>2. inherited'[c] = flock
        BY <1>1, <1>2, <3>1
      <3> QED
        BY <1>1, <1>6, <2>2, <3>1, <3>2 DEF Releasable
    <2> QED
      BY <2>1, <2>2
  <1> QED
    BY <1>3, <1>4, <1>5, <1>7, <1>8 DEF FileInv

LEMMA TryLockKeepsFile ==
  ASSUME LockInv, FileInv, NEW t \in Threads, TryLock(t)
  PROVE  FileInv'
  <1> USE ProcOfAssumption, NoneAssumption
  <1>1. /\ pc[t] = "flock" /\ flock' = ProcOf[t]
        /\ pc' = [pc EXCEPT ![t] = "locked"]
        /\ UNCHANGED <<life, inherited, fd, level>>
    BY DEF TryLock, Goto, entryVars
  <1>2. pc \in [Threads -> Positions] /\ life[ProcOf[t]] = "alive"
    BY <1>1 DEF LockInv, TypeOK, OnlyAliveRun
  <1>3. HasFile' /\ FileIsOwn' /\ DropsInherited'
    BY <1>1, <1>2 DEF FileInv, HasFile, UsesFile, FileIsOwn, DropsInherited
  <1>4. HolderWasStarted' /\ LockIsNotStranded'
    BY <1>1, <1>2 DEF HolderWasStarted, LockIsNotStranded, Releasable
  <1> QED
    BY <1>3, <1>4 DEF FileInv

(* A process closes its own description: it held the lock by it and        *)
(* unlocks, or it does not hold it.                                        *)
LEMMA ClosingKeepsFile ==
  ASSUME LockInv, FileInv, NEW t \in Threads, UsesFile(t), level[t] = 0,
         CloseLockFile(ProcOf[t]), UNCHANGED <<life, level>>,
         pc' = [pc EXCEPT ![t] = "release"],
         flock' = None \/ (flock' = flock /\ flock # ProcOf[t])
  PROVE  FileInv'
  <1> USE ProcOfAssumption, NoneAssumption
  <1> DEFINE p == ProcOf[t]
  <1>0. TypeOK /\ HasFile /\ FileIsOwn /\ DropsInherited /\ HolderWasStarted /\ LockIsNotStranded
    BY DEF LockInv, FileInv
  <1>1. /\ p \in Procs /\ pc \in [Threads -> Positions]
        /\ fd' = [fd EXCEPT ![p] = FALSE]
        /\ fd \in [Procs -> BOOLEAN]
        /\ \A r \in Procs : inherited'[r] = IF inherited[r] = p THEN None ELSE inherited[r]
    BY <1>0 DEF TypeOK, CloseLockFile
  <1>2. HasFile'
    <2> SUFFICES ASSUME NEW s \in Threads, UsesFile(s)' PROVE fd'[ProcOf[s]]
      BY DEF HasFile
    <2>1. s # t
      BY <1>1 DEF UsesFile
    <2>2. UsesFile(s)
      BY <1>1, <2>1 DEF UsesFile
    <2>3. ProcOf[s] # p
      BY <2>1, <2>2, OneUserOfTheFile
    <2> QED
      BY <1>0, <1>1, <2>2, <2>3 DEF HasFile
  <1>3. FileIsOwn' /\ HolderWasStarted'
    BY <1>0, <1>1 DEF FileIsOwn, HolderWasStarted
  <1>4. DropsInherited'
    <2>1. inherited[p] = None
      BY <1>0 DEF HasFile, FileIsOwn
    <2> QED
      BY <1>0, <1>1, <2>1 DEF DropsInherited
  <1>5. LockIsNotStranded'
    <2> SUFFICES ASSUME flock # None, flock' = flock, flock # p PROVE Releasable(flock)'
      BY DEF LockIsNotStranded, Releasable
    <2>1. CASE life[flock] = "alive"
      <3>1. PICK s \in Threads : ProcOf[s] = flock /\ (InBody(s) \/ pc[s] \in {"locked", "unlock"})
        BY <1>0, <2>1 DEF LockIsNotStranded, Releasable
      <3>2. InBody(s)' \/ pc'[s] \in {"locked", "unlock"}
        BY <1>1, <3>1 DEF InBody
      <3> QED
        BY <2>1, <3>1, <3>2 DEF Releasable
    <2>2. CASE life[flock] # "alive"
      <3>1. PICK c \in Procs : life[c] = "alive" /\ inherited[c] = flock
        BY <1>0, <2>2 DEF LockIsNotStranded, Releasable
      <3>2. inherited'[c] = flock
        BY <1>1, <3>1
      <3> QED
        BY <2>2, <3>1, <3>2 DEF Releasable
    <2> QED
      BY <2>1, <2>2
  <1> QED
    BY <1>2, <1>3, <1>4, <1>5 DEF FileInv

LEMMA ClosingSteps ==
  ASSUME LockInv, FileInv, NEW t \in Threads, GiveUp(t) \/ AbandonLock(t) \/ Unlock(t)
  PROVE  FileInv'
  <1> USE ProcOfAssumption, NoneAssumption
  <1>0. TypeOK /\ PcAndLevel /\ HasFile /\ FileIsOwn
    BY DEF LockInv, FileInv
  <1>1. CASE AbandonLock(t) \/ Unlock(t)
    <2>1. /\ pc[t] \in {"locked", "unlock"} /\ level[t] = 0
          /\ CloseLockFile(ProcOf[t]) /\ flock' = None
          /\ UNCHANGED <<life, level>>
          /\ pc' = [pc EXCEPT ![t] = "release"]
      BY <1>0, <1>1 DEF AbandonLock, Unlock, UnlockAndClose, Goto, PcAndLevel
    <2> QED
      BY <2>1, ClosingKeepsFile DEF UsesFile
  <1>2. CASE GiveUp(t) /\ pc[t] = "flockWait"
    <2>1. /\ level[t] = 0 /\ UsesFile(t)
          /\ CloseLockFile(ProcOf[t]) /\ flock' = flock
          /\ UNCHANGED <<life, level>>
          /\ pc' = [pc EXCEPT ![t] = "release"]
      BY <1>0, <1>2 DEF GiveUp, Goto, PcAndLevel, UsesFile
    <2>2. ASSUME flock = ProcOf[t] PROVE FALSE
      <3>1. fd[flock] /\ life[flock] = "alive" /\ flock # None
        BY <1>0, <2>1, <2>2 DEF HasFile, FileIsOwn
      <3>2. PICK s \in Threads : ProcOf[s] = flock /\ (InBody(s) \/ pc[s] \in {"locked", "unlock"})
        BY <3>1 DEF FileInv, LockIsNotStranded, Releasable
      <3>3. s = t
        BY <2>1, <2>2, <3>2, OneUserOfTheFile DEF UsesFile, InBody
      <3> QED
        BY <1>2, <2>1, <3>2, <3>3 DEF InBody
    <2> QED
      BY <2>1, <2>2, ClosingKeepsFile
  <1>3. CASE GiveUp(t) /\ pc[t] # "flockWait"
    <2>1. /\ pc[t] = "mutexWait"
          /\ pc' = [pc EXCEPT ![t] = CallerOf(t)]
          /\ UNCHANGED <<life, inherited, flock, fd, level>>
      BY <1>3 DEF GiveUp, Goto
    <2>2. pc \in [Threads -> Positions]
      BY <1>0 DEF TypeOK
    <2>3. \A s \in Threads : UsesFile(s)' => UsesFile(s) \/ fd'[ProcOf[s]]
      BY <2>1, <2>2 DEF UsesFile, CallerOf
    <2> QED
      BY <2>1, <2>2, <2>3, QuietKeepsFile DEF InBody
  <1> QED
    BY <1>1, <1>2, <1>3

LEMMA ForkKeepsFile ==
  ASSUME LockInv, FileInv, NEW p \in Procs, NEW c \in Procs, Fork(p, c)
  PROVE  FileInv'
  <1> USE ProcOfAssumption, NoneAssumption
  <1>0. TypeOK /\ OnlyAliveRun /\ HasFile /\ FileIsOwn /\ DropsInherited /\ HolderWasStarted
        /\ LockIsNotStranded
    BY DEF LockInv, FileInv
  <1>1. /\ life[c] = "unborn" /\ c # p
        /\ life' = [life EXCEPT ![c] = "alive"]
        /\ \E q : inherited' = [inherited EXCEPT ![c] = q]
        /\ UNCHANGED <<flock, fd, pc, level>>
    BY DEF Fork, entryVars, threadVars
  <1>2. /\ life \in [Procs -> {"unborn", "alive", "dead"}]
        /\ inherited \in [Procs -> Procs \cup {None}]
    BY <1>0 DEF TypeOK
  <1>3. HasFile'
    BY <1>0, <1>1 DEF HasFile, UsesFile
  <1>4. FileIsOwn'
    BY <1>0, <1>1, <1>2 DEF FileIsOwn
  <1>5. DropsInherited'
    BY <1>0, <1>1, <1>2 DEF DropsInherited, OnlyAliveRun
  <1>6. HolderWasStarted'
    BY <1>0, <1>1, <1>2 DEF HolderWasStarted
  <1>7. LockIsNotStranded'
    <2>1. flock # c
      BY <1>0, <1>1 DEF HolderWasStarted, TypeOK
    <2>2. flock # None => life'[flock] = life[flock]
      BY <1>0, <1>1, <1>2, <2>1 DEF TypeOK
    <2>3. \A r \in Procs : life[r] = "alive" => life'[r] = "alive" /\ inherited'[r] = inherited[r]
      BY <1>1, <1>2
    <2> QED
      BY <1>0, <1>1, <2>2, <2>3 DEF LockIsNotStranded, Releasable, InBody
  <1> QED
    BY <1>3, <1>4, <1>5, <1>6, <1>7 DEF FileInv

LEMMA CrashKeepsFile ==
  ASSUME LockInv, FileInv, NEW p \in Procs, Crash(p)
  PROVE  FileInv'
  <1> USE ProcOfAssumption, NoneAssumption
  <1>0. TypeOK /\ HasFile /\ FileIsOwn /\ DropsInherited /\ HolderWasStarted /\ LockIsNotStranded
    BY DEF LockInv, FileInv
  <1>1. /\ life[p] = "alive"
        /\ life' = [life EXCEPT ![p] = "dead"]
        /\ inherited' = [inherited EXCEPT ![p] = None]
        /\ fd' = [fd EXCEPT ![p] = FALSE]
        /\ \A t \in Threads : pc'[t] = IF ProcOf[t] = p THEN "out" ELSE pc[t]
        /\ \A t \in Threads : level'[t] = IF ProcOf[t] = p THEN 0 ELSE level[t]
        /\ flock' = IF fd[p] THEN FlockAfterClose(p, p)
                    ELSE IF inherited[p] = None THEN flock
                    ELSE FlockAfterClose(inherited[p], p)
    BY DEF Crash
  <1>2. /\ life \in [Procs -> {"unborn", "alive", "dead"}]
        /\ inherited \in [Procs -> Procs \cup {None}]
        /\ fd \in [Procs -> BOOLEAN]
        /\ flock \in Procs \cup {None}
    BY <1>0 DEF TypeOK
  <1>3. HasFile'
    BY <1>0, <1>1, <1>2 DEF HasFile, UsesFile
  <1>4. FileIsOwn' /\ DropsInherited'
    BY <1>0, <1>1, <1>2 DEF FileIsOwn, DropsInherited
  <1>5. flock' # None => flock' = flock
    BY <1>1 DEF FlockAfterClose
  <1>6. HolderWasStarted'
    BY <1>0, <1>1, <1>2, <1>5 DEF HolderWasStarted
  (* The lock outlives p only if p had no part in it, or a child is left.  *)
  <1>7. ASSUME flock' # None
        PROVE  IF flock # p /\ life[flock] = "alive" THEN TRUE
               ELSE \E c \in Procs \ {p} : life[c] = "alive" /\ inherited[c] = flock
    <2>0. flock # None
      BY <1>5, <1>7
    <2>1. CASE fd[p]
      <3>1. inherited[p] = None
        BY <1>0, <2>1 DEF FileIsOwn
      <3>2. CASE flock = p
        <4>1. OtherCopies(p, p) # {}
          BY <1>1, <1>7, <2>1, <3>2 DEF FlockAfterClose
        <4> QED
          BY <3>2, <4>1 DEF OtherCopies
      <3>3. CASE flock # p
        BY <1>0, <2>0, <3>1, <3>3 DEF LockIsNotStranded, Releasable
      <3> QED
        BY <3>2, <3>3
    <2>2. CASE ~fd[p] /\ inherited[p] # None
      BY <1>1, <1>7, <2>2, CloseInherited
    <2>3. CASE ~fd[p] /\ inherited[p] = None
      <3>1. flock # p
        BY <1>0, <1>1, <2>0, <2>3
        DEF LockIsNotStranded, Releasable, HasFile, UsesFile, InBody
      <3> QED
        BY <1>0, <2>0, <2>3, <3>1 DEF LockIsNotStranded, Releasable
    <2> QED
      BY <2>1, <2>2, <2>3
  <1>8. LockIsNotStranded'
    <2> SUFFICES ASSUME flock' # None PROVE Releasable(flock)'
      BY <1>5 DEF LockIsNotStranded, Releasable
    <2>1. CASE flock # p /\ life[flock] = "alive"
      <3>1. PICK s \in Threads : ProcOf[s] = flock /\ (InBody(s) \/ pc[s] \in {"locked", "unlock"})
        BY <1>0, <1>5, <2>1 DEF LockIsNotStranded, Releasable
      <3>2. (InBody(s) \/ pc[s] \in {"locked", "unlock"})'
        BY <1>1, <2>1, <3>1 DEF InBody
      <3>3. life'[flock] = "alive" /\ flock' = flock
        BY <1>1, <1>2, <1>5, <2>1
      <3> QED
        BY <3>1, <3>2, <3>3 DEF Releasable
    <2>2. CASE ~(flock # p /\ life[flock] = "alive")
      <3>1. PICK c \in Procs \ {p} : life[c] = "alive" /\ inherited[c] = flock
        BY <1>7, <2>2
      <3>2. life'[c] = "alive" /\ inherited'[c] = flock
        BY <1>1, <1>2, <3>1
      <3>3. life'[flock] # "alive" /\ flock' = flock
        BY <1>1, <1>2, <1>5, <2>2
      <3> QED
        BY <3>1, <3>2, <3>3 DEF Releasable
    <2> QED
      BY <2>1, <2>2
  <1> QED
    BY <1>3, <1>4, <1>6, <1>8 DEF FileInv

(* The OS lock is never stranded: while it is held, a thread of the live   *)
(* process that took it is inside or on its way out, or, when that process *)
(* died, a child it forked still lives and still has the descriptor.       *)
THEOREM LockNeverStranded == Spec => []LockIsNotStranded
  <1>1. LockInv /\ FileInv /\ [Next]_vars => FileInv'
    BY QuietSteps, IdleKeepsFile, CallKeepsFile, TryLockKeepsFile, ClosingSteps, ForkKeepsFile,
       CrashKeepsFile
    DEF Next, LockStep
  <1>2. FileInv => LockIsNotStranded
    BY DEF FileInv
  <1> QED
    BY FileInit, LockInvariant, <1>1, <1>2, PTL DEF Spec
-----------------------------------------------------------------------------
(* Which event a body obeys.  Innermost(e, t, i): e is the event given by  *)
(* the innermost of t's transactions below i, None if none gave one.  The  *)
(* entry's event is the innermost of its owner's transactions, and what a  *)
(* transaction saved is the innermost of those around it: leaving one      *)
(* therefore puts the right event back without looking at the others.      *)
Innermost(e, t, i) ==
  \/ e = None /\ \A j \in Levels : j < i => own[t][j] = None
  \/ \E j \in Levels : /\ j < i /\ e = own[t][j] /\ e # None
                       /\ \A k \in Levels : j < k /\ k < i => own[t][k] = None

EntryFollows ==
  \A t \in Threads : level[t] > 0 => Innermost(cancelEvent[ProcOf[t]], t, level[t] + 1)

SavedFollow ==
  \A t \in Threads, i \in Levels : i <= level[t] => Innermost(saved[t][i], t, i)

NoEventLeft == \A p \in Procs : depth[p] = 0 => cancelEvent[p] = None

EventInv == EntryFollows /\ SavedFollow /\ NoEventLeft

LEMMA EventInit == Init => EventInv
  BY ProcOfAssumption, MaxDepthAssumption
  DEF Init, EventInv, EntryFollows, SavedFollow, NoEventLeft, Levels

(* A step that leaves the transactions of a thread alone, or takes all of  *)
(* them away with its process.                                             *)
LEMMA QuietKeepsEvents ==
  ASSUME TypeOK, EventInv,
         \A t \in Threads :
           level'[t] = 0 \/ /\ level'[t] = level[t] /\ own'[t] = own[t] /\ saved'[t] = saved[t]
                            /\ cancelEvent'[ProcOf[t]] = cancelEvent[ProcOf[t]],
         \A p \in Procs : depth'[p] = 0 => cancelEvent'[p] = None
  PROVE  EventInv'
  <1> USE MaxDepthAssumption
  <1>1. \A t \in Threads : level[t] \in Nat
    BY DEF TypeOK
  <1>2. ASSUME NEW t \in Threads, level'[t] > 0
        PROVE  Innermost(cancelEvent[ProcOf[t]], t, level[t] + 1)'
    <2>1. /\ level'[t] = level[t] /\ own'[t] = own[t]
          /\ cancelEvent'[ProcOf[t]] = cancelEvent[ProcOf[t]]
      BY <1>2
    <2> QED
      BY <1>2, <2>1 DEF EventInv, EntryFollows, Innermost
  <1>3. ASSUME NEW t \in Threads, NEW i \in Levels, i <= level'[t]
        PROVE  Innermost(saved[t][i], t, i)'
    <2>1. level'[t] = level[t] /\ own'[t] = own[t] /\ saved'[t] = saved[t]
      BY <1>3 DEF Levels
    <2> QED
      BY <1>3, <2>1 DEF EventInv, SavedFollow, Innermost
  <1> QED
    BY <1>2, <1>3 DEF EventInv, EntryFollows, SavedFollow, NoEventLeft

(* Entering a transaction, outermost or nested.                            *)
LEMMA EnterKeepsEvents ==
  ASSUME LockInv, EventInv, NEW t \in Threads, Owns(t), level[t] < MaxDepth,
         EnterBody(t, cancelEvent[ProcOf[t]])
  PROVE  EventInv'
  <1> USE ProcOfAssumption, NoneAssumption, MaxDepthAssumption
  <1> DEFINE p == ProcOf[t]
  <1>0. TypeOK /\ OwnsMutex /\ MutexCounts
    BY DEF LockInv
  <1>i. PICK i \in Levels : i = level[t] + 1
    BY <1>0 DEF TypeOK, Levels
  <1>1. /\ p \in Procs /\ level[t] \in Nat
        /\ mutexOwner[p] = t /\ depth[p] = level[t] /\ depth[p] \in Nat
    BY <1>0 DEF TypeOK, OwnsMutex, MutexCounts, Levels
  <1>2. /\ depth' = [depth EXCEPT ![p] = @ + 1]
        /\ level' = [level EXCEPT ![t] = i]
        /\ own' = [own EXCEPT ![t][i] = arg[t]]
        /\ saved' = [saved EXCEPT ![t][i] = cancelEvent[p]]
        /\ cancelEvent' = [cancelEvent EXCEPT ![p] = IF arg[t] = None THEN @ ELSE arg[t]]
    BY <1>i DEF EnterBody
  <1>3. Innermost(cancelEvent[p], t, i)
    BY <1>0, <1>i, <1>1 DEF EventInv, EntryFollows, NoEventLeft, Innermost, Levels
  <1>4. /\ own'[t][i] = arg[t] /\ saved'[t][i] = cancelEvent[p]
        /\ \A j \in Levels : j # i => own'[t][j] = own[t][j] /\ saved'[t][j] = saved[t][j]
        /\ level'[t] = i
        /\ cancelEvent'[p] = IF own'[t][i] = None THEN cancelEvent[p] ELSE own'[t][i]
    BY <1>0, <1>1, <1>2 DEF TypeOK
  <1>5. ASSUME NEW e, NEW k \in Levels, k <= i, Innermost(e, t, k) PROVE Innermost(e, t, k)'
    BY <1>1, <1>4, <1>5 DEF Innermost, Levels
  <1>6. Innermost(cancelEvent[p], t, i + 1)'
    <2>1. \A j \in Levels : j < i + 1 => j < i \/ j = i
      BY <1>1 DEF Levels
    <2>2. i < i + 1 /\ \A j \in Levels : j < i => j < i + 1 /\ j # i
      BY <1>1 DEF Levels
    <2>3. CASE own'[t][i] # None
      <3>1. \A k \in Levels : ~(i < k /\ k < i + 1)
        BY <1>1 DEF Levels
      <3> QED
        BY <1>1, <1>4, <2>2, <2>3, <3>1 DEF Innermost
    <2>4. CASE own'[t][i] = None
      <3>1. cancelEvent'[p] = cancelEvent[p]
        BY <1>4, <2>4
      <3> QED
        BY <1>3, <1>4, <2>1, <2>2, <2>4, <3>1 DEF Innermost
    <2> QED
      BY <2>3, <2>4
  <1>7. ASSUME NEW s \in Threads, s # t, level'[s] > 0
        PROVE  /\ level'[s] = level[s] /\ own'[s] = own[s] /\ saved'[s] = saved[s]
               /\ cancelEvent'[ProcOf[s]] = cancelEvent[ProcOf[s]]
    <2>1. level'[s] = level[s] /\ own'[s] = own[s] /\ saved'[s] = saved[s]
      BY <1>0, <1>1, <1>2, <1>7 DEF TypeOK
    <2>2. ProcOf[s] # p
      BY <1>0, <1>1, <1>7, <2>1 DEF OwnsMutex, Owns
    <2> QED
      BY <1>0, <1>1, <1>2, <2>1, <2>2 DEF TypeOK
  <1>8. EntryFollows'
    <2> SUFFICES ASSUME NEW s \in Threads, level'[s] > 0
                 PROVE  Innermost(cancelEvent[ProcOf[s]], s, level[s] + 1)'
      BY DEF EntryFollows
    <2>1. CASE s = t
      BY <1>4, <1>6, <2>1
    <2>2. CASE s # t
      BY <1>7, <2>2 DEF EventInv, EntryFollows, Innermost
    <2> QED
      BY <2>1, <2>2
  <1>9. SavedFollow'
    <2> SUFFICES ASSUME NEW s \in Threads, NEW k \in Levels, k <= level'[s]
                 PROVE  Innermost(saved[s][k], s, k)'
      BY DEF SavedFollow
    <2>1. CASE s = t /\ k = i
      BY <1>1, <1>3, <1>4, <1>5, <2>1
    <2>2. CASE s = t /\ k # i
      <3>1. k <= level[t] /\ k <= i
        BY <1>i, <1>1, <1>4, <2>2 DEF Levels
      <3>2. Innermost(saved[t][k], t, k)
        BY <3>1 DEF EventInv, SavedFollow
      <3>3. Innermost(saved[t][k], t, k)'
        BY <1>1, <1>4, <2>2, <3>1, <3>2 DEF Innermost, Levels
      <3> QED
        BY <2>2, <3>3
    <2>3. CASE s # t
      <3>1. level'[s] > 0
        BY <1>0, <1>2, <1>1, <2>3 DEF Levels, TypeOK
      <3> QED
        BY <1>7, <2>3, <3>1 DEF EventInv, SavedFollow, Innermost
    <2> QED
      BY <2>1, <2>2, <2>3
  <1>10. NoEventLeft'
    <2> SUFFICES ASSUME NEW r \in Procs, depth'[r] = 0 PROVE cancelEvent'[r] = None
      BY DEF NoEventLeft
    <2>1. r # p
      BY <1>0, <1>1, <1>2 DEF TypeOK
    <2> QED
      BY <1>0, <1>1, <1>2, <2>1 DEF EventInv, NoEventLeft, TypeOK
  <1> QED
    BY <1>8, <1>9, <1>10 DEF EventInv

(* Leaving a transaction puts back what it saved.                          *)
LEMMA LeaveKeepsEvents ==
  ASSUME LockInv, EventInv, NEW t \in Threads, Leave(t)
  PROVE  EventInv'
  <1> USE ProcOfAssumption, NoneAssumption, MaxDepthAssumption
  <1> DEFINE p == ProcOf[t]
  <1>0. TypeOK /\ OwnsMutex /\ MutexCounts /\ PcAndLevel
    BY DEF LockInv
  <1>i. PICK i \in Levels : i = level[t]
    BY <1>0 DEF TypeOK, PcAndLevel, Levels, Leave
  <1>1. /\ p \in Procs
        /\ mutexOwner[p] = t /\ depth[p] = i
    BY <1>0, <1>i DEF TypeOK, OwnsMutex, Owns, MutexCounts, PcAndLevel, Levels, Leave
  <1>2. /\ depth' = [depth EXCEPT ![p] = @ - 1]
        /\ level' = [level EXCEPT ![t] = i - 1]
        /\ own' = [own EXCEPT ![t][i] = None]
        /\ saved' = [saved EXCEPT ![t][i] = None]
        /\ cancelEvent' = [cancelEvent EXCEPT ![p] = saved[t][i]]
    BY <1>i DEF Leave, RestoredEvent
  <1>3. Innermost(saved[t][i], t, i)
    BY <1>i, <1>1 DEF EventInv, SavedFollow, Levels
  <1>4. /\ \A j \in Levels : j # i => own'[t][j] = own[t][j] /\ saved'[t][j] = saved[t][j]
        /\ level'[t] = i - 1
        /\ cancelEvent'[p] = saved[t][i]
    BY <1>0, <1>1, <1>2 DEF TypeOK
  <1>5. ASSUME NEW e, NEW k \in Levels, k <= i, Innermost(e, t, k) PROVE Innermost(e, t, k)'
    BY <1>1, <1>4, <1>5 DEF Innermost, Levels
  <1>6. Innermost(cancelEvent[p], t, level[t] + 1)'
    <2>1. level'[t] + 1 = i
      BY <1>1, <1>4 DEF Levels
    <2> QED
      BY <1>1, <1>3, <1>4, <2>1 DEF Innermost, Levels
  <1>7. ASSUME NEW s \in Threads, s # t, level'[s] > 0
        PROVE  /\ level'[s] = level[s] /\ own'[s] = own[s] /\ saved'[s] = saved[s]
               /\ cancelEvent'[ProcOf[s]] = cancelEvent[ProcOf[s]]
    <2>1. level'[s] = level[s] /\ own'[s] = own[s] /\ saved'[s] = saved[s]
      BY <1>0, <1>1, <1>2, <1>7 DEF TypeOK
    <2>2. ProcOf[s] # p
      BY <1>0, <1>1, <1>7, <2>1 DEF OwnsMutex, Owns
    <2> QED
      BY <1>0, <1>1, <1>2, <2>1, <2>2 DEF TypeOK
  <1>8. EntryFollows'
    <2> SUFFICES ASSUME NEW s \in Threads, level'[s] > 0
                 PROVE  Innermost(cancelEvent[ProcOf[s]], s, level[s] + 1)'
      BY DEF EntryFollows
    <2>1. CASE s = t
      BY <1>6, <2>1
    <2>2. CASE s # t
      BY <1>7, <2>2 DEF EventInv, EntryFollows, Innermost
    <2> QED
      BY <2>1, <2>2
  <1>9. SavedFollow'
    <2> SUFFICES ASSUME NEW s \in Threads, NEW k \in Levels, k <= level'[s]
                 PROVE  Innermost(saved[s][k], s, k)'
      BY DEF SavedFollow
    <2>2. CASE s = t
      <3>1. k <= level[t] /\ k <= i /\ k # i
        BY <1>i, <1>1, <1>4, <2>2 DEF Levels
      <3>2. Innermost(saved[t][k], t, k)
        BY <3>1 DEF EventInv, SavedFollow
      <3>3. Innermost(saved[t][k], t, k)'
        BY <1>1, <1>4, <3>1, <3>2 DEF Innermost, Levels
      <3> QED
        BY <2>2, <3>3
    <2>3. CASE s # t
      <3>1. level'[s] > 0
        BY <1>0, <1>2, <1>1, <2>3 DEF Levels, TypeOK
      <3> QED
        BY <1>7, <2>3, <3>1 DEF EventInv, SavedFollow, Innermost
    <2> QED
      BY <2>2, <2>3
  <1>10. NoEventLeft'
    <2> SUFFICES ASSUME NEW r \in Procs, depth'[r] = 0 PROVE cancelEvent'[r] = None
      BY DEF NoEventLeft
    <2>1. CASE r = p
      <3>1. \A j \in Levels : ~(j < i)
        BY <1>0, <1>1, <1>2, <2>1 DEF TypeOK, Levels
      <3> QED
        BY <1>3, <1>4, <2>1, <3>1 DEF Innermost
    <2>2. CASE r # p
      BY <1>0, <1>1, <1>2, <2>2 DEF EventInv, NoEventLeft, TypeOK
    <2> QED
      BY <2>1, <2>2
  <1> QED
    BY <1>8, <1>9, <1>10 DEF EventInv

LEMMA LockStepsKeepEvents ==
  ASSUME LockInv, EventInv, NEW t \in Threads, LockStep(t) \/ Leave(t) \/ Expire(t)
  PROVE  EventInv'
  <1> USE ProcOfAssumption, NoneAssumption, MaxDepthAssumption
  <1>0. TypeOK /\ OwnsMutex /\ PcAndLevel /\ MutexCounts
    BY DEF LockInv
  <1>1. CASE AcquireMutex(t) /\ depth[ProcOf[t]] > 0
    <2>1. EnterBody(t, cancelEvent[ProcOf[t]]) /\ level[t] < MaxDepth
      BY <1>0, <1>1 DEF AcquireMutex, PcAndLevel, TypeOK
    <2>2. Owns(t)
      BY <1>0, <1>1 DEF AcquireMutex, MutexCounts, TypeOK, EnterRLock
    <2> QED
      BY <2>1, <2>2, EnterKeepsEvents
  <1>2. CASE EnterOutermost(t)
    <2>1. EnterBody(t, cancelEvent[ProcOf[t]]) /\ level[t] = 0 /\ Owns(t)
      BY <1>0, <1>2 DEF EnterOutermost, PcAndLevel, Owns, InCritical
    <2> QED
      BY <2>1, EnterKeepsEvents
  <1>3. CASE Leave(t)
    BY <1>3, LeaveKeepsEvents
  <1>4. CASE UNCHANGED <<depth, cancelEvent, level, own, saved>>
    BY <1>0, <1>4, QuietKeepsEvents DEF EventInv, NoEventLeft
  <1>5. depth[ProcOf[t]] \in Nat
    BY <1>0 DEF TypeOK
  <1>6. \/ (AcquireMutex(t) /\ depth[ProcOf[t]] > 0) \/ EnterOutermost(t) \/ Leave(t)
        \/ UNCHANGED <<depth, cancelEvent, level, own, saved>>
    BY <1>5
    DEF LockStep, AcquireMutex, TryLock, AttemptFails, PollAgain, GiveUp, AbandonLock, Unlock,
        ReleaseMutex, Expire, entryVars
  <1> QED
    BY <1>1, <1>2, <1>3, <1>4, <1>6

LEMMA WorldKeepsEvents ==
  ASSUME LockInv, EventInv,
         \/ \E t \in Threads, e \in MayEvent : Call(t, e)
         \/ \E e \in Events : Cancel(e)
         \/ \E p, c \in Procs : Fork(p, c)
         \/ \E p \in Procs : Crash(p)
         \/ UNCHANGED vars
  PROVE  EventInv'
  <1> USE ProcOfAssumption
  <1>0. TypeOK
    BY DEF LockInv
  <1>1. CASE \E p \in Procs : Crash(p)
    <2>1. PICK p \in Procs : Crash(p)
      BY <1>1
    <2>2. /\ cancelEvent' = [cancelEvent EXCEPT ![p] = None]
          /\ depth' = [depth EXCEPT ![p] = 0]
          /\ \A t \in Threads : ProcOf[t] = p => level'[t] = 0
          /\ \A t \in Threads : ProcOf[t] # p =>
               level'[t] = level[t] /\ own'[t] = own[t] /\ saved'[t] = saved[t]
      BY <2>1 DEF Crash
    <2>3. /\ \A r \in Procs \ {p} : cancelEvent'[r] = cancelEvent[r] /\ depth'[r] = depth[r]
          /\ cancelEvent'[p] = None
      BY <1>0, <2>2 DEF TypeOK
    <2>4. \A r \in Procs : depth'[r] = 0 => cancelEvent'[r] = None
      BY <2>3 DEF EventInv, NoEventLeft
    <2> QED
      BY <1>0, <2>2, <2>3, <2>4, QuietKeepsEvents
  <1>2. CASE UNCHANGED <<depth, cancelEvent, level, own, saved>>
    BY <1>0, <1>2, QuietKeepsEvents DEF EventInv, NoEventLeft
  <1> QED
    BY <1>1, <1>2 DEF Call, Cancel, Fork, vars, entryVars, threadVars

(* The innermost event is the one EffectiveEvent chooses.                  *)
LEMMA InnermostIsEffective ==
  ASSUME TypeOK, NEW t \in Threads, NEW e, Innermost(e, t, level[t] + 1)
  PROVE  e = EffectiveEvent(t)
  <1> USE MaxDepthAssumption
  <1> DEFINE given == {i \in 1 .. level[t] : own[t][i] # None}
  <1>1. /\ level[t] \in Nat
        /\ \A j : j \in 1 .. level[t] <=> j \in Levels /\ j < level[t] + 1
    BY DEF TypeOK, Levels
  <1>2. CASE e = None /\ \A j \in Levels : j < level[t] + 1 => own[t][j] = None
    BY <1>1, <1>2 DEF EffectiveEvent
  <1>3. CASE \E j \in Levels : /\ j < level[t] + 1 /\ e = own[t][j] /\ e # None
                               /\ \A k \in Levels : j < k /\ k < level[t] + 1 => own[t][k] = None
    <2>1. PICK j \in Levels : /\ j < level[t] + 1 /\ e = own[t][j] /\ e # None
                              /\ \A k \in Levels : j < k /\ k < level[t] + 1 => own[t][k] = None
      BY <1>3
    <2>2. j \in given /\ given \subseteq Nat
      BY <1>1, <2>1
    <2>3. \A k \in given : k <= j
      BY <1>1, <2>1, <2>2 DEF Levels
    <2>4. (CHOOSE i \in given : \A k \in given : k <= i) = j
      <3>1. \A i \in given : (\A k \in given : k <= i) => i = j
        BY <2>2, <2>3
      <3> QED
        BY <2>2, <2>3, <3>1
    <2>5. given # {}
      BY <2>2
    <2>6. EffectiveEvent(t) = own[t][CHOOSE i \in given : \A k \in given : k <= i]
      BY <2>5 DEF EffectiveEvent
    <2> QED
      BY <2>1, <2>4, <2>6
  <1> QED
    BY <1>2, <1>3 DEF Innermost

(* Whatever the nesting and whoever shares the entry, a body consults the  *)
(* innermost event of its own thread's calls, and nothing is left behind   *)
(* outside every body.                                                     *)
THEOREM CancelFollowsHolder == Spec => []CancelEventIsTheHolders
  <1>1. LockInv /\ EventInv /\ [Next]_vars => EventInv'
    BY LockStepsKeepEvents, WorldKeepsEvents DEF Next
  <1>2. LockInv /\ EventInv => CancelEventIsTheHolders
    BY InnermostIsEffective
    DEF LockInv, EventInv, EntryFollows, NoEventLeft, CancelEventIsTheHolders, InBody
  <1> QED
    BY EventInit, LockInvariant, <1>1, <1>2, PTL DEF Spec
=============================================================================
