------------------------- MODULE DurableFileProofs -------------------------
(***************************************************************************)
(* Proofs about both sides of the durable file, for any number of          *)
(* processes and versions.  First the side that keeps the promise:         *)
(* AtomicFile implements DurableFile.  Then a side that builds on it: the  *)
(* recently played ring, RecentStore.  The two specifications share no     *)
(* name; what is said of one says nothing of the other's variables.        *)
(***************************************************************************)
EXTENDS AtomicFile, RecentStore, FiniteSetTheorems, SequenceTheorems,
        WellFoundedInduction, TLAPS

(* Nothing was written yet: the inductive invariant holds.                  *)
LEMMA FileInvInit == AtomicInit => FileInv
BY ConstantsAssumption
   DEF AtomicInit, FileInv, AtomicTypeOK, LockHeld, TargetComplete, TempSeparate, TempProgress,
       PromiseKept, FailureLeavesTarget, Current, Saved, ReadVia, Name, Content,
       CallSteps, Locked, Holding, BeforeRename

(* Every variable keeps its type, whichever step is taken.                  *)
LEMMA TypeStep == AtomicTypeOK /\ TempProgress /\ [AtomicNext]_atomicVars => AtomicTypeOK'
<1> SUFFICES ASSUME AtomicTypeOK, TempProgress, [AtomicNext]_atomicVars PROVE AtomicTypeOK'
  OBVIOUS
<1> USE DEF AtomicTypeOK, fsVars, Proceed, CallSteps, Name, Content
<1>1. CASE UNCHANGED atomicVars
  BY <1>1 DEF atomicVars
<1>2. ASSUME NEW w \in Writer, WriterStep(w) PROVE AtomicTypeOK'
  <2>1. ASSUME NEW d \in Data, Call(w, d) PROVE AtomicTypeOK'
    BY <2>1 DEF Call
  <2>2. CASE AcquireLock(w)
    BY <2>2 DEF AcquireLock, Current, ReadVia
  <2>3. CASE OpenTemp(w)
    BY <2>3 DEF OpenTemp
  <2>4. CASE OpenFails(w)
    BY <2>4 DEF OpenFails
  <2>5. CASE WriteTemp(w)
    BY <2>5 DEF WriteTemp, TempProgress
  <2>6. CASE WriteTempFails(w)
    BY <2>6 DEF WriteTempFails
  <2>7. CASE SyncData(w)
    BY <2>7 DEF SyncData
  <2>8. CASE CloseTemp(w)
    BY <2>8 DEF CloseTemp
  <2>9. CASE CallFails(w)
    BY <2>9 DEF CallFails
  <2>10. CASE Rename(w)
    BY <2>10 DEF Rename
  <2>11. CASE RemoveTemp(w)
    BY <2>11 DEF RemoveTemp
  <2>12. CASE SyncDir(w)
    BY <2>12 DEF SyncDir, Current, ReadVia
  <2>13. CASE SyncDirFails(w)
    BY <2>13 DEF SyncDirFails
  <2>14. CASE Return(w)
    BY <2>14 DEF Return
  <2> QED
    BY <1>2, <2>1, <2>2, <2>3, <2>4, <2>5, <2>6, <2>7, <2>8, <2>9, <2>10, <2>11,
       <2>12, <2>13, <2>14 DEF WriterStep
<1>3. ASSUME NEW i \in Inode, WritebackPages(i) PROVE AtomicTypeOK'
  BY <1>3 DEF WritebackPages
<1>4. CASE WritebackDir
  BY <1>4 DEF WritebackDir
<1>5. CASE KillProcess
  BY <1>5 DEF KillProcess, Restarted
<1>6. CASE PowerOff
  BY <1>6 DEF PowerOff, Restarted, Saved, ReadVia
<1> QED
  BY <1>1, <1>2, <1>3, <1>4, <1>5, <1>6 DEF AtomicNext

-----------------------------------------------------------------------------
(* One lemma per group of steps that disturb the same parts of the         *)
(* invariant.  CallSteps that leave the file system and the promise alone only *)
(* move a writer's program counter.                                        *)
LEMMA QuietStep ==
  ASSUME FileInv, AtomicTypeOK', NEW w \in Writer,
         \/ \E d \in Data : Call(w, d)
         \/ OpenFails(w) \/ CloseTemp(w) \/ CallFails(w) \/ SyncDirFails(w) \/ Return(w)
  PROVE  FileInv'
<1> USE DEF fsVars, Proceed
<1>1. UNCHANGED <<dir, flashDir, page, flashPage, promised>> /\ Current' = Current /\ Saved' = Saved
  BY DEF Call, OpenFails, CloseTemp, CallFails, SyncDirFails, Return, Current, Saved, ReadVia
<1>2. TargetComplete' /\ TempSeparate' /\ PromiseKept'
  BY <1>1 DEF FileInv, TargetComplete, TempSeparate, PromiseKept
<1>3. LockHeld' /\ TempProgress' /\ FailureLeavesTarget'
  BY <1>1, ConstantsAssumption
     DEF FileInv, AtomicTypeOK, LockHeld, TempProgress, FailureLeavesTarget, Locked, Holding,
         BeforeRename, CallSteps, Call, OpenFails, CloseTemp, CallFails, SyncDirFails, Return
<1> QED
  BY <1>2, <1>3 DEF FileInv

(* Taking the lock starts a call on the content the path holds now.         *)
LEMMA AcquireLockStep ==
  ASSUME FileInv, AtomicTypeOK', NEW w \in Writer, AcquireLock(w)
  PROVE  FileInv'
<1> USE DEF fsVars, Proceed
<1>1. UNCHANGED <<dir, flashDir, page, flashPage, promised>> /\ Current' = Current /\ Saved' = Saved
  BY DEF AcquireLock, Current, Saved, ReadVia
<1>2. TargetComplete' /\ TempSeparate' /\ PromiseKept'
  BY <1>1 DEF FileInv, TargetComplete, TempSeparate, PromiseKept
<1>3. LockHeld' /\ TempProgress' /\ FailureLeavesTarget'
  BY <1>1, ConstantsAssumption
     DEF FileInv, AtomicTypeOK, LockHeld, TempProgress, FailureLeavesTarget, Locked, Holding,
         BeforeRename, CallSteps, AcquireLock
<1> QED
  BY <1>2, <1>3 DEF FileInv

(* The temp file is either new or a leftover no directory version names as  *)
(* its target, so emptying it changes no version a reader can meet.         *)
LEMMA OpenTempStep ==
  ASSUME FileInv, AtomicTypeOK', NEW w \in Writer, OpenTemp(w)
  PROVE  FileInv'
<1> USE DEF Proceed
<1>1. PICK i \in Inode :
        /\ i \notin {dir["path"], flashDir["path"]}
        /\ dir["tmp"] # NoInode \/ i # flashDir["tmp"]
        /\ dir' = [dir EXCEPT !["tmp"] = i]
        /\ page' = [page EXCEPT ![i] = Empty]
        /\ fd' = [fd EXCEPT ![w] = i]
  BY DEF OpenTemp, FileInv, TempSeparate, Name
<1>2. dir'["path"] = dir["path"] /\ dir'["tmp"] = i
  BY <1>1 DEF FileInv, AtomicTypeOK, Name
<1>3. UNCHANGED <<flashDir, flashPage, promised>>
  BY DEF OpenTemp
<1>4. \A j \in {dir["path"], flashDir["path"]} \ {NoInode} : page'[j] = page[j]
  BY <1>1 DEF FileInv, AtomicTypeOK, Name
<1>5. Current' = Current /\ Saved' = Saved
  BY <1>2, <1>3, <1>4 DEF Current, Saved, ReadVia
<1>6. TargetComplete'
  BY <1>2, <1>3, <1>4 DEF FileInv, TargetComplete
<1>7. TempSeparate'
  BY <1>1, <1>2, <1>3 DEF FileInv, TempSeparate
<1>8. PromiseKept'
  BY <1>3, <1>5 DEF FileInv, PromiseKept
<1>9. LockHeld' /\ FailureLeavesTarget'
  BY <1>5
     DEF OpenTemp, FileInv, AtomicTypeOK, LockHeld, FailureLeavesTarget, Locked, BeforeRename,
         CallSteps
<1>10. TempProgress'
  BY <1>1, <1>2, ConstantsAssumption
     DEF OpenTemp, FileInv, AtomicTypeOK, LockHeld, TempProgress, Locked, Holding, CallSteps
<1> QED
  BY <1>6, <1>7, <1>8, <1>9, <1>10 DEF FileInv

(* Filling the temp file, or failing to, touches the temp file only.        *)
LEMMA WriteStep ==
  ASSUME FileInv, AtomicTypeOK', NEW w \in Writer, WriteTemp(w) \/ WriteTempFails(w)
  PROVE  FileInv'
<1> USE DEF Proceed
<1>1. dir["tmp"] = fd[w] /\ fd[w] \in Inode /\ arg[w] \in Data
  BY DEF WriteTemp, WriteTempFails, FileInv, AtomicTypeOK, TempProgress, Holding
<1>2. \A j \in Inode \ {fd[w]} : page'[j] = page[j]
  BY <1>1 DEF WriteTemp, WriteTempFails, FileInv, AtomicTypeOK
<1>3. UNCHANGED <<dir, flashDir, flashPage, promised>>
  BY DEF WriteTemp, WriteTempFails
<1>4. \A j \in {dir["path"], flashDir["path"]} \ {NoInode} : page'[j] = page[j]
  BY <1>1, <1>2, ConstantsAssumption DEF FileInv, AtomicTypeOK, TempSeparate, Name
<1>5. Current' = Current /\ Saved' = Saved
  BY <1>3, <1>4 DEF Current, Saved, ReadVia
<1>6. TargetComplete' /\ TempSeparate' /\ PromiseKept'
  BY <1>3, <1>4, <1>5 DEF FileInv, TargetComplete, TempSeparate, PromiseKept
<1>7. LockHeld' /\ FailureLeavesTarget'
  BY <1>5 DEF WriteTemp, WriteTempFails, FileInv, AtomicTypeOK, LockHeld, FailureLeavesTarget,
              Locked, BeforeRename, CallSteps
<1>8. TempProgress'
  BY <1>1
     DEF WriteTemp, WriteTempFails, FileInv, AtomicTypeOK, LockHeld, TempProgress, Locked,
         Holding, CallSteps
<1> QED
  BY <1>6, <1>7, <1>8 DEF FileInv

(* The data fsync makes the temp file complete on flash as well.            *)
LEMMA SyncDataStep ==
  ASSUME FileInv, AtomicTypeOK', NEW w \in Writer, SyncData(w)
  PROVE  FileInv'
<1> USE DEF Proceed
<1>1. dir["tmp"] = fd[w] /\ fd[w] \in Inode /\ flashPage'[fd[w]] = page[fd[w]]
  BY DEF SyncData, FileInv, AtomicTypeOK, TempProgress, Holding
<1>2. UNCHANGED <<dir, flashDir, page, promised>>
  BY DEF SyncData
<1>3. \A j \in {dir["path"], flashDir["path"]} \ {NoInode} : flashPage'[j] = flashPage[j]
  BY <1>1, ConstantsAssumption DEF SyncData, FileInv, AtomicTypeOK, TempSeparate, Name
<1>4. Current' = Current /\ Saved' = Saved
  BY <1>2, <1>3 DEF Current, Saved, ReadVia
<1>5. TargetComplete' /\ TempSeparate' /\ PromiseKept'
  BY <1>2, <1>3, <1>4 DEF FileInv, TargetComplete, TempSeparate, PromiseKept
<1>6. LockHeld' /\ FailureLeavesTarget'
  BY <1>4
     DEF SyncData, FileInv, AtomicTypeOK, LockHeld, FailureLeavesTarget, Locked, BeforeRename,
         CallSteps
<1>7. TempProgress'
  BY <1>1, <1>2
     DEF SyncData, FileInv, AtomicTypeOK, LockHeld, TempProgress, Locked, Holding, CallSteps
<1> QED
  BY <1>5, <1>6, <1>7 DEF FileInv

(* The rename makes a file that is complete in the cache and on flash the   *)
(* target; what a power cut would bring back is unchanged.                  *)
LEMMA RenameStep ==
  ASSUME FileInv, AtomicTypeOK', NEW w \in Writer, Rename(w)
  PROVE  FileInv' /\ Current' = arg[w] /\ Saved' = Saved
<1> USE DEF Proceed
<1>1. /\ dir["tmp"] = fd[w] /\ fd[w] \in Inode /\ arg[w] \in Data
      /\ page[fd[w]] = arg[w] /\ flashPage[fd[w]] = arg[w]
  BY DEF Rename, FileInv, AtomicTypeOK, TempProgress, Holding
<1>2. dir'["path"] = fd[w] /\ dir'["tmp"] = NoInode
  BY <1>1 DEF Rename, Name
<1>3. UNCHANGED <<flashDir, page, flashPage>> /\ promised' = promised \cup {arg[w]}
  BY <1>1 DEF Rename
<1>4. Current' = arg[w] /\ Saved' = Saved
  BY <1>1, <1>2, <1>3, ConstantsAssumption DEF Current, Saved, ReadVia
<1>5. TargetComplete' /\ TempSeparate' /\ PromiseKept'
  BY <1>1, <1>2, <1>3, <1>4 DEF FileInv, TargetComplete, TempSeparate, PromiseKept
<1>6. LockHeld' /\ FailureLeavesTarget'
  BY DEF Rename, FileInv, AtomicTypeOK, LockHeld, FailureLeavesTarget, Locked,
         BeforeRename, CallSteps
<1>7. TempProgress'
  BY <1>3 DEF Rename, FileInv, AtomicTypeOK, LockHeld, TempProgress, Locked, Holding, CallSteps
<1> QED
  BY <1>4, <1>5, <1>6, <1>7 DEF FileInv

(* Removing the temp file, or failing to, leaves both versions alone.       *)
LEMMA RemoveTempStep ==
  ASSUME FileInv, AtomicTypeOK', NEW w \in Writer, RemoveTemp(w)
  PROVE  FileInv'
<1> USE DEF Proceed
<1>1. dir'["path"] = dir["path"] /\ dir'["tmp"] \in {dir["tmp"], NoInode}
  BY DEF RemoveTemp, FileInv, AtomicTypeOK, Name
<1>2. UNCHANGED <<flashDir, page, flashPage, promised>>
  BY DEF RemoveTemp
<1>3. Current' = Current /\ Saved' = Saved
  BY <1>1, <1>2 DEF Current, Saved, ReadVia
<1>4. TargetComplete' /\ TempSeparate' /\ PromiseKept'
  BY <1>1, <1>2, <1>3 DEF FileInv, TargetComplete, TempSeparate, PromiseKept
<1>5. LockHeld' /\ FailureLeavesTarget'
  BY <1>3
     DEF RemoveTemp, FileInv, AtomicTypeOK, LockHeld, FailureLeavesTarget, Locked,
         BeforeRename, CallSteps
<1>6. TempProgress'
  BY <1>2
     DEF RemoveTemp, FileInv, AtomicTypeOK, LockHeld, TempProgress, Locked, Holding, CallSteps
<1> QED
  BY <1>4, <1>5, <1>6 DEF FileInv

(* The directory fsync saves the version readers already see.               *)
LEMMA SyncDirStep ==
  ASSUME FileInv, AtomicTypeOK', NEW w \in Writer, SyncDir(w)
  PROVE  FileInv' /\ Current' = Current /\ Saved' = Current
<1> USE DEF Proceed
<1>1. UNCHANGED <<dir, page, flashPage>> /\ flashDir' = dir /\ promised' = {Current}
  BY DEF SyncDir
<1>2. Current' = Current /\ Saved' = Current
  BY <1>1 DEF FileInv, TargetComplete, Current, Saved, ReadVia
<1>3. TargetComplete' /\ TempSeparate' /\ PromiseKept'
  BY <1>1, <1>2 DEF FileInv, TargetComplete, TempSeparate, PromiseKept
<1>4. LockHeld' /\ FailureLeavesTarget'
  BY <1>2
     DEF SyncDir, FileInv, AtomicTypeOK, LockHeld, FailureLeavesTarget, Locked, BeforeRename,
         CallSteps
<1>5. TempProgress'
  BY <1>1 DEF SyncDir, FileInv, AtomicTypeOK, LockHeld, TempProgress, Locked, Holding, CallSteps
<1> QED
  BY <1>2, <1>3, <1>4, <1>5 DEF FileInv

(* A writeback of data only touches files that are no version's target and  *)
(* no temp file already fsynced: those have nothing left to write back.     *)
LEMMA WritebackPagesStep ==
  ASSUME FileInv, AtomicTypeOK', NEW i \in Inode, WritebackPages(i)
  PROVE  FileInv' /\ Current' = Current /\ Saved' = Saved
<1>1. UNCHANGED <<at, arg, fd, lock, dir, flashDir, page, promised, before>>
  BY DEF WritebackPages
<1>2. \A j \in Inode : flashPage[j] = page[j] => flashPage'[j] = flashPage[j]
  BY DEF WritebackPages, FileInv, AtomicTypeOK
<1>3. \A j \in {dir["path"], flashDir["path"]} \ {NoInode} : flashPage'[j] = flashPage[j]
  BY <1>2 DEF FileInv, AtomicTypeOK, TargetComplete, Name
<1>4. Current' = Current /\ Saved' = Saved
  BY <1>1, <1>3 DEF Current, Saved, ReadVia
<1>5. TargetComplete' /\ TempSeparate' /\ PromiseKept'
  BY <1>1, <1>3, <1>4 DEF FileInv, TargetComplete, TempSeparate, PromiseKept
<1>6. LockHeld' /\ FailureLeavesTarget'
  BY <1>1, <1>4 DEF FileInv, LockHeld, FailureLeavesTarget
<1>7. TempProgress'
  BY <1>1, <1>2 DEF FileInv, AtomicTypeOK, TempProgress, Holding
<1> QED
  BY <1>4, <1>5, <1>6, <1>7 DEF FileInv

(* A writeback of the directory saves the version readers already see.      *)
LEMMA WritebackDirStep ==
  ASSUME FileInv, AtomicTypeOK', WritebackDir
  PROVE  FileInv' /\ Current' = Current /\ Saved' = Current
<1>1. UNCHANGED <<at, arg, fd, lock, dir, page, flashPage, promised, before>> /\ flashDir' = dir
  BY DEF WritebackDir
<1>2. Current' = Current /\ Saved' = Current
  BY <1>1 DEF FileInv, TargetComplete, Current, Saved, ReadVia
<1>3. TargetComplete' /\ TempSeparate' /\ PromiseKept'
  BY <1>1, <1>2 DEF FileInv, TargetComplete, TempSeparate, PromiseKept
<1>4. LockHeld' /\ FailureLeavesTarget' /\ TempProgress'
  BY <1>1, <1>2 DEF FileInv, LockHeld, FailureLeavesTarget, TempProgress
<1> QED
  BY <1>2, <1>3, <1>4 DEF FileInv

(* A power cut shows readers the saved version and forgets the writers.     *)
LEMMA PowerCutStep ==
  ASSUME FileInv, AtomicTypeOK', PowerOff
  PROVE  FileInv' /\ Current' = Saved /\ Saved' = Saved
<1>1. /\ dir' = flashDir /\ page' = flashPage /\ promised' = {Saved}
      /\ UNCHANGED <<flashDir, flashPage>>
  BY DEF PowerOff
<1>2. Current' = Saved /\ Saved' = Saved
  BY <1>1 DEF Current, Saved, ReadVia
<1>3. TargetComplete' /\ TempSeparate' /\ PromiseKept'
  BY <1>1, <1>2 DEF FileInv, TargetComplete, TempSeparate, PromiseKept
<1>4. LockHeld' /\ FailureLeavesTarget' /\ TempProgress'
  BY DEF PowerOff, Restarted, LockHeld, FailureLeavesTarget, TempProgress, Locked, Holding,
         BeforeRename, CallSteps
<1> QED
  BY <1>2, <1>3, <1>4 DEF FileInv

(* Killing the agent only forgets the writers.                              *)
LEMMA KillProcessStep ==
  ASSUME FileInv, AtomicTypeOK', KillProcess
  PROVE  FileInv' /\ Current' = Current /\ Saved' = Saved
<1>1. UNCHANGED <<dir, flashDir, page, flashPage, promised>> /\ Current' = Current /\ Saved' = Saved
  BY DEF KillProcess, fsVars, Current, Saved, ReadVia
<1>2. TargetComplete' /\ TempSeparate' /\ PromiseKept'
  BY <1>1 DEF FileInv, TargetComplete, TempSeparate, PromiseKept
<1>3. LockHeld' /\ FailureLeavesTarget' /\ TempProgress'
  BY DEF KillProcess, Restarted, LockHeld, FailureLeavesTarget, TempProgress, Locked, Holding,
         BeforeRename, CallSteps
<1> QED
  BY <1>1, <1>2, <1>3 DEF FileInv
-----------------------------------------------------------------------------
(* The invariant is inductive.                                              *)
LEMMA FileInvStep == FileInv /\ [AtomicNext]_atomicVars => FileInv'
<1> SUFFICES ASSUME FileInv, [AtomicNext]_atomicVars PROVE FileInv'
  OBVIOUS
<1>1. AtomicTypeOK'
  BY TypeStep DEF FileInv
<1>2. CASE UNCHANGED atomicVars
  BY <1>2
     DEF atomicVars, FileInv, AtomicTypeOK, LockHeld, TargetComplete, TempSeparate, TempProgress,
              PromiseKept, FailureLeavesTarget, Current, Saved, ReadVia
<1>3. ASSUME NEW w \in Writer, WriterStep(w) PROVE FileInv'
  BY <1>1, <1>3, QuietStep, AcquireLockStep, OpenTempStep, WriteStep, SyncDataStep,
     RenameStep, RemoveTempStep, SyncDirStep DEF WriterStep
<1> QED
  BY <1>1, <1>2, <1>3, WritebackPagesStep, WritebackDirStep, KillProcessStep, PowerCutStep
     DEF AtomicNext

(* The whole inductive invariant, for every set of writers and versions.    *)
THEOREM FileInvariant == AtomicSpec => []FileInv
BY FileInvInit, FileInvStep, PTL DEF AtomicSpec

(* No reader and no boot after a power cut finds an empty or torn file.     *)
THEOREM NeverTornHolds == AtomicSpec => []NeverTorn
<1>1. FileInv => NeverTorn
  BY ConstantsAssumption
     DEF FileInv, AtomicTypeOK, TargetComplete, NeverTorn, Current, Saved, ReadVia, Name
<1> QED
  BY FileInvariant, <1>1, PTL

(* A version whose directory fsync succeeded is never lost to a power cut.  *)
THEOREM SyncedVersionSurvivesHolds == AtomicSpec => []SyncedVersionSurvives
<1>1. FileInv => SyncedVersionSurvives
  BY DEF FileInv, PromiseKept, SyncedVersionSurvives
<1> QED
  BY FileInvariant, <1>1, PTL

(* A call that failed, or has not renamed yet, left the path as it was.     *)
THEOREM FailureLeavesTargetHolds == AtomicSpec => []FailureLeavesTarget
<1>1. FileInv => FailureLeavesTarget
  BY DEF FileInv
<1> QED
  BY FileInvariant, <1>1, PTL

(* No other writer takes a call's temp file away before its rename.         *)
THEOREM TempIsMineHolds == AtomicSpec => []TempIsMine
<1>1. FileInv => TempIsMine
  BY DEF FileInv, TempProgress, TempIsMine, Holding
<1> QED
  BY FileInvariant, <1>1, PTL

(* WriteFile implements the durable file: only the rename replaces the      *)
(* version readers see, only the two directory writebacks save it, only a   *)
(* power cut goes back to the saved one, and every other step is a stutter. *)
THEOREM ImplementsDurableFileHolds == AtomicSpec => ImplementsDurableFile
<1>1. AtomicInit => Durable!DurableInit
  BY DEF AtomicInit, Durable!DurableInit, Current, Saved, ReadVia, Name
<1>2. FileInv /\ FileInv' /\ [AtomicNext]_atomicVars => [Durable!DurableNext]_(Durable!durableVars)
  <2> SUFFICES ASSUME FileInv, FileInv', [AtomicNext]_atomicVars
               PROVE  Durable!DurableNext \/ (Current' = Current /\ Saved' = Saved)
    BY DEF Durable!durableVars
  <2>0. AtomicTypeOK'
    BY DEF FileInv
  <2>1. CASE UNCHANGED atomicVars
    BY <2>1 DEF atomicVars, Current, Saved, ReadVia
  <2>2. ASSUME NEW w \in Writer, Rename(w) PROVE Durable!DurableNext
    <3>1. arg[w] \in Data
      BY <2>2 DEF Rename, FileInv, TempProgress
    <3>2. Current' = arg[w] /\ Saved' = Saved
      BY <2>0, <2>2, RenameStep
    <3> QED
      BY <3>1, <3>2 DEF Durable!DurableNext, Durable!Replace
  <2>3. ASSUME NEW w \in Writer, SyncDir(w) PROVE Durable!DurableNext
    BY <2>0, <2>3, SyncDirStep DEF Durable!DurableNext, Durable!Persist
  <2>4. CASE WritebackDir
    BY <2>0, <2>4, WritebackDirStep DEF Durable!DurableNext, Durable!Persist
  <2>5. CASE PowerOff
    BY <2>0, <2>5, PowerCutStep DEF Durable!DurableNext, Durable!PowerLoss
  <2>6. CASE KillProcess
    BY <2>0, <2>6, KillProcessStep
  <2>7. ASSUME NEW i \in Inode, WritebackPages(i) PROVE Current' = Current /\ Saved' = Saved
    BY <2>0, <2>7, WritebackPagesStep
  <2>8. ASSUME NEW w \in Writer,
               \/ \E d \in Data : Call(w, d)
               \/ AcquireLock(w) \/ OpenFails(w) \/ CloseTemp(w) \/ CallFails(w)
               \/ SyncDirFails(w) \/ Return(w)
        PROVE  Current' = Current /\ Saved' = Saved
    BY <2>8 DEF Call, AcquireLock, OpenFails, CloseTemp, CallFails, SyncDirFails, Return,
                fsVars, Current, Saved, ReadVia
  <2>9. ASSUME NEW w \in Writer, OpenTemp(w) \/ WriteTemp(w) \/ WriteTempFails(w) \/ SyncData(w)
        PROVE  Current' = Current /\ Saved' = Saved
    <3>1. CASE OpenTemp(w)
      <4>1. \A j \in {dir["path"]} \ {NoInode} : page'[j] = page[j]
        BY <3>1 DEF OpenTemp, FileInv, AtomicTypeOK, TempSeparate, Name
      <4>2. dir'["path"] = dir["path"]
        BY <3>1 DEF OpenTemp, FileInv, AtomicTypeOK, Name
      <4> QED
        BY <3>1, <4>1, <4>2 DEF OpenTemp, Current, Saved, ReadVia
    <3>2. CASE WriteTemp(w) \/ WriteTempFails(w)
      <4>1. dir["tmp"] = fd[w] /\ fd[w] # NoInode
        BY <3>2 DEF WriteTemp, WriteTempFails, FileInv, TempProgress, Holding
      <4>2. \A j \in {dir["path"]} \ {NoInode} : page'[j] = page[j]
        BY <3>2, <4>1 DEF WriteTemp, WriteTempFails, FileInv, AtomicTypeOK, TempSeparate, Name
      <4> QED
        BY <3>2, <4>2 DEF WriteTemp, WriteTempFails, Current, Saved, ReadVia
    <3>3. CASE SyncData(w)
      <4>1. dir["tmp"] = fd[w] /\ fd[w] # NoInode
        BY <3>3 DEF SyncData, FileInv, TempProgress, Holding
      <4>2. \A j \in {flashDir["path"]} \ {NoInode} : flashPage'[j] = flashPage[j]
        BY <3>3, <4>1 DEF SyncData, FileInv, AtomicTypeOK, TempSeparate, Name
      <4> QED
        BY <3>3, <4>2 DEF SyncData, Current, Saved, ReadVia
    <3> QED
      BY <2>9, <3>1, <3>2, <3>3
  <2>10. ASSUME NEW w \in Writer, RemoveTemp(w) PROVE Current' = Current /\ Saved' = Saved
    BY <2>10 DEF RemoveTemp, FileInv, AtomicTypeOK, Name, Current, Saved, ReadVia
  <2> QED
    BY <2>1, <2>2, <2>3, <2>4, <2>5, <2>6, <2>7, <2>8, <2>9, <2>10 DEF AtomicNext, WriterStep
<1> QED
  BY <1>1, <1>2, FileInvariant, PTL DEF AtomicSpec, ImplementsDurableFile, Durable!DurableSpec
-----------------------------------------------------------------------------
(* The recently played ring.                                                *)

(* The rank of a place among the places I: how many there are up to it.     *)
LEMMA RankOf ==
  ASSUME NEW I, NEW i
  PROVE  Rank(I, i) = Cardinality({j \in I : j <= i})
BY DEF Rank

(* A later place of I has a higher rank.                                    *)
LEMMA RankGrows ==
  ASSUME NEW n \in Nat, NEW I \in SUBSET (1..n)
  PROVE  /\ IsFiniteSet(I) /\ Cardinality(I) \in Nat /\ Cardinality(I) <= n
         /\ \A a \in I : Rank(I, a) \in 1..Cardinality(I)
         /\ \A a, b \in I : a <= b => Rank(I, a) <= Rank(I, b)
         /\ \A a, b \in I : a < b => Rank(I, a) < Rank(I, b)
<1> DEFINE Up(i) == {j \in I : j <= i}
<1>1. \A j \in I : j \in Nat
  OBVIOUS
<1>2. IsFiniteSet(I) /\ Cardinality(I) <= n
  <2>1. IsFiniteSet(1..n) /\ Cardinality(1..n) = n
    BY FS_Interval
  <2> QED
    BY <2>1, FS_Subset
<1>3. Cardinality(I) \in Nat
  BY <1>2, FS_CardinalityType
<1>4. \A i \in I : Rank(I, i) = Cardinality(Up(i))
  BY RankOf
<1>5. \A i, j \in I : j \in Up(i) <=> j <= i
  OBVIOUS
<1>6. \A i \in I : Up(i) \subseteq I
  OBVIOUS
<1> HIDE DEF Up
<1>7. \A i \in I : /\ IsFiniteSet(Up(i)) /\ Cardinality(Up(i)) \in Nat
                   /\ Cardinality(Up(i)) <= Cardinality(I)
  BY <1>2, <1>6, FS_Subset, FS_CardinalityType
<1>8. \A i \in I : Cardinality(Up(i)) # 0
  BY <1>1, <1>5, <1>7, FS_EmptySet
<1>9. ASSUME NEW a \in I, NEW b \in I, a <= b PROVE Up(a) \subseteq Up(b)
  <2> SUFFICES ASSUME NEW j \in Up(a) PROVE j \in Up(b)
    OBVIOUS
  <2>1. j \in I /\ j <= a
    BY <1>5, <1>6
  <2>2. j <= b
    BY <1>1, <1>9, <2>1
  <2> QED
    BY <1>5, <2>1, <2>2
<1>10. ASSUME NEW a \in I, NEW b \in I, a <= b PROVE Cardinality(Up(a)) <= Cardinality(Up(b))
  BY <1>7, <1>9, <1>10, FS_Subset
<1>11. ASSUME NEW a \in I, NEW b \in I, a < b PROVE Cardinality(Up(a)) < Cardinality(Up(b))
  <2>1. b \notin Up(a) /\ b \in Up(b) /\ a <= b
    BY <1>1, <1>5, <1>11
  <2>2. Up(a) \subseteq Up(b) \ {b}
    BY <1>9, <2>1
  <2>3. /\ IsFiniteSet(Up(b) \ {b})
        /\ Cardinality(Up(b) \ {b}) = Cardinality(Up(b)) - 1
    BY <1>7, <2>1, FS_RemoveElement
  <2>4. Cardinality(Up(a)) <= Cardinality(Up(b)) - 1
    BY <2>2, <2>3, FS_Subset
  <2> QED
    BY <1>7, <2>4
<1>12. \A a \in I : Cardinality(Up(a)) \in 1..Cardinality(I)
  BY <1>3, <1>7, <1>8
<1> QED
  BY <1>2, <1>3, <1>4, <1>10, <1>11, <1>12

(* So every number up to |I| counts the places up to exactly one of them.   *)
LEMMA RankCounts ==
  ASSUME NEW n \in Nat, NEW I \in SUBSET (1..n)
  PROVE  \A k \in 1..Cardinality(I) : \E i \in I : Rank(I, i) = k
<1> DEFINE f == [i \in I |-> Rank(I, i)]
           T == 1..Cardinality(I)
<1>1. IsFiniteSet(I) /\ Cardinality(I) \in Nat
  <2>1. IsFiniteSet(1..n)
    BY FS_Interval
  <2> QED
    BY <2>1, FS_Subset, FS_CardinalityType
<1>2. IsFiniteSet(T) /\ Cardinality(T) = Cardinality(I)
  BY <1>1, FS_Interval
<1>3. \A a, b \in I : f[a] = f[b] => a = b
  <2> SUFFICES ASSUME NEW a \in I, NEW b \in I, Rank(I, a) = Rank(I, b)
               PROVE  a = b
    OBVIOUS
  <2>1. a \in Nat /\ b \in Nat
    OBVIOUS
  <2>2. Rank(I, a) \in Nat
    BY <1>1, RankGrows
  <2>3. /\ a < b => Rank(I, a) < Rank(I, b)
        /\ b < a => Rank(I, b) < Rank(I, a)
    BY RankGrows
  <2> QED
    BY <2>1, <2>2, <2>3
<1>4. f \in [I -> T]
  BY RankGrows
<1>5. f \in Injection(I, T)
  BY <1>3, <1>4 DEF Injection, IsInjective
<1> HIDE DEF f, T
<1>6. f \in Surjection(I, T)
  BY <1>1, <1>2, <1>5, FS_Injection
<1>7. \A k \in T : \E i \in I : f[i] = k
  BY <1>6 DEF Surjection
<1> QED
  BY <1>7 DEF f, T

(* The rows at the places I of a sequence: a sequence again, row n of which *)
(* is at place p[n], the places p in their order and none left out.         *)
LEMMA RowsFacts ==
  ASSUME NEW S, NEW s \in Seq(S), NEW I \in SUBSET DOMAIN s
  PROVE  LET r == Rows(s, I)
         IN  /\ r \in Seq(S)
             /\ Len(r) = Cardinality(I) /\ Len(r) <= Len(s)
             /\ \E p \in [1..Len(r) -> I] :
                  /\ \A n \in 1..Len(r) : r[n] = s[p[n]] /\ Rank(I, p[n]) = n
                  /\ \A n, m \in 1..Len(r) : n < m => p[n] < p[m]
                  /\ \A i \in I : \E n \in 1..Len(r) : p[n] = i
<1> DEFINE r == Rows(s, I)
           c == Cardinality(I)
           place(n) == CHOOSE i \in I : Rank(I, i) = n
           p == [n \in 1..c |-> place(n)]
<1>1. Len(s) \in Nat /\ DOMAIN s = 1..Len(s)
  BY LenProperties
<1>2. c \in Nat /\ c <= Len(s)
  BY <1>1, RankGrows
<1>3. \A n \in 1..c : place(n) \in I /\ Rank(I, place(n)) = n
  BY <1>1, RankCounts
<1>4. r = [n \in 1..c |-> s[place(n)]]
  BY DEF Rows
<1> HIDE DEF c, place, r
<1>5. p \in [1..c -> I] /\ \A n \in 1..c : p[n] \in I /\ Rank(I, p[n]) = n
  BY <1>3
<1> HIDE DEF p
<1>6. r = [n \in 1..c |-> s[p[n]]]
  BY <1>4 DEF p
<1>7. \A n \in 1..c : s[p[n]] \in S
  BY <1>1, <1>5, ElementOfSeq
<1>8. r \in Seq(S) /\ Len(r) = c
  <2>1. r \in [1..c -> S]
    BY <1>6, <1>7
  <2> QED
    BY <1>2, <2>1
<1>9. \A n, m \in 1..c : n < m => p[n] < p[m]
  <2> SUFFICES ASSUME NEW n \in 1..c, NEW m \in 1..c, n < m, ~(p[n] < p[m]) PROVE FALSE
    OBVIOUS
  <2>1. p[n] \in I /\ p[m] \in I
    BY <1>5
  <2>2. p[n] \in Nat /\ p[m] \in Nat
    BY <1>1, <2>1
  <2>3. p[m] <= p[n]
    BY <2>2
  <2>4. Rank(I, p[m]) <= Rank(I, p[n])
    BY <1>1, <2>1, <2>3, RankGrows
  <2> QED
    BY <1>2, <1>5, <2>4
<1>10. \A i \in I : \E n \in 1..c : p[n] = i
  <2> SUFFICES ASSUME NEW i \in I PROVE \E n \in 1..c : p[n] = i
    OBVIOUS
  <2>1. Rank(I, i) \in 1..c
    BY <1>1, RankGrows DEF c
  <2>2. PICK n \in 1..c : n = Rank(I, i)
    BY <2>1
  <2>3. p[n] \in I /\ Rank(I, p[n]) = Rank(I, i)
    BY <1>5, <2>2
  <2>4. p[n] \in Nat /\ i \in Nat
    BY <1>1, <2>3
  <2>5. /\ p[n] < i => Rank(I, p[n]) < Rank(I, i)
        /\ i < p[n] => Rank(I, i) < Rank(I, p[n])
    BY <1>1, <2>3, RankGrows
  <2>6. Rank(I, i) \in Nat
    BY <2>1, <1>2
  <2> QED
    BY <2>3, <2>4, <2>5, <2>6
<1>11. \A n \in 1..c : r[n] = s[p[n]]
  BY <1>6
<1>12. \E q \in [1..Len(r) -> I] :
         /\ \A n \in 1..Len(r) : r[n] = s[q[n]] /\ Rank(I, q[n]) = n
         /\ \A n, m \in 1..Len(r) : n < m => q[n] < q[m]
         /\ \A i \in I : \E n \in 1..Len(r) : q[n] = i
  <2>1. /\ \A n \in 1..c : r[n] = s[p[n]] /\ Rank(I, p[n]) = n
        /\ \A n, m \in 1..c : n < m => p[n] < p[m]
        /\ \A i \in I : \E n \in 1..c : p[n] = i
    BY <1>5, <1>9, <1>10, <1>11
  <2> QED
    BY <1>5, <1>8, <2>1, Zenon
<1> QED
  BY <1>2, <1>8, <1>12 DEF c, r

(* Some place is the last of a set of places.                               *)
LEMMA LastOfPlaces ==
  ASSUME NEW n \in Nat, NEW S \in SUBSET (1..n), S # {}
  PROVE  \E j \in S : \A m \in S : m <= j
<1> DEFINE T == {n - x : x \in S}
<1>1. T # {} /\ T \subseteq Nat
  <2>1. T # {}
    OBVIOUS
  <2>2. ASSUME NEW x \in S PROVE n - x \in Nat
    OBVIOUS
  <2> QED
    BY <2>1, <2>2
<1>2. PICK y \in T : \A z \in T : ~(<<z, y>> \in OpToRel(<, Nat))
  <2> HIDE DEF T
  <2> QED
    BY <1>1, WFMin, NatLessThanWellFounded
<1>3. \A z \in T : ~(z < y)
  BY <1>1, <1>2 DEF OpToRel
<1>4. PICK j \in S : y = n - j
  OBVIOUS
<1>5. ASSUME NEW m \in S PROVE m <= j
  <2>1. ~(n - m < n - j)
    BY <1>3, <1>4
  <2> QED
    BY <2>1
<1> QED
  BY <1>5

(* All rows of a sequence are the sequence.                                 *)
LEMMA RowsAll ==
  ASSUME NEW S, NEW s \in Seq(S)
  PROVE  Rows(s, DOMAIN s) = s
<1> DEFINE r == Rows(s, DOMAIN s)
<1>1. Len(s) \in Nat /\ DOMAIN s = 1..Len(s)
  BY LenProperties
<1>2. Cardinality(1..Len(s)) = Len(s)
  BY <1>1, FS_Interval
<1>3. r \in Seq(S) /\ Len(r) = Len(s)
  BY <1>1, <1>2, RowsFacts
<1>4. ASSUME NEW n \in 1..Len(r) PROVE r[n] = s[n]
  <2>1. PICK i \in DOMAIN s : r[n] = s[i] /\ Rank(DOMAIN s, i) = n
    BY <1>4, RowsFacts
  <2>2. i \in 1..Len(s) /\ i \in Nat
    BY <1>1, <2>1
  <2>3. {j \in DOMAIN s : j <= i} = 1..i
    BY <1>1, <2>2
  <2>4. Cardinality(1..i) = i
    BY <2>2, FS_Interval
  <2>5. i = n
    BY <2>1, <2>3, <2>4, RankOf
  <2> QED
    BY <2>1, <2>5
<1> QED
  BY <1>3, <1>4, SeqEqual

(* The rows of a key are consecutive and of one source.                     *)
OneRun(s) ==
  \A i, j \in DOMAIN s :
    (i < j /\ s[i].key = s[j].key) =>
      \A m \in i..j : s[m].key = s[i].key /\ s[m].source = s[i].source

GoodRows(s) == s \in Seq(Entry) /\ OneRun(s)
GoodRing(s) == GoodRows(s) /\ Len(s) <= MaxEntries

(* Taking rows out never splits what is left of a run.                      *)
LEMMA KeepRun ==
  ASSUME NEW s, GoodRows(s), NEW I \in SUBSET DOMAIN s
  PROVE  GoodRows(Rows(s, I)) /\ Len(Rows(s, I)) <= Len(s)
<1> DEFINE r == Rows(s, I)
<1>1. s \in Seq(Entry) /\ Len(s) \in Nat /\ DOMAIN s = 1..Len(s)
  BY LenProperties DEF GoodRows
<1>2. r \in Seq(Entry) /\ Len(r) <= Len(s)
  BY <1>1, RowsFacts
<1>3. PICK p \in [1..Len(r) -> I] : /\ \A n \in 1..Len(r) : r[n] = s[p[n]]
                                    /\ \A n, m \in 1..Len(r) : n < m => p[n] < p[m]
  BY <1>1, RowsFacts
<1> HIDE DEF r
<1>4. Len(r) \in Nat /\ DOMAIN r = 1..Len(r)
  BY <1>2, LenProperties
<1>5. \A n \in 1..Len(r) : p[n] \in DOMAIN s /\ p[n] \in Nat
  BY <1>1, <1>3
<1>6. ASSUME NEW i \in 1..Len(r), NEW j \in 1..Len(r), i < j, r[i].key = r[j].key, NEW m \in i..j
      PROVE  r[m].key = r[i].key /\ r[m].source = r[i].source
  <2>1. m \in 1..Len(r)
    BY <1>4, <1>6
  <2>2. p[i] <= p[m] /\ p[m] <= p[j] /\ p[i] < p[j]
    <3>1. i < m => p[i] < p[m]
      BY <1>3, <2>1
    <3>2. m < j => p[m] < p[j]
      BY <1>3, <2>1
    <3>3. i = m \/ i < m
      BY <1>4
    <3>4. m = j \/ m < j
      BY <1>4
    <3>5. p[i] <= p[m]
      BY <1>5, <2>1, <3>1, <3>3
    <3>6. p[m] <= p[j]
      BY <1>5, <2>1, <3>2, <3>4
    <3> QED
      BY <1>3, <1>6, <3>5, <3>6
  <2>3. p[m] \in p[i]..p[j]
    BY <1>5, <2>1, <2>2
  <2>4. s[p[i]].key = s[p[j]].key
    BY <1>3, <1>6
  <2>5. s[p[m]].key = s[p[i]].key /\ s[p[m]].source = s[p[i]].source
    BY <1>5, <2>2, <2>3, <2>4 DEF GoodRows, OneRun
  <2> QED
    BY <1>3, <2>1, <2>5
<1>7. OneRun(r)
  BY <1>4, <1>6 DEF OneRun
<1> QED
  BY <1>2, <1>7 DEF GoodRows, r

(* collapse leaves a ring with one run per key as it is ("A ring that       *)
(* already satisfies the one-run-per-key rule comes back unchanged").       *)
LEMMA CollapseKeeps ==
  ASSUME NEW s, GoodRows(s)
  PROVE  Collapse(s) = s
<1>1. s \in Seq(Entry) /\ Len(s) \in Nat /\ DOMAIN s = 1..Len(s)
  BY LenProperties DEF GoodRows
<1>2. ASSUME NEW i \in DOMAIN s PROVE InNewestRun(s, i)
  <2> SUFFICES ASSUME NEW j \in i..Len(s), s[j].key = s[i].key, NEW m \in i..j
               PROVE  s[m].key = s[i].key
    BY DEF InNewestRun
  <2>1. j \in DOMAIN s /\ i \in Nat /\ j \in Nat /\ m \in Nat
    BY <1>1
  <2>2. CASE i < j
    BY <2>1, <2>2 DEF GoodRows, OneRun
  <2>3. CASE ~(i < j)
    <3>1. m = i
      BY <2>1, <2>3
    <3> QED
      BY <3>1
  <2> QED
    BY <2>2, <2>3
<1>3. {i \in DOMAIN s : InNewestRun(s, i)} = DOMAIN s
  BY <1>2
<1> QED
  BY <1>1, <1>3, RowsAll DEF Collapse

(* What collapse promises of any list, one of an older agent included: the  *)
(* rows of a card are consecutive ("a recent.json written before the rule   *)
(* existed loses its duplicates", recent.go 147).                           *)
THEOREM CollapseJoinsRuns ==
  ASSUME NEW s \in Seq(Entry), NEW r, r = Collapse(s)
  PROVE  /\ r \in Seq(Entry) /\ Len(r) <= Len(s)
         /\ \A i, j \in DOMAIN r :
              (i < j /\ r[i].key = r[j].key) => \A m \in i..j : r[m].key = r[i].key
<1> DEFINE I == {i \in DOMAIN s : InNewestRun(s, i)}
<1>1. Len(s) \in Nat /\ DOMAIN s = 1..Len(s)
  BY LenProperties
<1>2. r = Rows(s, I) /\ I \in SUBSET DOMAIN s
  BY DEF Collapse
<1>3. \A i \in I : i \in DOMAIN s /\ InNewestRun(s, i)
  OBVIOUS
<1> HIDE DEF I
<1>4. r \in Seq(Entry) /\ Len(r) <= Len(s)
  BY <1>2, RowsFacts
<1>5. PICK p \in [1..Len(r) -> I] : /\ \A n \in 1..Len(r) : r[n] = s[p[n]]
                                    /\ \A n, m \in 1..Len(r) : n < m => p[n] < p[m]
  BY <1>2, RowsFacts
<1>6. Len(r) \in Nat /\ DOMAIN r = 1..Len(r)
  BY <1>4, LenProperties
<1>7. \A n \in 1..Len(r) : p[n] \in 1..Len(s) /\ p[n] \in Nat /\ InNewestRun(s, p[n])
  BY <1>1, <1>3, <1>5
<1>8. ASSUME NEW i \in 1..Len(r), NEW j \in 1..Len(r), i < j, r[i].key = r[j].key, NEW m \in i..j
      PROVE  r[m].key = r[i].key
  <2>1. m \in 1..Len(r) /\ (m = i \/ i < m) /\ (m = j \/ m < j)
    BY <1>6, <1>8
  <2>2. p[i] <= p[m] /\ p[m] <= p[j]
    <3>1. i < m => p[i] < p[m]
      BY <1>5, <2>1
    <3>2. m < j => p[m] < p[j]
      BY <1>5, <2>1
    <3> QED
      BY <1>7, <2>1, <3>1, <3>2
  <2>3. p[i] < p[j]
    BY <1>5, <1>8
  <2>4. p[j] \in p[i]..Len(s) /\ p[m] \in p[i]..p[j]
    BY <1>1, <1>7, <2>1, <2>2, <2>3
  <2>5. s[p[j]].key = s[p[i]].key
    BY <1>5, <1>8
  <2>6. s[p[m]].key = s[p[i]].key
    BY <1>7, <2>4, <2>5 DEF InNewestRun
  <2> QED
    BY <1>5, <2>1, <2>6
<1> QED
  BY <1>4, <1>6, <1>8

(* No station is lost by collapse: its newest row stays (the walk is        *)
(* newest-first, and the first run seen for a key is its newest session).   *)
THEOREM CollapseKeepsNewest ==
  ASSUME NEW s \in Seq(Entry), NEW r, r = Collapse(s), NEW i \in DOMAIN s
  PROVE  \E j \in DOMAIN s, n \in DOMAIN r :
           /\ s[j].key = s[i].key /\ r[n] = s[j]
           /\ \A m \in DOMAIN s : j < m => s[m].key # s[i].key
<1> DEFINE I == {j \in DOMAIN s : InNewestRun(s, j)}
           Same == {j \in DOMAIN s : s[j].key = s[i].key}
<1>1. Len(s) \in Nat /\ DOMAIN s = 1..Len(s)
  BY LenProperties
<1>2. PICK j \in Same : \A m \in Same : m <= j
  <2>1. Same \in SUBSET (1..Len(s)) /\ Same # {}
    BY <1>1
  <2> HIDE DEF Same
  <2> QED
    BY <1>1, <2>1, LastOfPlaces
<1>3. \A m \in DOMAIN s : j < m => s[m].key # s[i].key
  BY <1>1, <1>2
<1>4. InNewestRun(s, j)
  <2> SUFFICES ASSUME NEW k \in j..Len(s), s[k].key = s[j].key, NEW m \in j..k
               PROVE  s[m].key = s[j].key
    BY DEF InNewestRun
  <2>1. j \in 1..Len(s) /\ k \in DOMAIN s /\ s[k].key = s[i].key
    BY <1>1, <1>2
  <2>2. k = j /\ m = j
    BY <1>1, <1>3, <2>1
  <2> QED
    BY <2>2
<1>5. j \in I /\ I \in SUBSET DOMAIN s /\ r = Rows(s, I)
  BY <1>2, <1>4 DEF Collapse
<1> HIDE DEF I
<1>6. r \in Seq(Entry) /\ \E n \in 1..Len(r) : r[n] = s[j]
  <2>1. PICK p \in [1..Len(r) -> I] : /\ \A n \in 1..Len(r) : r[n] = s[p[n]]
                                      /\ \A x \in I : \E n \in 1..Len(r) : p[n] = x
    BY <1>5, RowsFacts
  <2>2. r \in Seq(Entry)
    BY <1>5, RowsFacts
  <2> QED
    BY <1>5, <2>1, <2>2
<1>7. PICK n \in DOMAIN r : r[n] = s[j]
  BY <1>6, LenProperties
<1> QED
  BY <1>2, <1>3, <1>7

(* The newest rows of a list are a ring.                                    *)
LEMMA CapTailGood ==
  ASSUME NEW s, GoodRows(s)
  PROVE  GoodRing(CapTail(s)) /\ (Len(s) <= MaxEntries => CapTail(s) = s)
<1> DEFINE k == Len(s) - MaxEntries
           r == SubSeq(s, k + 1, Len(s))
<1>1. MaxEntries \in Nat /\ MaxEntries > 0
  BY RecentAssumption
<1>2. s \in Seq(Entry) /\ Len(s) \in Nat /\ DOMAIN s = 1..Len(s)
  BY LenProperties DEF GoodRows
<1>3. CASE Len(s) <= MaxEntries
  BY <1>3 DEF GoodRing, CapTail
<1>4. CASE ~(Len(s) <= MaxEntries)
  <2>1. k \in Nat /\ k + 1 \in Int /\ k + 1 <= Len(s) /\ Len(s) - (k + 1) + 1 = MaxEntries
    BY <1>1, <1>2, <1>4
  <2>2. \A i \in (k + 1)..Len(s) : s[i] \in Entry
    <3> SUFFICES ASSUME NEW i \in (k + 1)..Len(s) PROVE s[i] \in Entry
      OBVIOUS
    <3>1. i \in 1..Len(s)
      BY <1>2, <2>1
    <3> QED
      BY <1>2, <3>1, ElementOfSeq
  <2>3. CapTail(s) = r
    BY <1>4 DEF CapTail
  <2> HIDE DEF k
  <2>4. /\ r \in Seq(Entry) /\ Len(r) = MaxEntries
        /\ \A i \in 1..MaxEntries : r[i] = s[k + 1 + i - 1]
    <3> DEFINE lo == k + 1
    <3>1. lo \in Int /\ Len(s) \in Int /\ lo <= Len(s) /\ Len(s) - lo + 1 = MaxEntries
      BY <1>1, <1>2, <2>1 DEF k
    <3>2. r = SubSeq(s, lo, Len(s)) /\ \A i \in lo..Len(s) : s[i] \in Entry
      BY <2>2
    <3> HIDE DEF lo, r
    <3>3. /\ SubSeq(s, lo, Len(s)) \in Seq(Entry)
          /\ Len(SubSeq(s, lo, Len(s))) = Len(s) - lo + 1
          /\ \A i \in 1..Len(s) - lo + 1 : SubSeq(s, lo, Len(s))[i] = s[lo + i - 1]
      BY <3>1, <3>2, SubSeqProperties
    <3>4. \A i \in 1..MaxEntries : r[i] = s[lo + i - 1]
      BY <3>1, <3>2, <3>3
    <3> QED
      BY <3>1, <3>2, <3>3, <3>4 DEF lo
  <2> HIDE DEF r
  <2>5. \A i \in 1..MaxEntries : r[i] = s[i + k] /\ i + k \in DOMAIN s
    <3> SUFFICES ASSUME NEW i \in 1..MaxEntries PROVE r[i] = s[i + k] /\ i + k \in DOMAIN s
      OBVIOUS
    <3>1. k + 1 + i - 1 = i + k /\ i + k \in 1..Len(s)
      BY <1>1, <1>2, <2>1
    <3> QED
      BY <1>2, <2>4, <3>1
  <2>6. DOMAIN r = 1..MaxEntries
    BY <2>4, LenProperties
  <2>7. ASSUME NEW i \in 1..MaxEntries, NEW j \in 1..MaxEntries, i < j, r[i].key = r[j].key,
               NEW m \in i..j
        PROVE  r[m].key = r[i].key /\ r[m].source = r[i].source
    <3>1. m \in 1..MaxEntries /\ m + k \in (i + k)..(j + k) /\ i + k < j + k
      BY <1>1, <2>1, <2>7
    <3>2. s[i + k].key = s[j + k].key /\ i + k \in DOMAIN s /\ j + k \in DOMAIN s
      BY <2>5, <2>7
    <3>3. s[m + k].key = s[i + k].key /\ s[m + k].source = s[i + k].source
      BY <3>1, <3>2 DEF GoodRows, OneRun
    <3> QED
      BY <2>5, <3>1, <3>3
  <2>8. OneRun(r)
    BY <2>6, <2>7 DEF OneRun
  <2> QED
    BY <1>1, <1>4, <2>3, <2>4, <2>8 DEF GoodRing, GoodRows
<1> QED
  BY <1>3, <1>4

(* Dropping the other session of a card, a play opens or extends its run.   *)
LEMMA AppendGood ==
  ASSUME NEW s, GoodRows(s), NEW e \in Entry,
         SameSession(s, e) \/ \A i \in DOMAIN s : s[i].key # e.key
  PROVE  GoodRows(Append(s, e))
<1> DEFINE r == Append(s, e)
<1>1. s \in Seq(Entry) /\ Len(s) \in Nat /\ DOMAIN s = 1..Len(s)
  BY LenProperties DEF GoodRows
<1>2. /\ r \in Seq(Entry) /\ Len(r) = Len(s) + 1
      /\ \A i \in 1..Len(s) : r[i] = s[i]
      /\ r[Len(s) + 1] = e
  BY <1>1, AppendProperties
<1> HIDE DEF r
<1>3. DOMAIN r = 1..Len(s) + 1
  BY <1>2, LenProperties
<1>4. ASSUME NEW i \in DOMAIN r, NEW j \in DOMAIN r, i < j, r[i].key = r[j].key, NEW m \in i..j
      PROVE  r[m].key = r[i].key /\ r[m].source = r[i].source
  <2>1. i \in 1..Len(s) /\ i \in Nat /\ j \in Nat /\ m \in Nat /\ i <= m /\ m <= j
    BY <1>1, <1>3, <1>4
  <2>2. CASE j \in 1..Len(s)
    <3>1. m \in 1..Len(s)
      BY <1>1, <2>1, <2>2
    <3>2. s[i].key = s[j].key
      BY <1>2, <1>4, <2>1, <2>2
    <3>3. s[m].key = s[i].key /\ s[m].source = s[i].source
      BY <1>1, <1>4, <2>1, <2>2, <3>2 DEF GoodRows, OneRun
    <3> QED
      BY <1>2, <2>1, <3>1, <3>3
  <2>3. CASE j \notin 1..Len(s)
    <3>1. j = Len(s) + 1 /\ s[i].key = e.key
      BY <1>1, <1>2, <1>3, <1>4, <2>1, <2>3
    <3>2. SameSession(s, e)
      BY <1>1, <2>1, <3>1
    <3>3. s[Len(s)].key = e.key /\ s[Len(s)].source = e.source
      BY <3>2 DEF SameSession, Last
    <3>4. \A x \in i..Len(s) : s[x].key = e.key /\ s[x].source = e.source
      <4>1. CASE i = Len(s)
        BY <1>1, <2>1, <3>3, <4>1
      <4>2. CASE i < Len(s)
        <5>1. Len(s) \in DOMAIN s
          BY <1>1, <2>1
        <5>2. \A x \in i..Len(s) : s[x].key = s[i].key /\ s[x].source = s[i].source
          BY <1>1, <2>1, <3>1, <3>3, <4>2, <5>1 DEF GoodRows, OneRun
        <5>3. Len(s) \in i..Len(s)
          BY <1>1, <2>1
        <5> QED
          BY <3>1, <3>3, <5>2, <5>3
      <4> QED
        BY <1>1, <2>1, <4>1, <4>2
    <3>5. \A x \in i..(Len(s) + 1) : r[x].key = e.key /\ r[x].source = e.source
      <4> SUFFICES ASSUME NEW x \in i..(Len(s) + 1)
                   PROVE  r[x].key = e.key /\ r[x].source = e.source
        OBVIOUS
      <4>1. CASE x = Len(s) + 1
        BY <1>2, <4>1
      <4>2. CASE x # Len(s) + 1
        <5>1. x \in i..Len(s) /\ x \in 1..Len(s)
          BY <1>1, <2>1, <4>2
        <5> QED
          BY <1>2, <3>4, <5>1
      <4> QED
        BY <4>1, <4>2
    <3>6. m \in i..(Len(s) + 1) /\ i \in i..(Len(s) + 1)
      BY <1>1, <2>1, <3>1
    <3> QED
      BY <3>5, <3>6
  <2> QED
    BY <2>2, <2>3
<1>5. OneRun(r)
  BY <1>4 DEF OneRun
<1> QED
  BY <1>2, <1>5 DEF GoodRows, r

LEMMA EmptyGood == GoodRing(<<>>)
<1>1. <<>> \in Seq(Entry) /\ Len(<<>>) = 0
  BY EmptySeq
<1>2. DOMAIN <<>> = 1..0
  BY <1>1, LenProperties
<1> QED
  BY <1>1, <1>2, RecentAssumption DEF GoodRing, GoodRows, OneRun

(* Deleting a card leaves a ring.                                           *)
LEMMA DropKeyGood ==
  ASSUME NEW s, GoodRows(s), NEW k
  PROVE  /\ GoodRows(DropKey(s, k)) /\ Len(DropKey(s, k)) <= Len(s)
         /\ \A i \in DOMAIN DropKey(s, k) : DropKey(s, k)[i].key # k
<1> DEFINE I == {i \in DOMAIN s : s[i].key # k}
           r == Rows(s, I)
<1>1. DropKey(s, k) = r /\ I \in SUBSET DOMAIN s /\ s \in Seq(Entry)
  BY DEF DropKey, GoodRows
<1>2. \A i \in I : s[i].key # k
  OBVIOUS
<1> HIDE DEF I
<1>3. GoodRows(r) /\ Len(r) <= Len(s)
  BY <1>1, KeepRun
<1>4. PICK p \in [1..Len(r) -> I] : \A n \in 1..Len(r) : r[n] = s[p[n]]
  BY <1>1, RowsFacts
<1> HIDE DEF r
<1>5. DOMAIN r = 1..Len(r)
  BY <1>3, LenProperties DEF GoodRows
<1>6. \A n \in DOMAIN r : r[n].key # k
  BY <1>2, <1>4, <1>5
<1> QED
  BY <1>1, <1>3, <1>6

(* Naming the track of the newest row leaves a ring.                        *)
LEMMA TrackGood ==
  ASSUME NEW s, GoodRing(s), s # <<>>, NEW t \in Tracks \cup {NoTrack}
  PROVE  GoodRing([s EXCEPT ![Len(s)].track = t])
<1> DEFINE x == [s[Len(s)] EXCEPT !.track = t]
           r == [s EXCEPT ![Len(s)] = x]
<1>1. s \in Seq(Entry) /\ Len(s) \in Nat /\ DOMAIN s = 1..Len(s) /\ Len(s) # 0
  BY LenProperties, EmptySeq DEF GoodRing, GoodRows
<1>2. Len(s) \in 1..Len(s)
  BY <1>1
<1>3. s[Len(s)] \in Entry
  BY <1>1, <1>2, ElementOfSeq
<1>4. x \in Entry /\ x.key = s[Len(s)].key /\ x.source = s[Len(s)].source
  BY <1>3 DEF Entry
<1>5. [s EXCEPT ![Len(s)].track = t] = r
  OBVIOUS
<1> HIDE DEF x
<1>6. /\ r \in Seq(Entry) /\ Len(r) = Len(s)
      /\ \A i \in 1..Len(s) : r[i] = IF i = Len(s) THEN x ELSE s[i]
  BY <1>1, <1>2, <1>4, ExceptSeq
<1> HIDE DEF r
<1>7. DOMAIN r = DOMAIN s
  BY <1>1, <1>6, LenProperties
<1>8. \A i \in DOMAIN s : r[i].key = s[i].key /\ r[i].source = s[i].source
  BY <1>1, <1>4, <1>6
<1>9. \A i, j \in DOMAIN s : \A m \in i..j : m \in DOMAIN s
  BY <1>1
<1>10. OneRun(r)
  BY <1>7, <1>8, <1>9 DEF OneRun, GoodRing, GoodRows
<1> QED
  BY <1>5, <1>6, <1>10 DEF GoodRing, GoodRows

(* Add leaves a ring.                                                       *)
LEMMA AddedGood ==
  ASSUME NEW s, GoodRing(s), NEW e \in Entry
  PROVE  GoodRing(Added(s, e))
<1>1. CASE Folds(s, e)
  <2>1. s # <<>> /\ e.track \in Tracks \cup {NoTrack}
    BY <1>1 DEF Folds, SameSession, Entry
  <2> QED
    BY <1>1, <2>1, TrackGood DEF Added
<1>2. CASE ~Folds(s, e)
  <2> DEFINE b == IF SameSession(s, e) THEN s ELSE DropKey(s, e.key)
  <2>1. GoodRows(s)
    BY DEF GoodRing
  <2>2. GoodRows(b) /\ (SameSession(b, e) \/ \A i \in DOMAIN b : b[i].key # e.key)
    BY <2>1, DropKeyGood
  <2>3. Added(s, e) = CapTail(Append(b, e))
    BY <1>2 DEF Added
  <2> HIDE DEF b
  <2>4. GoodRows(Append(b, e))
    BY <2>2, AppendGood
  <2> QED
    BY <2>3, <2>4, CapTailGood
<1> QED
  BY <1>1, <1>2

(* What a reader of the file can get, and what the agent then starts with.  *)
GoodFile(c) == c = NoFile \/ GoodRing(c)

LEMMA LoadGood ==
  ASSUME NEW c, GoodFile(c)
  PROVE  GoodRing(Load(c)) /\ Load(c) = OnFile(c)
<1>1. GoodRing(OnFile(c))
  BY EmptyGood DEF OnFile, GoodFile
<1>2. GoodRows(OnFile(c)) /\ Len(OnFile(c)) <= MaxEntries
  BY <1>1 DEF GoodRing
<1>3. Collapse(OnFile(c)) = OnFile(c)
  BY <1>2, CollapseKeeps
<1> QED
  BY <1>1, <1>2, <1>3, CapTailGood DEF Load

LEMMA RingIsNoHole ==
  ASSUME NEW s, GoodRing(s)
  PROVE  s # NoFile /\ OnFile(s) = s
BY RecentAssumption DEF GoodRing, GoodRows, OnFile
-----------------------------------------------------------------------------
(* The types, and that all rings, in RAM, on their way to the file and in   *)
(* it, list a card once.                                                    *)
ControlInv ==
  /\ dirty \in BOOLEAN /\ timer \in BOOLEAN /\ stopping \in BOOLEAN
  /\ failed \in BOOLEAN /\ overtaken \in BOOLEAN /\ cutOff \in BOOLEAN
  /\ pc \in [Flushers -> Steps]
  /\ caller \in [Flushers -> Callers]
  /\ writing \in Flushers \cup {None} /\ newest \in Flushers \cup {None}
  /\ boots \in 1..MaxBoots /\ plays \in 0..MaxPlays

RowsInv ==
  /\ GoodRing(data)
  /\ DOMAIN bytes = Flushers /\ \A f \in Flushers : GoodRing(bytes[f])
  /\ GoodFile(fileNow) /\ GoodFile(fileSaved)

LEMMA ControlInit == Init => ControlInv
<1> SUFFICES ASSUME Init PROVE ControlInv
  OBVIOUS
<1>1. MaxBoots \in Nat /\ MaxBoots > 0 /\ MaxPlays \in Nat
  BY RecentAssumption
<1>2. /\ dirty = FALSE /\ timer = FALSE /\ stopping = FALSE
      /\ failed = FALSE /\ newest = None /\ overtaken = FALSE /\ cutOff = FALSE
      /\ pc = [f \in Flushers |-> "idle"] /\ caller = [f \in Flushers |-> None]
      /\ writing = None /\ boots = 1 /\ plays = 0
  BY DEF Init
<1>3. boots \in 1..MaxBoots /\ plays \in 0..MaxPlays
  BY <1>1, <1>2
<1> QED
  BY <1>2, <1>3 DEF ControlInv, Steps, Callers

LEMMA ControlStep == ControlInv /\ [Next]_vars => ControlInv'
<1> SUFFICES ASSUME ControlInv, [Next]_vars PROVE ControlInv'
  OBVIOUS
<1> USE DEF ControlInv, history, bounds
<1>0. MaxBoots \in Nat /\ boots \in Nat /\ MaxPlays \in Nat /\ plays \in Nat
  BY RecentAssumption
<1>1. CASE UNCHANGED vars
  BY <1>1 DEF vars
<1>2. ASSUME NEW e \in Plays, Add(e) PROVE ControlInv'
  <2>1. /\ dirty' = TRUE /\ timer' = TRUE /\ plays' \in 0..MaxPlays
        /\ UNCHANGED <<pc, caller, writing, stopping, boots, history>>
    BY <1>0, <1>2 DEF Add, MarkDirty
  <2> QED
    BY <2>1
<1>3. ASSUME NEW c, Boot(c), cutOff' \in BOOLEAN PROVE ControlInv'
  <2>1. /\ dirty' = FALSE /\ timer' = FALSE /\ stopping' = FALSE
        /\ failed' = FALSE /\ newest' = None /\ overtaken' = FALSE
        /\ pc' = [f \in Flushers |-> "idle"] /\ caller' = [f \in Flushers |-> None]
        /\ writing' = None /\ boots < MaxBoots /\ boots' = boots + 1 /\ plays' = plays
    BY <1>3 DEF Boot
  <2>2. boots' \in 1..MaxBoots
    BY <1>0, <2>1
  <2> QED
    BY <1>3, <2>1, <2>2 DEF Steps, Callers
<1>4. ASSUME NEW f \in Flushers, Clear(f) \/ DeleteNothing(f)
                                 \/ \E row \in DOMAIN data : DeleteCardAt(f, row)
      PROVE  ControlInv'
  BY <1>4 DEF Clear, DeleteNothing, DeleteCardAt, MarkDirty,
              Calls, GoTo, Steps, Callers
<1>5. ASSUME NEW f \in Flushers, TimerFires(f) \/ Shutdown(f)
      PROVE  ControlInv'
  BY <1>5 DEF TimerFires, Shutdown, Calls, GoTo, Steps,
              Callers
<1>6. ASSUME NEW f \in Flushers, Returns(f)
      PROVE  /\ pc' \in [Flushers -> Steps]
             /\ caller' \in [Flushers -> Callers]
  BY <1>6 DEF Returns, GoTo, Steps, Callers
<1>7. ASSUME NEW f \in Flushers, FlushClean(f) \/ WriteFails(f) \/ Sync(f)
      PROVE  ControlInv'
  BY <1>6, <1>7 DEF FlushClean, WriteFails, Sync
<1>8. ASSUME NEW f \in Flushers, Snapshot(f) \/ Write(f)
      PROVE  ControlInv'
  BY <1>8 DEF Snapshot, Write, GoTo, Steps
<1>9. ASSUME NEW f \in Flushers, FlushStep(f) \/ Exit(f) PROVE ControlInv'
  BY <1>3, <1>7, <1>8, <1>9 DEF FlushStep, Exit
<1>10. CASE PowerCut
  BY <1>3, <1>10 DEF PowerCut
<1> QED
  BY <1>1, <1>2, <1>4, <1>5, <1>9, <1>10, Zenon DEF Next

LEMMA RowsInit == Init => RowsInv
BY EmptyGood DEF Init, File!DurableInit, RowsInv, GoodFile

LEMMA RowsStep == RowsInv /\ [Next]_vars => RowsInv'
<1> SUFFICES ASSUME RowsInv, [Next]_vars PROVE RowsInv'
  OBVIOUS
<1>0. /\ GoodRing(data) /\ DOMAIN bytes = Flushers /\ \A f \in Flushers : GoodRing(bytes[f])
      /\ GoodFile(fileNow) /\ GoodFile(fileSaved) /\ GoodRing(<<>>)
  BY EmptyGood DEF RowsInv
<1>1. ASSUME GoodRing(data'), UNCHANGED <<bytes, fileNow, fileSaved>> PROVE RowsInv'
  BY <1>0, <1>1 DEF RowsInv
<1>2. CASE UNCHANGED vars
  BY <1>0, <1>1, <1>2 DEF vars, fileVars
<1>3. ASSUME NEW e \in Plays, Add(e) PROVE RowsInv'
  <2>1. e \in Entry
    BY RecentAssumption
  <2>2. GoodRing(data')
    BY <1>0, <1>3, <2>1, AddedGood DEF Add
  <2> QED
    BY <1>1, <1>3, <2>2 DEF Add, fileVars
<1>4. ASSUME NEW f \in Flushers, Clear(f) PROVE RowsInv'
  BY <1>0, <1>1, <1>4 DEF Clear, fileVars
<1>5. ASSUME NEW f \in Flushers, NEW row \in DOMAIN data, DeleteCardAt(f, row)
      PROVE  RowsInv'
  <2>1. GoodRows(data) /\ Len(data) <= MaxEntries /\ Len(data) \in Nat /\ MaxEntries \in Nat
    BY <1>0, LenProperties, RecentAssumption DEF GoodRing, GoodRows
  <2>2. /\ GoodRows(data') /\ Len(data') <= Len(data)
    BY <1>5, <2>1, DropKeyGood DEF DeleteCardAt
  <2>3. Len(data') \in Nat
    BY <2>2, LenProperties DEF GoodRows
  <2>4. GoodRing(data')
    BY <2>1, <2>2, <2>3 DEF GoodRing
  <2> QED
    BY <1>1, <1>5, <2>4 DEF DeleteCardAt, fileVars
<1>6. ASSUME NEW f \in Flushers,
             DeleteNothing(f) \/ TimerFires(f) \/ Shutdown(f)
      PROVE  RowsInv'
  <2>1. UNCHANGED <<data, bytes, fileNow, fileSaved>>
    BY <1>6 DEF DeleteNothing, TimerFires, Shutdown, fileVars
  <2> QED
    BY <1>0, <1>1, <2>1
<1>7. ASSUME NEW f \in Flushers, NEW s, GoodRing(s), bytes' = [bytes EXCEPT ![f] = s]
      PROVE  DOMAIN bytes' = Flushers /\ \A g \in Flushers : GoodRing(bytes'[g])
  <2>1. \A g \in Flushers : bytes'[g] = IF g = f THEN s ELSE bytes[g]
    BY <1>0, <1>7
  <2> QED
    BY <1>0, <1>7, <2>1
<1>8. ASSUME NEW f \in Flushers, Returns(f), data' = data,
             GoodFile(fileNow'), GoodFile(fileSaved')
      PROVE  RowsInv'
  BY <1>0, <1>7, <1>8 DEF Returns, RowsInv
<1>9. ASSUME NEW f \in Flushers, FlushClean(f) \/ WriteFails(f) PROVE RowsInv'
  <2>1. Returns(f) /\ UNCHANGED <<data, fileNow, fileSaved>>
    BY <1>9 DEF FlushClean, WriteFails, fileVars
  <2> QED
    BY <1>0, <1>8, <2>1
<1>10. ASSUME NEW f \in Flushers, Sync(f) PROVE RowsInv'
  <2>1. Returns(f) /\ UNCHANGED <<data, fileNow>> /\ fileSaved' = fileNow
    BY <1>10 DEF Sync, File!Persist
  <2> QED
    BY <1>0, <1>8, <2>1
<1>11. ASSUME NEW f \in Flushers, Snapshot(f) PROVE RowsInv'
  <2>1. bytes' = [bytes EXCEPT ![f] = data] /\ UNCHANGED <<data, fileNow, fileSaved>>
    BY <1>11 DEF Snapshot, fileVars
  <2> QED
    BY <1>0, <1>7, <2>1 DEF RowsInv
<1>12. ASSUME NEW f \in Flushers, Write(f) PROVE RowsInv'
  <2>1. fileNow' = bytes[f] /\ UNCHANGED <<data, bytes, fileSaved>>
    BY <1>12 DEF Write, File!Replace
  <2> QED
    BY <1>0, <2>1 DEF RowsInv, GoodFile
<1>13. ASSUME NEW c, GoodFile(c), Boot(c), GoodFile(fileNow'), GoodFile(fileSaved')
       PROVE  RowsInv'
  <2>1. data' = Load(c) /\ bytes' = [f \in Flushers |-> <<>>]
    BY <1>13 DEF Boot
  <2>2. GoodRing(data')
    BY <1>13, <2>1, LoadGood
  <2> QED
    BY <1>0, <1>13, <2>1, <2>2 DEF RowsInv
<1>14. ASSUME NEW f \in Flushers, Exit(f) PROVE RowsInv'
  BY <1>0, <1>13, <1>14 DEF Exit, fileVars
<1>15. CASE PowerCut
  BY <1>0, <1>13, <1>15 DEF PowerCut, File!PowerLoss
<1>16. ASSUME NEW f \in Flushers, FlushStep(f) PROVE RowsInv'
  BY <1>9, <1>10, <1>11, <1>12, <1>16 DEF FlushStep
<1> QED
  BY <1>2, <1>3, <1>4, <1>5, <1>6, <1>14, <1>15, <1>16, Zenon DEF Next

LEMMA RingAlways == Spec => [](ControlInv /\ RowsInv)
BY ControlInit, ControlStep, RowsInit, RowsStep, PTL DEF Spec

(* The types hold, the ring never outgrows maxEntries, and neither does     *)
(* what is written or read back.                                            *)
THEOREM RecentTypeCorrect == Spec => []TypeOK
<1>1. \A s : GoodRing(s) => IsRing(s)
  BY DEF GoodRing, GoodRows, IsRing
<1>2. ControlInv /\ RowsInv => TypeOK
  BY <1>1 DEF ControlInv, RowsInv, GoodFile, TypeOK
<1> QED
  BY <1>2, RingAlways, PTL

(* A card is listed once, whatever is played, deleted and loaded back.      *)
THEOREM OneRunPerKeyHolds == Spec => []OneRunPerKey
<1>1. RowsInv => OneRunPerKey
  BY DEF RowsInv, GoodRing, GoodRows, OneRun, OneRunPerKey
<1> QED
  BY <1>1, RingAlways, PTL
-----------------------------------------------------------------------------
(* While the ring is clean, the newest snapshot on its way, or else the     *)
(* file, is the ring, however many flushes overlap: only a snapshot that is *)
(* written after a newer one leaves an older ring in the file.  The flash   *)
(* is behind the file while a write holds the lock, or if the agent ended   *)
(* in such a write.                                                         *)
QuietInv ==
  /\ \A f \in Flushers : pc[f] = "sync" <=> writing = f
  /\ writing = None /\ ~cutOff => fileSaved = fileNow
  /\ \A f \in Flushers : newest = f => dirty \/ (pc[f] = "write" /\ bytes[f] = data)
  /\ ~dirty /\ newest = None /\ ~overtaken => OnFile(fileNow) = data

LEMMA RingQuietInit == Init => QuietInv
<1> SUFFICES ASSUME Init PROVE QuietInv
  OBVIOUS
<1>1. None \notin Flushers
  BY RecentAssumption
<1>2. /\ data = <<>> /\ pc = [f \in Flushers |-> "idle"] /\ writing = None /\ newest = None
      /\ fileNow = NoFile /\ fileSaved = NoFile
  BY DEF Init, File!DurableInit
<1>3. \A f \in Flushers : pc[f] = "idle" /\ writing # f /\ newest # f
  BY <1>1, <1>2
<1>4. OnFile(fileNow) = data
  BY <1>2 DEF OnFile
<1> QED
  BY <1>2, <1>3, <1>4 DEF QuietInv

(* A step that neither writes nor takes a snapshot.                         *)
LEMMA RingQuietKept ==
  ASSUME QuietInv, UNCHANGED <<writing, fileNow, fileSaved, newest, overtaken, cutOff>>,
         \A g \in Flushers : pc'[g] = "sync" <=> pc[g] = "sync",
         \/ dirty'
         \/ /\ data' = data /\ dirty' = dirty
            /\ \A g \in Flushers : pc[g] = "write" => pc'[g] = "write" /\ bytes'[g] = bytes[g]
  PROVE  QuietInv'
<1>1. \A f \in Flushers :
        newest' = f => dirty' \/ (pc'[f] = "write" /\ bytes'[f] = data')
  BY DEF QuietInv
<1>2. ~dirty' /\ newest' = None /\ ~overtaken' => OnFile(fileNow') = data'
  BY DEF QuietInv
<1> QED
  BY <1>1, <1>2 DEF QuietInv

LEMMA RingQuietStep ==
  QuietInv /\ ControlInv /\ RowsInv /\ [Next]_vars => QuietInv'
<1> SUFFICES ASSUME QuietInv, ControlInv, RowsInv, [Next]_vars
             PROVE  QuietInv'
  OBVIOUS
<1>0. /\ None \notin Flushers /\ writing \in Flushers \cup {None}
      /\ newest \in Flushers \cup {None}
      /\ DOMAIN pc = Flushers /\ DOMAIN bytes = Flushers
  BY RecentAssumption DEF ControlInv, RowsInv
<1>1. CASE UNCHANGED vars
  BY <1>1, RingQuietKept DEF vars, fileVars, history
<1>2. ASSUME NEW e \in Plays, Add(e) PROVE QuietInv'
  BY <1>2, RingQuietKept DEF Add, MarkDirty, fileVars, history
<1>3. ASSUME NEW f \in Flushers, NEW who, Calls(f, who)
      PROVE  \A g \in Flushers : /\ pc'[g] = "sync" <=> pc[g] = "sync"
                                 /\ pc[g] = "write" => pc'[g] = "write"
  BY <1>0, <1>3 DEF Calls, GoTo
<1>4. ASSUME NEW f \in Flushers, Clear(f) \/ \E row \in DOMAIN data : DeleteCardAt(f, row)
      PROVE  QuietInv'
  <2>1. /\ Calls(f, "delete") /\ dirty'
        /\ UNCHANGED <<bytes, writing, fileNow, fileSaved, newest, overtaken, cutOff>>
    BY <1>4 DEF Clear, DeleteCardAt, MarkDirty, fileVars, history
  <2> QED
    BY <1>3, <2>1, RingQuietKept
<1>5. ASSUME NEW f \in Flushers,
             DeleteNothing(f) \/ TimerFires(f) \/ Shutdown(f)
      PROVE  QuietInv'
  <2>1. /\ \E who : Calls(f, who)
        /\ UNCHANGED <<data, dirty, bytes, writing, fileNow, fileSaved,
                       newest, overtaken, cutOff>>
    BY <1>5 DEF DeleteNothing, TimerFires, Shutdown, fileVars, history
  <2> QED
    BY <1>3, <2>1, RingQuietKept
<1>6. ASSUME NEW f \in Flushers, Returns(f)
      PROVE  /\ pc'[f] \in {"idle", "exit"}
             /\ \A g \in Flushers : g # f => pc'[g] = pc[g] /\ bytes'[g] = bytes[g]
  BY <1>0, <1>6 DEF Returns, GoTo
<1>7. ASSUME NEW f \in Flushers, FlushClean(f) PROVE QuietInv'
  <2>1. /\ pc[f] = "flush" /\ Returns(f)
        /\ UNCHANGED <<data, dirty, writing, fileNow, fileSaved, newest, overtaken, cutOff>>
    BY <1>7 DEF FlushClean, fileVars, history
  <2> QED
    BY <1>6, <2>1, RingQuietKept
<1>8. ASSUME NEW f \in Flushers, WriteFails(f) PROVE QuietInv'
  <2>1. /\ pc[f] = "write" /\ Returns(f) /\ dirty'
        /\ UNCHANGED <<data, writing, fileNow, fileSaved, newest, overtaken, cutOff>>
    BY <1>8 DEF WriteFails, fileVars
  <2> QED
    BY <1>6, <2>1, RingQuietKept
<1>9. ASSUME NEW f \in Flushers, Snapshot(f) PROVE QuietInv'
  <2>1. /\ pc[f] = "flush" /\ UNCHANGED <<data, writing, fileNow, fileSaved, cutOff>>
        /\ pc' = [pc EXCEPT ![f] = "write"] /\ bytes' = [bytes EXCEPT ![f] = data]
        /\ newest' = f
    BY <1>9 DEF Snapshot, GoTo, fileVars
  <2>2. /\ pc'[f] = "write" /\ bytes'[f] = data
        /\ \A g \in Flushers : g # f => pc'[g] = pc[g]
    BY <1>0, <2>1
  <2> QED
    BY <1>0, <2>1, <2>2 DEF QuietInv
<1>10. ASSUME NEW f \in Flushers, Write(f) PROVE QuietInv'
  <2>1. /\ pc[f] = "write" /\ writing = None /\ writing' = f /\ fileNow' = bytes[f]
        /\ pc' = [pc EXCEPT ![f] = "sync"]
        /\ newest' = IF f = newest THEN None ELSE newest
        /\ overtaken' = (newest = None)
        /\ UNCHANGED <<data, dirty, bytes>>
    BY <1>10 DEF Write, File!Replace, GoTo
  <2>2. pc'[f] = "sync" /\ \A g \in Flushers : g # f => pc'[g] = pc[g]
    BY <1>0, <2>1
  <2>3. \A g \in Flushers : pc'[g] = "sync" <=> writing' = g
    BY <1>0, <2>1, <2>2 DEF QuietInv
  <2>4. \A g \in Flushers : newest' = g => g # f /\ newest = g
    BY <1>0, <2>1
  <2>5. ~dirty' /\ newest' = None /\ ~overtaken' => fileNow' = data
    BY <1>0, <2>1 DEF QuietInv
  <2>6. ~dirty' /\ newest' = None /\ ~overtaken' => OnFile(fileNow') = data'
    BY <2>1, <2>5, RingIsNoHole DEF RowsInv
  <2> QED
    BY <1>0, <2>1, <2>2, <2>3, <2>4, <2>6 DEF QuietInv
<1>11. ASSUME NEW f \in Flushers, Sync(f) PROVE QuietInv'
  <2>1. /\ pc[f] = "sync" /\ writing' = None /\ fileSaved' = fileNow
        /\ UNCHANGED <<data, dirty, fileNow, newest, overtaken>> /\ Returns(f)
    BY <1>11 DEF Sync, File!Persist
  <2>2. \A g \in Flushers : g # f => pc[g] # "sync"
    BY <2>1 DEF QuietInv
  <2>3. \A g \in Flushers : pc'[g] # "sync" /\ writing' # g
    BY <1>0, <1>6, <2>1, <2>2
  <2>4. \A g \in Flushers : newest = g => dirty \/ g # f
    BY <2>1 DEF QuietInv
  <2> QED
    BY <1>6, <2>1, <2>3, <2>4 DEF QuietInv
<1>12. ASSUME NEW c, GoodFile(c), Boot(c), fileNow' = c, cutOff' \/ fileSaved' = c
       PROVE  QuietInv'
  <2>1. /\ data' = Load(c) /\ pc' = [g \in Flushers |-> "idle"]
        /\ writing' = None /\ newest' = None
    BY <1>12 DEF Boot
  <2>2. \A g \in Flushers : pc'[g] = "idle" /\ writing' # g /\ newest' # g
    BY <1>0, <2>1
  <2>3. OnFile(fileNow') = data'
    BY <1>12, <2>1, LoadGood
  <2> QED
    BY <1>12, <2>2, <2>3 DEF QuietInv
<1>13. ASSUME NEW f \in Flushers, Exit(f) PROVE QuietInv'
  <2>1. /\ Boot(fileNow) /\ cutOff' = (cutOff \/ writing # None)
        /\ UNCHANGED <<fileNow, fileSaved>>
    BY <1>13 DEF Exit, fileVars
  <2>2. cutOff' \/ fileSaved = fileNow
    BY <2>1 DEF QuietInv
  <2> QED
    BY <1>12, <2>1, <2>2 DEF RowsInv
<1>14. CASE PowerCut
  BY <1>12, <1>14 DEF PowerCut, File!PowerLoss, RowsInv
<1>15. ASSUME NEW f \in Flushers, FlushStep(f) PROVE QuietInv'
  BY <1>7, <1>8, <1>9, <1>10, <1>11, <1>15 DEF FlushStep
<1> QED
  BY <1>1, <1>2, <1>4, <1>5, <1>13, <1>14, <1>15, Zenon DEF Next

LEMMA RingQuietAlways == Spec => [](QuietInv /\ ControlInv /\ RowsInv)
BY RingAlways, RingQuietInit, RingQuietStep, PTL DEF Spec

(* No change is forgotten: when all is quiet and the ring counts as clean,  *)
(* the file and the flash hold it, for any number of flushes that overlap,  *)
(* unless one wrote its snapshot after a newer one or, for the flash, the   *)
(* agent ended in a write.                                                  *)
THEOREM QuietFileIsRingHolds == Spec => []QuietFileIsRing
<1>1. QuietInv /\ ControlInv => QuietFileIsRing
  <2> SUFFICES ASSUME QuietInv, ControlInv, \A f \in Flushers : pc[f] = "idle",
                      ~dirty, ~overtaken
               PROVE  RingIsStored
    BY DEF QuietFileIsRing, Quiet
  <2>1. writing = None /\ newest = None
    BY DEF QuietInv, ControlInv
  <2> QED
    BY <2>1 DEF QuietInv, RingIsStored
<1> QED
  BY <1>1, RingQuietAlways, PTL

(* From the shutdown on nothing changes the ring any more, so once the      *)
(* shutdown's flush has looked at it, it is dirty only because a write      *)
(* failed.                                                                  *)
ShutInv == \A f \in Flushers :
  pc[f] = "exit" \/ (pc[f] # "idle" /\ caller[f] = "shutdown") =>
    stopping /\ (pc[f] # "flush" => failed \/ ~dirty)

LEMMA ShutInit == Init => ShutInv
<1>1. Init => \A f \in Flushers : pc[f] = "idle"
  BY DEF Init
<1> QED
  BY <1>1 DEF ShutInv

LEMMA ShutStep == ShutInv /\ ControlInv /\ [Next]_vars => ShutInv'
<1> SUFFICES ASSUME ShutInv, ControlInv, [Next]_vars PROVE ShutInv'
  OBVIOUS
<1>0. DOMAIN pc = Flushers /\ DOMAIN caller = Flushers
  BY DEF ControlInv
<1>1. CASE UNCHANGED vars
  BY <1>1 DEF vars, history, ShutInv
<1>2. ASSUME NEW e \in Plays, Add(e) PROVE ShutInv'
  BY <1>2 DEF Add, ShutInv
<1>3. ASSUME NEW f \in Flushers, NEW who, Calls(f, who)
      PROVE  /\ pc'[f] = "flush" /\ caller'[f] = who
             /\ \A g \in Flushers : g # f => pc'[g] = pc[g] /\ caller'[g] = caller[g]
  BY <1>0, <1>3 DEF Calls, GoTo
<1>4. ASSUME NEW f \in Flushers, Clear(f) \/ DeleteNothing(f)
                                 \/ \E row \in DOMAIN data : DeleteCardAt(f, row)
      PROVE  ShutInv'
  <2>1. ~stopping /\ Calls(f, "delete")
    BY <1>4 DEF Clear, DeleteNothing, DeleteCardAt
  <2> QED
    BY <1>3, <2>1 DEF ShutInv
<1>5. ASSUME NEW f \in Flushers, TimerFires(f) PROVE ShutInv'
  <2>1. Calls(f, "timer") /\ UNCHANGED <<dirty, stopping, failed>>
    BY <1>5 DEF TimerFires, history
  <2> QED
    BY <1>3, <2>1 DEF ShutInv
<1>6. ASSUME NEW f \in Flushers, Shutdown(f) PROVE ShutInv'
  <2>1. ~stopping /\ Calls(f, "shutdown") /\ stopping'
    BY <1>6 DEF Shutdown
  <2> QED
    BY <1>3, <2>1 DEF ShutInv
<1>7. ASSUME NEW f \in Flushers, Returns(f)
      PROVE  /\ pc'[f] = IF caller[f] = "shutdown" THEN "exit" ELSE "idle"
             /\ \A g \in Flushers : g # f => pc'[g] = pc[g] /\ caller'[g] = caller[g]
  BY <1>0, <1>7 DEF Returns, GoTo
<1>8. ASSUME NEW f \in Flushers, Returns(f), UNCHANGED stopping,
             pc[f] \in {"flush", "write", "sync"}, failed' \/ ~dirty' \/ pc[f] = "sync",
             failed' \/ UNCHANGED <<dirty, failed>>
      PROVE  ShutInv'
  <2>1. pc'[f] \in {"idle", "exit"} /\ (pc'[f] = "exit" => stopping /\ (failed' \/ ~dirty'))
    BY <1>7, <1>8 DEF ShutInv
  <2> QED
    BY <1>7, <1>8, <2>1 DEF ShutInv
<1>9. ASSUME NEW f \in Flushers, FlushClean(f) \/ WriteFails(f) \/ Sync(f) PROVE ShutInv'
  BY <1>8, <1>9 DEF FlushClean, WriteFails, Sync, history
<1>10. ASSUME NEW f \in Flushers, Snapshot(f) PROVE ShutInv'
  <2>1. /\ pc[f] = "flush" /\ pc' = [pc EXCEPT ![f] = "write"] /\ ~dirty'
        /\ UNCHANGED <<caller, stopping>>
    BY <1>10 DEF Snapshot, GoTo
  <2>2. pc'[f] = "write" /\ \A g \in Flushers : g # f => pc'[g] = pc[g]
    BY <1>0, <2>1
  <2> QED
    BY <2>1, <2>2 DEF ShutInv
<1>11. ASSUME NEW f \in Flushers, Write(f) PROVE ShutInv'
  <2>1. /\ pc[f] = "write" /\ pc' = [pc EXCEPT ![f] = "sync"]
        /\ UNCHANGED <<caller, stopping, dirty, failed>>
    BY <1>11 DEF Write, GoTo
  <2>2. pc'[f] = "sync" /\ \A g \in Flushers : g # f => pc'[g] = pc[g]
    BY <1>0, <2>1
  <2> QED
    BY <2>1, <2>2 DEF ShutInv
<1>12. ASSUME NEW c, Boot(c) PROVE ShutInv'
  <2>1. \A f \in Flushers : pc'[f] = "idle"
    BY <1>12 DEF Boot
  <2> QED
    BY <2>1 DEF ShutInv
<1>13. ASSUME NEW f \in Flushers, FlushStep(f) \/ Exit(f) PROVE ShutInv'
  BY <1>9, <1>10, <1>11, <1>12, <1>13 DEF FlushStep, Exit
<1>14. CASE PowerCut
  BY <1>12, <1>14 DEF PowerCut
<1> QED
  BY <1>1, <1>2, <1>4, <1>5, <1>6, <1>13, <1>14, Zenon DEF Next

(* The agent ends with the whole ring in the file, for any number of        *)
(* flushes that overlap the shutdown's, unless a write failed since the     *)
(* newest snapshot, an older one was written after it, or another flush     *)
(* took the newest and has not written it yet.                              *)
THEOREM TailSurvivesShutdownHolds == Spec => TailSurvivesShutdown
<1>1. QuietInv /\ ShutInv =>
        \A f \in Flushers :
          Exit(f) => \/ OnFile(fileNow) = data
                     \/ failed \/ overtaken \/ newest \notin {f, None}
  <2> SUFFICES ASSUME QuietInv, ShutInv, NEW f \in Flushers, pc[f] = "exit",
                      ~failed, ~overtaken, newest \in {f, None}
               PROVE  OnFile(fileNow) = data
    BY DEF Exit
  <2>1. ~dirty
    BY DEF ShutInv
  <2>2. newest = None
    BY <2>1 DEF QuietInv
  <2> QED
    BY <2>1, <2>2 DEF QuietInv
<1>2. Spec => []ShutInv
  BY RingAlways, ShutInit, ShutStep, PTL DEF Spec
<1> QED
  BY <1>1, <1>2, RingQuietAlways, PTL DEF TailSurvivesShutdown

(* The ring uses recent.json only as the durable file allows, and only ever *)
(* hands over whole rings; that WriteFile keeps its side is                 *)
(* ImplementsDurableFileHolds above.                                        *)
THEOREM RecentUsesDurableFile == Spec => File!DurableSpec
<1>1. Init => File!DurableInit
  BY DEF Init
<1>2. RowsInv /\ [Next]_vars
        => [File!DurableNext]_(File!durableVars)
  <2> SUFFICES ASSUME RowsInv, [Next]_vars,
                      ~(fileNow' = fileNow /\ fileSaved' = fileSaved)
               PROVE  File!DurableNext
    BY DEF File!durableVars
  <2>1. \A e \in Plays : ~Add(e)
    BY DEF Add, fileVars
  <2>2. ASSUME NEW f \in Flushers
        PROVE  /\ ~Clear(f) /\ ~DeleteNothing(f) /\ ~TimerFires(f)
               /\ ~Shutdown(f) /\ ~FlushClean(f) /\ ~Snapshot(f)
               /\ ~WriteFails(f) /\ ~Exit(f)
               /\ \A row \in DOMAIN data : ~DeleteCardAt(f, row)
    BY DEF Clear, DeleteNothing, TimerFires, Shutdown,
           FlushClean, Snapshot, WriteFails, Exit,
           DeleteCardAt, fileVars
  <2>3. ASSUME NEW f \in Flushers, Write(f) PROVE File!DurableNext
    <3>1. File!Replace(bytes[f])
      BY <2>3 DEF Write
    <3>2. bytes[f] \in Seq(Entry)
      BY DEF RowsInv, GoodRing, GoodRows
    <3> QED
      BY <3>1, <3>2 DEF File!DurableNext
  <2>4. ASSUME NEW f \in Flushers, Sync(f) PROVE File!DurableNext
    BY <2>4 DEF Sync, File!DurableNext
  <2>5. CASE PowerCut
    BY <2>5 DEF PowerCut, File!DurableNext
  <2>6. ~(UNCHANGED vars)
    BY DEF vars, fileVars
  <2> QED
    BY <2>1, <2>2, <2>3, <2>4, <2>5, <2>6 DEF Next, FlushStep
<1> QED
  BY <1>1, <1>2, RingAlways, PTL DEF Spec, File!DurableSpec
=============================================================================
