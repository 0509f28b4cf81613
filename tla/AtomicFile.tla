----------------------------- MODULE AtomicFile -----------------------------
(***************************************************************************)
(* internal/atomicfile: WriteFile, the one way every store of the agent    *)
(* reaches the speaker's NAND.  Several goroutines write the same path;    *)
(* the calls are serialised by the path's lock (lockFor).  Below the       *)
(* system calls is a file system with a page cache: what a program sees    *)
(* ("dir", "page") and what is on flash ("flashDir", "flashPage") differ   *)
(* until the kernel writes back, which it may do at any moment and in any  *)
(* order, unless an fsync forces it.  The power may go at every step.      *)
(*                                                                         *)
(* Locks of different paths are independent and so are their temp names,   *)
(* so one path is modelled.                                                *)
(***************************************************************************)
CONSTANTS Writer,    \* goroutines that call WriteFile
          Data,      \* the complete contents callers hand over
          Inode,     \* files the file system can allocate
          NoWriter,  \* the lock is free
          NoInode,   \* the name does not exist
          Absent,    \* content of a name that does not exist
          Empty,     \* a file of zero bytes
          Torn       \* a file holding part of a content

ASSUME ConstantsAssumption ==
  /\ NoWriter \notin Writer
  /\ NoInode \notin Inode
  /\ {Absent, Empty, Torn} \cap Data = {}

VARIABLES
  at,         \* at[w]: the next system call of w's WriteFile, or "idle"
  arg,        \* arg[w]: the content w was asked to write
  fd,         \* fd[w]: the temp file w has open
  lock,       \* who holds the path's lock
  dir,        \* the directory as programs see it: name -> inode
  flashDir,   \* the directory as it is on flash
  page,       \* content of each inode as programs see it
  flashPage,  \* content of each inode on flash
  promised,   \* history: versions a power cut may leave behind by contract
  before      \* history: before[w] is what the path held when w got the lock

fsVars == <<dir, flashDir, page, flashPage>>
atomicVars == <<at, arg, fd, lock, dir, flashDir, page, flashPage, promised, before>>

Name == {"path", "tmp"}
Content == Data \cup {Empty, Torn}
CallSteps == {"lock", "open", "write", "sync", "close", "rename", "remove",
          "syncdir", "failed", "done"}

(* The steps taken with the path's lock held, those that hold the temp     *)
(* file open, and those before the rename has replaced the target.         *)
Locked == CallSteps \ {"lock"}
Holding == {"write", "sync", "close", "rename"}
BeforeRename == Locked \ {"syncdir", "done"}

(* What a reader of the path gets now, and what it would get after a power *)
(* cut: the two variables of DurableFile.                                  *)
ReadVia(d, p) == IF d["path"] = NoInode THEN Absent ELSE p[d["path"]]
Current == ReadVia(dir, page)
Saved == ReadVia(flashDir, flashPage)

AtomicTypeOK ==
  /\ at \in [Writer -> CallSteps \cup {"idle"}]
  /\ arg \in [Writer -> Data \cup {Absent}]
  /\ fd \in [Writer -> Inode \cup {NoInode}]
  /\ lock \in Writer \cup {NoWriter}
  /\ dir \in [Name -> Inode \cup {NoInode}]
  /\ flashDir \in [Name -> Inode \cup {NoInode}]
  /\ page \in [Inode -> Content]
  /\ flashPage \in [Inode -> Content]
  /\ promised \subseteq Content \cup {Absent}
  /\ before \in [Writer -> Content \cup {Absent}]

(* A speaker on which the file was never written.                          *)
AtomicInit ==
  /\ at = [w \in Writer |-> "idle"]
  /\ arg = [w \in Writer |-> Absent]
  /\ fd = [w \in Writer |-> NoInode]
  /\ lock = NoWriter
  /\ dir = [n \in Name |-> NoInode]
  /\ flashDir = [n \in Name |-> NoInode]
  /\ page = [i \in Inode |-> Empty]
  /\ flashPage = [i \in Inode |-> Empty]
  /\ promised = {Absent}
  /\ before = [w \in Writer |-> Absent]

Proceed(w, s) == at' = [at EXCEPT ![w] = s]
-----------------------------------------------------------------------------
(* WriteFile, one action per system call.                                  *)

Call(w, d) ==
  /\ at[w] = "idle"
  /\ arg' = [arg EXCEPT ![w] = d]
  /\ Proceed(w, "lock")
  /\ UNCHANGED <<fd, lock, fsVars, promised, before>>

(* mu.Lock() of the mutex lockFor returns for this path.                   *)
AcquireLock(w) ==
  /\ at[w] = "lock"
  /\ lock = NoWriter
  /\ lock' = w
  /\ before' = [before EXCEPT ![w] = Current]
  /\ Proceed(w, "open")
  /\ UNCHANGED <<arg, fd, fsVars, promised>>

(* O_CREATE|O_TRUNC of the one temp name: a temp file an earlier kill left *)
(* behind is truncated and reused, otherwise a fresh inode is allocated.   *)
OpenTemp(w) ==
  /\ at[w] = "open"
  /\ \E i \in Inode :
       /\ IF dir["tmp"] # NoInode
            THEN i = dir["tmp"]
            ELSE \A n \in Name : i # dir[n] /\ i # flashDir[n]
       /\ dir' = [dir EXCEPT !["tmp"] = i]
       /\ page' = [page EXCEPT ![i] = Empty]
       /\ fd' = [fd EXCEPT ![w] = i]
  /\ Proceed(w, "write")
  /\ UNCHANGED <<arg, lock, flashDir, flashPage, promised, before>>

OpenFails(w) ==
  /\ at[w] = "open"
  /\ Proceed(w, "failed")
  /\ UNCHANGED <<arg, fd, lock, fsVars, promised, before>>

WriteTemp(w) ==
  /\ at[w] = "write"
  /\ page' = [page EXCEPT ![fd[w]] = arg[w]]
  /\ Proceed(w, "sync")
  /\ UNCHANGED <<arg, fd, lock, dir, flashDir, flashPage, promised, before>>

(* The 31 MB NAND is full: none or a part of the data is in.               *)
WriteTempFails(w) ==
  /\ at[w] = "write"
  /\ \E c \in {Empty, Torn} : page' = [page EXCEPT ![fd[w]] = c]
  /\ Proceed(w, "remove")
  /\ UNCHANGED <<arg, fd, lock, dir, flashDir, flashPage, promised, before>>

(* Mutant: os.WriteFile and os.Rename, with no fsync of the data.           *)
SyncSkipped(w) ==
  /\ at[w] = "sync"
  /\ Proceed(w, "close")
  /\ UNCHANGED <<arg, fd, lock, fsVars, promised, before>>

SyncData(w) ==
  /\ at[w] = "sync"
  /\ flashPage' = [flashPage EXCEPT ![fd[w]] = page[fd[w]]]
  /\ Proceed(w, "close")
  /\ UNCHANGED <<arg, fd, lock, dir, flashDir, page, promised, before>>

CloseTemp(w) ==
  /\ at[w] = "close"
  /\ Proceed(w, "rename")
  /\ UNCHANGED <<arg, fd, lock, fsVars, promised, before>>

(* fsync, close or rename reports an error.                                *)
CallFails(w) ==
  /\ at[w] \in {"sync", "close", "rename"}
  /\ Proceed(w, "remove")
  /\ UNCHANGED <<arg, fd, lock, fsVars, promised, before>>

(* Mutant: the temp name stays behind, as with a hard link.                 *)
RenameAsLink(w) ==
  /\ at[w] = "rename"
  /\ dir["tmp"] # NoInode
  /\ dir' = [dir EXCEPT !["path"] = dir["tmp"]]
  /\ promised' = promised \cup {page[dir["tmp"]]}
  /\ Proceed(w, "syncdir")
  /\ UNCHANGED <<arg, fd, lock, flashDir, page, flashPage, before>>

Rename(w) ==
  /\ at[w] = "rename"
  /\ dir["tmp"] # NoInode
  /\ dir' = [n \in Name |-> IF n = "path" THEN dir["tmp"] ELSE NoInode]
  /\ promised' = promised \cup {page[dir["tmp"]]}
  /\ Proceed(w, "syncdir")
  /\ UNCHANGED <<arg, fd, lock, flashDir, page, flashPage, before>>

(* Mutant: the failure path removes the target.                             *)
RemoveTarget(w) ==
  /\ at[w] = "remove"
  /\ dir' \in {dir, [dir EXCEPT !["path"] = NoInode]}
  /\ Proceed(w, "failed")
  /\ UNCHANGED <<arg, fd, lock, flashDir, page, flashPage, promised, before>>

(* os.Remove(tmp) after a failure; its own error is ignored.               *)
RemoveTemp(w) ==
  /\ at[w] = "remove"
  /\ dir' \in {dir, [dir EXCEPT !["tmp"] = NoInode]}
  /\ Proceed(w, "failed")
  /\ UNCHANGED <<arg, fd, lock, flashDir, page, flashPage, promised, before>>

(* Mutant: success is reported without the directory's fsync.               *)
SyncDirSkipped(w) ==
  /\ at[w] = "syncdir"
  /\ promised' = {Current}
  /\ Proceed(w, "done")
  /\ UNCHANGED <<arg, fd, lock, fsVars, before>>

(* The directory fsync: once it succeeded, no earlier version may return.  *)
SyncDir(w) ==
  /\ at[w] = "syncdir"
  /\ flashDir' = dir
  /\ promised' = {Current}
  /\ Proceed(w, "done")
  /\ UNCHANGED <<arg, fd, lock, dir, page, flashPage, before>>

(* It is best-effort: the directory cannot be opened, or Sync fails.       *)
SyncDirFails(w) ==
  /\ at[w] = "syncdir"
  /\ Proceed(w, "done")
  /\ UNCHANGED <<arg, fd, lock, fsVars, promised, before>>

(* The deferred mu.Unlock() and the return, with or without an error: the  *)
(* call's local variables are gone.                                        *)
Return(w) ==
  /\ at[w] \in {"failed", "done"}
  /\ lock' = NoWriter
  /\ arg' = [arg EXCEPT ![w] = Absent]
  /\ fd' = [fd EXCEPT ![w] = NoInode]
  /\ before' = [before EXCEPT ![w] = Absent]
  /\ Proceed(w, "idle")
  /\ UNCHANGED <<fsVars, promised>>
-----------------------------------------------------------------------------
(* The environment: the kernel's writeback, and the two ways to die.       *)

(* Dirty pages of one file reach flash, all of them or some of them.       *)
WritebackPages(i) ==
  /\ flashPage[i] # page[i]
  /\ \E c \in {page[i], Torn} : flashPage' = [flashPage EXCEPT ![i] = c]
  /\ UNCHANGED <<at, arg, fd, lock, dir, flashDir, page, promised, before>>

(* The directory reaches flash, possibly before the data it points at.     *)
WritebackDir ==
  /\ flashDir # dir
  /\ flashDir' = dir
  /\ UNCHANGED <<at, arg, fd, lock, dir, page, flashPage, promised, before>>

Restarted ==
  /\ at' = [w \in Writer |-> "idle"]
  /\ arg' = [w \in Writer |-> Absent]
  /\ fd' = [w \in Writer |-> NoInode]
  /\ before' = [w \in Writer |-> Absent]
  /\ lock' = NoWriter

(* The agent is killed and started again; the kernel lives on.             *)
KillProcess ==
  /\ Restarted
  /\ UNCHANGED <<fsVars, promised>>

(* The speaker cuts its power at standby: only flash survives.             *)
PowerOff ==
  /\ Restarted
  /\ dir' = flashDir
  /\ page' = flashPage
  /\ promised' = {Saved}
  /\ UNCHANGED <<flashDir, flashPage>>

WriterStep(w) ==
  \/ \E d \in Data : Call(w, d)
  \/ AcquireLock(w)
  \/ OpenTemp(w) \/ OpenFails(w)
  \/ WriteTemp(w) \/ WriteTempFails(w)
  \/ SyncData(w) \/ CloseTemp(w) \/ CallFails(w)
  \/ Rename(w) \/ RemoveTemp(w)
  \/ SyncDir(w) \/ SyncDirFails(w) \/ Return(w)

AtomicNext ==
  \/ \E w \in Writer : WriterStep(w)
  \/ \E i \in Inode : WritebackPages(i)
  \/ WritebackDir \/ KillProcess \/ PowerOff

AtomicSpec == AtomicInit /\ [][AtomicNext]_atomicVars
-----------------------------------------------------------------------------
(* WriteFile implements the durable file: readers and power cuts only ever *)
(* meet complete versions, a version is replaced in one instant, and only  *)
(* a successful rename or a power cut changes what readers see.            *)
Durable == INSTANCE DurableFile WITH current <- Current, saved <- Saved
ImplementsDurableFile == Durable!DurableSpec

(* The 0-byte file of 2026-07-15: neither a reader nor the boot after a    *)
(* power cut ever finds the file empty or torn (package comment).          *)
NeverTorn == {Current, Saved} \cap {Empty, Torn} = {}

(* Once the directory fsync of a call succeeded, a power cut cannot bring  *)
(* back a version older than that call's ("both the data and the rename    *)
(* survive a power-cut", package comment).                                 *)
SyncedVersionSurvives == Saved \in promised

(* "On any failure ... the original path is left untouched": until its     *)
(* rename, a call leaves the path as it found it when it got the lock,     *)
(* and so does every call that returns an error.                           *)
FailureLeavesTarget == \A w \in Writer : at[w] \in BeforeRename => Current = before[w]

(* A call that came to its rename finds its temp file still in place: no   *)
(* other writer renamed or truncated it away (the "no such file or         *)
(* directory" of 2026-09-08, pathLocks comment).                           *)
TempIsMine == \A w \in Writer :
  at[w] = "rename" => dir["tmp"] = fd[w] /\ page[fd[w]] = arg[w]
-----------------------------------------------------------------------------
(* The inductive invariant behind all of them.  The lock makes at most one *)
(* writer past AcquireLock; the file a directory version names as the      *)
(* target is complete in the cache and on flash, so no writeback touches   *)
(* it; the temp name never denotes a file some directory version has as    *)
(* its target, so truncating and filling it is harmless.                   *)
LockHeld == \A w \in Writer : at[w] \in Locked => lock = w

TargetComplete == \A i \in {dir["path"], flashDir["path"]} \ {NoInode} :
  page[i] \in Data /\ flashPage[i] = page[i]

TempSeparate ==
  /\ dir["tmp"] # NoInode => dir["tmp"] \notin {dir["path"], flashDir["path"]}
  /\ flashDir["tmp"] # NoInode => flashDir["tmp"] # flashDir["path"]

TempProgress == \A w \in Writer :
  /\ at[w] # "idle" => arg[w] \in Data
  /\ at[w] \in Holding => dir["tmp"] = fd[w] /\ fd[w] # NoInode
  /\ at[w] \in {"sync", "close", "rename"} => page[fd[w]] = arg[w]
  /\ at[w] \in {"close", "rename"} => flashPage[fd[w]] = page[fd[w]]

PromiseKept == {Current, Saved} \subseteq promised

FileInv ==
  /\ AtomicTypeOK /\ LockHeld /\ TargetComplete /\ TempSeparate /\ TempProgress
  /\ PromiseKept /\ FailureLeavesTarget
=============================================================================
