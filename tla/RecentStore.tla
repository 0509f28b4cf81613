---------------------------- MODULE RecentStore ----------------------------
(***************************************************************************)
(* internal/recent: the "recently played" ring in RAM and its debounced    *)
(* NAND copy recent.json.  Add only marks the ring dirty and arms a timer; *)
(* the timer, the delete handler and the shutdown flush it.  A Flush takes *)
(* its snapshot under the store's mutex and writes it after unlocking, so  *)
(* flushes overlap: atomicfile then writes their snapshots one at a time,  *)
(* in the order in which they get the path's lock.                         *)
(*                                                                         *)
(* An entry is its card key, source and track; the other card fields are   *)
(* only filled in when empty and play no part here, and the timestamp that *)
(* names a row in a delete request is the row itself.                      *)
(***************************************************************************)
EXTENDS Naturals, Sequences, FiniteSets

CONSTANTS
  Keys, Sources, Tracks,
  NoTrack,       \* a card start that names no track yet
  Plays,         \* bound: the plays that can arrive
  MaxEntries,    \* maxEntries
  Flushers,      \* goroutines that may run a Flush at the same time
  None, NoFile,
  WriteMayFail,  \* does WriteFile ever report an error
  MaxPlays,      \* bound: how many plays arrive
  MaxBoots       \* bound: how often the agent starts

Entry == [key : Keys, source : Sources, track : Tracks \cup {NoTrack}]

ASSUME RecentAssumption ==
  /\ Plays \subseteq Entry
  /\ MaxEntries \in Nat \ {0}
  /\ MaxPlays \in Nat
  /\ MaxBoots \in Nat \ {0}
  /\ WriteMayFail \in BOOLEAN
  /\ NoTrack \notin Tracks
  /\ None \notin Flushers
  /\ NoFile \notin Seq(Entry)

VARIABLES
  data,       \* the ring, oldest first
  dirty,      \* the ring changed since the last snapshot
  timer,      \* a debounced flush is pending
  pc,         \* pc[f]: where flusher f is
  caller,     \* caller[f]: on whose behalf f flushes
  bytes,      \* bytes[f]: the snapshot f writes
  writing,    \* who holds the lock of recent.json
  fileNow, fileSaved,   \* recent.json: for readers, and after a power cut
  stopping,   \* the shutdown runs
  plays, boots,
  failed,     \* history: a write reported an error since the last snapshot
  newest,     \* history: whose snapshot is the newest, None once it is written
  overtaken,  \* history: the last write was of an older one, after the newest
  cutOff      \* history: the agent ended before its write was on the flash

fileVars == <<fileNow, fileSaved>>
bounds == <<plays, boots>>
history == <<failed, newest, overtaken, cutOff>>
vars == <<data, dirty, timer, pc, caller, bytes, writing, fileVars, stopping, bounds, history>>

IsRing(s) == s \in Seq(Entry) /\ Len(s) <= MaxEntries

File == INSTANCE DurableFile WITH
  current <- fileNow, saved <- fileSaved, Data <- Seq(Entry), Absent <- NoFile

Steps == {"idle", "flush", "write", "sync", "exit"}
Callers == {"timer", "delete", "shutdown", None}

TypeOK ==
  /\ IsRing(data)
  /\ dirty \in BOOLEAN /\ timer \in BOOLEAN /\ stopping \in BOOLEAN
  /\ failed \in BOOLEAN /\ overtaken \in BOOLEAN /\ cutOff \in BOOLEAN
  /\ pc \in [Flushers -> Steps]
  /\ caller \in [Flushers -> Callers]
  /\ \A f \in Flushers : IsRing(bytes[f])
  /\ {writing, newest} \subseteq Flushers \cup {None}
  /\ \A c \in {fileNow, fileSaved} : c = NoFile \/ IsRing(c)
  /\ boots \in 1..MaxBoots /\ plays \in 0..MaxPlays
-----------------------------------------------------------------------------
(* The ring.                                                               *)

(* Mutant of CapTail: room for one row too many.                           *)
CapTailLate(s) ==
  IF Len(s) <= MaxEntries + 1 THEN s ELSE SubSeq(s, Len(s) - MaxEntries, Len(s))

CapTail(s) ==
  IF Len(s) <= MaxEntries THEN s ELSE SubSeq(s, Len(s) - MaxEntries + 1, Len(s))

(* The rows of s at the places in I, in their order: the n-th of them is    *)
(* at the n-th place of I.                                                 *)
Rank(I, i) == Cardinality({j \in I : j <= i})
Rows(s, I) == [n \in 1..Cardinality(I) |-> s[CHOOSE i \in I : Rank(I, i) = n]]

DropKey(s, k) == Rows(s, {i \in DOMAIN s : s[i].key # k})

(* Row i belongs to the newest run of its key: its key is the only one     *)
(* from i to the last row that carries it.                                 *)
InNewestRun(s, i) ==
  \A j \in i..Len(s) :
    s[j].key = s[i].key => \A m \in i..j : s[m].key = s[i].key

(* collapse.                                                               *)
Collapse(s) == Rows(s, {i \in DOMAIN s : InNewestRun(s, i)})

Last(s) == s[Len(s)]

SameSession(s, e) ==
  s # <<>> /\ Last(s).key = e.key /\ Last(s).source = e.source

(* A repeat, or the track of a card that named none yet: no new row.       *)
Folds(s, e) ==
  SameSession(s, e) /\ (Last(s).track \in {NoTrack, e.track} \/ e.track = NoTrack)

(* Mutant of Added: the older session of the card stays in the ring.       *)
AddedTwice(s, e) ==
  IF Folds(s, e)
    THEN IF e.track = NoTrack THEN s ELSE [s EXCEPT ![Len(s)].track = e.track]
    ELSE CapTail(Append(s, e))

Added(s, e) ==
  IF Folds(s, e)
    THEN IF e.track = NoTrack THEN s ELSE [s EXCEPT ![Len(s)].track = e.track]
    ELSE CapTail(Append(IF SameSession(s, e) THEN s ELSE DropKey(s, e.key), e))

OnFile(c) == IF c = NoFile THEN <<>> ELSE c

Load(c) == CapTail(Collapse(OnFile(c)))
-----------------------------------------------------------------------------
Init ==
  /\ data = <<>>
  /\ dirty = FALSE /\ timer = FALSE
  /\ pc = [f \in Flushers |-> "idle"]
  /\ caller = [f \in Flushers |-> None]
  /\ bytes = [f \in Flushers |-> <<>>]
  /\ writing = None
  /\ File!DurableInit
  /\ stopping = FALSE
  /\ plays = 0 /\ boots = 1
  /\ failed = FALSE /\ newest = None /\ overtaken = FALSE /\ cutOff = FALSE

GoTo(f, s) == pc' = [pc EXCEPT ![f] = s]

(* Mutant of MarkDirty: no debounced write.                                *)
MarkDirtyOnly == dirty' = TRUE /\ UNCHANGED timer

(* A single timer: one that is pending stays.                              *)
MarkDirty == dirty' = TRUE /\ timer' = TRUE

Calls(f, who) ==
  /\ pc[f] = "idle"
  /\ GoTo(f, "flush")
  /\ caller' = [caller EXCEPT ![f] = who]

(* Add, from the WebSocket reader or an ICY title.                         *)
Add(e) ==
  /\ ~stopping
  /\ plays < MaxPlays /\ plays' = plays + 1
  /\ data' = Added(data, e)
  /\ MarkDirty
  /\ UNCHANGED <<pc, caller, bytes, writing, fileVars, stopping, boots, history>>

(* The delete handler clears the ring, or drops the card of a row that is  *)
(* still there, and flushes.                                               *)
Clear(f) ==
  /\ ~stopping
  /\ data # <<>>
  /\ data' = <<>>
  /\ MarkDirty
  /\ Calls(f, "delete")
  /\ UNCHANGED <<bytes, writing, fileVars, stopping, bounds, history>>

DeleteCardAt(f, row) ==
  /\ ~stopping
  /\ data' = DropKey(data, data[row].key)
  /\ MarkDirty
  /\ Calls(f, "delete")
  /\ UNCHANGED <<bytes, writing, fileVars, stopping, bounds, history>>

(* Nothing to clear, or a stale row: the handler flushes all the same.     *)
DeleteNothing(f) ==
  /\ ~stopping
  /\ Calls(f, "delete")
  /\ UNCHANGED <<data, dirty, timer, bytes, writing, fileVars, stopping, bounds, history>>

(* The debounce timer fires: the pointer is cleared, then Flush is called. *)
TimerFires(f) ==
  /\ timer
  /\ timer' = FALSE
  /\ Calls(f, "timer")
  /\ UNCHANGED <<data, dirty, bytes, writing, fileVars, stopping, bounds, history>>

(* Mutant of Shutdown: the tail is left to the timer.                      *)
ShutdownUnflushed(f) ==
  /\ ~stopping
  /\ pc[f] = "idle"
  /\ stopping' = TRUE
  /\ GoTo(f, "exit")
  /\ UNCHANGED <<data, dirty, timer, caller, bytes, writing, fileVars, bounds, history>>

(* wait: the listeners and loops have ended; the tail is flushed.  A       *)
(* timer's goroutine is not among what it waits for.                       *)
Shutdown(f) ==
  /\ ~stopping
  /\ \A g \in Flushers : caller[g] # "delete"
  /\ stopping' = TRUE
  /\ Calls(f, "shutdown")
  /\ UNCHANGED <<data, dirty, timer, bytes, writing, fileVars, bounds, history>>
-----------------------------------------------------------------------------
(* Flush, and what its caller does after it: the shutdown ends the agent.  *)
Returns(f) ==
  /\ GoTo(f, IF caller[f] = "shutdown" THEN "exit" ELSE "idle")
  /\ caller' = [caller EXCEPT ![f] = None]
  /\ bytes' = [bytes EXCEPT ![f] = <<>>]

FlushClean(f) ==
  /\ pc[f] = "flush" /\ ~dirty
  /\ Returns(f)
  /\ UNCHANGED <<data, dirty, timer, writing, fileVars, stopping, bounds, history>>

Snapshot(f) ==
  /\ pc[f] = "flush" /\ dirty
  /\ bytes' = [bytes EXCEPT ![f] = data]
  /\ dirty' = FALSE
  /\ GoTo(f, "write")
  /\ failed' = FALSE /\ newest' = f
  /\ UNCHANGED <<data, timer, caller, writing, fileVars, stopping, bounds,
                 overtaken, cutOff>>

(* atomicfile.WriteFile, with the path's lock held.                        *)
Write(f) ==
  /\ pc[f] = "write" /\ writing = None
  /\ writing' = f
  /\ File!Replace(bytes[f])
  /\ GoTo(f, "sync")
  /\ newest' = IF f = newest THEN None ELSE newest
  /\ overtaken' = (newest = None)
  /\ UNCHANGED <<data, dirty, timer, caller, bytes, stopping, bounds, failed, cutOff>>

(* Mutant of WriteFails: the error is only reported.                       *)
WriteFailsClean(f) ==
  /\ WriteMayFail
  /\ pc[f] = "write" /\ writing = None
  /\ Returns(f)
  /\ failed' = TRUE
  /\ UNCHANGED <<data, dirty, timer, writing, fileVars, stopping, bounds,
                 newest, overtaken, cutOff>>

(* The ring is dirty again; the next Add arms the timer.                   *)
WriteFails(f) ==
  /\ WriteMayFail
  /\ pc[f] = "write" /\ writing = None
  /\ dirty' = TRUE
  /\ Returns(f)
  /\ failed' = TRUE
  /\ UNCHANGED <<data, timer, writing, fileVars, stopping, bounds,
                 newest, overtaken, cutOff>>

Sync(f) ==
  /\ pc[f] = "sync"
  /\ File!Persist
  /\ writing' = None
  /\ Returns(f)
  /\ cutOff' = FALSE
  /\ UNCHANGED <<data, dirty, timer, stopping, bounds, failed, newest, overtaken>>
-----------------------------------------------------------------------------
(* The agent starts again on what the file holds.                          *)
Boot(c) ==
  /\ boots < MaxBoots
  /\ boots' = boots + 1 /\ UNCHANGED plays
  /\ data' = Load(c)
  /\ dirty' = FALSE /\ timer' = FALSE /\ stopping' = FALSE
  /\ failed' = FALSE /\ newest' = None /\ overtaken' = FALSE
  /\ pc' = [f \in Flushers |-> "idle"]
  /\ caller' = [f \in Flushers |-> None]
  /\ bytes' = [f \in Flushers |-> <<>>]
  /\ writing' = None

Exit(f) ==
  /\ pc[f] = "exit"
  /\ Boot(fileNow)
  /\ cutOff' = (cutOff \/ writing # None)
  /\ UNCHANGED fileVars

PowerCut ==
  /\ Boot(fileSaved)
  /\ File!PowerLoss
  /\ cutOff' = FALSE

FlushStep(f) ==
  \/ FlushClean(f) \/ Snapshot(f) \/ Write(f) \/ WriteFails(f) \/ Sync(f)

Next ==
  \/ \E e \in Plays : Add(e)
  \/ \E f \in Flushers :
       \/ Clear(f) \/ DeleteNothing(f)
       \/ \E row \in DOMAIN data : DeleteCardAt(f, row)
       \/ TimerFires(f) \/ Shutdown(f) \/ FlushStep(f) \/ Exit(f)
  \/ PowerCut

Spec == Init /\ [][Next]_vars

(* Timers fire and WriteFile returns: an idle flusher can only do the one,  *)
(* a busy one only the other.                                              *)
Fairness == \A f \in Flushers : WF_vars(TimerFires(f) \/ FlushStep(f))

FairSpec == Spec /\ Fairness
-----------------------------------------------------------------------------
(* A card is listed once: the rows of a key are consecutive, and one       *)
(* source holds for all of them (Add, dropKeyLocked).                      *)
OneRunPerKey ==
  \A i, j \in DOMAIN data :
    (i < j /\ data[i].key = data[j].key) =>
      \A m \in i..j : data[m].key = data[i].key /\ data[m].source = data[i].source

Quiet == ~dirty /\ \A f \in Flushers : pc[f] = "idle"
RingIsStored == OnFile(fileNow) = data /\ (cutOff \/ OnFile(fileSaved) = data)

(* No change is forgotten: once no flush runs and the ring counts as       *)
(* clean, the file holds the ring, and so does the flash.  A change made   *)
(* while a write is under way must leave the ring dirty, and so must a     *)
(* write that failed.  Exceptions: a flush that wrote its snapshot after a *)
(* newer one had been written (overtaken) and, for the flash, an agent     *)
(* that ended between another flush's rename and its fsync (cutOff).       *)
QuietFileIsRing == Quiet /\ ~overtaken => RingIsStored

(* Not checked, and false with two flushers: Flush unlocks before it       *)
(* writes, so the older of two snapshots may be written last, and nothing  *)
(* marks the ring dirty again.                                             *)
CleanRingIsStored == Quiet => RingIsStored

(* The shutdown's flush ("so the tail survives a clean reboot"): the agent *)
(* ends with the whole ring in the file, also when the timer's flush runs  *)
(* at the same time.  Exceptions: a write failed since the newest          *)
(* snapshot, an older one was written after it, or another flush took the  *)
(* newest and has not written it yet.                                      *)
TailSurvivesShutdown ==
  [][\A f \in Flushers :
       Exit(f) => \/ OnFile(fileNow) = data
                  \/ failed \/ overtaken \/ newest \notin {f, None}]_vars

(* Not checked, and false with two flushers: the shutdown's flush finds    *)
(* the ring clean as soon as the timer's has its snapshot, and does not    *)
(* wait for it to be written.                                              *)
TailAlwaysSurvives ==
  [][\A f \in Flushers : Exit(f) => failed \/ OnFile(fileNow) = data]_vars

(* Every change reaches the file without waiting for another play, unless  *)
(* a write failed.                                                         *)
ChangeIsWritten == dirty ~> (~dirty \/ failed)
=============================================================================
