--------------------------- MODULE QueuePlayback ---------------------------
(***************************************************************************)
(* internal/webui/queueplay.go with its callers: how a music folder is     *)
(* played on the speaker.  Three kinds of actor share the state:           *)
(*                                                                         *)
(*   - requests: one goroutine per HTTP call, key press or speaker event;  *)
(*     those that send the speaker a play hold boxCmdMu from start to end, *)
(*     a stop does not take it at all;                                     *)
(*   - queue watchers: goroutines that read now_playing every few seconds  *)
(*     and move to the next track; a watcher carries the name of the       *)
(*     request that started it, for a request starts at most one;          *)
(*   - the speaker, which plays, ends, drops or never starts what it was   *)
(*     handed, and is used from its own buttons.                           *)
(*                                                                         *)
(* One action is what happens between two points where another goroutine   *)
(* can act: a lock taken, a lock given back, a call to the speaker.  The   *)
(* folder's order is PlayQueue's business; here it has Tracks tracks in    *)
(* order.  BUFFERING_STATE counts as playing, and a position above zero as *)
(* PLAY_STATE.                                                             *)
(***************************************************************************)
EXTENDS Naturals, FiniteSets

CONSTANTS
  Requests,      \* the requests that arrive, each handled once
  None,          \* no request, watcher, folder or owner
  KindsOf,       \* KindsOf[r]: what request r may ask for
  Tracks,        \* tracks in a folder
  RepeatModes,   \* subset of BOOLEAN: may a folder start with repeat-all
  Gens,          \* values of queueGen; more than watchers can remember
  Events,        \* what the speaker may do on its own
  PushMayFail,   \* the speaker may refuse a play
  DeadLimit,     \* queueDeadTrackLimit
  TakeoverLimit, \* queueTakeoverPolls
  LateRounds     \* bound: rounds a cancelled watcher may still begin

Kinds == {"folder", "station", "next", "prev", "stop", "key"}
EventNames == {"play", "freeze", "finish", "halt", "pause", "resume", "drop",
               "silence", "gone", "refuse", "other", "sleep", "die", "gapStop", "pollError", "forgetStop"}

ASSUME ConstantsAssumption ==
  /\ IsFiniteSet(Requests) /\ None \notin Requests \cup ({"request", "watcher"} \X Requests)
  /\ KindsOf \in [Requests -> SUBSET Kinds]
  /\ Tracks \in Nat \ {0}
  /\ RepeatModes \subseteq BOOLEAN
  /\ IsFiniteSet(Gens) /\ Gens \subseteq Nat \ {0}
  /\ Cardinality(Gens) > Cardinality(Requests) + 1
  /\ Events \subseteq EventNames
  /\ PushMayFail \in BOOLEAN
  /\ DeadLimit \in Nat \ {0} /\ TakeoverLimit \in Nat \ {0} /\ LateRounds \in Nat

VARIABLES
  boxCmdMu,     \* who holds the speaker's command lock
  queue,        \* the play queue: active, folder, pos, repeat
  loaded,       \* the copy a start keeps of the queue it loaded
  gen,          \* queueGen: which track the timing is about
  slot,         \* the watcher whose cancel function is stored (queueCancel)
  lastWatcher,  \* queueWatcherID
  userStop,     \* a deliberate stop is recent (userStoppedRecently)
  req,          \* the requests: pc, kind, item to hand over
  watch,        \* the watchers: pc and the locals of runQueueWatcher
  box,          \* what the speaker does, and with which item
  pushed,       \* the queue track handed over last, taken or not (badURL.pushURL)
  evidence,     \* a report that it cannot be fetched (proxyAt, boxAt)
  serving,      \* the media server answers
  handed,       \* history: the last item the speaker took (setLastPlay)
  timed         \* history: the item the current generation is about

lockVars == <<boxCmdMu>>
queueVars == <<queue, loaded>>
slotVars == <<slot, lastWatcher>>
boxVars == <<box, evidence, pushed, serving, handed>>
timeVars == <<gen, timed>>
vars == <<lockVars, queueVars, slotVars, boxVars, timeVars, userStop, req, watch>>

-----------------------------------------------------------------------------
(* An item is a folder's track, a station (track 0), or foreign: whatever   *)
(* the speaker plays that nobody handed it.                                 *)
Track(r, k) == <<r, k>>
Station(r) == <<r, 0>>
Foreign == <<None, 0>>
NoItem == <<None, 1>>
IsStation(item) == item[1] # None /\ item[2] = 0

ReqProc(r) == <<"request", r>>
WatchProc(w) == <<"watcher", w>>

Acquire(p) == boxCmdMu = None /\ boxCmdMu' = p
Release == boxCmdMu' = None

Cleared == [active |-> FALSE, folder |-> None, pos |-> 0, repeat |-> FALSE]
QueueItem == Track(queue.folder, queue.pos)

Asleep == box.state = "asleep"
Wake == IF Asleep THEN [state |-> "idle", item |-> NoItem] ELSE box

(* noteQueuePush: what the speaker reports from now on is about this track; *)
(* a station is none.                                                       *)
NoteQueuePush(item) ==
  IF IsStation(item) THEN UNCHANGED <<pushed, evidence>>
                     ELSE pushed' = item /\ evidence' = FALSE

(* PlayURLTrack: SetAVTransportURI, then Play.  The speaker is between      *)
(* tracks afterwards until it has fetched the stream.                       *)
HandOver(item) ==
  /\ ~Asleep
  /\ box' = [state |-> "loading", item |-> item]
  /\ handed' = item
  /\ NoteQueuePush(item)
  /\ UNCHANGED serving
HandOverFails(item) ==
  /\ PushMayFail \/ Asleep
  /\ NoteQueuePush(item)
  /\ UNCHANGED <<box, serving, handed>>

(* setQueueTiming: the counter only ever meets values somebody remembers,   *)
(* so any value nobody remembers stands for the next one.                   *)
FreshGen == CHOOSE g \in Gens : g # gen /\ \A w \in Requests : watch[w].gen # g
SetTiming(item) == gen' = FreshGen /\ timed' = item

Idle == [pc |-> "off", cancelled |-> FALSE, late |-> 0, gen |-> 0, lastPos |-> "none", sawSource |-> FALSE,
         takeover |-> 0, dead |-> 0, retried |-> FALSE, item |-> NoItem, on |-> NoItem]

GoReq(r, pc) == req' = [req EXCEPT ![r].pc = pc]
GoWatch(w, pc) == watch' = [watch EXCEPT ![w].pc = pc]

(* cancelWatcher: frees the slot, and the watcher in it sees its context    *)
(* cancelled the next time it selects.                                      *)
CancelSlot(ws) == IF slot = None THEN ws ELSE [ws EXCEPT ![slot].cancelled = TRUE]

Init ==
  /\ boxCmdMu = None
  /\ queue = Cleared /\ loaded = Cleared
  /\ gen = 0 /\ timed = NoItem
  /\ slot = None /\ lastWatcher = None
  /\ userStop = FALSE
  /\ req = [r \in Requests |-> [pc |-> "new", kind |-> "none", item |-> NoItem]]
  /\ watch = [w \in Requests |-> Idle]
  /\ box \in {[state |-> "asleep", item |-> NoItem], [state |-> "idle", item |-> NoItem]}
  /\ pushed = NoItem /\ evidence = FALSE /\ serving = TRUE
  /\ handed = NoItem
-----------------------------------------------------------------------------
(* Requests.                                                                *)

(* The handler starts.  A stop notes itself before it does anything; a      *)
(* hardware preset key has already made the speaker play its own station    *)
(* when its frame arrives.                                                  *)
Begin(r) ==
  /\ req[r].pc = "new"
  /\ \E k \in KindsOf[r] :
       /\ req' = [req EXCEPT ![r].kind = k, ![r].pc = IF k \in {"stop", "key"} THEN "clear" ELSE "lock"]
       /\ userStop' = (userStop \/ k = "stop")
       /\ IF k = "key" THEN box' = [state |-> "playing", item |-> Foreign] ELSE UNCHANGED box
  /\ UNCHANGED <<lockVars, queueVars, timeVars, slotVars, watch, evidence, pushed, serving, handed>>

(* startQueueLocked up to the wake: load, save.                             *)
LoadFolder(r) ==
  /\ req[r].pc = "lock" /\ req[r].kind = "folder"
  /\ Acquire(ReqProc(r))
  /\ \E rep \in RepeatModes :
       queue' = [active |-> TRUE, folder |-> r, pos |-> 1, repeat |-> rep]
  /\ loaded' = queue'
  /\ req' = [req EXCEPT ![r].pc = "wake", ![r].item = Track(r, 1)]
  /\ UNCHANGED <<timeVars, slotVars, boxVars, userStop, watch>>

(* The speaker is awake (ensureBoxReadyForNewPlayRead); a queue that        *)
(* something ended meanwhile goes back; NoteUserPlay.                       *)
FolderWoken(r) ==
  /\ req[r].pc = "wake" /\ req[r].kind = "folder"
  /\ box' = Wake
  /\ queue' = IF queue.active THEN queue ELSE loaded
  /\ userStop' = FALSE
  /\ GoReq(r, "push")
  /\ UNCHANGED <<lockVars, loaded, timeVars, slotVars, watch, evidence, pushed, serving, handed>>

(* handlePlay and playSlot: wake, then stopQueue with the lock held.        *)
WakeForStation(r) ==
  /\ req[r].pc = "lock" /\ req[r].kind = "station"
  /\ Acquire(ReqProc(r))
  /\ box' = Wake
  /\ req' = [req EXCEPT ![r].pc = "clear", ![r].item = Station(r)]
  /\ UNCHANGED <<queueVars, timeVars, slotVars, userStop, watch, evidence, pushed, serving, handed>>

(* Mutant: a step forward that never finds the end of the list.             *)
SteppedPastEnd(forward) ==
  {[queue EXCEPT !.pos = IF forward THEN @ + 1 ELSE IF @ > 1 THEN @ - 1 ELSE 1]}

(* next and prev of the queue; no result when the queue ran out.            *)
Stepped(forward) ==
  IF forward
    THEN IF queue.pos < Tracks THEN {[queue EXCEPT !.pos = @ + 1]}
         ELSE IF queue.repeat THEN {[queue EXCEPT !.pos = 1]} ELSE {}
    ELSE {[queue EXCEPT !.pos = IF @ > 1 THEN @ - 1 ELSE IF queue.repeat THEN Tracks ELSE 1]}

(* queueSkip.                                                               *)
SkipNothing(r) ==
  /\ req[r].pc = "lock" /\ req[r].kind \in {"next", "prev"}
  /\ boxCmdMu = None /\ ~queue.active
  /\ GoReq(r, "done")
  /\ UNCHANGED <<lockVars, queueVars, timeVars, slotVars, boxVars, userStop, watch>>

SkipTo(r) ==
  /\ req[r].pc = "lock" /\ req[r].kind \in {"next", "prev"}
  /\ queue.active
  /\ Acquire(ReqProc(r))
  /\ queue' \in Stepped(req[r].kind = "next")
  /\ userStop' = FALSE
  /\ req' = [req EXCEPT ![r].pc = "push", ![r].item = Track(queue'.folder, queue'.pos)]
  /\ UNCHANGED <<loaded, timeVars, slotVars, boxVars, watch>>

SkipPastEnd(r) ==
  /\ req[r].pc = "lock" /\ req[r].kind \in {"next", "prev"}
  /\ boxCmdMu = None /\ queue.active
  /\ Stepped(req[r].kind = "next") = {}
  /\ queue' = [queue EXCEPT !.active = FALSE]
  /\ slot' = None
  /\ watch' = CancelSlot(watch)
  /\ GoReq(r, "done")
  /\ UNCHANGED <<lockVars, loaded, timeVars, lastWatcher, boxVars, userStop>>

(* pushStream: a folder's first track, a skip's track, a station.           *)
Push(r) ==
  /\ req[r].pc = "push"
  /\ HandOver(req[r].item)
  /\ IF req[r].kind = "station"
       THEN GoReq(r, "done") /\ Release
       ELSE GoReq(r, "timing") /\ UNCHANGED lockVars
  /\ UNCHANGED <<queueVars, timeVars, slotVars, userStop, watch>>

(* A failed push leaves the queue as it is, with the old track's timing.    *)
PushFails(r) ==
  /\ req[r].pc = "push"
  /\ HandOverFails(req[r].item)
  /\ GoReq(r, "done") /\ Release
  /\ UNCHANGED <<queueVars, timeVars, slotVars, userStop, watch>>

(* setQueueTiming; a skip is done then, a start still ensures a watcher.    *)
TimeTrack(r) ==
  /\ req[r].pc = "timing"
  /\ SetTiming(req[r].item)
  /\ IF req[r].kind = "folder"
       THEN GoReq(r, "ensure") /\ UNCHANGED lockVars
       ELSE GoReq(r, "done") /\ Release
  /\ UNCHANGED <<queueVars, slotVars, boxVars, userStop, watch>>

EnsureWatcher(r) ==
  /\ req[r].pc = "ensure"
  /\ IF slot # None
       THEN UNCHANGED <<slotVars, watch>>
       ELSE /\ slot' = r /\ lastWatcher' = r
            /\ watch' = [watch EXCEPT ![r].pc = "tick"]
  /\ GoReq(r, "done") /\ Release
  /\ UNCHANGED <<queueVars, timeVars, boxVars, userStop>>

(* stopQueue is two critical sections: the queue's, then queueMu.  A        *)
(* station's handler goes on with NoteUserPlay.                             *)
ClearQueue(r) ==
  /\ req[r].pc = "clear"
  /\ queue' = Cleared
  /\ GoReq(r, "cancel")
  /\ UNCHANGED <<lockVars, loaded, timeVars, slotVars, boxVars, userStop, watch>>

(* Mutant: the watcher is cancelled but keeps the slot until it leaves.      *)
CancelWatcherKeepsSlot(r) ==
  /\ req[r].pc = "cancel"
  /\ watch' = CancelSlot(watch)
  /\ GoReq(r, CASE req[r].kind = "station" -> "push" [] req[r].kind = "stop" -> "halt" [] OTHER -> "done")
  /\ userStop' = (userStop /\ req[r].kind # "station")
  /\ UNCHANGED <<lockVars, queueVars, timeVars, slotVars, boxVars>>

CancelWatcher(r) ==
  /\ req[r].pc = "cancel"
  /\ slot' = None
  /\ watch' = CancelSlot(watch)
  /\ GoReq(r, CASE req[r].kind = "station" -> "push" [] req[r].kind = "stop" -> "halt" [] OTHER -> "done")
  /\ userStop' = (userStop /\ req[r].kind # "station")
  /\ UNCHANGED <<lockVars, queueVars, timeVars, lastWatcher, boxVars>>

(* renderer.Stop, or the STOP key for what the speaker plays by itself.     *)
Halted == IF Asleep \/ box.state = "idle" THEN box ELSE [box EXCEPT !.state = "halted"]

StopBox(r) ==
  /\ req[r].pc = "halt"
  /\ box' = Halted
  /\ GoReq(r, "done")
  /\ UNCHANGED <<lockVars, queueVars, timeVars, slotVars, userStop, watch, evidence, pushed, serving, handed>>

RequestStep(r) ==
  \/ Begin(r) \/ LoadFolder(r) \/ FolderWoken(r) \/ WakeForStation(r)
  \/ SkipNothing(r) \/ SkipTo(r) \/ SkipPastEnd(r)
  \/ Push(r) \/ PushFails(r) \/ TimeTrack(r) \/ EnsureWatcher(r)
  \/ ClearQueue(r) \/ CancelWatcher(r) \/ StopBox(r)
-----------------------------------------------------------------------------
(* Queue watchers (runQueueWatcher).                                        *)

(* The select sees the cancelled context; a tick that came in while the     *)
(* watcher was busy (the ticker keeps one) may be taken instead, so a       *)
(* cancelled watcher can still begin a round.                               *)
Quit(w) ==
  /\ watch[w].pc = "tick" /\ watch[w].cancelled
  /\ GoWatch(w, "leave")
  /\ UNCHANGED <<lockVars, queueVars, timeVars, slotVars, boxVars, userStop, req>>

OwnsSlot(w) == lastWatcher = w /\ slot # None

(* retireIdleWatcher: the check and the release under queueMu.              *)
Retire(w) ==
  /\ watch[w].pc = "tick" /\ ~queue.active
  /\ slot' = IF OwnsSlot(w) THEN None ELSE slot
  /\ watch' = [(IF OwnsSlot(w) THEN CancelSlot(watch) ELSE watch) EXCEPT ![w].pc = "leave"]
  /\ UNCHANGED <<lockVars, queueVars, timeVars, lastWatcher, boxVars, userStop, req>>

(* Mutant: without the watcher-id check.                                    *)
LeaveFreesAny(w) ==
  /\ watch[w].pc = "leave"
  /\ slot' = None
  /\ watch' = [watch EXCEPT ![w].pc = "off"]
  /\ UNCHANGED <<lockVars, queueVars, timeVars, lastWatcher, boxVars, userStop, req>>

(* releaseWatcher: frees the slot unless it is another watcher's by now.    *)
Leave(w) ==
  /\ watch[w].pc = "leave"
  /\ slot' = IF OwnsSlot(w) THEN None ELSE slot
  /\ watch' = [(IF OwnsSlot(w) THEN CancelSlot(watch) ELSE watch) EXCEPT ![w].pc = "off"]
  /\ UNCHANGED <<lockVars, queueVars, timeVars, lastWatcher, boxVars, userStop, req>>

(* Mutant: the run of dead tracks starts over with every track.             *)
RoundForgetsDead(w) ==
  LET same == watch[w].gen = gen
  IN  [watch[w] EXCEPT !.late = IF watch[w].cancelled THEN @ + 1 ELSE @, !.gen = gen, !.on = timed,
                       !.lastPos = IF same THEN @ ELSE "none", !.dead = IF same THEN @ ELSE 0]

(* A round: read the generation, and start over on a track that is new.     *)
(* dead, retried, sawSource and takeover survive from one track to the next. *)
(* lastPos is how far the track was seen to play (sawPlay is lastPos #      *)
(* "none"): in its middle, or within endEpsilon of its end.                 *)
Round(w) ==
  [watch[w] EXCEPT !.late = IF watch[w].cancelled THEN @ + 1 ELSE @, !.gen = gen, !.on = timed, !.lastPos = IF watch[w].gen = gen THEN @ ELSE "none"]
MayBegin(w) == watch[w].pc = "tick" /\ queue.active /\ (watch[w].cancelled => watch[w].late < LateRounds)
SawPlay(rec) == rec.lastPos # "none"

Tick(w) ==
  /\ MayBegin(w)
  /\ ~evidence \/ SawPlay(Round(w))
  /\ watch' = [watch EXCEPT ![w] = [Round(w) EXCEPT !.pc = "poll"]]
  /\ UNCHANGED <<lockVars, queueVars, timeVars, slotVars, boxVars, userStop, req>>

(* queueDeadTrackStops: one more track nobody heard.                        *)
Dead(rec) ==
  [rec EXCEPT !.dead = @ + 1, !.pc = IF rec.dead + 1 >= DeadLimit THEN "clear" ELSE "advance"]

(* takeQueueBadURL and queueFailFast: a track that was never heard and      *)
(* cannot be fetched ends now, unless the report is about another track or  *)
(* the server does serve it.                                                *)
FailFast(w) ==
  /\ MayBegin(w)
  /\ evidence /\ ~SawPlay(Round(w))
  /\ evidence' = FALSE
  /\ watch' = [watch EXCEPT ![w] =
                 IF QueueItem = pushed /\ ~serving THEN Dead(Round(w)) ELSE Round(w)]
  /\ UNCHANGED <<lockVars, queueVars, timeVars, slotVars, userStop, req, box, pushed, serving, handed>>

(* pollNowPlaying and what the watcher makes of it.  "decided" is where the *)
(* round goes on: the next tick, an advance, a retry, or stopQueue.         *)
ReportsUPNP == box.item \notin {Foreign, NoItem} /\ box.state \notin {"asleep", "idle", "silent", "dropped"}
Polled(w) == [watch[w] EXCEPT !.takeover = 0, !.sawSource = @ \/ ReportsUPNP]
Decide(w, decided) ==
  /\ watch[w].pc = "poll"
  /\ watch' = [watch EXCEPT ![w] = decided]
  /\ UNCHANGED <<lockVars, queueVars, timeVars, slotVars, boxVars, userStop, req>>
DecideTo(w, pc) == Decide(w, [Polled(w) EXCEPT !.pc = pc])

(* queueSourceTakenOver: something else plays, and the queue has played.    *)
TakenOver(w) == box.state = "playing" /\ box.item = Foreign /\ watch[w].sawSource

PollTakenOver(w) ==
  /\ TakenOver(w)
  /\ Decide(w, [watch[w] EXCEPT !.takeover = @ + 1,
                                !.pc = IF watch[w].takeover + 1 >= TakeoverLimit THEN "clear" ELSE "tick"])

PollStandby(w) == Asleep /\ DecideTo(w, "clear")

PollDropped(w) == box.state = "dropped" /\ SawPlay(watch[w]) /\ Decide(w, Dead(Polled(w)))

Heard(w, pos) ==
  [Polled(w) EXCEPT !.lastPos = IF @ = "end" THEN @ ELSE pos, !.dead = 0, !.retried = FALSE]

(* A foreign source before the queue's own was seen is read as the track;   *)
(* the wall clock may end it.                                               *)
PollPlaying(w) ==
  /\ box.state = "playing" /\ ~TakenOver(w)
  /\ \E pc \in IF box.item = Foreign THEN {"tick", "advance"} ELSE {"tick"} :
       Decide(w, [Heard(w, "mid") EXCEPT !.pc = pc])

(* Mutant: the end is expected as a STOP_STATE only.                        *)
PollFrozenWaits(w) == box.state = "frozen" /\ Decide(w, [Heard(w, "end") EXCEPT !.pc = "tick"])

(* PLAY_STATE with the position frozen at the end of the file.              *)
PollFrozen(w) == box.state = "frozen" /\ Decide(w, [Heard(w, "end") EXCEPT !.pc = "advance"])

PollPaused(w) == box.state = "paused" /\ DecideTo(w, "tick")

(* Between tracks the speaker may report STOP_STATE, or nothing to act on.  *)
PollGap(w) == box.state = "loading" /\ DecideTo(w, "tick")

(* STOP_STATE: before the track was seen playing, the gap between tracks;   *)
(* after, the end of the track or somebody's stop, told apart by the        *)
(* position.  In the gap after a new hand-over it is the old track's.       *)
PollStopped(w) ==
  /\ box.state \in {"finished", "halted"} \/ (box.state = "loading" /\ "gapStop" \in Events)
  /\ DecideTo(w, CASE ~SawPlay(watch[w]) -> "tick"
                   [] SawPlay(watch[w]) /\ (box.state = "finished" \/ watch[w].lastPos = "end") -> "advance"
                   [] OTHER -> "clear")

(* No usable status.  A track that never played is handed over once more,   *)
(* then counted as dead; one that did play is ended by the wall clock.      *)
NoStatus(w) ==
  IF SawPlay(watch[w]) THEN "advance" ELSE IF watch[w].retried THEN "count" ELSE "retry"

(* The speaker has nothing to report, past the stall timeout.               *)
PollSilent(w) ==
  /\ box.state \in {"idle", "silent"} \/ (box.state = "dropped" /\ ~SawPlay(watch[w]))
  /\ \E pc \in {NoStatus(w)} \cup (IF SawPlay(watch[w]) THEN {"tick"} ELSE {}) : DecideTo(w, pc)

(* The poll fails, whatever the speaker does: an empty status, judged like  *)
(* silence, before the stall timeout or the end of the track or after it.   *)
PollFails(w) ==
  /\ "pollError" \in Events
  /\ \E pc \in {"tick", NoStatus(w)} :
       Decide(w, [watch[w] EXCEPT !.takeover = 0, !.pc = pc])

Poll(w) ==
  \/ PollTakenOver(w) \/ PollStandby(w) \/ PollDropped(w) \/ PollPlaying(w) \/ PollFrozen(w)
  \/ PollPaused(w) \/ PollGap(w) \/ PollStopped(w) \/ PollSilent(w) \/ PollFails(w)

CountDead(w) ==
  /\ watch[w].pc = "count"
  /\ watch' = [watch EXCEPT ![w] = Dead(watch[w])]
  /\ UNCHANGED <<lockVars, queueVars, timeVars, slotVars, boxVars, userStop, req>>

(* Mutant: the generation is not checked again.                             *)
NeverSuperseded(w) == FALSE

(* advanceAndPlayEnded with boxCmdMu: the generation is checked again, for  *)
(* a request may have held the lock through its wake and push.              *)
Superseded(w) == gen # watch[w].gen

StandDown(w) ==
  /\ watch[w].pc = "advance" /\ boxCmdMu = None
  /\ Superseded(w)
  /\ GoWatch(w, "tick")
  /\ UNCHANGED <<lockVars, queueVars, timeVars, slotVars, boxVars, userStop, req>>

Advance(w) ==
  /\ watch[w].pc = "advance"
  /\ ~Superseded(w) /\ queue.active
  /\ Acquire(WatchProc(w))
  /\ queue' \in Stepped(TRUE)
  /\ userStop' = FALSE
  /\ watch' = [watch EXCEPT ![w].pc = "push", ![w].item = Track(queue'.folder, queue'.pos)]
  /\ UNCHANGED <<loaded, timeVars, slotVars, boxVars, req>>

(* The queue is exhausted (or gone): the speaker is stopped, for it may sit *)
(* in PLAY_STATE on the last track, and the watcher's slot freed.           *)
EndQueue(w) ==
  /\ watch[w].pc = "advance"
  /\ ~Superseded(w)
  /\ ~queue.active \/ Stepped(TRUE) = {}
  /\ Acquire(WatchProc(w))
  /\ queue' = [queue EXCEPT !.active = FALSE]
  /\ userStop' = TRUE
  /\ GoWatch(w, "silence")
  /\ UNCHANGED <<loaded, timeVars, slotVars, boxVars, req>>

(* Mutant: the lock is not given back at the end of the list.               *)
SilenceBoxKeepsLock(w) ==
  /\ watch[w].pc = "silence"
  /\ box' = Halted
  /\ slot' = None
  /\ watch' = [CancelSlot(watch) EXCEPT ![w].pc = "tick"]
  /\ UNCHANGED <<lockVars, queueVars, timeVars, lastWatcher, userStop, req, evidence, pushed, serving, handed>>

SilenceBox(w) ==
  /\ watch[w].pc = "silence"
  /\ box' = Halted
  /\ slot' = None
  /\ watch' = [CancelSlot(watch) EXCEPT ![w].pc = "tick"]
  /\ Release
  /\ UNCHANGED <<queueVars, timeVars, lastWatcher, userStop, req, evidence, pushed, serving, handed>>

(* retryQueueTrackStart: stands down for a newer track and after a stop;    *)
(* otherwise wakes the speaker and hands the same track over again.         *)
MayRetry(w) == ~Superseded(w) /\ queue.active /\ ~userStop

RetryRefused(w) ==
  /\ watch[w].pc = "retry" /\ boxCmdMu = None
  /\ ~MayRetry(w)
  /\ GoWatch(w, "count")
  /\ UNCHANGED <<lockVars, queueVars, timeVars, slotVars, boxVars, userStop, req>>

Retry(w) ==
  /\ watch[w].pc = "retry"
  /\ MayRetry(w)
  /\ Acquire(WatchProc(w))
  /\ watch' = [watch EXCEPT ![w].pc = "wake", ![w].item = QueueItem]
  /\ UNCHANGED <<queueVars, timeVars, slotVars, boxVars, userStop, req>>

RetryWoken(w) ==
  /\ watch[w].pc = "wake"
  /\ box' = Wake
  /\ userStop' = FALSE
  /\ GoWatch(w, "repush")
  /\ UNCHANGED <<lockVars, queueVars, timeVars, slotVars, req, evidence, pushed, serving, handed>>

(* The push of an advance or a retry, with setQueueTiming.                  *)
PushTrack(w) ==
  /\ watch[w].pc \in {"push", "repush"}
  /\ HandOver(watch[w].item)
  /\ SetTiming(watch[w].item)
  /\ watch' = [watch EXCEPT ![w].pc = "tick", ![w].retried = @ \/ watch[w].pc = "repush"]
  /\ Release
  /\ UNCHANGED <<queueVars, slotVars, userStop, req>>

PushTrackFails(w) ==
  /\ watch[w].pc \in {"push", "repush"}
  /\ HandOverFails(watch[w].item)
  /\ GoWatch(w, IF watch[w].pc = "push" THEN "tick" ELSE "count")
  /\ Release
  /\ UNCHANGED <<queueVars, timeVars, slotVars, userStop, req>>

(* stopQueue by the watcher, which then returns.  It asks for no lock and   *)
(* looks at no generation.                                                  *)
WatcherClears(w) ==
  /\ watch[w].pc = "clear"
  /\ queue' = Cleared
  /\ GoWatch(w, "cancel")
  /\ UNCHANGED <<lockVars, loaded, timeVars, slotVars, boxVars, userStop, req>>

WatcherCancels(w) ==
  /\ watch[w].pc = "cancel"
  /\ slot' = None
  /\ watch' = [CancelSlot(watch) EXCEPT ![w].pc = "leave"]
  /\ UNCHANGED <<lockVars, queueVars, timeVars, lastWatcher, boxVars, userStop, req>>

WatcherStep(w) ==
  \/ Quit(w) \/ Retire(w) \/ Leave(w)
  \/ Tick(w) \/ FailFast(w) \/ Poll(w) \/ CountDead(w)
  \/ StandDown(w) \/ Advance(w) \/ EndQueue(w) \/ SilenceBox(w)
  \/ RetryRefused(w) \/ Retry(w) \/ RetryWoken(w)
  \/ PushTrack(w) \/ PushTrackFails(w)
  \/ WatcherClears(w) \/ WatcherCancels(w)

-----------------------------------------------------------------------------
(* The speaker and the media server, as the code meets them.                *)
Moves ==  \* event, state before, state after
  {<<"play", "loading", "playing">>, <<"freeze", "playing", "frozen">>,
   <<"finish", "playing", "finished">>, <<"halt", "playing", "halted">>,
   <<"pause", "playing", "paused">>, <<"resume", "paused", "playing">>,
   <<"drop", "playing", "dropped">>, <<"silence", "loading", "silent">>,
   <<"gone", "loading", "silent">>, <<"refuse", "loading", "halted">>}

(* A stream that plays needs a server; one that starves or cannot be        *)
(* fetched has none.  The report of the latter (NoteBoxError,               *)
(* NoteStreamUpstreamFailure) is about the queue track pushed last.         *)
SpeakerMoves ==
  /\ \E m \in Moves :
       /\ m[1] \in Events /\ box.state = m[2] /\ box.item # Foreign
       /\ m[1] \in {"freeze", "finish"} => ~IsStation(box.item)
       /\ m[1] = "play" => serving
       /\ m[1] \in {"gone", "drop"} => ~serving
       /\ box' = [box EXCEPT !.state = m[3]]
       /\ evidence' = (evidence \/ (m[1] = "gone" /\ pushed # NoItem /\ (queue.active \/ box.item = pushed)))
  /\ UNCHANGED <<lockVars, queueVars, timeVars, slotVars, userStop, req, watch, pushed, serving, handed>>

(* Somebody uses the speaker's own buttons or another app.                  *)
ForeignPlay ==
  /\ "other" \in Events /\ ~Asleep /\ box.item # Foreign
  /\ box' = [state |-> "playing", item |-> Foreign]
  /\ UNCHANGED <<lockVars, queueVars, timeVars, slotVars, userStop, req, watch, evidence, pushed, serving, handed>>

PowerOff ==
  /\ "sleep" \in Events /\ ~Asleep
  /\ box' = [state |-> "asleep", item |-> NoItem]
  /\ UNCHANGED <<lockVars, queueVars, timeVars, slotVars, userStop, req, watch, evidence, pushed, serving, handed>>

ServerDies ==
  /\ "die" \in Events /\ serving
  /\ serving' = FALSE
  /\ UNCHANGED <<lockVars, queueVars, timeVars, slotVars, userStop, req, watch, box, evidence, pushed, handed>>

(* userStopWindow passes.                                                   *)
StopForgotten ==
  /\ "forgetStop" \in Events /\ userStop
  /\ userStop' = FALSE
  /\ UNCHANGED <<lockVars, queueVars, timeVars, slotVars, boxVars, req, watch>>

Outside == SpeakerMoves \/ ForeignPlay \/ PowerOff \/ ServerDies \/ StopForgotten

Next ==
  \/ \E r \in Requests : RequestStep(r)
  \/ \E w \in Requests : WatcherStep(w)
  \/ Outside

Spec == Init /\ [][Next]_vars

(* Every goroutine that can run does; a goroutine waiting for boxCmdMu gets *)
(* it in the end (sync.Mutex hands over to its longest waiter); the speaker *)
(* does not stay for ever between tracks, nor playing a stream that starved. *)
TakesLock(r) == LoadFolder(r) \/ WakeForStation(r) \/ SkipNothing(r) \/ SkipTo(r) \/ SkipPastEnd(r)
WatcherTakesLock(w) == StandDown(w) \/ Advance(w) \/ EndQueue(w) \/ RetryRefused(w) \/ Retry(w)

Fairness ==
  /\ \A r \in Requests : WF_vars(RequestStep(r)) /\ SF_vars(TakesLock(r))
  /\ \A w \in Requests : WF_vars(WatcherStep(w)) /\ SF_vars(WatcherTakesLock(w))
  /\ WF_vars(SpeakerMoves /\ (box.state = "loading" \/ ~serving))

FairSpec == Spec /\ Fairness
-----------------------------------------------------------------------------
ReqPcs == {"new", "lock", "wake", "clear", "cancel", "push", "timing", "ensure", "halt", "done"}
WatchPcs == {"off", "tick", "poll", "advance", "push", "silence", "retry", "wake", "repush",
             "count", "clear", "cancel", "leave"}
BoxStates == {"asleep", "idle", "loading", "playing", "frozen", "finished", "halted", "paused",
              "dropped", "silent"}
Items == (Requests \X (0..Tracks)) \cup {Foreign, NoItem}
Queues == [active : BOOLEAN, folder : Requests \cup {None}, pos : 0..Tracks, repeat : BOOLEAN]
Ids == Requests \cup {None}

TypeOK ==
  /\ boxCmdMu \in {None} \cup {ReqProc(r) : r \in Requests} \cup {WatchProc(w) : w \in Requests}
  /\ queue \in Queues /\ loaded \in Queues
  /\ gen \in Gens \cup {0}
  /\ slot \in Ids /\ lastWatcher \in Ids
  /\ userStop \in BOOLEAN /\ evidence \in BOOLEAN /\ serving \in BOOLEAN
  /\ req \in [Requests -> [pc : ReqPcs, kind : Kinds \cup {"none"}, item : Items]]
  /\ watch \in [Requests ->
       [pc : WatchPcs, cancelled : BOOLEAN, late : 0..LateRounds, gen : Gens \cup {0}, lastPos : {"none", "mid", "end"}, sawSource : BOOLEAN,
        takeover : 0..TakeoverLimit, dead : 0..DeadLimit, retried : BOOLEAN, item : Items, on : Items]]
  /\ box \in [state : BoxStates, item : Items]
  /\ pushed \in Items /\ handed \in Items /\ timed \in Items

(* "A watcher that left without freeing it would make every later queue a   *)
(* queue without a watcher" (ensureWatcher): the slot always names the      *)
(* newest watcher, one that runs and was not cancelled, and no other        *)
(* watcher runs uncancelled, through every start, retirement, cancel and    *)
(* late departure.                                                          *)
Running(w) == watch[w].pc # "off" /\ ~watch[w].cancelled
SlotOwned ==
  /\ slot # None => slot = lastWatcher /\ Running(slot)
  /\ \A w \in Requests : Running(w) => slot = w

(* advanceAndPlay "re-checks the generation once it holds the lock and      *)
(* aborts when superseded": the track a watcher's push replaces is the one  *)
(* its decision was about, whatever folders and skips handed over since its *)
(* poll.  A station moves no generation; see StationNotReplaced.            *)
StaleAdvanceStandsDown ==
  [][\A w \in Requests : PushTrack(w) => handed = watch[w].on \/ IsStation(handed)]_vars

(* A queue whose current track was handed to the speaker has a watcher, or  *)
(* it would play that track and never the next one (ensureWatcher).         *)
PlayedQueueWatched ==
  queue.active /\ handed = QueueItem /\ boxCmdMu = None => slot # None

(* Every request is answered: nobody waits for boxCmdMu for ever.           *)
RequestsFinish == \A r \in Requests : <>(req[r].pc = "done")

(* "three in a row is the server having gone away" (queueDeadTrackLimit):   *)
(* once the media server stopped answering the queue ends, with repeat-all  *)
(* as without, instead of being walked in silence for ever.                 *)
DeadServerEndsQueue == <>[]~serving => <>[]~queue.active

(* A folder used to hang on its first track for ever (#380): while a queue  *)
(* is on a track the speaker does not stay frozen at the end of it.         *)
FrozenTrackLeft ==
  \A r \in Requests, k \in 1..Tracks :
    (box.state = "frozen" /\ box.item = Track(r, k) /\ queue.active /\ QueueItem = Track(r, k))
      ~> (box.state # "frozen" \/ box.item # Track(r, k) \/ ~queue.active)

(* ------------- Said of the code, and false of it (see README). ---------- *)

(* "Acting on the stale decision would ... cut off the first track the user *)
(* just chose, so the advance re-checks the generation" (advanceAndPlay):   *)
(* the stop at the end of a queue is not sent to a station somebody chose   *)
(* meanwhile.                                                               *)
StationNotSilenced == [][\A w \in Requests : SilenceBox(w) => ~IsStation(handed)]_vars

(* Nor does the track it hands over replace that station.                   *)
StationNotReplaced == [][\A w \in Requests : PushTrack(w) => ~IsStation(handed)]_vars

(* "A stop ends any active library queue (no auto-advance after the user    *)
(* stops)" (handleStop): no watcher hands over a track of an ended queue.   *)
NoAdvanceAfterStop == [][\A w \in Requests : PushTrack(w) => queue.active]_vars

(* "a new queue started while one plays is picked up by the running watcher *)
(* through queueGen" (ensureWatcher): the queue a watcher ends is the one   *)
(* whose track it watched.                                                  *)
WatcherEndsItsOwnQueue ==
  [][\A w \in Requests : WatcherClears(w) /\ queue.active => queue.folder = watch[w].on[1]]_vars

(* "stallTimeout: a track that never starts is skipped" (queueTiming): the  *)
(* queue does not stay on a track the speaker reports as stopped.           *)
NeverStartedIsSkipped ==
  \A r \in Requests, k \in 1..Tracks :
    (queue.active /\ QueueItem = Track(r, k) /\ timed = Track(r, k) /\ box.state = "halted")
      ~> (box.state # "halted" \/ ~queue.active)
=============================================================================
