----------------------- MODULE QueuePlaybackProofs ------------------------
(***************************************************************************)
(* Proofs that the watcher slot always names the one running watcher, that *)
(* no advance replaces a track its decision was not about, that the types  *)
(* hold, and when a queue that plays has a watcher: for any number of      *)
(* requests, any folder and whatever the speaker does.                     *)
(***************************************************************************)
EXTENDS QueuePlayback, FiniteSetTheorems, TLAPS

(* A request that is not through has started no watcher.                   *)
SlotInv ==
  /\ DOMAIN watch = Requests /\ DOMAIN req = Requests
  /\ \A w \in Requests : DOMAIN watch[w] = DOMAIN Idle
  /\ \A r \in Requests : DOMAIN req[r] = {"pc", "kind", "item"}
  /\ \A r \in Requests : req[r].pc # "done" => watch[r].pc = "off" /\ ~watch[r].cancelled
  /\ \A w \in Requests : watch[w].cancelled \in BOOLEAN
  /\ slot \in Ids
  /\ SlotOwned

LEMMA Fields ==
  DOMAIN Idle = {"pc", "cancelled", "late", "gen", "lastPos", "sawSource",
                 "takeover", "dead", "retried", "item", "on"}
BY DEF Idle

(* What a step leaves as it found it: who runs.                            *)
SameWatchers ==
  /\ DOMAIN watch' = Requests
  /\ \A w \in Requests :
       /\ DOMAIN watch'[w] = DOMAIN Idle
       /\ watch'[w].cancelled = watch[w].cancelled
       /\ watch'[w].pc = "off" <=> watch[w].pc = "off"

SameRequests ==
  /\ DOMAIN req' = Requests
  /\ \A r \in Requests : /\ DOMAIN req'[r] = {"pc", "kind", "item"}
                         /\ req'[r].pc # "done" => req[r].pc # "done"

LEMMA SlotKept ==
  ASSUME SlotInv, SameWatchers, SameRequests, UNCHANGED <<slot, lastWatcher>>
  PROVE  SlotInv'
BY DEF SlotInv, SameWatchers, SameRequests, SlotOwned, Running, Ids

(* The slot is freed and the watcher in it cancelled.                      *)
Frees ==
  /\ slot' = None
  /\ DOMAIN watch' = Requests
  /\ \A w \in Requests :
       /\ DOMAIN watch'[w] = DOMAIN Idle
       /\ watch'[w].cancelled = (watch[w].cancelled \/ slot = w)
       /\ watch'[w].pc = "off" => watch[w].pc = "off" \/ watch'[w].cancelled \/ lastWatcher # w
       /\ watch[w].pc = "off" => watch'[w].pc = "off"

LEMMA CancelFacts ==
  ASSUME SlotInv
  PROVE  /\ DOMAIN CancelSlot(watch) = Requests
         /\ \A w \in Requests :
              /\ DOMAIN CancelSlot(watch)[w] = DOMAIN Idle
              /\ CancelSlot(watch)[w].cancelled = (watch[w].cancelled \/ slot = w)
              /\ CancelSlot(watch)[w].pc = watch[w].pc
BY Fields, ConstantsAssumption DEF CancelSlot, SlotInv, Ids

LEMMA SlotFreed ==
  ASSUME SlotInv, Frees, SameRequests
  PROVE  SlotInv'
BY ConstantsAssumption DEF SlotInv, Frees, SameRequests, SlotOwned, Running, Ids

LEMMA Untouched ==
  ASSUME SlotInv
  PROVE  (UNCHANGED watch => SameWatchers) /\ (UNCHANGED req => SameRequests)
BY DEF SlotInv, SameWatchers, SameRequests

(* What a round decides leaves who runs as it is.                          *)
Decided(w, rec) ==
  DOMAIN rec = DOMAIN Idle /\ rec.cancelled = watch[w].cancelled /\ rec.pc # "off"

OnPcs == {"tick", "advance", "clear", "count", "retry"}

(* A poll leaves the generation that its decision is about.                *)
Judged(w, rec) ==
  Decided(w, rec) /\ rec.gen = watch[w].gen /\ rec.on = watch[w].on /\ rec.pc \in OnPcs

LEMMA OneWatcher ==
  ASSUME SlotInv, NEW w \in Requests, NEW rec, watch' = [watch EXCEPT ![w] = rec],
         Decided(w, rec), watch[w].pc # "off"
  PROVE  SameWatchers
BY DEF SlotInv, SameWatchers, Decided

LEMMA RecordFacts ==
  ASSUME SlotInv, NEW w \in Requests, watch[w].pc # "off"
  PROVE  /\ Decided(w, Round(w)) /\ Decided(w, [Round(w) EXCEPT !.pc = "poll"])
         /\ Decided(w, Dead(Round(w))) /\ Decided(w, Dead(watch[w]))
<1> DOMAIN watch[w] = DOMAIN Idle
  BY DEF SlotInv
<1>1. Decided(w, Round(w)) /\ Decided(w, [Round(w) EXCEPT !.pc = "poll"])
  BY Fields DEF Decided, Round
<1>2. \A rec : Decided(w, rec) => Decided(w, Dead(rec))
  BY Fields DEF Decided, Dead
<1>3. Decided(w, watch[w])
  BY DEF Decided
<1> QED
  BY <1>1, <1>2, <1>3

LEMMA DecisionFacts ==
  ASSUME SlotInv, NEW w \in Requests, watch[w].pc # "off"
  PROVE  /\ Judged(w, Dead(Polled(w)))
         /\ \A pc \in OnPcs : /\ Judged(w, [Polled(w) EXCEPT !.pc = pc])
                             /\ Judged(w, [Heard(w, "mid") EXCEPT !.pc = pc])
                             /\ Judged(w, [Heard(w, "end") EXCEPT !.pc = pc])
                             /\ Judged(w, [watch[w] EXCEPT !.takeover = @ + 1, !.pc = pc])
                             /\ Judged(w, [watch[w] EXCEPT !.takeover = 0, !.pc = pc])
<1> DOMAIN watch[w] = DOMAIN Idle
  BY DEF SlotInv
<1> DEFINE Same(x) == Decided(w, x) /\ x.gen = watch[w].gen /\ x.on = watch[w].on
<1>1. Same(Polled(w))
  BY Fields DEF Decided, Polled
<1>2. \A x : Same(x) => Judged(w, Dead(x))
  BY Fields DEF Decided, Judged, Dead, OnPcs
<1>3. \A x, pc : Same(x) /\ pc \in OnPcs => Judged(w, [x EXCEPT !.pc = pc])
  BY Fields DEF Decided, Judged, OnPcs
<1>4. \A pos : Same(Heard(w, pos))
  BY <1>1, Fields DEF Decided, Heard
<1>5. \A pc \in OnPcs : /\ Judged(w, [watch[w] EXCEPT !.takeover = @ + 1, !.pc = pc])
                        /\ Judged(w, [watch[w] EXCEPT !.takeover = 0, !.pc = pc])
  BY Fields DEF Decided, Judged, OnPcs
<1> QED
  BY <1>1, <1>2, <1>3, <1>4, <1>5

PollKept(w) ==
  /\ SameWatchers
  /\ \A v \in Requests :
       /\ watch'[v].gen = watch[v].gen /\ watch'[v].on = watch[v].on
       /\ watch'[v].pc \in OnPcs \/ watch'[v].pc = watch[v].pc

LEMMA PollKeeps ==
  ASSUME SlotInv, NEW w \in Requests, Poll(w)
  PROVE  PollKept(w)
<1>0. watch[w].pc = "poll" /\ {"tick", "advance", "clear", "count", "retry"} \subseteq OnPcs
  BY DEF Poll, PollTakenOver, PollStandby, PollDropped, PollPlaying, PollFrozen, PollPaused,
         PollGap, PollStopped, PollSilent, PollFails, DecideTo, Decide, OnPcs, WatchPcs
<1>1. ASSUME NEW rec, Judged(w, rec), Decide(w, rec) PROVE PollKept(w)
  <2>1. SameWatchers /\ watch' = [watch EXCEPT ![w] = rec]
    BY <1>0, <1>1, OneWatcher DEF Decide, Judged
  <2> QED
    BY <1>1, <2>1 DEF PollKept, Judged, SlotInv
<1>2. ASSUME NEW pc \in OnPcs, DecideTo(w, pc) PROVE PollKept(w)
  BY <1>0, <1>1, <1>2, DecisionFacts DEF DecideTo
<1>3. CASE PollTakenOver(w)
  <2>1. PICK pc \in OnPcs : Decide(w, [watch[w] EXCEPT !.takeover = @ + 1, !.pc = pc])
    BY <1>0, <1>3 DEF PollTakenOver
  <2> QED
    BY <1>0, <1>1, <2>1, DecisionFacts
<1>4. CASE PollDropped(w)
  BY <1>0, <1>1, <1>4, DecisionFacts DEF PollDropped
<1>5. CASE PollPlaying(w)
  BY <1>0, <1>1, <1>5, DecisionFacts DEF PollPlaying
<1>6. CASE PollFrozen(w)
  BY <1>0, <1>1, <1>6, DecisionFacts DEF PollFrozen
<1>7. CASE PollStandby(w) \/ PollPaused(w) \/ PollGap(w)
  BY <1>0, <1>2, <1>7 DEF PollStandby, PollPaused, PollGap
<1>8. CASE PollStopped(w)
  BY <1>0, <1>2, <1>8 DEF PollStopped
<1>9. NoStatus(w) \in OnPcs
  BY <1>0 DEF NoStatus
<1>10. CASE PollSilent(w)
  BY <1>0, <1>2, <1>9, <1>10 DEF PollSilent
<1>11. CASE PollFails(w)
  BY <1>0, <1>1, <1>9, <1>11, DecisionFacts DEF PollFails
<1> QED
  BY <1>3, <1>4, <1>5, <1>6, <1>7, <1>8, <1>10, <1>11 DEF Poll

LEMMA SlotStep == SlotInv /\ [Next]_vars => SlotInv'
<1> SUFFICES ASSUME SlotInv, [Next]_vars PROVE SlotInv'
  OBVIOUS
<1> USE DEF slotVars
<1>1. ASSUME NEW r \in Requests, RequestStep(r) PROVE SlotInv'
  <2>1. CASE \/ Begin(r) \/ LoadFolder(r) \/ FolderWoken(r) \/ WakeForStation(r) \/ SkipNothing(r)
             \/ SkipTo(r) \/ Push(r) \/ PushFails(r) \/ TimeTrack(r) \/ ClearQueue(r) \/ StopBox(r)
    <3>1. UNCHANGED <<watch, slot, lastWatcher>>
      BY <2>1 DEF Begin, LoadFolder, FolderWoken, WakeForStation, SkipNothing,
        SkipTo, Push, PushFails, TimeTrack, ClearQueue, StopBox
    <3>2. SameRequests
      BY <2>1 DEF Begin, LoadFolder, FolderWoken, WakeForStation, SkipNothing, GoReq, SlotInv,
        SkipTo, Push, PushFails, TimeTrack, ClearQueue, StopBox, SameRequests
    <3> QED
      BY <3>1, <3>2, Untouched, SlotKept
  <2>2. CASE SkipPastEnd(r) \/ CancelWatcher(r)
    <3>1. SameRequests
      BY <2>2 DEF SkipPastEnd, CancelWatcher, GoReq, SlotInv, SameRequests
    <3>2. Frees
      BY <2>2, CancelFacts DEF SkipPastEnd, CancelWatcher, Frees
    <3> QED
      BY <3>1, <3>2, SlotFreed
  <2>3. CASE EnsureWatcher(r)
    <3>1. SameRequests /\ req[r].pc # "done" /\ watch[r].pc = "off" /\ ~watch[r].cancelled
      BY <2>3 DEF EnsureWatcher, GoReq, SlotInv, SameRequests
    <3>2. CASE slot # None
      BY <2>3, <3>1, <3>2, Untouched, SlotKept DEF EnsureWatcher
    <3>3. CASE slot = None
      <4>1. slot' = r /\ lastWatcher' = r /\ watch' = [watch EXCEPT ![r].pc = "tick"] /\ req'[r].pc = "done"
        BY <2>3, <3>3 DEF EnsureWatcher, GoReq, SlotInv
      <4>2. \A w \in Requests : ~Running(w)
        BY <3>3, ConstantsAssumption DEF SlotInv, SlotOwned
      <4>3. /\ DOMAIN watch' = Requests
            /\ \A w \in Requests \ {r} : watch'[w] = watch[w]
            /\ DOMAIN watch'[r] = DOMAIN Idle /\ watch'[r].pc = "tick" /\ ~watch'[r].cancelled
        BY <3>1, <4>1, Fields DEF SlotInv
      <4>4. SlotOwned'
        BY <4>1, <4>2, <4>3 DEF SlotOwned, Running
      <4> QED
        BY <3>1, <4>1, <4>3, <4>4 DEF SlotInv, SameRequests, Ids
    <3> QED
      BY <3>2, <3>3
  <2> QED
    BY <1>1, <2>1, <2>2, <2>3 DEF RequestStep
<1>2. ASSUME NEW w \in Requests, WatcherStep(w) PROVE SlotInv'
  <2>1. CASE \/ Quit(w) \/ Tick(w) \/ FailFast(w) \/ Poll(w) \/ CountDead(w) \/ StandDown(w)
             \/ Advance(w) \/ EndQueue(w) \/ RetryRefused(w) \/ Retry(w) \/ RetryWoken(w)
             \/ PushTrack(w) \/ PushTrackFails(w) \/ WatcherClears(w)
    <3>1. UNCHANGED <<req, slot, lastWatcher>>
      BY <2>1 DEF Quit, Tick, FailFast, Poll, CountDead, StandDown, Advance, EndQueue, RetryRefused, Retry,
        RetryWoken, PushTrack, PushTrackFails, WatcherClears, PollTakenOver, PollStandby,
        PollDropped, PollPlaying, PollFrozen, PollPaused, PollGap, PollStopped, PollSilent, PollFails,
        DecideTo, Decide
    <3>2. SameWatchers
      <4>1. CASE Poll(w)
        BY <4>1, PollKeeps DEF PollKept
      <4>2. CASE Tick(w) \/ FailFast(w) \/ CountDead(w)
        <5>1. CASE Tick(w)
          BY <5>1, RecordFacts, OneWatcher DEF Tick, MayBegin
        <5>2. CASE FailFast(w)
          <6>1. watch[w].pc = "tick" /\ \E rec \in {Dead(Round(w)), Round(w)} : watch' = [watch EXCEPT ![w] = rec]
            BY <5>2 DEF FailFast, MayBegin
          <6> QED
            BY <6>1, RecordFacts, OneWatcher
        <5>3. CASE CountDead(w)
          BY <5>3, RecordFacts, OneWatcher DEF CountDead
        <5> QED
          BY <4>2, <5>1, <5>2, <5>3
      <4>3. CASE \/ Quit(w) \/ StandDown(w) \/ Advance(w) \/ EndQueue(w) \/ RetryRefused(w) \/ Retry(w)
                 \/ RetryWoken(w) \/ PushTrack(w) \/ PushTrackFails(w) \/ WatcherClears(w)
        <5>1. ASSUME NEW pc \in WatchPcs \ {"off"}, GoWatch(w, pc), watch[w].pc # "off" PROVE SameWatchers
          BY <5>1, Fields DEF SlotInv, SameWatchers, GoWatch
        <5>2. CASE Quit(w) \/ StandDown(w) \/ EndQueue(w) \/ RetryRefused(w) \/ RetryWoken(w) \/ PushTrackFails(w) \/ WatcherClears(w)
          BY <5>1, <5>2 DEF WatchPcs, Quit, StandDown, EndQueue, RetryRefused, RetryWoken, PushTrackFails, WatcherClears
        <5>3. CASE Advance(w) \/ Retry(w)
          <6>1. ASSUME NEW pc, NEW item, watch' = [watch EXCEPT ![w].pc = pc, ![w].item = item],
                       pc # "off", watch[w].pc # "off"
                PROVE  SameWatchers
            BY <6>1, Fields DEF SlotInv, SameWatchers
          <6> QED
            BY <5>3, <6>1 DEF Advance, Retry
        <5>4. CASE PushTrack(w)
          <6>1. PICK x : watch' = [watch EXCEPT ![w].pc = "tick", ![w].retried = x]
            BY <5>4 DEF PushTrack
          <6>2. watch[w].pc # "off"
            BY <5>4 DEF PushTrack
          <6> QED
            BY <6>1, <6>2, Fields DEF SlotInv, SameWatchers
        <5> QED
          BY <4>3, <5>2, <5>3, <5>4
      <4> QED
        BY <2>1, <4>1, <4>2, <4>3
    <3> QED
      BY <3>1, <3>2, Untouched, SlotKept
  <2>2. CASE Retire(w) \/ Leave(w)
    <3>1. PICK pc \in {"leave", "off"} :
            /\ slot' = IF OwnsSlot(w) THEN None ELSE slot
            /\ watch' = [(IF OwnsSlot(w) THEN CancelSlot(watch) ELSE watch) EXCEPT ![w].pc = pc]
            /\ UNCHANGED <<lastWatcher, req>> /\ watch[w].pc # "off"
      BY <2>2 DEF Retire, Leave
    <3>2. CASE OwnsSlot(w)
      <4>1. slot = w
        BY <3>2 DEF OwnsSlot, SlotInv, SlotOwned
      <4>2. Frees
        BY <3>1, <3>2, <4>1, CancelFacts, Fields DEF Frees
      <4> QED
        BY <3>1, <4>2, Untouched, SlotFreed
    <3>3. CASE ~OwnsSlot(w)
      <4>1. slot # w /\ watch' = [watch EXCEPT ![w].pc = pc] /\ UNCHANGED <<slot, lastWatcher, req>>
        BY <3>1, <3>3, ConstantsAssumption DEF OwnsSlot, SlotInv, SlotOwned
      <4>2. /\ DOMAIN watch' = Requests
            /\ \A q \in Requests \ {w} : watch'[q] = watch[q]
            /\ DOMAIN watch'[w] = DOMAIN Idle /\ watch'[w].cancelled = watch[w].cancelled
        BY <4>1, Fields DEF SlotInv
      <4>3. ~Running(w)
        BY <4>1 DEF SlotInv, SlotOwned
      <4>4. watch[w].cancelled /\ req[w].pc = "done"
        BY <3>1, <4>3 DEF Running, SlotInv
      <4> QED
        BY <4>1, <4>2, <4>4 DEF SlotInv, SlotOwned, Running
    <3> QED
      BY <3>2, <3>3
  <2>3. CASE SilenceBox(w) \/ WatcherCancels(w)
    <3>1. Frees /\ UNCHANGED req
      BY <2>3, CancelFacts, Fields DEF SilenceBox, WatcherCancels, Frees
    <3> QED
      BY <3>1, Untouched, SlotFreed
  <2> QED
    BY <1>2, <2>1, <2>2, <2>3 DEF WatcherStep
<1>3. CASE Outside \/ UNCHANGED vars
  <2>1. UNCHANGED <<watch, req, slot, lastWatcher>>
    BY <1>3 DEF Outside, SpeakerMoves, ForeignPlay, PowerOff, ServerDies, StopForgotten, vars
  <2> QED
    BY <2>1, Untouched, SlotKept
<1> QED
  BY <1>1, <1>2, <1>3 DEF Next

LEMMA InitSlot == Init => SlotInv
<1> SUFFICES ASSUME Init PROVE SlotInv
  OBVIOUS
<1>1. \A w \in Requests : watch[w] = Idle
  BY DEF Init
<1>2. \A w \in Requests : watch[w].pc = "off" /\ watch[w].cancelled = FALSE
  BY <1>1 DEF Idle
<1>3. DOMAIN watch = Requests /\ DOMAIN req = Requests /\ slot = None
  BY DEF Init
<1>4. \A r \in Requests : DOMAIN req[r] = {"pc", "kind", "item"}
  BY DEF Init
<1> QED
  BY <1>1, <1>2, <1>3, <1>4 DEF SlotInv, SlotOwned, Running, Ids

(* SlotOwned holds in every reachable state: no start, retirement, cancel  *)
(* or late departure leaves the slot to a watcher that does not run.       *)
THEOREM SlotOwnedHolds == Spec => []SlotOwned
<1>1. Init => SlotInv
  BY InitSlot
<1>2. SlotInv => SlotOwned
  BY DEF SlotInv
<1> QED
  BY <1>1, <1>2, SlotStep, PTL DEF Spec

-----------------------------------------------------------------------------
(* Who holds boxCmdMu.                                                     *)
ReqHolds(r) ==
  \/ req[r].pc \in {"wake", "push", "timing", "ensure"}
  \/ req[r].pc \in {"clear", "cancel"} /\ req[r].kind = "station"
WatchHolds(w) == watch[w].pc \in {"push", "silence", "wake", "repush"}

LockInv ==
  /\ \A r \in Requests : ReqHolds(r) => boxCmdMu = ReqProc(r)
  /\ \A w \in Requests : WatchHolds(w) => boxCmdMu = WatchProc(w)

(* A generation that a watcher remembers is of the track it watched, and   *)
(* one that is about to hand a track over remembers the newest.            *)
TimeInv ==
  \A w \in Requests :
    /\ watch[w].gen = gen => watch[w].on = timed
    /\ watch[w].pc \in {"push", "wake", "repush"} => watch[w].gen = gen

(* What was handed over last is what the newest generation is about, but   *)
(* for a station and between a push and its timing.                        *)
HandInv ==
  /\ (\A r \in Requests : req[r].pc # "timing") => handed = timed \/ IsStation(handed)
  /\ \A r \in Requests :
       /\ req[r].pc = "timing" => handed = req[r].item
       /\ req[r].kind = "station" /\ req[r].pc \in {"clear", "cancel", "push"} => IsStation(req[r].item)

StaleInv == SlotInv /\ LockInv /\ TimeInv /\ HandInv

LEMMA Processes ==
  ASSUME NEW p \in Requests, NEW q \in Requests
  PROVE  /\ ReqProc(p) # WatchProc(q) /\ ReqProc(p) # None /\ WatchProc(p) # None
         /\ ReqProc(p) = ReqProc(q) => p = q
         /\ WatchProc(p) = WatchProc(q) => p = q
BY ConstantsAssumption DEF ReqProc, WatchProc

(* queueGen takes a value that nobody remembers.                           *)
LEMMA SomeGenIsFree == \E g \in Gens : g # gen /\ \A w \in Requests : watch[w].gen # g
<1> DEFINE known == {watch[w].gen : w \in Requests} \cup {gen}
<1>1. IsFiniteSet({watch[w].gen : w \in Requests}) /\ Cardinality({watch[w].gen : w \in Requests}) <= Cardinality(Requests)
  <2> DEFINE f == [w \in Requests |-> watch[w].gen]
  <2>1. f \in Surjection(Requests, {watch[w].gen : w \in Requests})
    BY DEF Surjection
  <2> QED
    BY <2>1, FS_Surjection, ConstantsAssumption
<1>2. IsFiniteSet(known) /\ Cardinality(known) <= Cardinality(Requests) + 1
  <2> DEFINE image == {watch[w].gen : w \in Requests}
  <2>1. /\ IsFiniteSet(image) /\ Cardinality(image) \in Nat /\ Cardinality(Requests) \in Nat
        /\ Cardinality(image) <= Cardinality(Requests)
    BY <1>1, FS_CardinalityType, ConstantsAssumption
  <2> HIDE DEF image
  <2>2. /\ IsFiniteSet(image \cup {gen})
        /\ Cardinality(image \cup {gen}) <= Cardinality(image) + 1
    <3>1. Cardinality(image \cup {gen}) = IF gen \in image THEN Cardinality(image) ELSE Cardinality(image) + 1
      BY <2>1, FS_AddElement
    <3> QED
      BY <2>1, <3>1, FS_AddElement
  <2>3. IsFiniteSet(image \cup {gen}) /\ Cardinality(image \cup {gen}) <= Cardinality(Requests) + 1
    BY <2>1, <2>2, FS_CardinalityType
  <2> QED
    BY <2>3 DEF image
<1>3. \E g \in Gens : g \notin known
  <2> SUFFICES ASSUME Gens \subseteq known PROVE FALSE
    OBVIOUS
  <2>1. Cardinality(Gens) <= Cardinality(known)
    BY <1>2, FS_Subset
  <2> QED
    BY <1>2, <2>1, FS_CardinalityType, ConstantsAssumption
<1> QED
  BY <1>3

LEMMA FreshIsFresh == FreshGen # gen /\ \A w \in Requests : watch[w].gen # FreshGen
BY SomeGenIsFree DEF FreshGen

LEMMA RequestStale ==
  ASSUME StaleInv, NEW r \in Requests, RequestStep(r)
  PROVE  LockInv' /\ TimeInv' /\ HandInv'
<1> USE Processes DEF StaleInv, LockInv, TimeInv, HandInv, ReqHolds, WatchHolds, SlotInv, Acquire, Release,
        lockVars, queueVars, slotVars, boxVars, timeVars
<1>1. CASE Begin(r)
  BY <1>1 DEF Begin
<1>2. CASE LoadFolder(r)
  BY <1>2 DEF LoadFolder
<1>3. CASE FolderWoken(r)
  BY <1>3 DEF FolderWoken, GoReq
<1>4. CASE WakeForStation(r)
  BY <1>4, ConstantsAssumption DEF WakeForStation, IsStation, Station
<1>5. CASE SkipNothing(r)
  BY <1>5 DEF SkipNothing, GoReq
<1>6. CASE SkipTo(r)
  BY <1>6 DEF SkipTo
<1>7. CASE SkipPastEnd(r)
  BY <1>7, Fields DEF SkipPastEnd, GoReq, CancelSlot
<1>8. CASE Push(r)
  BY <1>8 DEF Push, GoReq, HandOver
<1>9. CASE PushFails(r)
  BY <1>9 DEF PushFails, GoReq, HandOverFails
<1>10. CASE TimeTrack(r)
  BY <1>10, FreshIsFresh DEF TimeTrack, GoReq, SetTiming
<1>11. CASE EnsureWatcher(r)
  BY <1>11, Fields DEF EnsureWatcher, GoReq
<1>12. CASE ClearQueue(r)
  BY <1>12 DEF ClearQueue, GoReq
<1>13. CASE CancelWatcher(r)
  BY <1>13, Fields DEF CancelWatcher, GoReq, CancelSlot
<1>14. CASE StopBox(r)
  BY <1>14 DEF StopBox, GoReq
<1> QED
  BY <1>1, <1>2, <1>3, <1>4, <1>5, <1>6, <1>7, <1>8, <1>9, <1>10, <1>11, <1>12, <1>13, <1>14 DEF RequestStep

LEMMA PollUntouched ==
  ASSUME NEW w \in Requests, Poll(w)
  PROVE  UNCHANGED <<lockVars, queueVars, timeVars, slotVars, boxVars, userStop, req>>
BY DEF Poll, PollTakenOver, PollStandby, PollDropped, PollPlaying, PollFrozen, PollPaused,
       PollGap, PollStopped, PollSilent, PollFails, DecideTo, Decide

LEMMA WatcherStale ==
  ASSUME StaleInv, NEW w \in Requests, WatcherStep(w)
  PROVE  LockInv' /\ TimeInv' /\ HandInv'
<1> USE Processes, Fields DEF StaleInv, LockInv, TimeInv, HandInv, ReqHolds, WatchHolds, SlotInv, Acquire, Release,
        lockVars, queueVars, slotVars, boxVars, timeVars
<1>1. CASE Quit(w)
  BY <1>1 DEF Quit, GoWatch
<1>2. CASE Retire(w)
  BY <1>2 DEF Retire, CancelSlot
<1>3. CASE Leave(w)
  BY <1>3 DEF Leave, CancelSlot
<1>4. CASE Tick(w)
  BY <1>4 DEF Tick, MayBegin, Round
<1>5. CASE FailFast(w)
  BY <1>5 DEF FailFast, MayBegin, Round, Dead
<1>6. CASE Poll(w)
  BY <1>6, PollKeeps, PollUntouched DEF PollKept, OnPcs
<1>7. CASE CountDead(w)
  BY <1>7 DEF CountDead, Dead
<1>8. CASE StandDown(w)
  BY <1>8 DEF StandDown, GoWatch
<1>9. CASE Advance(w)
  BY <1>9 DEF Advance, Superseded
<1>10. CASE EndQueue(w)
  BY <1>10 DEF EndQueue, GoWatch
<1>11. CASE SilenceBox(w)
  BY <1>11 DEF SilenceBox, CancelSlot
<1>12. CASE RetryRefused(w)
  BY <1>12 DEF RetryRefused, GoWatch
<1>13. CASE Retry(w)
  BY <1>13 DEF Retry, MayRetry, Superseded
<1>14. CASE RetryWoken(w)
  BY <1>14 DEF RetryWoken, GoWatch
<1>15. CASE PushTrack(w)
  BY <1>15, FreshIsFresh DEF PushTrack, HandOver, SetTiming
<1>16. CASE PushTrackFails(w)
  BY <1>16 DEF PushTrackFails, HandOverFails, GoWatch
<1>17. CASE WatcherClears(w)
  BY <1>17 DEF WatcherClears, GoWatch
<1>18. CASE WatcherCancels(w)
  BY <1>18 DEF WatcherCancels, CancelSlot
<1> QED
  BY <1>1, <1>2, <1>3, <1>4, <1>5, <1>6, <1>7, <1>8, <1>9, <1>10, <1>11, <1>12, <1>13, <1>14, <1>15,
     <1>16, <1>17, <1>18 DEF WatcherStep

LEMMA StaleStep == StaleInv /\ [Next]_vars => StaleInv'
<1> SUFFICES ASSUME StaleInv, [Next]_vars PROVE StaleInv'
  OBVIOUS
<1>1. SlotInv'
  BY SlotStep DEF StaleInv
<1>2. CASE Outside \/ UNCHANGED vars
  <2>1. UNCHANGED <<boxCmdMu, watch, req, gen, timed, handed>>
    BY <1>2 DEF Outside, SpeakerMoves, ForeignPlay, PowerOff, ServerDies, StopForgotten, vars, lockVars, timeVars, boxVars
  <2> QED
    BY <1>1, <2>1 DEF StaleInv, LockInv, TimeInv, HandInv, ReqHolds, WatchHolds
<1> QED
  BY <1>1, <1>2, RequestStale, WatcherStale DEF Next, StaleInv

LEMMA StaleInit == Init => StaleInv
<1> SUFFICES ASSUME Init PROVE StaleInv
  OBVIOUS
<1>1. SlotInv
  BY InitSlot
<1>2. \A w \in Requests : watch[w].pc = "off" /\ watch[w].on = NoItem
  BY DEF Init, Idle
<1>3. \A r \in Requests : req[r].pc = "new"
  BY DEF Init
<1>4. timed = NoItem /\ handed = NoItem
  BY DEF Init
<1> QED
  BY <1>1, <1>2, <1>3, <1>4 DEF StaleInv, LockInv, TimeInv, HandInv, ReqHolds, WatchHolds

(* StaleAdvanceStandsDown holds of every step: advanceAndPlayEnded and the *)
(* retry check queueGen once they hold boxCmdMu, and every other play that *)
(* moves a folder holds it until queueGen has moved.                       *)
THEOREM StaleAdvanceStandsDownHolds == Spec => StaleAdvanceStandsDown
<1>1. StaleInv => \A w \in Requests : PushTrack(w) => handed = watch[w].on \/ IsStation(handed)
  BY Processes DEF StaleInv, LockInv, TimeInv, HandInv, ReqHolds, WatchHolds, PushTrack
<1> QED
  BY <1>1, StaleInit, StaleStep, PTL DEF Spec, StaleAdvanceStandsDown
-----------------------------------------------------------------------------
(* Types.  The counts of a watcher stay below their limits as long as it   *)
(* may still go round, for it clears the queue and leaves when one reaches *)
(* its limit; and a queue that is active is somebody's folder.             *)
WatchRec ==
  [pc : WatchPcs, cancelled : BOOLEAN, late : 0..LateRounds, gen : Gens \cup {0}, lastPos : {"none", "mid", "end"}, sawSource : BOOLEAN,
   takeover : 0..TakeoverLimit, dead : 0..DeadLimit, retried : BOOLEAN, item : Items, on : Items]
ReqRec == [pc : ReqPcs, kind : Kinds \cup {"none"}, item : Items]
Box == [state : BoxStates, item : Items]
Leaving == {"clear", "cancel", "leave", "off"}
Bounded(rec) == rec.pc \notin Leaving => rec.takeover < TakeoverLimit /\ rec.dead < DeadLimit

QueuesOK ==
  /\ queue \in Queues /\ loaded \in Queues
  /\ queue.active => queue.folder \in Requests
  /\ loaded.active => loaded.folder \in Requests
WatchOK == watch \in [Requests -> WatchRec] /\ \A w \in Requests : Bounded(watch[w])
ReqOK == req \in [Requests -> ReqRec]
Unstarted == \A r \in Requests : req[r].pc # "done" => watch[r] = Idle
BoxOK == box \in Box /\ {pushed, handed} \subseteq Items /\ evidence \in BOOLEAN /\ serving \in BOOLEAN
RestOK ==
  /\ boxCmdMu \in {None} \cup {ReqProc(r) : r \in Requests} \cup {WatchProc(w) : w \in Requests}
  /\ gen \in Gens \cup {0} /\ timed \in Items
  /\ slot \in Ids /\ lastWatcher \in Ids /\ userStop \in BOOLEAN

TypeInv == SlotInv /\ QueuesOK /\ WatchOK /\ ReqOK /\ Unstarted /\ BoxOK /\ RestOK

(* What a step of a watcher makes of its own record.                       *)
Good(rec) == rec \in WatchRec /\ Bounded(rec)

LEMMA ItemFacts ==
  /\ \A r \in Requests, k \in 0..Tracks : Track(r, k) \in Items
  /\ \A r \in Requests : Station(r) \in Items
  /\ Foreign \in Items /\ NoItem \in Items /\ 1 \in 0..Tracks /\ 0 \in 0..Tracks
BY ConstantsAssumption DEF Items, Track, Station, Foreign, NoItem

LEMMA IdleIsGood == Good(Idle) /\ Idle.takeover = 0 /\ Idle.dead = 0
<1>1. NoItem \in Items /\ "off" \in WatchPcs
  BY ItemFacts DEF WatchPcs
<1>2. 0 \in 0..LateRounds /\ 0 \in 0..TakeoverLimit /\ 0 \in 0..DeadLimit
  BY ConstantsAssumption
<1> QED
  BY <1>1, <1>2 DEF Good, Idle, WatchRec, Bounded, Leaving

LEMMA SteppedFacts ==
  ASSUME QueuesOK, queue.active, NEW forward \in BOOLEAN, NEW q \in Stepped(forward)
  PROVE  q \in Queues /\ q.active /\ q.folder = queue.folder /\ Track(q.folder, q.pos) \in Items
<1>1. Tracks \in Nat \ {0} /\ queue \in Queues /\ queue.folder \in Requests
  BY ConstantsAssumption DEF QueuesOK
<1>2. queue.pos \in 0..Tracks
  BY <1>1 DEF Queues
<1>3. PICK p \in 0..Tracks : q = [queue EXCEPT !.pos = p]
  BY <1>1, <1>2 DEF Stepped
<1>4. q \in Queues /\ q.active /\ q.folder = queue.folder /\ q.pos = p
  BY <1>1, <1>3 DEF Queues
<1> QED
  BY <1>1, <1>4, ItemFacts

LEMMA BoxFacts ==
  ASSUME BoxOK
  PROVE  Wake \in Box /\ Halted \in Box
<1>1. NoItem \in Items /\ {"idle", "halted"} \subseteq BoxStates
  BY ItemFacts DEF BoxStates
<1> QED
  BY <1>1 DEF BoxOK, Wake, Halted, Box

LEMMA HandOverFacts ==
  ASSUME BoxOK, NEW item \in Items, HandOver(item) \/ HandOverFails(item)
  PROVE  BoxOK'
<1>1. "loading" \in BoxStates
  BY DEF BoxStates
<1>2. {pushed', handed'} \subseteq Items /\ evidence' \in BOOLEAN
  BY DEF BoxOK, HandOver, HandOverFails, NoteQueuePush
<1>3. box' \in Box /\ serving' = serving
  BY <1>1 DEF BoxOK, HandOver, HandOverFails, Box
<1> QED
  BY <1>2, <1>3 DEF BoxOK

(* A request's new place, and a watcher's.                                 *)
LEMMA ReqGoes ==
  ASSUME ReqOK, NEW r \in Requests
  PROVE  /\ \A pc \in ReqPcs : GoReq(r, pc) => ReqOK'
         /\ \A pc \in ReqPcs, item \in Items : req' = [req EXCEPT ![r].pc = pc, ![r].item = item] => ReqOK'
BY DEF ReqOK, ReqRec, GoReq

LEMMA WatchGoes ==
  ASSUME WatchOK, NEW w \in Requests, NEW rec, Good(rec), watch' = [watch EXCEPT ![w] = rec]
  PROVE  WatchOK'
BY DEF WatchOK, Good

LEMMA RecordGoes ==
  ASSUME NEW rec, Good(rec)
  PROVE  /\ \A pc \in WatchPcs : rec.pc \notin Leaving \/ pc \in Leaving => Good([rec EXCEPT !.pc = pc])
         /\ Good([rec EXCEPT !.cancelled = TRUE])
         /\ \A pc \in WatchPcs, item \in Items :
              rec.pc \notin Leaving \/ pc \in Leaving => Good([rec EXCEPT !.pc = pc, !.item = item])
         /\ \A pc \in WatchPcs, b \in BOOLEAN :
              rec.pc \notin Leaving \/ pc \in Leaving => Good([rec EXCEPT !.pc = pc, !.retried = b])
BY DEF Good, WatchRec, Bounded

LEMMA CancelGood ==
  ASSUME WatchOK, slot \in Ids
  PROVE  /\ CancelSlot(watch) \in [Requests -> WatchRec]
         /\ \A w \in Requests : Good(CancelSlot(watch)[w]) /\ CancelSlot(watch)[w].pc = watch[w].pc
<1>1. \A w \in Requests : Good(watch[w])
  BY DEF WatchOK, Good
<1>2. CASE slot = None
  BY <1>1, <1>2 DEF CancelSlot, WatchOK
<1>3. CASE slot # None
  <2>1. slot \in Requests /\ CancelSlot(watch) = [watch EXCEPT ![slot] = [watch[slot] EXCEPT !.cancelled = TRUE]]
    BY <1>3 DEF CancelSlot, Ids
  <2>2. Good([watch[slot] EXCEPT !.cancelled = TRUE]) /\ [watch[slot] EXCEPT !.cancelled = TRUE].pc = watch[slot].pc
    <3>1. Good(watch[slot])
      BY <1>1, <2>1
    <3>2. Good([watch[slot] EXCEPT !.cancelled = TRUE])
      BY <3>1, RecordGoes
    <3>3. watch[slot] \in WatchRec
      BY <3>1 DEF Good
    <3>4. [watch[slot] EXCEPT !.cancelled = TRUE].pc = watch[slot].pc
      BY <3>3 DEF WatchRec
    <3> QED
      BY <3>2, <3>4
  <2> QED
    BY <1>1, <2>1, <2>2 DEF WatchOK, Good
<1> QED
  BY <1>2, <1>3

LEMMA WatchCancelGoes ==
  ASSUME WatchOK, slot \in Ids, NEW w \in Requests, NEW pc \in WatchPcs, watch[w].pc \notin Leaving \/ pc \in Leaving,
         NEW ws \in {watch, CancelSlot(watch)}, watch' = [ws EXCEPT ![w].pc = pc]
  PROVE  WatchOK'
<1>1. ws \in [Requests -> WatchRec] /\ \A v \in Requests : Good(ws[v]) /\ ws[v].pc = watch[v].pc
  BY CancelGood DEF WatchOK, Good
<1>2. Good([ws[w] EXCEPT !.pc = pc])
  BY <1>1, RecordGoes
<1>3. watch' = [ws EXCEPT ![w] = [ws[w] EXCEPT !.pc = pc]]
  OBVIOUS
<1> QED
  BY <1>1, <1>2, <1>3 DEF WatchOK, Good

(* Rounds and what they decide.                                            *)
LEMMA RoundGood ==
  ASSUME WatchOK, RestOK, NEW w \in Requests, MayBegin(w)
  PROVE  Good(Round(w)) /\ Round(w).pc = "tick" /\ Good([Round(w) EXCEPT !.pc = "poll"])
<1>1. watch[w] \in WatchRec /\ Bounded(watch[w]) /\ watch[w].pc = "tick" /\ gen \in Gens \cup {0} /\ timed \in Items
  BY DEF WatchOK, RestOK, MayBegin
<1>2. LateRounds \in Nat /\ watch[w].late \in 0..LateRounds /\ (watch[w].cancelled => watch[w].late < LateRounds)
  BY <1>1, ConstantsAssumption DEF WatchRec, MayBegin
<1>3. PICK late \in 0..LateRounds, pos \in {"none", "mid", "end"} :
        Round(w) = [watch[w] EXCEPT !.late = late, !.gen = gen, !.on = timed, !.lastPos = pos]
  <2>1. (IF watch[w].cancelled THEN watch[w].late + 1 ELSE watch[w].late) \in 0..LateRounds
    BY <1>2
  <2>2. (IF watch[w].gen = gen THEN watch[w].lastPos ELSE "none") \in {"none", "mid", "end"}
    BY <1>1 DEF WatchRec
  <2> QED
    BY <2>1, <2>2 DEF Round
<1>4. Good(Round(w)) /\ Round(w).pc = "tick"
  BY <1>1, <1>3 DEF Good, WatchRec, Bounded
<1> QED
  BY <1>4, RecordGoes DEF WatchPcs, Leaving

LEMMA DeadGood ==
  ASSUME NEW rec, Good(rec), rec.pc \notin Leaving
  PROVE  Good(Dead(rec))
<1>1. rec \in WatchRec /\ rec.takeover < TakeoverLimit /\ rec.dead < DeadLimit /\ rec.dead \in Nat /\ DeadLimit \in Nat
  BY ConstantsAssumption DEF Good, Bounded, WatchRec
<1>2. rec.dead + 1 \in 0..DeadLimit /\ {"clear", "advance"} \subseteq WatchPcs
  BY <1>1 DEF WatchPcs
<1>3. Dead(rec) = [rec EXCEPT !.dead = rec.dead + 1, !.pc = IF rec.dead + 1 >= DeadLimit THEN "clear" ELSE "advance"]
  BY DEF Dead
<1>4. /\ Dead(rec) \in WatchRec /\ Dead(rec).dead = rec.dead + 1 /\ Dead(rec).takeover = rec.takeover
      /\ rec.dead + 1 >= DeadLimit => Dead(rec).pc = "clear"
  BY <1>1, <1>2, <1>3 DEF WatchRec
<1>5. Dead(rec).pc \notin Leaving => rec.dead + 1 < DeadLimit
  BY <1>1, <1>4 DEF Leaving
<1> QED
  BY <1>1, <1>4, <1>5 DEF Good, Bounded

LEMMA DecisionGood ==
  ASSUME WatchOK, NEW w \in Requests, watch[w].pc = "poll"
  PROVE  /\ Good(Dead(Polled(w)))
         /\ \A pc \in OnPcs : /\ Good([Polled(w) EXCEPT !.pc = pc])
                             /\ Good([Heard(w, "mid") EXCEPT !.pc = pc])
                             /\ Good([Heard(w, "end") EXCEPT !.pc = pc])
         /\ Good([watch[w] EXCEPT !.takeover = @ + 1,
                                  !.pc = IF watch[w].takeover + 1 >= TakeoverLimit THEN "clear" ELSE "tick"])
         /\ \A pc \in OnPcs : Good([watch[w] EXCEPT !.takeover = 0, !.pc = pc])
<1>1. /\ watch[w] \in WatchRec /\ Bounded(watch[w])
      /\ TakeoverLimit \in Nat \ {0} /\ DeadLimit \in Nat \ {0}
      /\ watch[w].takeover < TakeoverLimit /\ watch[w].dead < DeadLimit
      /\ watch[w].takeover \in Nat /\ watch[w].sawSource \in BOOLEAN
      /\ 0 \in 0..TakeoverLimit /\ 0 \in 0..DeadLimit
  BY ConstantsAssumption DEF WatchOK, Bounded, Leaving, WatchRec
<1>2. Good(Polled(w)) /\ Polled(w).pc = "poll"
  <2>1. (watch[w].sawSource \/ ReportsUPNP) \in BOOLEAN
    BY <1>1 DEF ReportsUPNP
  <2>2. PICK s \in BOOLEAN : Polled(w) = [watch[w] EXCEPT !.takeover = 0, !.sawSource = s]
    BY <2>1 DEF Polled
  <2> QED
    <3>1. /\ Polled(w) \in WatchRec /\ Polled(w).takeover = 0 /\ Polled(w).dead = watch[w].dead
          /\ Polled(w).pc = "poll"
      BY <1>1, <2>2 DEF WatchRec
    <3> QED
      BY <1>1, <3>1 DEF Good, Bounded
<1>3. ASSUME NEW pos \in {"mid", "end"} PROVE Good(Heard(w, pos)) /\ Heard(w, pos).pc = "poll"
  <2>1. PICK p \in {"none", "mid", "end"} : Heard(w, pos) = [Polled(w) EXCEPT !.lastPos = p, !.dead = 0, !.retried = FALSE]
    BY <1>3 DEF Heard
  <2> QED
    <3>1. /\ Heard(w, pos) \in WatchRec /\ Heard(w, pos).takeover = Polled(w).takeover
          /\ Heard(w, pos).dead = 0 /\ Heard(w, pos).pc = "poll"
      BY <1>1, <1>2, <2>1 DEF Good, WatchRec
    <3>2. Polled(w).takeover < TakeoverLimit
      BY <1>2 DEF Good, Bounded, Leaving
    <3> QED
      BY <1>1, <3>1, <3>2 DEF Good, Bounded
<1>4. OnPcs \subseteq WatchPcs /\ "poll" \notin Leaving
  BY DEF OnPcs, WatchPcs, Leaving
<1>5. Good([watch[w] EXCEPT !.takeover = @ + 1,
                            !.pc = IF watch[w].takeover + 1 >= TakeoverLimit THEN "clear" ELSE "tick"])
  <2> DEFINE rec == [watch[w] EXCEPT !.takeover = @ + 1,
                                     !.pc = IF watch[w].takeover + 1 >= TakeoverLimit THEN "clear" ELSE "tick"]
  <2>1. watch[w].takeover + 1 \in 0..TakeoverLimit /\ {"clear", "tick"} \subseteq WatchPcs
    BY <1>1 DEF WatchPcs
  <2>2. /\ rec \in WatchRec /\ rec.takeover = watch[w].takeover + 1 /\ rec.dead = watch[w].dead
        /\ watch[w].takeover + 1 >= TakeoverLimit => rec.pc = "clear"
    BY <1>1, <2>1 DEF WatchRec
  <2> HIDE DEF rec
  <2>3. rec.pc \notin Leaving => rec.takeover < TakeoverLimit
    BY <1>1, <2>2 DEF Leaving
  <2> QED
    <3>1. Good(rec)
      BY <1>1, <2>2, <2>3 DEF Good, Bounded
    <3> QED
      BY <3>1 DEF rec
<1>6. ASSUME NEW pc \in OnPcs PROVE Good([watch[w] EXCEPT !.takeover = 0, !.pc = pc])
  <2> DEFINE rec == [watch[w] EXCEPT !.takeover = 0, !.pc = pc]
  <2>1. rec \in WatchRec /\ rec.takeover = 0 /\ rec.dead = watch[w].dead
    BY <1>1, <1>4 DEF WatchRec
  <2> HIDE DEF rec
  <2>2. Good(rec)
    BY <1>1, <2>1 DEF Good, Bounded
  <2> QED
    BY <2>2 DEF rec
<1> QED
  BY <1>2, <1>3, <1>4, <1>5, <1>6, RecordGoes, DeadGood

LEMMA GenFacts == FreshGen \in Gens
<1>1. \E g \in Gens : g # gen /\ \A w \in Requests : watch[w].gen # g
  BY SomeGenIsFree
<1> QED
  BY <1>1 DEF FreshGen

(* A watcher that was not started yet is in no slot.                       *)
LEMMA UnstartedStays ==
  ASSUME SlotInv, Unstarted, SameRequests, slot \in Ids, NEW ws \in {watch, CancelSlot(watch)},
         \/ watch' = ws
         \/ \E w \in Requests : watch[w].pc # "off" /\ \E rec : watch' = [ws EXCEPT ![w] = rec]
  PROVE  Unstarted'
<1> SUFFICES ASSUME NEW r \in Requests, req'[r].pc # "done" PROVE watch'[r] = Idle
  BY DEF Unstarted
<1>1. req[r].pc # "done" /\ watch[r] = Idle /\ watch[r].pc = "off" /\ ~watch[r].cancelled
  BY DEF Unstarted, SameRequests, SlotInv
<1>2. slot # r
  BY <1>1, ConstantsAssumption DEF SlotInv, SlotOwned, Running
<1>3. ws[r] = Idle /\ DOMAIN ws = Requests
  BY <1>1, <1>2, Fields DEF CancelSlot, SlotInv
<1> QED
  BY <1>1, <1>3

LEMMA RequestTyped ==
  ASSUME TypeInv, NEW r \in Requests, RequestStep(r), SameRequests
  PROVE  QueuesOK' /\ WatchOK' /\ ReqOK' /\ Unstarted' /\ BoxOK' /\ RestOK'
<1> USE DEF TypeInv, lockVars, queueVars, slotVars, boxVars, timeVars
<1>1. /\ req \in [Requests -> ReqRec] /\ slot \in Ids
      /\ r \in Ids /\ None \in Ids /\ {"lock", "wake", "clear", "cancel", "push", "timing", "ensure", "halt", "done"} \subseteq ReqPcs
      /\ ReqProc(r) \in {None} \cup {ReqProc(q) : q \in Requests} \cup {WatchProc(w) : w \in Requests}
      /\ Tracks \in Nat \ {0} /\ 1 \in 0..Tracks
  BY ConstantsAssumption, ItemFacts DEF ReqOK, RestOK, Ids, ReqPcs
<1>2. req[r].item \in Items /\ req[r].kind \in Kinds \cup {"none"}
  BY <1>1 DEF ReqRec
<1>3. UNCHANGED watch => WatchOK' /\ Unstarted'
  <2> SUFFICES ASSUME UNCHANGED watch PROVE WatchOK' /\ Unstarted'
    OBVIOUS
  <2>1. WatchOK'
    BY DEF WatchOK, Bounded
  <2>2. Unstarted'
    BY <1>1, UnstartedStays
  <2> QED
    BY <2>1, <2>2
<1>4. UNCHANGED <<queue, loaded>> => QueuesOK'
  BY DEF QueuesOK
<1>5. UNCHANGED <<box, evidence, pushed, serving, handed>> => BoxOK'
  BY DEF BoxOK
<1>6. ASSUME boxCmdMu' \in {boxCmdMu, None, ReqProc(r)}, UNCHANGED <<gen, timed, lastWatcher>>, slot' \in {slot, None},
             userStop' \in BOOLEAN
      PROVE  RestOK'
  BY <1>1, <1>6 DEF RestOK
<1>7. userStop \in BOOLEAN
  BY DEF RestOK
<1>8. CASE Begin(r)
  <2>1. PICK k \in KindsOf[r] :
          /\ req' = [req EXCEPT ![r].kind = k, ![r].pc = IF k \in {"stop", "key"} THEN "clear" ELSE "lock"]
          /\ userStop' = (userStop \/ k = "stop")
          /\ IF k = "key" THEN box' = [state |-> "playing", item |-> Foreign] ELSE UNCHANGED box
    BY <1>8 DEF Begin
  <2>2. k \in Kinds
    BY ConstantsAssumption
  <2>3. ReqOK'
    BY <1>1, <2>1, <2>2 DEF ReqOK, ReqRec
  <2>4. BoxOK'
    <3>1. [state |-> "playing", item |-> Foreign] \in Box
      BY ItemFacts DEF Box, BoxStates
    <3> QED
      BY <1>8, <2>1, <3>1 DEF Begin, BoxOK
  <2>5. UNCHANGED <<watch, queue, loaded, boxCmdMu, gen, timed, lastWatcher, slot>> /\ userStop' \in BOOLEAN
    BY <1>7, <1>8, <2>1 DEF Begin
  <2> QED
    BY <1>3, <1>4, <1>6, <2>3, <2>4, <2>5
<1>9. CASE LoadFolder(r)
  <2>1. PICK rep \in RepeatModes : queue' = [active |-> TRUE, folder |-> r, pos |-> 1, repeat |-> rep]
    BY <1>9 DEF LoadFolder
  <2>2. rep \in BOOLEAN
    BY ConstantsAssumption
  <2>3. QueuesOK'
    BY <1>1, <1>9, <2>1, <2>2 DEF LoadFolder, QueuesOK, Queues
  <2>4. ReqOK'
    BY <1>1, <1>9, ItemFacts, ReqGoes DEF LoadFolder
  <2>5. boxCmdMu' = ReqProc(r) /\ UNCHANGED <<watch, box, evidence, pushed, serving, handed, gen, timed, lastWatcher, slot, userStop>>
    BY <1>9 DEF LoadFolder, Acquire
  <2> QED
    BY <1>3, <1>5, <1>6, <1>7, <2>3, <2>4, <2>5
<1>10. CASE FolderWoken(r)
  <2>1. QueuesOK' /\ ReqOK'
    BY <1>1, <1>10, ReqGoes DEF FolderWoken, QueuesOK
  <2>2. BoxOK'
    BY <1>10, BoxFacts DEF FolderWoken, BoxOK
  <2>3. userStop' = FALSE /\ UNCHANGED <<watch, boxCmdMu, gen, timed, lastWatcher, slot>>
    BY <1>10 DEF FolderWoken
  <2> QED
    BY <1>3, <1>6, <2>1, <2>2, <2>3
<1>11. CASE WakeForStation(r)
  <2>1. ReqOK'
    BY <1>1, <1>11, ItemFacts, ReqGoes DEF WakeForStation
  <2>2. BoxOK'
    BY <1>11, BoxFacts DEF WakeForStation, BoxOK
  <2>3. boxCmdMu' = ReqProc(r) /\ UNCHANGED <<watch, queue, loaded, gen, timed, lastWatcher, slot, userStop>>
    BY <1>11 DEF WakeForStation, Acquire
  <2> QED
    BY <1>3, <1>4, <1>6, <1>7, <2>1, <2>2, <2>3
<1>12. CASE SkipNothing(r) \/ ClearQueue(r)
  <2>1. ReqOK'
    BY <1>1, <1>12, ReqGoes DEF SkipNothing, ClearQueue
  <2>2. QueuesOK'
    <3>1. Cleared \in Queues /\ ~Cleared.active
      BY <1>1, ItemFacts DEF Cleared, Queues
    <3>2. queue' \in {queue, Cleared} /\ loaded' = loaded
      BY <1>12 DEF SkipNothing, ClearQueue
    <3> QED
      BY <3>1, <3>2 DEF QueuesOK
  <2>3. UNCHANGED <<watch, boxCmdMu, gen, timed, lastWatcher, slot, userStop, box, evidence, pushed, serving, handed>>
    BY <1>12 DEF SkipNothing, ClearQueue
  <2> QED
    BY <1>3, <1>5, <1>6, <1>7, <2>1, <2>2, <2>3
<1>13. CASE SkipTo(r)
  <2>1. queue' \in Queues /\ queue'.active /\ queue'.folder \in Requests /\ Track(queue'.folder, queue'.pos) \in Items
    BY <1>13, SteppedFacts DEF SkipTo, QueuesOK
  <2>2. QueuesOK' /\ ReqOK'
    BY <1>1, <1>13, <2>1, ReqGoes DEF SkipTo, QueuesOK
  <2>3. boxCmdMu' = ReqProc(r) /\ userStop' = FALSE
        /\ UNCHANGED <<watch, gen, timed, lastWatcher, slot, box, evidence, pushed, serving, handed>>
    BY <1>13 DEF SkipTo, Acquire
  <2> QED
    BY <1>3, <1>5, <1>6, <2>2, <2>3
<1>14. CASE SkipPastEnd(r) \/ CancelWatcher(r)
  <2>1. /\ watch' = CancelSlot(watch) /\ slot' = None
        /\ UNCHANGED <<loaded, boxCmdMu, gen, timed, lastWatcher, box, evidence, pushed, serving, handed>>
        /\ queue' \in {queue, [queue EXCEPT !.active = FALSE]} /\ userStop' \in BOOLEAN
    BY <1>7, <1>14 DEF SkipPastEnd, CancelWatcher
  <2>2. WatchOK'
    BY <1>1, <2>1, CancelGood DEF WatchOK, Good
  <2>3. Unstarted'
    BY <1>1, <2>1, UnstartedStays
  <2>4. QueuesOK'
    BY <2>1 DEF QueuesOK, Queues
  <2>5. ReqOK'
    BY <1>1, <1>14, ReqGoes DEF SkipPastEnd, CancelWatcher
  <2> QED
    BY <1>5, <1>6, <2>1, <2>2, <2>3, <2>4, <2>5
<1>15. CASE Push(r) \/ PushFails(r)
  <2>1. BoxOK'
    BY <1>2, <1>15, HandOverFacts DEF Push, PushFails
  <2>2. ReqOK'
    BY <1>1, <1>15, ReqGoes DEF Push, PushFails
  <2>3. boxCmdMu' \in {boxCmdMu, None} /\ UNCHANGED <<watch, queue, loaded, gen, timed, lastWatcher, slot, userStop>>
    BY <1>15 DEF Push, PushFails, Release
  <2> QED
    BY <1>3, <1>4, <1>6, <1>7, <2>1, <2>2, <2>3
<1>16. CASE TimeTrack(r)
  <2>1. gen' \in Gens /\ timed' \in Items /\ boxCmdMu' \in {boxCmdMu, None}
        /\ UNCHANGED <<watch, queue, loaded, lastWatcher, slot, userStop, box, evidence, pushed, serving, handed>>
    BY <1>2, <1>16, GenFacts DEF TimeTrack, SetTiming, Release
  <2>2. ReqOK'
    BY <1>1, <1>16, ReqGoes DEF TimeTrack
  <2>3. RestOK'
    BY <2>1 DEF RestOK
  <2> QED
    BY <1>3, <1>4, <1>5, <2>1, <2>2, <2>3
<1>17. CASE EnsureWatcher(r)
  <2>1. ReqOK' /\ req'[r].pc = "done" /\ boxCmdMu' = None
        /\ UNCHANGED <<queue, loaded, gen, timed, userStop, box, evidence, pushed, serving, handed>>
    <3>1. ReqOK'
      BY <1>1, <1>17, ReqGoes DEF EnsureWatcher
    <3>2. req'[r].pc = "done"
      BY <1>1, <1>17 DEF EnsureWatcher, GoReq, ReqRec
    <3> QED
      BY <1>17, <3>1, <3>2 DEF EnsureWatcher, Release
  <2>2. RestOK'
    BY <1>1, <1>17, <2>1 DEF EnsureWatcher, RestOK
  <2>3. CASE UNCHANGED watch
    BY <1>3, <1>4, <1>5, <2>1, <2>2, <2>3
  <2>4. CASE watch' = [watch EXCEPT ![r].pc = "tick"]
    <3>1. watch[r] = Idle
      BY <1>17 DEF EnsureWatcher, Unstarted
    <3>2. Good([Idle EXCEPT !.pc = "tick"])
      <4>1. [Idle EXCEPT !.pc = "tick"] \in WatchRec
        BY IdleIsGood DEF Good, WatchRec, WatchPcs
      <4>2. [Idle EXCEPT !.pc = "tick"].takeover = 0 /\ [Idle EXCEPT !.pc = "tick"].dead = 0
        BY DEF Idle
      <4> QED
        BY <4>1, <4>2, ConstantsAssumption DEF Good, Bounded
    <3>3. watch' = [watch EXCEPT ![r] = [Idle EXCEPT !.pc = "tick"]]
      BY <2>4, <3>1
    <3>4. WatchOK'
      BY <3>2, <3>3, WatchGoes
    <3>5. Unstarted'
      BY <2>1, <3>3 DEF Unstarted, SameRequests, WatchOK
    <3> QED
      BY <1>4, <1>5, <2>1, <2>2, <3>4, <3>5
  <2> QED
    BY <1>17, <2>3, <2>4 DEF EnsureWatcher
<1>18. CASE StopBox(r)
  <2>1. ReqOK'
    BY <1>1, <1>18, ReqGoes DEF StopBox
  <2>2. BoxOK'
    BY <1>18, BoxFacts DEF StopBox, BoxOK
  <2>3. UNCHANGED <<watch, queue, loaded, boxCmdMu, gen, timed, lastWatcher, slot, userStop>>
    BY <1>18 DEF StopBox
  <2> QED
    BY <1>3, <1>4, <1>6, <1>7, <2>1, <2>2, <2>3
<1> QED
  BY <1>8, <1>9, <1>10, <1>11, <1>12, <1>13, <1>14, <1>15, <1>16, <1>17, <1>18 DEF RequestStep

LEMMA RequestsForward == ASSUME SlotInv, NEW r \in Requests, RequestStep(r) PROVE SameRequests
<1>1. CASE \/ Begin(r) \/ LoadFolder(r) \/ FolderWoken(r) \/ WakeForStation(r) \/ SkipNothing(r)
           \/ SkipTo(r) \/ Push(r) \/ PushFails(r)
  BY <1>1 DEF Begin, LoadFolder, FolderWoken, WakeForStation, SkipNothing, SkipTo, Push, PushFails,
       GoReq, SlotInv, SameRequests
<1>2. CASE \/ TimeTrack(r) \/ EnsureWatcher(r) \/ ClearQueue(r) \/ StopBox(r) \/ SkipPastEnd(r) \/ CancelWatcher(r)
  BY <1>2 DEF TimeTrack, EnsureWatcher, ClearQueue, StopBox, SkipPastEnd, CancelWatcher,
       GoReq, SlotInv, SameRequests
<1> QED
  BY <1>1, <1>2 DEF RequestStep

LEMMA PollTyped ==
  ASSUME TypeInv, NEW w \in Requests, Poll(w)
  PROVE  \E rec : Good(rec) /\ watch' = [watch EXCEPT ![w] = rec]
<1>0. watch[w].pc = "poll" /\ {"tick", "advance", "clear", "count", "retry"} \subseteq OnPcs
  BY DEF Poll, PollTakenOver, PollStandby, PollDropped, PollPlaying, PollFrozen, PollPaused,
         PollGap, PollStopped, PollSilent, PollFails, DecideTo, Decide, OnPcs
<1>1. /\ Good(Dead(Polled(w)))
      /\ \A pc \in OnPcs : /\ Good([Polled(w) EXCEPT !.pc = pc])
                          /\ Good([Heard(w, "mid") EXCEPT !.pc = pc])
                          /\ Good([Heard(w, "end") EXCEPT !.pc = pc])
      /\ Good([watch[w] EXCEPT !.takeover = @ + 1,
                               !.pc = IF watch[w].takeover + 1 >= TakeoverLimit THEN "clear" ELSE "tick"])
      /\ \A pc \in OnPcs : Good([watch[w] EXCEPT !.takeover = 0, !.pc = pc])
  BY <1>0, DecisionGood DEF TypeInv
<1>2. ASSUME NEW pc \in OnPcs, DecideTo(w, pc) PROVE \E rec : Good(rec) /\ watch' = [watch EXCEPT ![w] = rec]
  BY <1>1, <1>2 DEF DecideTo, Decide
<1>3. CASE PollTakenOver(w)
  BY <1>1, <1>3 DEF PollTakenOver, Decide
<1>4. CASE PollDropped(w)
  BY <1>1, <1>4 DEF PollDropped, Decide
<1>5. CASE PollPlaying(w)
  BY <1>0, <1>1, <1>5 DEF PollPlaying, Decide
<1>6. CASE PollFrozen(w)
  BY <1>0, <1>1, <1>6 DEF PollFrozen, Decide
<1>7. CASE PollStandby(w) \/ PollPaused(w) \/ PollGap(w)
  BY <1>0, <1>2, <1>7 DEF PollStandby, PollPaused, PollGap
<1>8. CASE PollStopped(w)
  BY <1>0, <1>2, <1>8 DEF PollStopped
<1>9. NoStatus(w) \in OnPcs
  BY <1>0 DEF NoStatus
<1>10. CASE PollSilent(w)
  BY <1>0, <1>2, <1>9, <1>10 DEF PollSilent
<1>11. CASE PollFails(w)
  BY <1>0, <1>1, <1>9, <1>11 DEF PollFails, Decide
<1> QED
  BY <1>3, <1>4, <1>5, <1>6, <1>7, <1>8, <1>10, <1>11 DEF Poll

LEMMA WatcherTyped ==
  ASSUME TypeInv, NEW w \in Requests, WatcherStep(w)
  PROVE  QueuesOK' /\ WatchOK' /\ ReqOK' /\ Unstarted' /\ BoxOK' /\ RestOK'
<1> USE DEF TypeInv, lockVars, queueVars, slotVars, boxVars, timeVars
<1>1. /\ slot \in Ids /\ None \in Ids /\ Good(watch[w]) /\ watch[w] \in WatchRec /\ userStop \in BOOLEAN
      /\ WatchProc(w) \in {None} \cup {ReqProc(q) : q \in Requests} \cup {WatchProc(v) : v \in Requests}
      /\ DOMAIN watch = Requests /\ watch[w].item \in Items /\ watch \in [Requests -> WatchRec]
  BY DEF RestOK, Ids, WatchOK, Good, WatchRec
<1>2. UNCHANGED req => ReqOK' /\ SameRequests
  BY Untouched DEF ReqOK
<1>3. UNCHANGED <<queue, loaded>> => QueuesOK'
  BY DEF QueuesOK
<1>4. UNCHANGED <<box, evidence, pushed, serving, handed>> => BoxOK'
  BY DEF BoxOK
<1>5. ASSUME boxCmdMu' \in {boxCmdMu, None, WatchProc(w)}, UNCHANGED <<gen, timed, lastWatcher>>, slot' \in {slot, None},
             userStop' \in BOOLEAN
      PROVE  RestOK'
  BY <1>1, <1>5 DEF RestOK
<1>6. ASSUME NEW rec, Good(rec), watch' = [watch EXCEPT ![w] = rec], watch[w].pc # "off", UNCHANGED req
      PROVE  WatchOK' /\ Unstarted'
  BY <1>1, <1>2, <1>6, WatchGoes, UnstartedStays
<1>7. ASSUME NEW ws \in {watch, CancelSlot(watch)}, NEW pc \in WatchPcs, watch' = [ws EXCEPT ![w].pc = pc],
             watch[w].pc # "off", watch[w].pc \notin Leaving \/ pc \in Leaving, UNCHANGED req
      PROVE  WatchOK' /\ Unstarted'
  <2>1. WatchOK'
    BY <1>1, <1>7, WatchCancelGoes
  <2>2. watch' = [ws EXCEPT ![w] = [ws[w] EXCEPT !.pc = pc]]
    BY <1>7
  <2> QED
    BY <1>1, <1>2, <1>7, <2>1, <2>2, UnstartedStays
<1>8. {"tick", "push", "silence", "wake", "repush", "count", "cancel", "leave", "off"} \subseteq WatchPcs
      /\ {"clear", "cancel", "leave", "off"} = Leaving
  BY DEF WatchPcs, Leaving
<1>9. CASE Quit(w)
  <2>1. watch' = [watch EXCEPT ![w].pc = "leave"] /\ watch[w].pc = "tick"
        /\ UNCHANGED <<boxCmdMu, queue, loaded, gen, timed, slot, lastWatcher, box, evidence, pushed, serving, handed, userStop, req>>
    BY <1>9 DEF Quit, GoWatch
  <2> QED
    BY <1>1, <1>2, <1>3, <1>4, <1>5, <1>7, <1>8, <2>1
<1>10. CASE Retire(w) \/ Leave(w)
  <2>1. PICK ws \in {watch, CancelSlot(watch)}, pc \in {"leave", "off"} : watch' = [ws EXCEPT ![w].pc = pc]
    BY <1>10 DEF Retire, Leave
  <2>2. watch[w].pc \in {"tick", "leave"} /\ slot' \in {slot, None}
        /\ UNCHANGED <<boxCmdMu, queue, loaded, gen, timed, lastWatcher, box, evidence, pushed, serving, handed, userStop, req>>
    BY <1>10 DEF Retire, Leave
  <2> QED
    BY <1>1, <1>2, <1>3, <1>4, <1>5, <1>7, <1>8, <2>1, <2>2
<1>11. CASE Tick(w)
  <2>1. Good([Round(w) EXCEPT !.pc = "poll"]) /\ watch[w].pc = "tick"
    BY <1>11, RoundGood DEF Tick, MayBegin
  <2>2. watch' = [watch EXCEPT ![w] = [Round(w) EXCEPT !.pc = "poll"]]
        /\ UNCHANGED <<boxCmdMu, queue, loaded, gen, timed, slot, lastWatcher, box, evidence, pushed, serving, handed, userStop, req>>
    BY <1>11 DEF Tick
  <2> QED
    BY <1>1, <1>2, <1>3, <1>4, <1>5, <1>6, <2>1, <2>2
<1>12. CASE FailFast(w)
  <2>1. Good(Round(w)) /\ Good(Dead(Round(w))) /\ watch[w].pc = "tick"
    BY <1>12, RoundGood, DeadGood DEF FailFast, MayBegin, Leaving
  <2>2. PICK rec \in {Round(w), Dead(Round(w))} : watch' = [watch EXCEPT ![w] = rec]
    BY <1>12 DEF FailFast
  <2>3. evidence' = FALSE
        /\ UNCHANGED <<boxCmdMu, queue, loaded, gen, timed, slot, lastWatcher, box, pushed, serving, handed, userStop, req>>
    BY <1>12 DEF FailFast
  <2>4. BoxOK'
    BY <2>3 DEF BoxOK
  <2> QED
    BY <1>1, <1>2, <1>3, <1>5, <1>6, <2>1, <2>2, <2>3, <2>4
<1>13. CASE Poll(w)
  <2>1. PICK rec : Good(rec) /\ watch' = [watch EXCEPT ![w] = rec]
    BY <1>13, PollTyped
  <2>2. watch[w].pc = "poll"
    BY <1>13 DEF Poll, PollTakenOver, PollStandby, PollDropped, PollPlaying, PollFrozen, PollPaused,
         PollGap, PollStopped, PollSilent, PollFails, DecideTo, Decide
  <2>3. UNCHANGED <<boxCmdMu, queue, loaded, gen, timed, slot, lastWatcher, box, evidence, pushed, serving, handed, userStop, req>>
    BY <1>13, PollUntouched
  <2> QED
    BY <1>1, <1>2, <1>3, <1>4, <1>5, <1>6, <2>1, <2>2, <2>3
<1>14. CASE CountDead(w)
  <2>1. Good(Dead(watch[w])) /\ watch[w].pc = "count"
    BY <1>1, <1>14, DeadGood DEF CountDead, Leaving
  <2>2. watch' = [watch EXCEPT ![w] = Dead(watch[w])]
        /\ UNCHANGED <<boxCmdMu, queue, loaded, gen, timed, slot, lastWatcher, box, evidence, pushed, serving, handed, userStop, req>>
    BY <1>14 DEF CountDead
  <2> QED
    BY <1>1, <1>2, <1>3, <1>4, <1>5, <1>6, <2>1, <2>2
<1>15. CASE StandDown(w) \/ RetryRefused(w)
  <2>1. PICK pc \in {"tick", "count"} : watch' = [watch EXCEPT ![w].pc = pc]
    BY <1>15 DEF StandDown, RetryRefused, GoWatch
  <2>2. watch[w].pc \in {"advance", "retry"}
        /\ UNCHANGED <<boxCmdMu, queue, loaded, gen, timed, slot, lastWatcher, box, evidence, pushed, serving, handed, userStop, req>>
    BY <1>15 DEF StandDown, RetryRefused
  <2> QED
    BY <1>1, <1>2, <1>3, <1>4, <1>5, <1>7, <1>8, <2>1, <2>2
<1>16. CASE Advance(w)
  <2>1. queue' \in Queues /\ queue'.active /\ queue'.folder \in Requests /\ Track(queue'.folder, queue'.pos) \in Items
    BY <1>16, SteppedFacts DEF Advance, QueuesOK
  <2>2. /\ watch' = [watch EXCEPT ![w] = [watch[w] EXCEPT !.pc = "push", !.item = Track(queue'.folder, queue'.pos)]]
        /\ watch[w].pc = "advance" /\ boxCmdMu' = WatchProc(w) /\ userStop' = FALSE
        /\ UNCHANGED <<loaded, gen, timed, slot, lastWatcher, box, evidence, pushed, serving, handed, req>>
    BY <1>1, <1>16 DEF Advance, Acquire
  <2>3. Good([watch[w] EXCEPT !.pc = "push", !.item = Track(queue'.folder, queue'.pos)])
    BY <1>1, <1>8, <2>1, <2>2, RecordGoes
  <2>4. QueuesOK'
    BY <2>1, <2>2 DEF QueuesOK
  <2> QED
    BY <1>1, <1>2, <1>4, <1>5, <1>6, <2>2, <2>3, <2>4
<1>17. CASE EndQueue(w)
  <2>1. /\ watch' = [watch EXCEPT ![w].pc = "silence"] /\ watch[w].pc = "advance"
        /\ queue' = [queue EXCEPT !.active = FALSE] /\ boxCmdMu' = WatchProc(w) /\ userStop' = TRUE
        /\ UNCHANGED <<loaded, gen, timed, slot, lastWatcher, box, evidence, pushed, serving, handed, req>>
    BY <1>17 DEF EndQueue, Acquire, GoWatch
  <2>2. QueuesOK'
    BY <2>1 DEF QueuesOK, Queues
  <2> QED
    BY <1>1, <1>2, <1>4, <1>5, <1>7, <1>8, <2>1, <2>2
<1>18. CASE SilenceBox(w)
  <2>1. /\ watch' = [CancelSlot(watch) EXCEPT ![w].pc = "tick"] /\ watch[w].pc = "silence"
        /\ box' = Halted /\ slot' = None /\ boxCmdMu' = None
        /\ UNCHANGED <<queue, loaded, gen, timed, lastWatcher, userStop, req, evidence, pushed, serving, handed>>
    BY <1>18 DEF SilenceBox, Release
  <2>2. BoxOK'
    BY <2>1, BoxFacts DEF BoxOK
  <2> QED
    BY <1>1, <1>2, <1>3, <1>5, <1>7, <1>8, <2>1, <2>2
<1>19. CASE Retry(w)
  <2>1. /\ watch' = [watch EXCEPT ![w] = [watch[w] EXCEPT !.pc = "wake", !.item = QueueItem]]
        /\ watch[w].pc = "retry" /\ queue.active /\ boxCmdMu' = WatchProc(w)
        /\ UNCHANGED <<queue, loaded, gen, timed, slot, lastWatcher, userStop, req, box, evidence, pushed, serving, handed>>
    BY <1>1, <1>19 DEF Retry, MayRetry, Acquire
  <2>2. QueueItem \in Items
    BY <2>1, ItemFacts DEF QueueItem, QueuesOK, Queues
  <2>3. Good([watch[w] EXCEPT !.pc = "wake", !.item = QueueItem])
    BY <1>1, <1>8, <2>1, <2>2, RecordGoes
  <2> QED
    BY <1>1, <1>2, <1>3, <1>4, <1>5, <1>6, <2>1, <2>3
<1>20. CASE RetryWoken(w)
  <2>1. /\ watch' = [watch EXCEPT ![w].pc = "repush"] /\ watch[w].pc = "wake" /\ box' = Wake /\ userStop' = FALSE
        /\ UNCHANGED <<boxCmdMu, queue, loaded, gen, timed, slot, lastWatcher, req, evidence, pushed, serving, handed>>
    BY <1>20 DEF RetryWoken, GoWatch
  <2>2. BoxOK'
    BY <2>1, BoxFacts DEF BoxOK
  <2> QED
    BY <1>1, <1>2, <1>3, <1>5, <1>7, <1>8, <2>1, <2>2
<1>21. CASE PushTrack(w)
  <2>1. /\ watch[w].pc \in {"push", "repush"} /\ HandOver(watch[w].item) /\ gen' \in Gens /\ timed' \in Items
        /\ boxCmdMu' = None /\ UNCHANGED <<queue, loaded, slot, lastWatcher, userStop, req>>
    BY <1>1, <1>21, GenFacts DEF PushTrack, SetTiming, Release
  <2>2. PICK b \in BOOLEAN : watch' = [watch EXCEPT ![w] = [watch[w] EXCEPT !.pc = "tick", !.retried = b]]
    <3>1. (watch[w].retried \/ watch[w].pc = "repush") \in BOOLEAN
      BY <1>1 DEF WatchRec
    <3>2. watch' = [watch EXCEPT ![w] = [watch[w] EXCEPT !.pc = "tick", !.retried = watch[w].retried \/ watch[w].pc = "repush"]]
      BY <1>1, <1>21 DEF PushTrack
    <3> QED
      BY <3>1, <3>2
  <2>3. Good([watch[w] EXCEPT !.pc = "tick", !.retried = b])
    BY <1>1, <1>8, <2>1, RecordGoes
  <2>4. BoxOK'
    BY <1>1, <2>1, HandOverFacts
  <2>5. RestOK'
    BY <2>1 DEF RestOK
  <2> QED
    BY <1>1, <1>2, <1>3, <1>6, <2>1, <2>2, <2>3, <2>4, <2>5
<1>22. CASE PushTrackFails(w)
  <2>1. /\ watch[w].pc \in {"push", "repush"} /\ HandOverFails(watch[w].item) /\ boxCmdMu' = None
        /\ UNCHANGED <<queue, loaded, gen, timed, slot, lastWatcher, userStop, req>>
    BY <1>22 DEF PushTrackFails, Release
  <2>2. PICK pc \in {"tick", "count"} : watch' = [watch EXCEPT ![w].pc = pc]
    BY <1>22 DEF PushTrackFails, GoWatch
  <2>3. BoxOK'
    BY <1>1, <2>1, HandOverFacts
  <2> QED
    BY <1>1, <1>2, <1>3, <1>5, <1>7, <1>8, <2>1, <2>2, <2>3
<1>23. CASE WatcherClears(w)
  <2>1. /\ watch' = [watch EXCEPT ![w].pc = "cancel"] /\ watch[w].pc = "clear" /\ queue' = Cleared
        /\ UNCHANGED <<boxCmdMu, loaded, gen, timed, slot, lastWatcher, userStop, req, box, evidence, pushed, serving, handed>>
    BY <1>23 DEF WatcherClears, GoWatch
  <2>2. Cleared \in Queues /\ ~Cleared.active
    BY ItemFacts DEF Cleared, Queues
  <2>3. QueuesOK'
    BY <2>1, <2>2 DEF QueuesOK
  <2> QED
    BY <1>1, <1>2, <1>4, <1>5, <1>7, <1>8, <2>1, <2>3
<1>24. CASE WatcherCancels(w)
  <2>1. /\ watch' = [CancelSlot(watch) EXCEPT ![w].pc = "leave"] /\ watch[w].pc = "cancel" /\ slot' = None
        /\ UNCHANGED <<boxCmdMu, queue, loaded, gen, timed, lastWatcher, userStop, req, box, evidence, pushed, serving, handed>>
    BY <1>24 DEF WatcherCancels
  <2> QED
    BY <1>1, <1>2, <1>3, <1>4, <1>5, <1>7, <1>8, <2>1
<1> QED
  BY <1>9, <1>10, <1>11, <1>12, <1>13, <1>14, <1>15, <1>16, <1>17, <1>18, <1>19, <1>20, <1>21, <1>22, <1>23, <1>24
     DEF WatcherStep

LEMMA OutsideTyped ==
  ASSUME TypeInv, Outside
  PROVE  QueuesOK' /\ WatchOK' /\ ReqOK' /\ Unstarted' /\ BoxOK' /\ RestOK'
<1> USE DEF TypeInv, lockVars, queueVars, slotVars, boxVars, timeVars
<1>1. /\ UNCHANGED <<boxCmdMu, queue, loaded, gen, timed, slot, lastWatcher, req, watch, pushed, handed>>
      /\ userStop' \in {userStop, FALSE} /\ serving' \in {serving, FALSE}
  BY DEF Outside, SpeakerMoves, ForeignPlay, PowerOff, ServerDies, StopForgotten
<1>2. box' \in Box
  <2>1. CASE SpeakerMoves
    <3>1. PICK m \in Moves : box' = [box EXCEPT !.state = m[3]]
      BY <2>1 DEF SpeakerMoves
    <3>2. m[3] \in BoxStates
      BY DEF Moves, BoxStates
    <3> QED
      BY <3>1, <3>2 DEF BoxOK, Box
  <2>2. [state |-> "playing", item |-> Foreign] \in Box /\ [state |-> "asleep", item |-> NoItem] \in Box
    BY ItemFacts DEF Box, BoxStates
  <2> QED
    BY <2>1, <2>2 DEF Outside, ForeignPlay, PowerOff, ServerDies, StopForgotten, BoxOK
<1>3. evidence' \in BOOLEAN
  BY DEF Outside, SpeakerMoves, ForeignPlay, PowerOff, ServerDies, StopForgotten, BoxOK
<1> QED
  BY <1>1, <1>2, <1>3 DEF QueuesOK, WatchOK, Bounded, ReqOK, Unstarted, BoxOK, RestOK

LEMMA TypeStep == TypeInv /\ [Next]_vars => TypeInv'
<1> SUFFICES ASSUME TypeInv, [Next]_vars PROVE TypeInv'
  OBVIOUS
<1>1. SlotInv'
  BY SlotStep DEF TypeInv
<1>2. CASE UNCHANGED vars
  BY <1>1, <1>2 DEF vars, lockVars, queueVars, slotVars, boxVars, timeVars,
       TypeInv, QueuesOK, WatchOK, Bounded, ReqOK, Unstarted, BoxOK, RestOK
<1>3. ASSUME NEW r \in Requests, RequestStep(r) PROVE TypeInv'
  BY <1>1, <1>3, RequestsForward, RequestTyped DEF TypeInv
<1>4. ASSUME NEW w \in Requests, WatcherStep(w) PROVE TypeInv'
  BY <1>1, <1>4, WatcherTyped DEF TypeInv
<1>5. CASE Outside
  BY <1>1, <1>5, OutsideTyped DEF TypeInv
<1> QED
  BY <1>2, <1>3, <1>4, <1>5 DEF Next

LEMMA TypeInit == Init => TypeInv
<1> SUFFICES ASSUME Init PROVE TypeInv
  OBVIOUS
<1>1. SlotInv
  BY InitSlot
<1>2. Cleared \in Queues /\ ~Cleared.active
  BY ItemFacts DEF Cleared, Queues
<1>3. watch = [w \in Requests |-> Idle] /\ queue = Cleared /\ loaded = Cleared
  BY DEF Init
<1>4. QueuesOK /\ WatchOK /\ Unstarted
  BY <1>2, <1>3, IdleIsGood DEF QueuesOK, WatchOK, Unstarted, Good
<1>5. ReqOK
  BY ItemFacts DEF Init, ReqOK, ReqRec, ReqPcs
<1>6. BoxOK
  <2>1. [state |-> "asleep", item |-> NoItem] \in Box /\ [state |-> "idle", item |-> NoItem] \in Box
    BY ItemFacts DEF Box, BoxStates
  <2>2. box \in Box
    BY <2>1 DEF Init
  <2>3. {pushed, handed} \subseteq Items /\ evidence \in BOOLEAN /\ serving \in BOOLEAN
    BY ItemFacts DEF Init
  <2> QED
    BY <2>2, <2>3 DEF BoxOK
<1>7. RestOK
  BY ItemFacts DEF Init, RestOK, Ids
<1> QED
  BY <1>1, <1>4, <1>5, <1>6, <1>7 DEF TypeInv

LEMMA TypeAlways == Spec => []TypeInv
BY TypeInit, TypeStep, PTL DEF Spec

(* The types of the queue, the lock, the slot, the requests, the watchers  *)
(* and the speaker; no watcher goes on past its limits of dead tracks and  *)
(* of polls of a foreign source, and a generation can always be found that *)
(* nobody remembers.                                                       *)
THEOREM PlaybackTypeCorrect == Spec => []TypeOK
<1>1. TypeInv => TypeOK
  BY DEF TypeInv, QueuesOK, WatchOK, ReqOK, BoxOK, RestOK, TypeOK, WatchRec, ReqRec, Box
<1> QED
  BY <1>1, TypeAlways, PTL
-----------------------------------------------------------------------------
(* The watcher of a queue.  A start is under way until it has ensured one. *)
Starting(r) == req[r].kind = "folder" /\ req[r].pc \in {"wake", "push", "timing", "ensure"}

(* What could leave a queue without a watcher, ruled out: a folder whose   *)
(* first push fails, and a stopQueue that cancels the watcher of a queue   *)
(* that was loaded after it cleared another.                               *)
Undisturbed ==
  /\ \A r \in Requests : ~(PushFails(r) /\ req[r].kind = "folder")
  /\ (\E r \in Requests : CancelWatcher(r)) \/ (\E w \in Requests : WatcherCancels(w)) =>
       ~queue.active \/ \E r \in Requests : Starting(r)

Watched == queue.active => slot # None \/ \E r \in Requests : Starting(r)

(* Who leaves was cancelled, so the slot is no longer his; and an ended    *)
(* queue stays ended until its watcher has silenced the speaker.           *)
WatchedInv ==
  /\ StaleInv /\ TypeInv
  /\ \A w \in Requests : watch[w].pc = "leave" => watch[w].cancelled
  /\ \A w \in Requests : watch[w].pc = "silence" => ~queue.active
  /\ Watched

LEMMA QueueFields ==
  ASSUME QueuesOK
  PROVE  [queue EXCEPT !.active = FALSE].active = FALSE
BY DEF QueuesOK, Queues

LEMMA StartingKept ==
  ASSUME NEW r \in Requests, req'[r] = req[r]
  PROVE  Starting(r) => Starting(r)'
BY DEF Starting

LEMMA RequestWatched ==
  ASSUME WatchedInv, StaleInv', TypeInv', NEW r \in Requests, RequestStep(r), Undisturbed
  PROVE  WatchedInv'
<1> USE DEF lockVars, queueVars, slotVars, boxVars, timeVars
<1>1. /\ SlotInv /\ LockInv /\ QueuesOK /\ DOMAIN req = Requests /\ DOMAIN watch = Requests
      /\ \A q \in Requests : DOMAIN req[q] = {"pc", "kind", "item"}
      /\ \A w \in Requests : DOMAIN watch[w] = DOMAIN Idle
  BY DEF WatchedInv, StaleInv, SlotInv, TypeInv
<1>2. \A q \in Requests : Starting(q) => boxCmdMu = ReqProc(q)
  BY <1>1 DEF Starting, LockInv, ReqHolds
<1>3. \A w \in Requests : watch[w].pc = "silence" => boxCmdMu = WatchProc(w)
  BY <1>1 DEF LockInv, WatchHolds
<1>4. \A q \in Requests \ {r} : req'[q] = req[q]
  BY <1>1 DEF RequestStep, Begin, LoadFolder, FolderWoken, WakeForStation, SkipNothing, SkipTo, SkipPastEnd,
       Push, PushFails, TimeTrack, EnsureWatcher, ClearQueue, CancelWatcher, StopBox, GoReq
<1>5. ASSUME \A w \in Requests : /\ watch'[w].pc \in {watch[w].pc, "tick"}
                                 /\ watch[w].cancelled => watch'[w].cancelled,
             Watched', \A w \in Requests : watch[w].pc = "silence" => ~queue'.active
      PROVE  WatchedInv'
  BY <1>5 DEF WatchedInv
<1>6. \A w \in Requests : /\ watch'[w].pc \in {watch[w].pc, "tick"}
                          /\ watch[w].cancelled => watch'[w].cancelled
  <2>1. CASE watch' = watch
    BY <2>1
  <2>2. CASE watch' = CancelSlot(watch)
    BY <1>1, <2>2, CancelFacts
  <2>3. CASE watch' = [watch EXCEPT ![r].pc = "tick"]
    BY <1>1, <2>3, Fields
  <2> QED
    BY <2>1, <2>2, <2>3 DEF RequestStep, Begin, LoadFolder, FolderWoken, WakeForStation, SkipNothing, SkipTo, SkipPastEnd,
       Push, PushFails, TimeTrack, EnsureWatcher, ClearQueue, CancelWatcher, StopBox
<1>7. CASE LoadFolder(r)
  <2>1. boxCmdMu = None /\ Starting(r)'
    BY <1>1, <1>7 DEF LoadFolder, Acquire, Starting
  <2> QED
    BY <1>3, <1>5, <1>6, <2>1, Processes DEF Watched
<1>8. CASE FolderWoken(r)
  <2>1. Starting(r) /\ Starting(r)'
    BY <1>1, <1>8 DEF FolderWoken, GoReq, Starting
  <2> QED
    BY <1>2, <1>3, <1>5, <1>6, <2>1, Processes DEF Watched
<1>9. CASE SkipTo(r)
  <2>1. boxCmdMu = None /\ queue.active /\ UNCHANGED slot
    BY <1>9 DEF SkipTo, Acquire
  <2>2. slot # None
    BY <1>2, <2>1, Processes DEF WatchedInv, Watched
  <2> QED
    BY <1>3, <1>5, <1>6, <2>1, <2>2, Processes DEF Watched
<1>10. CASE SkipPastEnd(r)
  <2>1. ~queue'.active
    <3>1. queue' = [queue EXCEPT !.active = FALSE] /\ queue.active
      BY <1>10 DEF SkipPastEnd
    <3> QED
      BY <1>1, <3>1, QueueFields
  <2> QED
    BY <1>5, <1>6, <2>1 DEF Watched
<1>11. CASE ClearQueue(r)
  BY <1>5, <1>6, <1>11 DEF ClearQueue, Cleared, Watched
<1>12. CASE CancelWatcher(r)
  <2>1. UNCHANGED queue /\ (~queue.active \/ \E q \in Requests : Starting(q))
    BY <1>12 DEF CancelWatcher, Undisturbed
  <2>2. ~Starting(r)
    BY <1>12 DEF CancelWatcher, Starting
  <2>3. Watched'
    BY <1>4, <2>1, <2>2, StartingKept DEF Watched
  <2> QED
    BY <1>5, <1>6, <2>1, <2>3 DEF WatchedInv
<1>13. CASE EnsureWatcher(r)
  <2>1. slot' # None /\ UNCHANGED queue
    BY <1>13, ConstantsAssumption DEF EnsureWatcher
  <2> QED
    BY <1>5, <1>6, <2>1 DEF WatchedInv, Watched
<1>14. CASE Push(r) \/ TimeTrack(r)
  <2>1. Starting(r) => Starting(r)'
    BY <1>1, <1>14 DEF Push, TimeTrack, GoReq, Starting
  <2>2. UNCHANGED <<queue, slot>>
    BY <1>14 DEF Push, TimeTrack
  <2>3. Watched'
    BY <1>4, <2>1, <2>2, StartingKept DEF WatchedInv, Watched
  <2> QED
    BY <1>5, <1>6, <2>2, <2>3 DEF WatchedInv
<1>15. CASE Begin(r) \/ WakeForStation(r) \/ SkipNothing(r) \/ PushFails(r) \/ StopBox(r)
  <2>1. ~Starting(r)
    BY <1>15 DEF Begin, WakeForStation, SkipNothing, PushFails, StopBox, Starting, Undisturbed
  <2>2. UNCHANGED <<queue, slot>>
    BY <1>15 DEF Begin, WakeForStation, SkipNothing, PushFails, StopBox
  <2>3. Watched'
    BY <1>4, <2>1, <2>2, StartingKept DEF WatchedInv, Watched
  <2> QED
    BY <1>5, <1>6, <2>2, <2>3 DEF WatchedInv
<1> QED
  BY <1>7, <1>8, <1>9, <1>10, <1>11, <1>12, <1>13, <1>14, <1>15 DEF RequestStep

LEMMA WatcherWatched ==
  ASSUME WatchedInv, StaleInv', TypeInv', NEW w \in Requests, WatcherStep(w), Undisturbed
  PROVE  WatchedInv'
<1> USE DEF lockVars, queueVars, slotVars, boxVars, timeVars
<1>1. /\ SlotInv /\ LockInv /\ QueuesOK /\ DOMAIN watch = Requests
      /\ \A v \in Requests : DOMAIN watch[v] = DOMAIN Idle
      /\ \A v \in Requests : watch[v].pc = "leave" => watch[v].cancelled
      /\ \A v \in Requests : watch[v].pc = "silence" => ~queue.active
      /\ \A v \in Requests : WatchHolds(v) => boxCmdMu = WatchProc(v)
      /\ \A q \in Requests : Starting(q) => boxCmdMu = ReqProc(q)
      /\ Watched
  BY DEF WatchedInv, StaleInv, TypeInv, SlotInv, LockInv, Starting, ReqHolds
<1>2. UNCHANGED req => \A q \in Requests : Starting(q) => Starting(q)'
  BY StartingKept
<1>3. CASE Quit(w)
  <2>1. UNCHANGED <<queue, slot, req>> /\ watch' = [watch EXCEPT ![w].pc = "leave"] /\ watch[w].cancelled
    BY <1>3 DEF Quit, GoWatch
  <2> QED
    BY <1>1, <1>2, <2>1, Fields DEF WatchedInv, Watched
<1>4. CASE Retire(w)
  <2>1. ~queue.active /\ UNCHANGED <<queue, req>>
        /\ watch' = [(IF OwnsSlot(w) THEN CancelSlot(watch) ELSE watch) EXCEPT ![w].pc = "leave"] /\ watch[w].pc = "tick"
    BY <1>4 DEF Retire
  <2>2. OwnsSlot(w) => slot = w
    BY <1>1 DEF OwnsSlot, SlotInv, SlotOwned
  <2>3. ~OwnsSlot(w) => watch[w].cancelled
    BY <1>1, <2>1, ConstantsAssumption DEF OwnsSlot, SlotInv, SlotOwned, Running
  <2>4. watch'[w].cancelled /\ \A v \in Requests \ {w} : watch'[v].pc = watch[v].pc /\ (watch[v].cancelled => watch'[v].cancelled)
    BY <1>1, <2>1, <2>2, <2>3, CancelFacts, Fields
  <2> QED
    BY <1>1, <2>1, <2>4 DEF WatchedInv, Watched
<1>5. CASE Leave(w)
  <2>1. ~OwnsSlot(w)
    BY <1>1, <1>5 DEF Leave, OwnsSlot, SlotInv, SlotOwned, Running
  <2>2. UNCHANGED <<queue, slot, req>> /\ watch' = [watch EXCEPT ![w].pc = "off"]
    BY <1>5, <2>1 DEF Leave
  <2> QED
    BY <1>1, <1>2, <2>2, Fields DEF WatchedInv, Watched
<1>6. CASE Poll(w)
  <2>1. UNCHANGED <<queue, slot, req>>
    BY <1>6, PollUntouched
  <2>2. \A v \in Requests : /\ watch'[v].pc \in OnPcs \/ watch'[v].pc = watch[v].pc
                            /\ watch'[v].cancelled = watch[v].cancelled
    BY <1>1, <1>6, PollKeeps DEF PollKept, SameWatchers
  <2> QED
    BY <1>1, <1>2, <2>1, <2>2 DEF WatchedInv, Watched, OnPcs
<1>7. CASE Tick(w) \/ FailFast(w) \/ CountDead(w)
  <2>1. UNCHANGED <<queue, slot, req>>
    BY <1>7 DEF Tick, FailFast, CountDead
  <2>2. PICK rec \in {[Round(w) EXCEPT !.pc = "poll"], Round(w), Dead(Round(w)), Dead(watch[w])} :
          watch' = [watch EXCEPT ![w] = rec]
    BY <1>7 DEF Tick, FailFast, CountDead
  <2>3. rec.pc \notin {"leave", "silence"}
    <3>1. watch[w].pc \in {"tick", "count"} /\ Round(w).pc = watch[w].pc
      BY <1>1, <1>7, Fields DEF Tick, FailFast, CountDead, MayBegin, Round
    <3>2. DOMAIN Round(w) = DOMAIN Idle
      BY <1>1 DEF Round
    <3> QED
      BY <1>1, <3>1, <3>2, Fields DEF Dead
  <2> QED
    BY <1>1, <1>2, <2>1, <2>2, <2>3 DEF WatchedInv, Watched
<1>8. CASE StandDown(w) \/ RetryRefused(w) \/ RetryWoken(w) \/ PushTrackFails(w)
  <2>1. PICK pc \in {"tick", "count", "repush"} : watch' = [watch EXCEPT ![w].pc = pc]
    BY <1>8 DEF StandDown, RetryRefused, RetryWoken, PushTrackFails, GoWatch
  <2>2. UNCHANGED <<queue, slot, req>>
    BY <1>8 DEF StandDown, RetryRefused, RetryWoken, PushTrackFails
  <2> QED
    BY <1>1, <1>2, <2>1, <2>2, Fields DEF WatchedInv, Watched
<1>9. CASE PushTrack(w)
  <2>1. PICK b : watch' = [watch EXCEPT ![w].pc = "tick", ![w].retried = b]
    BY <1>9 DEF PushTrack
  <2>2. UNCHANGED <<queue, slot, req>>
    BY <1>9 DEF PushTrack
  <2> QED
    BY <1>1, <1>2, <2>1, <2>2, Fields DEF WatchedInv, Watched
<1>10. CASE Retry(w)
  <2>1. UNCHANGED <<queue, slot, req>> /\ watch' = [watch EXCEPT ![w].pc = "wake", ![w].item = QueueItem]
    BY <1>10 DEF Retry
  <2> QED
    BY <1>1, <1>2, <2>1, Fields DEF WatchedInv, Watched
<1>11. CASE Advance(w)
  <2>1. /\ boxCmdMu = None /\ queue.active /\ UNCHANGED slot
        /\ \E item : watch' = [watch EXCEPT ![w].pc = "push", ![w].item = item]
    BY <1>11 DEF Advance, Acquire
  <2>2. slot # None
    BY <1>1, <2>1, Processes DEF Watched
  <2>3. \A v \in Requests : watch[v].pc # "silence"
    BY <1>1, <2>1, Processes DEF WatchHolds
  <2> QED
    BY <1>1, <2>1, <2>2, <2>3, Fields DEF WatchedInv, Watched
<1>12. CASE EndQueue(w) \/ WatcherClears(w)
  <2>1. ~queue'.active
    <3>1. queue' = [queue EXCEPT !.active = FALSE] \/ queue' = Cleared
      BY <1>12 DEF EndQueue, WatcherClears
    <3>2. [queue EXCEPT !.active = FALSE].active = FALSE /\ Cleared.active = FALSE
      BY <1>1, QueueFields DEF Cleared
    <3>3. queue'.active = FALSE
      BY <3>1, <3>2
    <3> QED
      BY <3>3
  <2>2. PICK pc \in {"silence", "cancel"} : watch' = [watch EXCEPT ![w].pc = pc]
    BY <1>12 DEF EndQueue, WatcherClears, GoWatch
  <2> QED
    BY <1>1, <2>1, <2>2, Fields DEF WatchedInv, Watched
<1>13. CASE SilenceBox(w)
  <2>1. UNCHANGED queue /\ ~queue.active /\ watch' = [CancelSlot(watch) EXCEPT ![w].pc = "tick"]
    BY <1>1, <1>13 DEF SilenceBox
  <2> QED
    BY <1>1, <2>1, CancelFacts, Fields DEF WatchedInv, Watched
<1>14. CASE WatcherCancels(w)
  <2>1. /\ UNCHANGED <<queue, req>> /\ (~queue.active \/ \E q \in Requests : Starting(q))
        /\ watch' = [CancelSlot(watch) EXCEPT ![w].pc = "leave"] /\ slot' = None
    BY <1>14 DEF WatcherCancels, Undisturbed
  <2>2. Watched'
    BY <1>2, <2>1 DEF Watched
  <2>3. watch[w].cancelled \/ slot = w
    BY <1>1, <1>14 DEF WatcherCancels, SlotInv, SlotOwned, Running
  <2>4. watch'[w].cancelled /\ \A v \in Requests \ {w} : watch'[v].pc = watch[v].pc /\ (watch[v].cancelled => watch'[v].cancelled)
    BY <1>1, <2>1, <2>3, CancelFacts, Fields
  <2> QED
    BY <1>1, <2>1, <2>2, <2>4, CancelFacts, Fields DEF WatchedInv
<1> QED
  BY <1>3, <1>4, <1>5, <1>6, <1>7, <1>8, <1>9, <1>10, <1>11, <1>12, <1>13, <1>14 DEF WatcherStep

LEMMA WatchedStep == WatchedInv /\ [Next]_vars /\ [Undisturbed]_vars => WatchedInv'
<1> SUFFICES ASSUME WatchedInv, [Next]_vars, [Undisturbed]_vars PROVE WatchedInv'
  OBVIOUS
<1>1. StaleInv' /\ TypeInv'
  BY StaleStep, TypeStep DEF WatchedInv
<1>2. CASE Outside \/ UNCHANGED vars
  <2>1. UNCHANGED <<queue, slot, req, watch>>
    BY <1>2 DEF Outside, SpeakerMoves, ForeignPlay, PowerOff, ServerDies, StopForgotten, vars, queueVars, slotVars
  <2> QED
    BY <1>1, <2>1 DEF WatchedInv, Watched, Starting
<1>3. CASE UNCHANGED vars
  BY <1>2, <1>3
<1>4. CASE ~UNCHANGED vars
  BY <1>1, <1>2, <1>4, RequestWatched, WatcherWatched DEF Next
<1> QED
  BY <1>3, <1>4

(* PlayedQueueWatched holds in every behaviour in which no folder's first  *)
(* push fails and no stopQueue comes in two halves around a start          *)
(* (Undisturbed), whatever else stops, skips, retires or is superseded:    *)
(* those are the only two ways in which ensureWatcher's promise is lost.   *)
THEOREM PlayedQueueWatchedHolds == Spec /\ [][Undisturbed]_vars => []PlayedQueueWatched
<1>1. Init => WatchedInv
  <2> SUFFICES ASSUME Init PROVE WatchedInv
    OBVIOUS
  <2>1. \A w \in Requests : watch[w].pc = "off"
    BY DEF Init, Idle
  <2>2. ~queue.active
    BY DEF Init, Cleared
  <2> QED
    BY <2>1, <2>2, StaleInit, TypeInit DEF WatchedInv, Watched
<1>2. WatchedInv => PlayedQueueWatched
  <2> SUFFICES ASSUME WatchedInv, queue.active, boxCmdMu = None PROVE slot # None
    BY DEF PlayedQueueWatched
  <2>1. \A r \in Requests : ~Starting(r)
    BY Processes DEF WatchedInv, StaleInv, LockInv, ReqHolds, Starting
  <2> QED
    BY <2>1 DEF WatchedInv, Watched
<1> QED
  BY <1>1, <1>2, WatchedStep, PTL DEF Spec
=============================================================================
