----------------------------- MODULE AlarmClock -----------------------------
(***************************************************************************)
(* The alarm scheduler: internal/alarm (the document, its due instants and *)
(* the marks of what has fired) and the runner of internal/webui/alarms.go *)
(* with the request that saves the document.  The runner sleeps at most    *)
(* MaxSleep, derives everything anew from the wall clock, answers edits    *)
(* before it fires, and marks an alarm on the flash before it drives it.   *)
(* The speaker has no battery-backed clock: after a power cut it believes  *)
(* a date years ago until clocksync repairs it.                            *)
(*                                                                         *)
(* t is the true time, in ticks.  A wall clock that is right shows t; one  *)
(* that is implausible shows nothing the runner uses.  Time passes only    *)
(* when the runner sleeps and no save is in progress: both take far less   *)
(* than a tick.                                                            *)
(***************************************************************************)
EXTENDS Naturals, FiniteSets, FiniteSetsExt, Functions

CONSTANTS
  Alarms,       \* ids an alarm may have
  Saved,        \* documents an editor may save
  Schedules,    \* sets of instants an alarm may be due at, in zone 0
  DayLength,    \* ticks in a day, for skip dates
  Zones,        \* by how much a zone moves a due instant
  NoAlarm,      \* no alarm of that id in the document
  None,
  Grace,        \* alarmGrace
  MaxSleep,     \* productionAlarmTiming.maxSleep
  MaxTime, MaxSaves, MaxStops, MaxFails   \* bounds

Entry == [on : BOOLEAN, times : Schedules]
DayOf(d) == d \div DayLength
Days == {DayOf(d) : d \in UNION Schedules}
Document == [entries : [Alarms -> Entry \cup {NoAlarm}], zone : Zones, skip : SUBSET Days]
Instants == {d + z : d \in UNION Schedules, z \in Zones}

(* An alarm is due once a day at most, and the grace is minutes.           *)
ASSUME AlarmAssumption ==
  /\ Schedules \subseteq SUBSET (Nat \ {0}) /\ Zones \subseteq Nat
  /\ DayLength \in Nat \ {0} /\ Grace \in Nat /\ MaxSleep \in Nat \ {0}
  /\ \A S \in Schedules : \A c, d \in S : c < d => c + Grace < d
  /\ NoAlarm \notin Entry /\ Saved \subseteq Document
  /\ None \notin Document /\ None \notin Alarms \X Instants
  /\ {MaxTime, MaxSaves, MaxStops, MaxFails} \subseteq Nat

VARIABLES
  t, clockGood,        \* true time; does the wall clock show it
  doc, docSaved,       \* the document in RAM, on the flash
  put,                 \* the document a PUT has yet to write, or None
  reload,              \* alarmReload holds a kick
  rpc, wakeAt,         \* the runner: next step, when its timer expires
  view, seen,          \* the document it evaluates, alarmSeen
  todo, pending,       \* alarms to acknowledge, alarms to look at
  ringing,             \* the alarm and instant about to be driven, or None
  fired, firedSaved,   \* the marks in RAM, on the flash
  saves, stops, fails, \* counted against the bounds
  rung, rungAgain,     \* history: what rang, what rang more than once
  answered,            \* history: what was marked in order to ring
  unsaved, forgotten,  \* history: marks not written, alarms deleted with theirs
  told,                \* history: when the user last edited each alarm
  steady,              \* history: since when the runner has known each alarm
  goodSince            \* history: up, with the right time, since then

docs == <<doc, docSaved, put, reload, saves>>
runner == <<rpc, wakeAt, view, seen, todo, pending, ringing>>
marks == <<fired, firedSaved, fails, unsaved>>
rings == <<rung, rungAgain, answered, forgotten>>
history == <<rings, told, steady, goodSince>>
vars == <<t, clockGood, docs, runner, marks, stops, history>>

Never == MaxTime + MaxSleep + 1

TypeOK ==
  /\ t \in 0..MaxTime /\ clockGood \in BOOLEAN
  /\ {doc, docSaved} \subseteq Document /\ {put, view, seen} \subseteq Document \cup {None}
  /\ reload \in BOOLEAN
  /\ rpc \in {"down", "started", "work", "sleep", "parked"} /\ wakeAt \in Nat
  /\ todo \subseteq Alarms /\ pending \subseteq Alarms
  /\ rpc # "work" => todo = {} /\ pending = {} /\ ringing = None
  /\ ringing \in (Alarms \X Instants) \cup {None}
  /\ {fired, firedSaved} \subseteq [Alarms -> Instants \cup {0}]
  /\ rungAgain \subseteq rung /\ rung \subseteq answered
  /\ answered \subseteq Alarms \X Instants /\ unsaved \subseteq Alarms \X Instants
-----------------------------------------------------------------------------
(* When an alarm is due.  0 stands for the zero time: no such instant.     *)

On(d, a) == d.entries[a] # NoAlarm /\ d.entries[a].on

DuesWith(d, a, skip) ==
  {i + d.zone : i \in {j \in d.entries[a].times : DayOf(j) \notin skip}}
Dues(d, a) == IF On(d, a) THEN DuesWith(d, a, d.skip) ELSE {}

MostRecent(dues) == Max({0} \cup {i \in dues : i <= t})
MostRecentDue(d, a) == MostRecent(Dues(d, a))

(* Due within the grace window, and not marked.                            *)
FiresNow(d, a) ==
  LET due == MostRecentDue(d, a) IN due # 0 /\ t - due <= Grace /\ fired[a] < due

(* Mutant of Edited: a change of the skip dates is no edit.                *)
EditedNoSkips(old, new, a) ==
  /\ On(new, a)
  /\ ~ /\ On(old, a)
       /\ old.zone = new.zone
       /\ old.entries[a].times = new.entries[a].times

(* Was the alarm added, switched on or moved between the two documents.    *)
Edited(old, new, a) ==
  /\ On(new, a)
  /\ ~ /\ On(old, a)
       /\ old.zone = new.zone
       /\ old.entries[a].times = new.entries[a].times
       /\ MostRecent(DuesWith(new, a, old.skip)) = MostRecentDue(new, a)

(* NextFire, and the timer the runner sets for it.                         *)
Upcoming(d) == {i \in UNION {Dues(d, a) : a \in Alarms} : i > t}
Scheduled(d) == \E a \in Alarms : On(d, a)

(* Mutant of Waits: no cap on the sleep.                                   *)
WaitsUncapped(d) ==
  IF ~clockGood THEN 1..MaxTime
  ELSE IF Upcoming(d) = {} THEN {MaxTime} ELSE {Min(Upcoming(d)) - t}

(* How long the runner may sleep.  With the wrong date, the next due       *)
(* instant is at any distance; so it is beyond the instants of the model.  *)
Waits(d) ==
  IF ~clockGood THEN 1..MaxSleep
  ELSE {Min({MaxSleep} \cup {i - t : i \in Upcoming(d)})}
-----------------------------------------------------------------------------
Init ==
  /\ t = 0 /\ clockGood \in BOOLEAN
  /\ doc \in Saved
  /\ docSaved = doc /\ put = None /\ reload = FALSE
  /\ rpc = "started" /\ wakeAt = 0 /\ view = None /\ seen = None
  /\ todo = {} /\ pending = {} /\ ringing = None
  /\ fired = [a \in Alarms |-> 0] /\ firedSaved = fired
  /\ saves = 0 /\ stops = 0 /\ fails = 0
  /\ rung = {} /\ rungAgain = {} /\ answered = {} /\ unsaved = {} /\ forgotten = {}
  /\ told = [a \in Alarms |-> 0] /\ steady = [a \in Alarms |-> 0]
  /\ goodSince = IF clockGood THEN 0 ELSE Never

(* Mutant of Write: the mark stays in RAM.                                 *)
WriteNothing(marked, lost) ==
  /\ fired' = marked
  /\ UNCHANGED <<firedSaved, fails, unsaved>>

(* StateStore.save: the whole map, and callers go on when it fails.        *)
Write(marked, lost) ==
  /\ fired' = marked
  /\ \/ firedSaved' = marked /\ UNCHANGED <<fails, unsaved>>
     \/ /\ fails < MaxFails
        /\ fails' = fails + 1 /\ unsaved' = unsaved \cup lost
        /\ UNCHANGED firedSaved

MarkFired(a, due) == Write([fired EXCEPT ![a] = due], {<<a, due>>})

(* runAlarms begins a pass: at the start, on its timer or on a kick.       *)
Wakes ==
  /\ \/ rpc = "started" /\ UNCHANGED reload
     \/ rpc = "sleep" /\ t >= wakeAt /\ UNCHANGED reload
     \/ rpc \in {"sleep", "parked"} /\ reload /\ reload' = FALSE
  /\ rpc' = "work" /\ wakeAt' = 0
  /\ view' = doc

(* evaluateAlarms until the clock is known to be good: the first pass      *)
(* takes the stored document as what the user has seen.                    *)
EvaluateClockBad ==
  /\ Wakes /\ ~clockGood
  /\ seen' = IF seen = None THEN doc ELSE seen
  /\ UNCHANGED <<t, clockGood, doc, docSaved, put, saves, todo, pending, ringing, marks, stops,
                 history>>

(* Prune, and what acknowledgeAlarmEdits finds to acknowledge.             *)
Evaluate ==
  LET before == IF seen = None THEN doc ELSE seen
      kept == [a \in Alarms |-> IF doc.entries[a] = NoAlarm THEN 0 ELSE fired[a]]
  IN
  /\ Wakes /\ clockGood
  /\ seen' = doc
  /\ todo' = {a \in Alarms : Edited(before, doc, a) /\ FiresNow(doc, a)}
  /\ pending' = {a \in Alarms : On(doc, a)}
  /\ IF kept = fired THEN UNCHANGED marks ELSE Write(kept, {})
  /\ forgotten' = forgotten \cup {a \in Alarms : kept[a] # fired[a]}
  /\ steady' = [a \in Alarms |-> IF Edited(before, doc, a) THEN t ELSE steady[a]]
  /\ UNCHANGED <<t, clockGood, doc, docSaved, put, saves, ringing, stops, rung, rungAgain,
                 answered, told, goodSince>>

(* acknowledgeAlarmEdits: the instant is answered by the save itself.      *)
Acknowledge(a) ==
  /\ rpc = "work" /\ a \in todo
  /\ todo' = todo \ {a}
  /\ MarkFired(a, MostRecentDue(view, a))
  /\ UNCHANGED <<t, clockGood, docs, rpc, wakeAt, view, seen, pending, ringing, stops, history>>

(* fireAlarm: marked before it is driven, or when the preset is empty.     *)
Fire(a) ==
  LET due == MostRecentDue(view, a) IN
  /\ rpc = "work" /\ todo = {} /\ ringing = None
  /\ a \in pending /\ FiresNow(view, a)
  /\ pending' = pending \ {a}
  /\ MarkFired(a, due)
  /\ ringing' \in {None, <<a, due>>}
  /\ answered' = answered \cup {<<a, due>>}
  /\ UNCHANGED <<t, clockGood, docs, rpc, wakeAt, view, seen, todo, stops,
                 rung, rungAgain, forgotten, told, steady, goodSince>>

(* The goroutine that drives the alarm starts.                             *)
Drive ==
  /\ ringing # None
  /\ ringing' = None
  /\ rung' = rung \cup {ringing}
  /\ rungAgain' = rungAgain \cup ({ringing} \cap rung)
  /\ UNCHANGED <<t, clockGood, docs, rpc, wakeAt, view, seen, todo, pending, marks, stops,
                 answered, forgotten, told, steady, goodSince>>

(* Mutant of Rest: the pass ends with the acknowledgements.                *)
RestEarly ==
  /\ rpc = "work" /\ todo = {}
  /\ pending' = {} /\ view' = None
  /\ \/ /\ Scheduled(doc)
        /\ rpc' = "sleep" /\ \E w \in Waits(doc) : wakeAt' = t + w
     \/ ~Scheduled(doc) /\ rpc' = "parked" /\ UNCHANGED wakeAt
  /\ UNCHANGED <<t, clockGood, docs, seen, todo, ringing, marks, stops, history>>

(* runAlarms at the end of a pass, when no other alarm fires: a timer, or  *)
(* nothing to wait for.                                                    *)
Rest ==
  /\ rpc = "work" /\ todo = {} /\ ringing = None
  /\ \A a \in pending : ~FiresNow(view, a)
  /\ pending' = {} /\ view' = None
  /\ \/ /\ Scheduled(doc)
        /\ rpc' = "sleep" /\ \E w \in Waits(doc) : wakeAt' = t + w
     \/ ~Scheduled(doc) /\ rpc' = "parked" /\ UNCHANGED wakeAt
  /\ UNCHANGED <<t, clockGood, docs, seen, todo, ringing, marks, stops, history>>
-----------------------------------------------------------------------------
(* PUT /api/alarms: Set replaces the document in RAM, then writes it;      *)
(* KickAlarms only when the write succeeded.                               *)

(* What a save of d tells the runner about a, which has not looked yet.    *)
Told(d, a) ==
  IF seen = None THEN 0
  ELSE IF Edited(seen, d, a) THEN t
  ELSE IF Edited(seen, doc, a) THEN 0 ELSE told[a]

PutInRam(d) ==
  /\ rpc # "down" /\ put = None /\ d # doc
  /\ saves < MaxSaves
  /\ saves' = saves + 1
  /\ doc' = d /\ put' = d
  /\ told' = [a \in Alarms |-> Told(d, a)]
  /\ steady' = [a \in Alarms |->
       IF <<d.entries[a], d.zone, d.skip>> = <<doc.entries[a], doc.zone, doc.skip>>
         THEN steady[a] ELSE Never]
  /\ UNCHANGED <<t, clockGood, docSaved, reload, runner, marks, stops, rings, goodSince>>

PutOnFlash ==
  /\ put # None
  /\ docSaved' = put /\ put' = None
  /\ reload' = TRUE
  /\ steady' = [a \in Alarms |-> IF steady[a] = Never THEN t ELSE steady[a]]
  /\ UNCHANGED <<t, clockGood, doc, saves, runner, marks, stops, rings, told, goodSince>>

(* The request is answered 500; RAM keeps the new document.                *)
PutFails ==
  /\ put # None /\ fails < MaxFails
  /\ fails' = fails + 1
  /\ put' = None
  /\ UNCHANGED <<t, clockGood, doc, docSaved, reload, saves, runner, fired, firedSaved, unsaved,
                 stops, history>>
-----------------------------------------------------------------------------
(* The world: time, clocksync, the agent stopped or the power cut, a start.*)

Tick ==
  /\ t < MaxTime /\ put = None
  /\ \/ rpc = "down"
     \/ rpc = "parked" /\ ~reload
     \/ rpc = "sleep" /\ ~reload /\ t < wakeAt
  /\ t' = t + 1
  /\ UNCHANGED <<clockGood, docs, runner, marks, stops, history>>

RepairClock ==
  /\ rpc # "down" /\ ~clockGood
  /\ clockGood' = TRUE /\ goodSince' = t
  /\ UNCHANGED <<t, docs, runner, marks, stops, rings, told, steady>>

Stop(good) ==
  /\ rpc # "down" /\ stops < MaxStops
  /\ stops' = stops + 1
  /\ rpc' = "down" /\ clockGood' = good
  /\ doc' = docSaved /\ put' = None /\ reload' = FALSE
  /\ wakeAt' = 0 /\ view' = None /\ seen' = None
  /\ todo' = {} /\ pending' = {} /\ ringing' = None
  /\ fired' = firedSaved
  /\ told' = [a \in Alarms |-> 0]
  /\ steady' = [a \in Alarms |-> IF doc # docSaved \/ steady[a] = Never THEN t ELSE steady[a]]
  /\ goodSince' = Never
  /\ UNCHANGED <<t, docSaved, saves, firedSaved, fails, unsaved, rings>>

AgentStops == Stop(clockGood)
PowerCut == Stop(FALSE)

Start ==
  /\ rpc = "down"
  /\ rpc' = "started"
  /\ goodSince' = IF clockGood THEN t ELSE Never
  /\ UNCHANGED <<t, clockGood, docs, wakeAt, view, seen, todo, pending, ringing, marks, stops,
                 rings, told, steady>>

RunnerStep ==
  \/ EvaluateClockBad \/ Evaluate
  \/ \E a \in Alarms : Acknowledge(a) \/ Fire(a)
  \/ Drive \/ Rest

Next ==
  \/ RunnerStep
  \/ \E d \in Saved : PutInRam(d)
  \/ PutOnFlash \/ PutFails
  \/ Tick \/ RepairClock \/ AgentStops \/ PowerCut \/ Start

Spec == Init /\ [][Next]_vars
-----------------------------------------------------------------------------
(* An instant rings at most once, restarts, power cuts and clock repairs   *)
(* included, unless its mark could not be written or went when the alarm   *)
(* was deleted (fireAlarm: marked BEFORE the wake).                        *)
RingsOnce == \A p \in rungAgain : p \in unsaved \/ p[1] \in forgotten

(* Saving an alarm inside its own grace window never makes it ring: its    *)
(* first ring is for a later instant, also when the clock was only         *)
(* repaired after the save (acknowledgeAlarmEdits).  The pass that is      *)
(* under way when the save arrives still follows the old document.         *)
SaveIsQuiet ==
  [][\A a \in Alarms, d \in Instants :
       ringing' = <<a, d>> /\ ringing # ringing' /\ view = doc => told[a] < d]_vars

(* An alarm known to the runner before it was due is answered, late by no  *)
(* more than one capped sleep, when the speaker was up and its clock right *)
(* for so long inside the grace window, whatever happened before (the cap  *)
(* of alarmTiming.maxSleep, alarmGrace).                                   *)
NoMissedAlarm ==
  put = None => \A a \in Alarms : \A d \in Dues(doc, a) :
    ( /\ steady[a] < d /\ d < t
      /\ goodSince + MaxSleep < t /\ goodSince + MaxSleep <= d + Grace )
    => <<a, d>> \in answered
=============================================================================
