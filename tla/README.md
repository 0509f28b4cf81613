# Formal models of the STR agent

STR ("ST Reborn") keeps Bose SoundTouch speakers useful after the end of the
Bose cloud. A Go agent on each speaker serves a phone remote, answers the
firmware's cloud calls, plays radio, music folders and Spotify, and keeps the
preset keys; a desktop app installs and updates it. This directory holds TLA+
modules of the parts of the agent that are hard to get right and hard to test,
TLC configurations that check them, and TLAPS proofs about every component that
is modelled.

Every definition is translated from the Go source. `PROJECT.json` names, for
each definition, the file and lines it stands for.

    tlc -workers 2 -config MCPlaybackStops.cfg MCQueuePlayback
    tlapm PlayQueueProofs.tla

## 1. The system

| Part | State | Operations | How it meets the others |
|---|---|---|---|
| Durable files (`internal/atomicfile`) | per-path mutexes; files on the NAND | `WriteFile` | every store saves through it |
| Play queue (`internal/webui/queue.go`) | tracks, order, position, repeat, shuffle | load, natural advance, next, previous, toggles, clear | called by queue playback under its own mutex |
| Queue playback (`queueplay.go`, `queuebadurl.go`, `playback.go`, `transport.go`) | `boxCmdMu`, the watcher slot, `queueGen`, dead-track and takeover counters, the stop note, what was pushed last | play folder, play station, skip, stop, hardware key; a watcher goroutine polling the speaker | drives the play queue and the speaker (UPnP), reads `now_playing`, hears of failed fetches from the stream proxy |
| Recently played (`internal/recent`) | ring in RAM, dirty flag, debounce timer, `recent.json` | add, clear, delete, flush, shutdown | fed by speaker events and ICY titles; writes through durable files |
| Preset store (`internal/presets`, `presets_http.go`, `presetsave.go`, `holdsave.go`, `presets_rename.go`, `queuepresetheal.go`, `librarykeyheal.go`, `libraryreresolve.go`) | six keys in RAM, `presets.json`, `presets.json.bak` | save, bulk save, rename, delete, move, swap, hold, heal, load | HTTP handlers, hardware keys and a background sweep, side by side |
| Preset reconcile (`cmd/agent/reconcile.go`) | the firmware's own preset list | push, adopt, verify | keeps firmware and store together |
| Zones (`internal/zones`, `zones_stereo.go`, `zones_default_group.go`, `zone_member.go`, `zonemirror.go`, part of `resume_standby.go`) | the stored group and the permanent one set aside, a sequence number, a serial lock, the doubt about the document | form, define, dissolve, forget, remove, purge; re-form after a play; reconcile tick; look into the firmware's zone | the firmware's zone of the main speaker and its messages; wakes members |
| Group keys (`internal/groupkeys`) | templates bound to thumbs keys | press: form or dissolve | zone endpoints of the main speaker |
| Speaker event client (`internal/boxws`, `wshandler.go`) | WebSocket, last frames | dispatch, send, reconnect | calls into nearly everything |
| Standby and resume (`resume_standby.go`, `resumefile.go`, ...) | what played, stop note, guards | resume after a power cut, wake | queue playback, recently played |
| Alarms (`internal/alarm`, `alarms.go`, `alarms_http.go`), snooze, sleep timer | the document and the marks of what has fired, in RAM and on the NAND; the runner's timer | save, evaluate, mark, drive, acknowledge | wall clock, playback |
| Stream proxy (`internal/streamproxy`) | connections, held streams | fetch, reconnect, resume a file | firmware on one side, radio or media server on the other |
| Spotify (`internal/spotify`) | the go-librespot process, accounts | start, restart, recall | playback, presets |
| Self update and upload (`selfupdate*.go`, `agentupload.go`, `ota_receive.go`, `agent_admin.go`), fleet update (`desktop-app/ota*.go`) | the agent's file and its temporary name, the Spotify engine and its marker, the pending record, `updateInFlight` | upload, self-update with retries, engine delivery and return, resume after a restart | the app, the release server |
| Wi-Fi set-up and guard (`wlan*.go`, `wifilease.go`) | `wlan-target`, `wlan-creds`, `wlan-known.json` with backups, `wpa_supplicant.conf`, `wlanMu` | switch, clear, retire a wish, correct the network once per boot | the firmware's own network list |
| Cloud stand-in (`internal/marge`, `internal/bmx`) | answers | request/response | firmware |
| Clients, web interface, library, display, clock, supervision, network identity, logs, desktop app, frontend | little or none of their own | I/O, parsing, formatting | |

**What is hard here.** One lock, `boxCmdMu`, serialises the sequences that make
the speaker play something, and it is held across seconds of network calls; a
stop does not take it. The watcher decides from a poll of the speaker and acts
later, after waiting for that lock. Starting, retiring, cancelling and leaving
of watchers interleave with starts of new folders. The speaker lies: it stays in
PLAY_STATE at the end of a file, reports STOP_STATE between tracks and drops its
source when a stream starves. Stores are changed by handlers, hardware keys and
background sweeps, in several critical sections each, and written to a NAND
whose power is cut without warning. Requests about a group, the Wi-Fi or an
update take minutes of network calls and meet each other, the firmware's own
decisions and the agent's background work half way. `PROJECT.json` ("hazards") lists these
places by line with the property that covers each.

**What makes the parts correct.** A file is always one complete version, and an
acknowledged one stays. A folder plays each of its tracks once per lap. A folder
that plays has exactly one watcher, which acts only on the track it watched; a
folder ends when its media server is gone; no request hangs. A history or a
preset that was acknowledged as saved or deleted stays that way. No save
puts a stream on a second key, and no request loses a station it did not mean to
remove. An alarm
rings once for each instant it is due, and is not missed by a speaker that could
ring it. The speaker is never left on a network it cannot join, nor pulled back
for ever from one its owner chose. What the agent starts from is complete, and
an engine deleted to make room comes back. The permanent group is the one the
user settled last, the newest request decides who plays along, and a stored
group is not given up on a single contradiction.

## 2. The modules

| Module | Stands for |
|---|---|
| `DurableFile` | what a store may rely on: a file is replaced as a whole, and after a power cut it is the last version synced or one written since |
| `AtomicFile` | `atomicfile.WriteFile`, one action per system call, over a page cache and a flash |
| `DurableFileProofs` | both sides of the durable file: the invariants of `AtomicFile` and its refinement of `DurableFile`, and those of `RecentStore`, which uses it, for any constants |
| `PlayQueue` | `playQueue`, one action per method, and the start's restoring of a queue that something ended while the speaker was woken |
| `PlayQueueProofs` | its invariants and action properties, for folders of any length |
| `QueuePlayback` | requests, watchers, the speaker and the media server |
| `RecentStore` | the ring and its flushes; `recent.json` is a `DurableFile` |
| `PresetStore` | the store, its two files (both `DurableFile`s) and the requests |
| `AlarmClock` | the document, the marks, the runner and a clock that may be wrong |
| `WlanGuard` | switch and clear of the Wi-Fi, the record of the wish, the guard |
| `AgentUpdate` | uploads, the self-update job, the engine that comes and goes |
| `ZoneGroup` | the stored groups of one main speaker, its requests and its reconciler |
| `QueuePlaybackProofs`, `PresetStoreProofs`, `AlarmClockProofs`, `WlanGuardProofs`, `AgentUpdateProofs`, `ZoneGroupProofs` | invariants of these modules, for any constants |
| `MC...` | constants for TLC |

`AtomicFile` implements `DurableFile` (the refinement is checked and proved);
`RecentStore` and `PresetStore` are built on the abstract file with `INSTANCE
DurableFile WITH`, so they need not repeat system calls. `QueuePlayback` has its
tracks in order, because what the order does is `PlayQueue`'s business.

### AtomicFile and DurableFile

`dir`/`page` is what programs see, `flashDir`/`flashPage` what a power cut
leaves; the kernel may write any page or the directory back at any moment.
`AcquireLock`, `OpenTemp`, `WriteTemp`, `SyncData`, `CloseTemp`, `Rename`,
`RemoveTemp`, `SyncDir` are the calls in the order of `WriteFile`, each with its
failure. A failing directory sync is ignored, as in the code. `KillProcess` and
`PowerOff` may come at any step and leave a temp file behind. `promised` is the
set of versions a power cut may leave by contract; it shrinks to one at a
successful directory sync, and it and `before` are history variables.

### PlayQueue

`order[k]` is the track played k-th and `pos` the place in it. `BuildOrder`
gives all permutations when shuffling, with the kept track in front; `NextLap`
is the reshuffle at a wrap, which puts the first track of the old lap at the end
of the new one. `Load` and `FinishStart` are the two halves of a
start: between them the lock is held, so only toggles and a stop come in, and a
queue that was ended meanwhile is restored from the start's copy (`loaded`).
`heard`, `skipped` and `untouched` are history variables; `LapPlaysEachOnce`
needs them.

### QueuePlayback

A process is a request or a watcher; an action is what happens between two
points at which another goroutine can act. A watcher is named after the request
that started it. `Tick` begins a round, `Poll...` are the branches of
`runQueueWatcher` by what the speaker reports; a poll that fails (`PollFails`)
reports nothing and is judged like a silent speaker, by `NoStatus`: one that never
played is tried again once and then counted, one that played is taken to be over
when its time is up; `Advance`/`EndQueue`/`StandDown`
are `advanceAndPlayEnded` with the lock taken, `Retry...` the second hand-over,
`CountDead` the dead-track limit, `FailFast` `queueFailFast`. `stopQueue` is two
actions (`ClearQueue`, `CancelWatcher`), as in the code. The speaker is the set
`Moves` plus foreign plays, the power button and a media server that dies.

Abstractions: BUFFERING_STATE counts as playing; STOP_STATE inside the gap only
where a configuration has `gapStop`; a wake is one step; `queueGen` is an
equality-only counter, so any value nobody remembers stands for the next one.
Time is not modelled: a timeout may fire whenever its condition holds. A watcher
whose context was cancelled may still begin `LateRounds` rounds, for a Go
`select` picks at random among what is ready and a ticker buffers one tick.
`handlePlay`'s order (wake, then clear the stop note) is followed also for
preset keys. Left out: native select, Spotify hooks, announcements, looking up
the length of the next track, and the report of a stale folder key.

### RecentStore

An entry is a card key, a source and a track. `Added` is `Add` with its folding
and sessions, `Load` is collapse and cap. A Flush is `Snapshot` (under the
mutex), `Write`, `Sync` (under the path's lock); an error makes the ring dirty
again and arms no timer, as in the code. What a filter keeps (`DropKey`,
`Collapse`) is the sequence of the rows at a set of places, in their order
(`Rows`). Any number of flushes overlap (`Flushers`: the timer's and the
shutdown's), for Flush unlocks the mutex before it writes. Three history variables
say when that costs something: `newest` is the flush with the newest snapshot until
it has written it, `overtaken` that an older one was written after it, `cutOff` that
the agent ended while another flush was between its rename and its sync; `failed`
is that a write failed since the newest snapshot. Source healing on load is left out, and so is a failing directory sync,
which WriteFile does not report: `AtomicFile` has it.

### PresetStore

A preset is the stream it plays and whether it was renamed. What the duplicate
checks compare is the stream's URL, and a library track has one for each address
its media server was ever at (`StationOf` says which track it is), because a heal
rewrites the URL. `heal` is the sweep's, which looks at the key again before it
writes; `press` is that of a key press or of a sighting of the server, which does
not. A request is
its reads, its one change and its Save, each under the store's mutex alone;
Saves hold the read lock throughout and so run side by side, never across a
change. A content carries the number of the change that made it, so that older
and newer are told apart. `WritePrimary`, `SyncPrimary`, `WriteBackup`,
`SyncBackup` are the two durable files, `Loaded` the choice Load makes between
them. Abstractions: folder keys, which carry no stream to compare, are left out, and so
is a heal of the cover alone; the order of the slice and
duplicate slots of a hand-edited file are left out, as are the healing of an
over-full file and writer preference of RWMutex (leaving it out only adds
behaviours). A Save that fails answers 500 with the memory changed, as in the
code. `met` and `moved` are history variables: two requests have been under way at once,
and the streams that a heal put on a key.

### AlarmClock

`t` is the true time in ticks; a wall clock is right (`clockGood`) or shows a
date the runner refuses. The runner is `Evaluate` (or `EvaluateClockBad`), one
`Acknowledge` or `Fire` per alarm, `Drive`, and `Rest`, which sleeps until the
next due instant but at most `MaxSleep`. `Fire` marks the alarm in RAM and on
the flash before `Drive` rings it; the mark's write may fail (`Write`). A PUT is
`PutInRam`, then `PutOnFlash` or `PutFails`, which keeps the document in RAM and
kicks nobody, as in the code. `Tick`, `RepairClock`, `AgentStops`, `PowerCut` and
`Start` are the world's. A tick passes only while the runner sleeps and no save
is half done: both take far less than one.

The properties say what is promised and no more. `RingsOnce` excuses an instant
whose mark could not be written, or was pruned because the alarm was deleted and
saved again. `SaveIsQuiet` is about the passes that begin after the save, not the
one under way nor one after a restart. An alarm saved while the clock is wrong
and repaired after its due instant is swallowed. Left out:
verification and retry of a ringing alarm, snooze, automatic switch-off and the
sleep timer, and two PUTs at once, whose order in RAM and on the flash may
differ (`alarms_http.go`).

### WlanGuard

`conf` and `confBak` are `wpa_supplicant.conf` and its backup, `net` the network
the speaker is on, `reach` the networks it can join during this boot. A PUT is
`PutPersists` (credentials, before it waits for `wlanMu`), `PutStores`,
`PutApplies` and `PutConfirmed` or `PutRolledBack`. The guard is one action per
early return or attempt: it stands down for a cable, settles, looks where the
speaker came up, leaves it or re-applies, and drops the mutex in its backoff;
`GuardRestores` puts back the conf of the boot. `Reconcile` retires the wish when
the owner added a network. `Boot` chooses any stored network the firmware may
come up on; `boots` bounds it. Two facts of the code that the model keeps: the
note of a failure and the restore of the conf are one step, and a target copied
before a PUT is written back after it (`wlanguard.go` 282).

Modelled is the chassis whose Wi-Fi changes at run time (mechanism `wpa`). Left
out: the chassis that reboots for it, set-up mode, forgetting other networks on
request, priorities, leases, credentials that are renamed away by a write that
then fails (`wlan.go` 617-620). `mixed` excuses what happens when a PUT meets
the guard, a boot or another PUT; section 5 has what happens then.

### AgentUpdate

Files are inodes with a name or none: every agent upload streams into a file of
its own under the one temporary name, and a rename installs whatever has the name
then. `dst`, `tmp`, `whole` are the names and the complete files. A writer's step
`wpc` goes through `AgentBegins`, `AgentReceived`, `AgentVerified`,
`AgentRestarts`; any writer may find the flash full and delete the engine
(`MarksDrop`, then `Drops`). A delivery of the engine renames it (`EngineRenamed`),
writes its hash and syncs, and only then clears the marker of the deletion
(`ClearsMarker`, in `AppEngineDelivered` and `JobEngineDelivered`); `clash` is the
history variable that says that a deletion met another one or fell into that gap.
`job` is what holds `selfUpd.busy`: the download of
an agent, the engine's return after a failure, its later retry
(`TriesAgain`), the resumption after the restart. Left out: signatures and
versions, the swap from RAM when the flash cannot hold both files, the fleet, the
phone's lease, and the check for a release.

Some of what the model shows is accepted by its properties and worth knowing: a
power cut after the engine was deleted makes `resumeSelfUpdate` remove the record
without bringing the engine back at once (the marker stays, so a later delivery
does); a delivery of the engine checks the flag before its body arrives; two
deliveries share `go-librespot.new`; a delivery that begins also unlinks an agent's
temporary file (`reclaimNAND`), which is an abort of that upload (`AgentAborts`);
`fault` excuses every failure of the engine's return that is not the network's; an upload that fails both ways in
`finishAgentOTA` leaves `updateInFlight` set; and a second upload that fails
clears it while the first still runs.

### ZoneGroup

`zone` is the stored group, `standing` the permanent one it set aside; `Set`,
`Clear` and `ForgetBoth` are `zones.go`. A request takes a number (`mine`), waits
for the serial lock and, if it is still the newest, forms (`FormBegins`,
`FormPersists`, `FormDefers`, `FormDrops`, `FormAdds`, `FormStartsOver`,
`FormSets`, `FormRestores`) or dissolves (`DissolveBegins`, `DissolveDrives`,
`DissolveStores`). A dissolve takes a number too but never compares it; `overtaken`
says that a form began while a dissolve asked for earlier still waited. `RemoveMember`, `Define` and `Purge` are the requests that
rewrite the document alone. `Kick...`, `Hold...` and `Tick...` are the
re-form after a play and the reconcile tick; `WakeLooks`, `WakeNotes` and
`NoteBoxZoneState` are the doubt: a document is cleared on the second
contradiction. What lies between two answers of the network is one step.

Abstractions: the firmware's messages merge, the latest overwrites; members
follow the main speaker. Left out: failing document writes, partial joins, mirror
groups, stereo pairs, volumes, pushes that resume playback, the sweep after a
dissolve, the hush of messages and its 30 s cooldown, the dissolve of a zone
nobody stored. History variables excuse known races: `stale` (a copy of the
document read earlier was written back), `swapped` (section 5), `last = None`
(the newest request failed, was given up, was deferred or takes one member out; or
the reconciler, the firmware or a restart changed the zone meanwhile).

## 3. The runs

All runs end within five minutes on two workers.

| Run | Configuration | Asks | Result |
|---|---|---|---|
| `atomic_file` | 2 writers, 2 contents, 3 inodes, symmetric | inductive invariant, no torn file, acknowledged version survives, refinement of `DurableFile` | holds, 394 k states |
| `play_queue` | folders of up to 3 tracks | order and history of a lap are consistent, lookahead is right, each track once per lap | holds, 17 k states |
| `playback_starts` | 3 requests (folder, station, skips) | a queue whose track was handed over has a watcher | holds, 125 k states |
| `playback_stops` | 2 requests of every kind; a speaker that ends, stops, pauses, is taken over, sleeps, refuses, fails polls, symmetric | the slot names the one running watcher; a decision about an older queue is not acted on | holds, 2.64 M states |
| `playback_dead_server` | a folder, then a skip or a station; a server that dies | requests finish, the queue ends, a frozen track is left (liveness) | holds, 47 k states |
| `recent_store` | 2 cards, 2 sources, 2 tracks, ring of 2, 3 plays, two flushers, failing writes, 2 boots | one run per card, a clean ring is in the file, every change is written, a clean shutdown leaves the tail | holds, 1.14 M states |
| `presets` | 2 keys, a track with 2 streams and a station, 2 requests of all 7 kinds, symmetric, failing writes, a restart, power cuts, a truncating one | overlapping Saves agree, acknowledged changes survive, the backup is never empty, no station falls off, one key per stream | holds, 2.09 M states |
| `alarm_clock` | an alarm due on 2 days, 5 documents, 5 ticks, 2 saves, a stop, a failing write | rings once, a save is quiet, nothing is missed | holds, 1.69 M states |
| `wlan_guard` | 2 networks, 2 PUTs and clears, 2 boots | not stranded, the guard gives way, the owner's network is kept | holds, 663 k states |
| `agent_update` | one upload of the app, 2 installs, a retry, a power cut | what starts is whole, a deleted engine is on record, it comes back (liveness) | holds, 641 k states |
| `zone_group` | 2 requests of all kinds, 2 members, one fault, restart or new play | the saved group is the one asked for, the newest list wins or is what an overtaken dissolve left of it, two looks before a group is given up | holds, 2.00 M states |
| `zone_failed_form` | the same | the document goes back whole | **refuted** (section 5) |

**Deadlock** is checked for `AtomicFile` and `PlayQueue`. The other systems come
to rest when every request was handled or a bound is reached, so their
configurations say `CHECK_DEADLOCK FALSE`; that nobody hangs is the liveness
property `RequestsFinish`.

**Bounds.** Two writers are what one lock can be contended by; three inodes are
the target, a leftover and a new temp file. Three tracks tell a rotation from a
swap; two tracks suffice for playback, where only first, next and last matter.
Three requests in `playback_starts` are one that leaves a watcher behind, one
that ends its queue and one that starts while it goes. `Gens` has one value more
than can be remembered (assumed in `ConstantsAssumption`). `LateRounds` is 0 in
`playback_starts`: without time, a cancelled watcher with rounds left could sleep
through a whole other folder, which a ticker of seconds does not allow. A
ring of 2 with 2 cards and 3 plays holds A, B, then A again, whose older row must
go, or a third row that pushes out the first; the same card from two sources and
with two tracks folds and splits. Two flushers are the timer's and the
shutdown's, and two overtake each other as any number do. Two changes and
one restart are the shortest history in which an older content can come back.
Two due days with a grace of two ticks have an instant inside, at the end of and
outside its grace, and a second one that must still ring; a sleep of one tick
makes the runner wake before, at and after them. Budgets of two corrections and
two failures with two boots reach each budget's end, since the first boot counts
too; two attempts have one backoff between them. One upload and two installs have
an upload, a self-update and the resumption after each; two uploads at once are
what section 5 is about. Two members tell a partial list from an empty one and a
full one; `MaxEvents` bounds faults, restarts and new plays together, and
`MCInit` starts from a permanent group of all members or none.

**Fairness.** `QueuePlayback`'s `FairSpec`: goroutines that can run do run (WF on
requests and watchers); waiters for `boxCmdMu` get it (SF), for `sync.Mutex`
hands over to its longest waiter once it starves; the speaker does not stay for
ever between tracks, nor play on a stream whose server is gone. `RecentStore`:
armed timers fire and a write returns. `AgentUpdate`: the job's goroutine, its
own upload and deletions go on (WF), and the network comes back before
`engineRestoreWaitFor` has passed, so that a delivery that is tried again and
again succeeds once (SF of `EngineRenamed(JobEngine)`); without that the code gives up,
and says so in its log. Nothing is assumed of requests, the power, the app or
the media server.

## 4. What is proved

The proofs hold for every value of the constants that satisfies the modules'
named assumptions: every stream plays a station, special values are none of the others (`None` is no document,
network, record or ringing alarm, `NoAlarm` no entry), bounds are numbers, the
documents an owner may save are documents, due instants of one alarm do not
follow each other within the grace, the keys of the first start have no
stream twice, and a missing `recent.json` is not a list of entries.

Each module's types are a theorem of their own (`TypeOK`), from a `TypeInv` that
also says what the types alone do not keep: that a function has its domain, and
which step a process is at when a field is set.

`DurableFileProofs`, the file. `FileInv` adds to the properties what the argument needs:
whoever is past `lock` holds the lock (`LockHeld`); the name "path" leads to a
complete file in memory and on flash (`TargetComplete`); the temp name never
shares an inode with the target in either directory (`TempSeparate`); a writer's
descriptor is the temp file, with the content its step implies, synced before it
is renamed (`TempProgress`); and what is current and what is on flash are among
the promised versions (`PromiseKept`). From it: `NeverTornHolds`,
`SyncedVersionSurvivesHolds`, `FailureLeavesTargetHolds`, `TempIsMineHolds` (the
last two have no run: the refinement and `FileInv` say as much), and
`ImplementsDurableFileHolds`, where each action maps to `Replace`, `Persist`,
`PowerLoss` or a stutter.

`DurableFileProofs`, the ring. The module extends both specifications, which
share no names. That the n-th row kept is the one at the n-th place needs no
induction: counting the places up to a row (`Rank`) grows by one at each of them
and so numbers them 1, 2, 3 ... (`RankGrows`, `RankCounts`, by the library's
pigeonhole facts). `RowsFacts` concludes that a filter keeps the rows in their
order and nothing else, `RowsAll` that one that keeps every row changes nothing.
`CollapseJoinsRuns` and `CollapseKeepsNewest` are what collapse promises of any
list: runs are joined and no station is lost. `CollapseKeeps` is the comment's
"comes back unchanged", and with `CapTailGood` it gives `LoadGood`: a ring that
is written and loaded is the same ring, on which a restart rests. `AddedGood`
and `DropKeyGood` say that plays and deletes keep it one. `ControlInv` says where each
flush is, `RowsInv` that the ring in RAM, each snapshot and both versions of the
file are in bounds with one run per key; they give `RecentTypeCorrect` and
`OneRunPerKeyHolds`, without further conditions.

`QuietFileIsRingHolds` and `TailSurvivesShutdownHolds` are about any number of
overlapping flushes, the shutdown's among them. `newest` is the heart of their
invariants: while the ring is clean, the newest snapshot, or, once it was written,
the file, is the ring, unless an older one was written after it (`overtaken`); and
once the shutdown's flush has the mutex nothing changes the ring any more. What the
properties except is what the code does get wrong: `CleanRingIsStored` and
`TailAlwaysSurvives` are the same without the exceptions, and fail (section 5).

`RecentUsesDurableFile` closes the chain: each step of `RecentStore` is a step
of the abstract file or leaves it alone, and `ImplementsDurableFileHolds` shows
that `WriteFile` provides that file. `PresetStore` has no such theorem: one of
its starts reads two files and may write both, which is several steps of a file
at once.

`PlayQueueProofs`. Lemmas on the operators (`BuildOrder`, `Rotated` and
`NextLap` give permutations; the span of an order between two places) carry
`QueueInvariant`, whose strengthening relates the tracks heard in this lap to
the places before `pos`. From it: `WellFormedHolds`, `PeekIsNextHolds`,
`LapPlaysEachOnceHolds`, `ToggleKeepsTrackHolds`.

`QueuePlaybackProofs`. `SlotInv` adds to `SlotOwned` that a request that is not
through has started no watcher; it gives `SlotOwnedHolds`. `StaleInv` says who
holds `boxCmdMu` (`LockInv`), that a watcher whose generation is the newest one
watched what the newest generation is about, and one about to hand over a track
remembers the newest (`TimeInv`), and that what was handed over last is what the
newest generation is about, but for a station and between a push and its timing
(`HandInv`). `FreshIsFresh` counts the remembered generations, so that `Gens`
always has one left. It gives
`StaleAdvanceStandsDownHolds`, which therefore holds for any number of requests:
with three of them the station in between is the case the property excepts.
`TypeInv` needs more than the types. The counters stay in range because a watcher
that reaches a limit only clears the queue and leaves (`Bounded`); an active queue
is somebody's folder; a request that is not through has an untouched watcher. It
gives `PlaybackTypeCorrect`.

`PlayedQueueWatched` is proved where it is true. It is not true of the code without
conditions (section 5), so `PlayedQueueWatchedHolds` is about the behaviours whose
steps all satisfy `Undisturbed`: no folder's first push fails, and the second half
of a `stopQueue` meets an active queue only while a start is still to ensure its
watcher. Requests, watchers and the speaker are otherwise as free as ever, so the
theorem says that these are the only two ways in which `ensureWatcher`'s promise is
lost. `WatchedInv` is its invariant: an active queue has a watcher in the slot or a
start under way (`Watched`), whoever leaves was cancelled, and a queue that was
ended stays ended until its watcher has silenced the speaker.
`playback_starts` checks the property without the hypothesis, for three requests
and no failing push, where TLC finds every step `Undisturbed`; with a fourth request
it is not (a late poll of a cancelled watcher ends a newer queue), so the number of
requests in that run is a limit and not only a bound.

`PresetStoreProofs`. `PresetInv` joins five parts: the Saves under way write what
the store holds (`StoreInv`); a request has at each step what that step needs
(`OpInv`); who syncs a file has just put its content there, and who backs it up
has had `presets.json` acknowledged (`SaveInv`); the backup is absent or not
empty, and as recent as promised (`BackupInv`); and what a start would find, of
the files as programs see them and as the flash has them, keeps the promises
(`FileInv`, `Safe`). `ChangedFacts` is the argument for stations: every key that
is no target keeps its station somewhere. From it: `StoreInvHolds`,
`AcknowledgedSurvivesHolds`, `SafetyNetHolds`, `KeptStationsSurviveHolds`.
`OneInv` is for requests that come one after the other: at most one is under way,
what it looked at before it changes the store is still so (`Ready`), and neither
the store nor any version of a file, backup included, has a stream twice that no
heal put on a key (`moved`); the files belong in it because a start brings them
back. It gives `OneKeyPerStreamHolds`. That no *station* is on two keys is not
true of the code, also one request after the other (section 5).

`AlarmClockProofs`. `RingInv`: what has rung is marked, in RAM and on the flash,
with that instant or a later one, unless it is excused, and what is about to ring
is marked in RAM. The greatest due instant before a moment exists by a lemma on
sets of numbers. It gives `RingsOnceHolds`.
`QuietInv`: after an edit the runner has yet to compare the documents, or is to
acknowledge the alarm, or finds nothing due that is not later than the edit
(`Settled`); only the step that picks a ring needs it, for `SaveIsQuietHolds`.
`MissInv` follows an instant that is owed (`Owed`: known before it was due, with
the speaker up and its clock right for one capped sleep inside the grace): what a
mark covers was answered (`Marked`), the pass under way has answered it or will come
to it (`PassOK`), a runner that sleeps wakes in time (`Sleeps`), and what should be
answered by now is (`Prompt`). It gives `NoMissedAlarmHolds`.

`WlanGuardProofs`. `StrandInv` is `RadioInv` (what conf, backup and network are
while nobody, the guard or a PUT drives the radio) and `WayBack` (during a
correction the boot's conf is known and joinable). It gives `NotStrandedHolds`.
`BudgetInv` relates the record to what happened: `failed` is the number of boots
missed for this wish, `over` at least the number of corrections the owner undid but
for the one being judged, and a correction is only begun with some of both left;
for `GuardGivesWayHolds`. `WishInv` says that credentials, known networks and record
agree outside a switch, and that of the networks the owner added only the one asked
for counts as known; so the guard, which leaves an unknown network alone, never
takes the speaker off one of them (`OwnersNetworkKeptHolds`).

`AgentUpdateProofs`. `TypeCorrect`; `DropInv`, by which every deletion follows its
marker and, without a clash, a marker is only cleared for an engine that is there,
gives `DroppedIsToldHolds`; `WholeInv`, by which the only upload under way
owns the temporary name, gives `InstalledIsWholeHolds`.

`ZoneGroupProofs`. `DocInv` and `KeptInv` (a copy of the document is fresh or its
reader is among `touched`) give `SavedIsAskedHolds`; `LookInv`, by which the
members in doubt contain those of the document, gives `TwoLooksHolds`. `WinInv` is
about the request with the newest sequence number: it is on its way to the members
it asks for and, once it has begun, no dissolve is waiting that it did not overtake
(`OnItsWay`), or it was answered and whatever is left to run asks for the same or is
a dissolve it overtook, which only takes members out (`Arrived`). That two requests
never share a number is part of it. It gives `NewestWinsHolds`, for every order in
which the lock is taken: after an overtaken dissolve the zone is what that dissolve
left of the newest list, otherwise the newest list itself.

Only model-checked: the liveness properties `RequestsFinish`,
`DeadServerEndsQueue`, `FrozenTrackLeft`, `ChangeIsWritten` and `EngineComesBack`,
since fairness and ENABLED are beyond the prover. Every other property that a run
checks and that holds is a theorem, `PlayedQueueWatched` under the conditions stated
above.

## 5. Known disagreements

`zone_failed_form` refutes a sentence of the source; `PROJECT.json` ("findings")
quotes it. `restorePreviousZone` stores the old document with `Set`
(`zones_stereo.go` 3546). When a permanent group was to be formed over a temporary
one and failed, `Set` sets the failed group aside as the permanent one
(`zones.go` 154-167): it comes back at the next dissolve, and the permanent group
that was set aside before is lost.

The models show more of the same kind; the properties are in the modules, and
each fails when it is checked (as INVARIANT or PROPERTY, alone) in the
configuration named here.

| Property | Said in | What happens | Configuration |
|---|---|---|---|
| `ToggleKeepsPlayed` | `queue.go` 272: "the not-yet-played remainder is reshuffled" | the order is rebuilt over all tracks, so tracks already heard come again | `MCPlayQueue.cfg` |
| `NoAdvanceAfterStop` | `transport.go` 326: a stop ends any active queue | a stop between an advance's step of the queue and its push does not keep the next track from being handed over (`queueplay.go` 771-798) | `MCRace` (below), `FolderThenStop`, `Events = {"play", "freeze"}` |
| `StationNotSilenced` | `queueplay.go` 744: an advance aborts when superseded | a station does not move `queueGen`: the stop at the end of a folder, waiting behind the station's request, is sent to it | `MCRace`, `FolderThenStation`, `Tracks = 1`, `Events = {"play", "freeze"}` |
| `StationNotReplaced` | the same | nor does it keep a watcher's next track from replacing it: a folder, a station, then a folder whose push fails | `MCPlaybackStops.cfg`, `Requests = {r1, r2, r3}`, `FolderStationFolder`, `Gens <- FiveGens`, `Events = {"play", "finish"}` |
| `WatcherEndsItsOwnQueue` | `queueplay.go` 625: a new queue is picked up by the running watcher | a poll after the new folder's push and before `queueGen` moves reads the gap's STOP_STATE as the old track's and clears the new queue | `MCRace`, `TwoFolders`, `Events = {"play", "gapStop"}` |
| `PlayedQueueWatched` | `queueplay.go` 664 | a start between the two halves of `stopQueue` finds the slot taken and then loses that watcher; the window is a few instructions wide (`PlayedQueueWatchedHolds` leaves only this and the next row) | `MCRace`, `TwoFolders`, `Events = {"play", "halt"}` |
| `PlayedQueueWatched` | the same | a folder whose first push failed stays active without a watcher; the next skip plays a track nobody will follow with another (`queueplay.go` 599-602, 872-902) | `MCRace`, `FolderThenSkip`, `PushMayFail = TRUE`, `Events = {}` |
| `NeverStartedIsSkipped` | `queueplay.go` 324: "a track that never starts is skipped" | with STOP_STATE from the first poll on, `if !sawPlay { continue }` (1134) looks at no timeout | `MCRace`, `FairSpec`, `Requests = {r1}`, `TwoFolders`, `Events = {"refuse"}` |
| `CleanRingIsStored` | `recent.go` 362-364: Flush writes the pending changes | two overlapping flushes write their snapshots out of order: a play, a flush with its snapshot, a Clear, the other flush writes the empty ring, and then the first its older one; a cleared history is back in the file while the ring counts as clean | `MCRecentStore.cfg` |
| `TailAlwaysSurvives` | `recent.go` 363: "so the tail survives a clean reboot" | the timer's flush has its snapshot but has not written it; the shutdown's flush finds the ring clean and the agent exits | `MCRecentStore.cfg` |
| `OneKeyPerStream` without `met` | `presetsave.go` 400-429: at most one key | two saves of one stream for two keys both pass the check | `MCPreset2` (below), `Kinds = {"put"}` |
| `OneKeyPerStation` | `presetsave.go` 391: "A given playlist/station lives on at most ONE key" | the check compares URLs: a library track whose server has moved is saved at its new address while another key still has it at the old one, and the next heal of that key gives both the same URL | `MCPreset2`, `Requests = {r1}`, `Kinds = {"put"}` |
| `RenameOnlyRenames` | `presets_rename.go` 43 | the preset read is written back over a save or a delete in between | `MCPreset2`, `Kinds = {"put", "rename"}` |
| `ResavedKeyKept` | `queuepresetheal.go` 583 | the check and the write of the healed key are two steps | `MCPreset2`, `Kinds = {"put", "heal"}` |
| `PutWins` | `wlanguard.go` 356: "A user PUT during the backoff wins" | a PUT that has its credentials on the flash and waits for the mutex loses the radio to the guard's next attempt; one that fails clears the wish, and the guard returns without restoring the conf (359-363) | `MCWlanGuard.cfg`, `Requests = {r1}`, `MaxFailedBoots = 5`, `MaxAttempts = 3`, `MaxBoots = 0`, no `SYMMETRY` |
| `AlwaysTold` | `agent_admin.go` 1852-1856: a power loss must not keep the deletion and lose the marker | a delivery renames its engine, an agent upload's whole reclaim (marker, deletion) comes before the delivery's hash and sync are done, and the delivery then clears the marker (`agentupload.go` 379-396); or two deletions overlap and the one that found nothing takes the marker back: no engine and no record of it | `MCAgentUpdate.cfg` |
| `ArrivalOrderHolds` | `zones_stereo.go` 2893-2895: "a dissolve arriving between two member changes executes in arrival order" | a mutex keeps no order: the form that came later gets the lock first, and the dissolve, which stamps `zoneFormSeq` (2892) but never compares it, then takes the new group apart | `MCZoneGroup.cfg` |
| `AlwaysWhole` | `ota_receive.go` 74-78 | two uploads share one temporary name (`agent_admin.go` 860-873): the one that finishes first installs the other's half | `MCAgentUpdate.cfg`, `AppUploads = {app1, app2}`, `MaxInstalls = MaxRetries = MaxCuts = 0` |

`MCRace` is `MCPlaybackStarts.cfg` with `Requests = {r1, r2}`, `Gens <- FourGens`
and `DeadLimit = 3`; `KindsOf` is the definition named. Where requests are of
different kinds `SYMMETRY` is taken out. `MCPreset2` is `MCPresets.cfg` with
`InitialSets <- OnlyOne`, `WriteMayFail = MayTruncate = FALSE` and `MaxBoots = 0`.

Remarks on the zones, where the history variables show when a promise is off: a
group defined while another is being formed is lost when that form fails and puts
its document back; a removal of a member writes back a document it read before it
waited, and makes a form that waits stand down; a form that stands down for a
newer one that is then cancelled leaves neither; a dissolve that finds nothing
clears a group defined meanwhile; the
re-form after a play does not take the serial lock and may bring back a group
that is being dissolved (`zones_stereo.go` 2884, `zones_default_group.go` 17-18);
a look that is overtaken by a purge may clear a permanent group with the same
members.

## 6. Plan

Done, in this order: `DurableFile`, `AtomicFile`; `PlayQueue`; `QueuePlayback`;
`RecentStore`; `PresetStore`; `AlarmClock`; `WlanGuard`; `AgentUpdate`;
`ZoneGroup`; proofs about all of them.

Next, most important first:

1. `ResumeGuard`: what may play again after a power cut or a wake, and what must
   stay silent after a stop.
2. `PresetReconcile`: the firmware's preset list against `PresetStore`, with
   two writers and verification of writes.
3. `AlarmRing`: what a ringing alarm does (verification, retry, snooze, automatic
   switch-off) and the sleep timer; the races between a snooze, a dismissal and
   the retry (`alarms.go` 419-420, 476-506, `alarmsnooze.go` 676-730,
   `sleeptimer.go` 190-199).
4. The app's fleet update with its journal, on top of `AgentUpdate`.
5. `StreamProxy`: reconnects, held streams, resume of files; `BoxEvents`:
   dispatch and reconnects; group keys on top of `ZoneGroup`.

## 7. Not modelled

`PROJECT.json` ("components") lists every part. Not planned: parts that are
formatting, parsing or single reads and writes (cloud stand-in, web interface,
library, clients, display, logs, network identity), shell start-up scripts, the
desktop user interface, and go-librespot, which is another program. The parts of
`ZoneGroup`, `WlanGuard`, `AgentUpdate` and `AlarmClock` that are left out are
named in section 2. Most of the repository's lines are in these parts and in the
views and the installer of the desktop app.
