----------------------------- MODULE ZoneGroup ------------------------------
(***************************************************************************)
(* The multiroom group of one main speaker: the stored document with the   *)
(* permanent group it may have set aside (zones.go), the requests that     *)
(* form, define, dissolve and shrink a group (zones_stereo.go,             *)
(* zone_member.go, zonemirror.go), the re-form after a play and the        *)
(* reconcile tick (zones_default_group.go), and the doubt about a document *)
(* the speaker's firmware contradicts (resume_standby.go).                 *)
(*                                                                         *)
(* Everything between two answers of the network is one step.  The serial  *)
(* lock is a Go mutex: whoever waits may get it.  Groups are native (no    *)
(* mirror, no stereo pair), members follow what the main speaker says.     *)
(***************************************************************************)
EXTENDS Naturals

CONSTANTS
  Requests, Members,
  Look,            \* the reader of boxInZone
  None,
  MaxEvents        \* bound on faults, restarts and new plays together

ASSUME ZoneAssumption ==
  /\ Look \notin Requests /\ None \notin Requests /\ \A s \in SUBSET Members : s # None
  /\ MaxEvents \in Nat

Groups == [who : (SUBSET Members) \ {{}}, permanent : BOOLEAN]
NoGroup == [who |-> {}, permanent |-> FALSE]
Asks ==
  [kind : {"form"}, group : Groups] \cup
  [kind : {"define"}, group : {g \in Groups : g.permanent}] \cup
  [kind : {"dissolve", "forget"}, group : {NoGroup}] \cup
  [kind : {"remove", "purge"}, member : Members]

VARIABLES
  zone, standing,  \* the stored group; the permanent one set aside for it
  live,            \* the members of the firmware's zone, {} when there is none
  event,           \* the zone message of the speaker not yet read
  playing,         \* the main speaker plays
  doubt,           \* zoneDocDoubt: the members of the contradicted document
  dissolved,       \* zoneDissolvedAt is recent and no re-form was tried since
  seq, mine,       \* zoneFormSeq; the number each request took
  serial,          \* the holder of zoneFormSerial
  pc, ask,         \* each request's next step and what it asks for
  seen,            \* each request's copy of the document, the zone and kept
  kick,            \* mirrorKick is pending
  rpc, joiners,    \* the reconcile goroutine's next step and its members
  look,            \* boxInZone has read an empty zone
  events,          \* counted against the bound
  kept,            \* history: the permanent group the user last settled
  last,            \* history: the members asked for last, None if unsettled
  overtaken,       \* history: a form began before a dissolve asked for earlier
  contradicted,    \* history: the document was contradicted since it was stored
  touched,         \* history: readers whose copy is older than the document
  stale,           \* history: such a copy was written back
  swapped          \* history: a failed permanent form was over a temporary one

store == <<zone, standing>>
firmware == <<live, event, playing>>
request == <<pc, ask, mine, seen>>
player == <<kick, rpc, joiners, dissolved>>
history == <<kept, last, overtaken, contradicted, touched, stale, swapped>>
vars == <<store, firmware, doubt, seq, serial, request, player, look, events, history>>

Holders == Requests \cup {Look}
Driving == {"picture", "stored", "dropped", "setting", "restoring", "driving", "storing",
            "nothing"}

TypeOK ==
  /\ {zone, standing, kept} \subseteq Groups \cup {NoGroup}
  /\ standing # NoGroup => standing.permanent /\ zone # NoGroup /\ ~zone.permanent
  /\ live \subseteq Members /\ event \in {"joined", "gone", None}
  /\ doubt \in {None} \cup SUBSET Members /\ last \in {None} \cup SUBSET Members
  /\ {playing, dissolved, kick, look, contradicted, stale, swapped, overtaken}
       \subseteq BOOLEAN
  /\ seq \in Nat /\ mine \in [Requests -> Nat] /\ \A r \in Requests : mine[r] <= seq
  /\ serial \in Requests \cup {None}
  /\ pc \in [Requests -> Driving \cup {"idle", "settling", "waiting", "done"}]
  /\ \A r \in Requests : pc[r] \in Driving <=> serial = r
  /\ ask \in [Requests -> Asks \cup {None}]
  /\ rpc \in {"idle", "forming", "rejoining", "holding"} /\ joiners \subseteq Members
  /\ touched \subseteq Holders
-----------------------------------------------------------------------------
(* Mutant of SetAside: the permanent group is overwritten.                 *)
SetAsideNothing(g) == IF g.permanent THEN NoGroup ELSE standing

(* Store: a permanent group is set aside for one that is not, and comes    *)
(* back when that one ends.                                                *)
SetAside(g) ==
  IF g.permanent THEN NoGroup
  ELSE IF zone.permanent /\ standing = NoGroup THEN zone ELSE standing

Saved == IF zone.permanent THEN zone ELSE standing

(* Those that hold a copy of the document.                                 *)
Copies == {r \in Requests : pc[r] \in Driving \/ (pc[r] = "waiting" /\ ask[r].kind = "remove")}
            \cup (IF look THEN {Look} ELSE {})

Writes(h, z, st) ==
  /\ zone' = z /\ standing' = st
  /\ touched' = touched \cup (Copies \ {h})

(* Mutant of Clear: the group that came back stays set aside as well.      *)
ClearKeepsAside(h) == Writes(h, standing, standing)

Set(h, g) == Writes(h, g, SetAside(g))
Clear(h) == Writes(h, standing, NoGroup)
ForgetBoth(h) == Writes(h, NoGroup, NoGroup)

(* History: h writes with a copy in hand.                                  *)
WritesBack(h) == stale' = (stale \/ h \in touched)

ForgetDoubt == doubt' = None /\ contradicted' = FALSE

(* noteZoneDocDoubt.                                                       *)
NoteDoubt == doubt' = zone.who /\ contradicted' = TRUE

Already == zone # NoGroup /\ doubt = zone.who

(* The firmware's zone changes, and its message with it.                   *)
Goes(members) ==
  /\ live' = members
  /\ event' = IF members = {} /\ live # {} THEN "gone"
              ELSE IF members # live THEN "joined" ELSE event

Step(r, next) == pc' = [pc EXCEPT ![r] = next]

(* The answer; the turn ends, and what the request held with it.           *)
Answers(r) ==
  /\ Step(r, "done")
  /\ serial' = IF serial = r THEN None ELSE serial
  /\ ask' = [ask EXCEPT ![r] = None] /\ seen' = [seen EXCEPT ![r] = None]
  /\ mine' = [mine EXCEPT ![r] = 0]
Newest(r) == mine[r] = seq
Unsettles(r) == last' = IF Newest(r) THEN None ELSE last
(* A failure, a restart or a new play: counted together.                   *)
Happens == events < MaxEvents /\ events' = events + 1
-----------------------------------------------------------------------------
(* Any stored group, live or not, and any that was set aside for it.       *)
Init ==
  /\ zone \in Groups \cup {NoGroup} /\ standing \in Groups \cup {NoGroup}
  /\ standing # NoGroup => standing.permanent /\ zone # NoGroup /\ ~zone.permanent
  /\ live \in {{}, zone.who} /\ event = None /\ playing \in BOOLEAN
  /\ doubt = None /\ dissolved = FALSE
  /\ seq = 0 /\ mine = [r \in Requests |-> 0] /\ serial = None
  /\ pc = [r \in Requests |-> "idle"] /\ ask = [r \in Requests |-> None]
  /\ seen = [r \in Requests |-> None]
  /\ kick = FALSE /\ rpc = "idle" /\ joiners = {} /\ look = FALSE
  /\ events = 0
  /\ kept = Saved /\ last = None /\ contradicted = FALSE
  /\ touched = {} /\ stale = FALSE /\ swapped = FALSE /\ overtaken = FALSE

(* A form stamps the sequence and settles; a dissolve stamps it and waits  *)
(* for its turn; handleZoneMember reads the document first.                *)
Arrives(r, a) ==
  /\ pc[r] = "idle" /\ a.kind \in {"form", "dissolve", "forget", "remove"}
  /\ a.kind = "remove" => a.member \in zone.who
  /\ ask' = [ask EXCEPT ![r] = a]
  /\ seq' = seq + 1 /\ mine' = [mine EXCEPT ![r] = seq + 1]
  /\ Step(r, IF a.kind = "form" THEN "settling" ELSE "waiting")
  /\ seen' = [seen EXCEPT ![r] = IF a.kind = "remove" THEN [doc |-> zone] ELSE None]
  /\ last' = IF a.kind = "remove" \/ rpc # "idle" THEN None ELSE a.group.who
  /\ overtaken' = FALSE
  /\ UNCHANGED <<store, firmware, doubt, serial, player, look, events, kept, contradicted,
                 touched, stale, swapped>>

(* zoneFormDefineOnly: a permanent template, without the lock.             *)
Define(r, a) ==
  /\ pc[r] = "idle" /\ a.kind = "define"
  /\ Set(r, a.group) /\ ForgetDoubt
  /\ kept' = a.group
  /\ Step(r, "done")
  /\ UNCHANGED <<firmware, seq, mine, serial, ask, seen, player, look, events, last, stale,
                 swapped, overtaken>>

(* handleZonePurge: a peer dissolved its group; only what it was in and    *)
(* is not permanent goes.                                                  *)
Purge(r, a) ==
  /\ pc[r] = "idle" /\ a.kind = "purge"
  /\ a.member \in zone.who /\ ~zone.permanent
  /\ Clear(r) /\ contradicted' = FALSE
  /\ Step(r, "done")
  /\ UNCHANGED <<firmware, doubt, seq, mine, serial, ask, seen, player, look, events, kept, last,
                 stale, swapped, overtaken>>

(* zoneFormSettle: the caller gives up, or the settle is over.             *)
Cancelled(r) ==
  /\ pc[r] = "settling" /\ Happens
  /\ Answers(r) /\ Unsettles(r)
  /\ UNCHANGED <<store, firmware, doubt, seq, player, look, kept,
                 contradicted, touched, stale, swapped, overtaken>>

(* zoneFormSuperseded, on its turn.                                        *)
Superseded(r) ==
  /\ pc[r] = "settling" /\ serial = None /\ ~Newest(r)
  /\ Answers(r)
  /\ UNCHANGED <<store, firmware, doubt, seq, player, look, events, history>>

(* zoneFormProbeLeader.                                                    *)
LeaderSilent(r) ==
  /\ pc[r] = "settling" /\ serial = None /\ Newest(r) /\ Happens
  /\ Answers(r) /\ Unsettles(r)
  /\ UNCHANGED <<store, firmware, doubt, seq, player, look, kept,
                 contradicted, touched, stale, swapped, overtaken>>

(* A dissolve stamped before the form and still waiting for its turn: it   *)
(* never looks at zoneFormSeq, and will undo the form.                     *)
Overtakes(r) == \E o \in Requests \ {r} : pc[o] = "waiting" /\ ask[o].kind # "remove"

(* Mutant of FormBegins: the newest list is not asked for.                 *)
FormBeginsAnyway(r) ==
  /\ pc[r] = "settling" /\ serial = None
  /\ serial' = r /\ Step(r, "picture")
  /\ seen' = [seen EXCEPT ![r] = [doc |-> zone, live |-> live]]
  /\ overtaken' = (overtaken \/ Overtakes(r))
  /\ UNCHANGED <<store, firmware, doubt, seq, mine, ask, player, look, events, kept, last,
                 contradicted, touched, stale, swapped>>

(* zoneFormBeforePicture: the document and the live zone; when the zone    *)
(* cannot be read the document stands in for it.                           *)
FormBegins(r) ==
  /\ pc[r] = "settling" /\ serial = None /\ Newest(r)
  /\ serial' = r /\ Step(r, "picture")
  /\ \/ seen' = [seen EXCEPT ![r] = [doc |-> zone, live |-> live]] /\ UNCHANGED events
     \/ seen' = [seen EXCEPT ![r] = [doc |-> zone, live |-> zone.who]] /\ Happens
  /\ overtaken' = (overtaken \/ Overtakes(r))
  /\ UNCHANGED <<store, firmware, doubt, seq, mine, ask, player, look, kept, last,
                 contradicted, touched, stale, swapped>>

(* Mutant of Persists: the doubt about the old document stays.             *)
PersistsDoubted(r) ==
  LET g == ask[r].group IN
  /\ pc[r] = "picture"
  /\ Set(r, g) /\ contradicted' = FALSE /\ UNCHANGED doubt
  /\ kept' = IF g.permanent THEN g ELSE kept

(* zoneFormPersist ...                                                     *)
Persists(r) ==
  LET g == ask[r].group IN
  /\ pc[r] = "picture"
  /\ Set(r, g) /\ ForgetDoubt
  /\ kept' = IF g.permanent THEN g ELSE kept

Deferred(r) == ask[r].group.permanent /\ ~playing

FormPersists(r) ==
  /\ Persists(r) /\ ~Deferred(r)
  /\ seen' = [seen EXCEPT ![r] = [doc |-> @.doc, live |-> @.live, kept |-> kept]]
  /\ Step(r, "stored")
  /\ UNCHANGED <<firmware, seq, mine, serial, ask, player, look, events, last, stale, swapped,
                 overtaken>>

(* ... and zoneFormDeferPermanent: a permanent group waits for the music.  *)
FormDefers(r) ==
  /\ Persists(r) /\ Deferred(r)
  /\ Answers(r) /\ Unsettles(r)
  /\ UNCHANGED <<firmware, seq, player, look, events, stale, swapped, overtaken>>

(* restorePreviousZone, its first half: the document.                      *)
RestoresDocument(r) ==
  LET old == seen[r] IN
  /\ IF old.doc = NoGroup THEN Clear(r) ELSE Set(r, old.doc)
  /\ ForgetDoubt /\ WritesBack(r)
  /\ kept' = IF r \in touched THEN kept ELSE old.kept
  /\ swapped' = (swapped \/ (ask[r].group.permanent /\ old.doc # NoGroup /\ ~old.doc.permanent))
  /\ Step(r, "restoring")

(* zoneFormWakeMaster: the speaker stays silent.                           *)
WakeFails(r) ==
  /\ pc[r] = "stored" /\ Happens
  /\ RestoresDocument(r)
  /\ UNCHANGED <<firmware, seq, mine, serial, ask, seen, player, look, last, overtaken>>

(* zoneFormDriveNative: the members that are to go.                        *)
FormDrops(r) ==
  LET want == ask[r].group.who IN
  /\ pc[r] = "stored"
  /\ seen' = [seen EXCEPT ![r] = [doc |-> @.doc, live |-> @.live, kept |-> @.kept,
                                  had |-> live # {}, add |-> want \ live]]
  /\ \/ Goes(live \cap want) /\ UNCHANGED <<events, last>>
     \/ ~(live \subseteq want) /\ Happens /\ Unsettles(r) /\ UNCHANGED <<live, event>>
  /\ Step(r, "dropped")
  /\ UNCHANGED <<store, playing, doubt, seq, mine, serial, ask, player, look,
                 kept, contradicted, touched, stale, swapped, overtaken>>

(* A zone that was there takes the new members.                            *)
FormAdds(r) ==
  /\ pc[r] = "dropped" /\ seen[r].had
  /\ Goes(IF seen[r].add = {} THEN live ELSE live \cup seen[r].add)
  /\ Answers(r)
  /\ UNCHANGED <<store, playing, doubt, seq, player, look, events, history>>

(* No zone was there, or no new member got in.                             *)
FormStartsOver(r) ==
  /\ pc[r] = "dropped" /\ (seen[r].had => seen[r].add # {})
  /\ Step(r, "setting")
  /\ UNCHANGED <<store, firmware, doubt, seq, mine, serial, ask, seen, player, look, events,
                 history>>

FormSets(r) ==
  /\ pc[r] = "setting"
  /\ Goes(ask[r].group.who)
  /\ Answers(r)
  /\ UNCHANGED <<store, playing, doubt, seq, player, look, events, history>>

SetZoneFails(r) ==
  /\ pc[r] = "setting" /\ Happens
  /\ RestoresDocument(r)
  /\ UNCHANGED <<firmware, seq, mine, serial, ask, seen, player, look, last, overtaken>>

(* restorePreviousZone, its second half: the group that played before.     *)
FormRestores(r) ==
  /\ pc[r] = "restoring"
  /\ \/ Goes(IF live = {} THEN seen[r].live ELSE live) /\ UNCHANGED events
     \/ live = {} /\ seen[r].live # {} /\ Happens /\ UNCHANGED <<live, event>>
  /\ Answers(r) /\ Unsettles(r)
  /\ UNCHANGED <<store, playing, doubt, seq, player, look, kept,
                 contradicted, touched, stale, swapped, overtaken>>
-----------------------------------------------------------------------------
(* handleZoneDissolve, with or without forget=1.                           *)
DissolveBegins(r) ==
  /\ pc[r] = "waiting" /\ ask[r].kind \in {"dissolve", "forget"} /\ serial = None
  /\ serial' = r
  /\ Step(r, IF zone = NoGroup /\ live = {} THEN "nothing" ELSE "driving")
  /\ UNCHANGED <<store, firmware, doubt, seq, mine, ask, seen, player, look, events, history>>

(* No document and no zone: the document is cleared all the same.          *)
DissolveNothing(r) ==
  /\ pc[r] = "nothing"
  /\ Clear(r) /\ WritesBack(r) /\ contradicted' = FALSE
  /\ Answers(r)
  /\ UNCHANGED <<firmware, doubt, seq, player, look, events, kept, last, swapped, overtaken>>

(* The removals and the escalation, until the zone is empty or stays.      *)
DissolveDrives(r) ==
  /\ pc[r] = "driving"
  /\ \/ Goes({}) /\ UNCHANGED <<events, last>>
     \/ \E rest \in (SUBSET live) \ {{}} : Goes(rest) /\ Happens /\ Unsettles(r)
  /\ Step(r, "storing")
  /\ UNCHANGED <<store, playing, doubt, seq, mine, serial, ask, seen, player, look,
                 kept, contradicted, touched, stale, swapped, overtaken>>

DissolveStores(r) ==
  LET forget == ask[r].kind = "forget" IN
  /\ pc[r] = "storing"
  /\ IF forget THEN ForgetBoth(r)
     ELSE IF zone.permanent THEN UNCHANGED <<store, touched>>
     ELSE Clear(r)
  /\ kept' = IF forget THEN NoGroup ELSE kept
  /\ contradicted' = (contradicted /\ ~forget /\ zone.permanent)
  /\ Answers(r)
  /\ UNCHANGED <<firmware, doubt, seq, player, look, events, last, stale, swapped, overtaken>>

(* handleZoneMember, on its turn, with the document it read on arrival.    *)
RemoveMember(r) ==
  LET doc == seen[r].doc
      rest == [doc EXCEPT !.who = @ \ {ask[r].member}] IN
  /\ pc[r] = "waiting" /\ ask[r].kind = "remove" /\ serial = None
  /\ IF rest.who = {} THEN Clear(r) ELSE Set(r, rest)
  /\ WritesBack(r) /\ contradicted' = FALSE
  /\ kept' = IF ~doc.permanent THEN kept ELSE IF rest.who = {} THEN NoGroup ELSE rest
  /\ Answers(r)
  /\ UNCHANGED <<firmware, doubt, seq, player, look, events, last, swapped, overtaken>>
-----------------------------------------------------------------------------
(* A play starts, and kicks a re-form unless nothing is stored.            *)
PlayStarts ==
  /\ Happens
  /\ playing' = TRUE /\ kick' = (kick \/ zone # NoGroup)
  /\ UNCHANGED <<store, live, event, doubt, seq, serial, request, rpc, joiners, dissolved, look,
                 history>>

PlayStops ==
  /\ playing /\ playing' = FALSE
  /\ UNCHANGED <<store, live, event, doubt, seq, serial, request, player, look, events, history>>

Begins(step, members) == rpc' = step /\ joiners' = members /\ last' = None
Rests == rpc' = "idle" /\ joiners' = {}

(* formDefaultGroupOnPlay; nothing within 30 s of the one before.          *)
KickForms ==
  /\ rpc = "idle" /\ kick /\ kick' = FALSE
  /\ \/ zone.permanent /\ playing /\ Begins("forming", zone.who)
     \/ UNCHANGED <<rpc, joiners, last>>
  /\ UNCHANGED <<store, firmware, doubt, seq, serial, request, dissolved, look, events, kept,
                 contradicted, touched, stale, swapped, overtaken>>

(* The members that are free to join; a zone that carries them is left.    *)
KickSets ==
  /\ rpc = "forming"
  /\ \E free \in SUBSET joiners :
       \/ free \subseteq live /\ Rests /\ UNCHANGED <<live, event, events>>
       \/ ~(free \subseteq live) /\ Goes(free) /\ rpc' = "holding" /\ joiners' = free
            /\ UNCHANGED events
       \/ ~(free \subseteq live) /\ Happens /\ Rests /\ UNCHANGED <<live, event>>
  /\ UNCHANGED <<store, playing, doubt, seq, serial, request, kick, dissolved, look, history>>

(* holdDefaultGroupOnce, eight seconds later.                              *)
HoldLooks ==
  /\ rpc = "holding" /\ Rests
  /\ \/ (joiners \subseteq live \/ ~playing) /\ UNCHANGED events
     \/ Happens
  /\ UNCHANGED <<store, firmware, doubt, seq, serial, request, kick, dissolved, look, history>>

HoldSets ==
  /\ rpc = "holding" /\ Rests
  /\ ~(joiners \subseteq live) /\ playing
  /\ Goes(joiners)
  /\ UNCHANGED <<store, playing, doubt, seq, serial, request, kick, dissolved, look, events,
                 history>>

(* rejoinMissingMembers: the zone is there, a member of it is not.         *)
TickRejoins ==
  /\ rpc = "idle" /\ zone.permanent /\ playing /\ live # {}
  /\ \E back \in (SUBSET (zone.who \ live)) \ {{}} : Begins("rejoining", live \cup back)
  /\ UNCHANGED <<store, firmware, doubt, seq, serial, request, kick, dissolved, look, events, kept,
                 contradicted, touched, stale, swapped, overtaken>>

(* reformAfterMemberReboot: the firmware lost the zone a while ago.        *)
TickReforms ==
  /\ rpc = "idle" /\ zone.permanent /\ dissolved /\ live = {}
  /\ dissolved' = FALSE
  /\ \E back \in (SUBSET zone.who) \ {{}} : Begins("rejoining", back)
  /\ UNCHANGED <<store, firmware, doubt, seq, serial, request, kick, look, events, kept,
                 contradicted, touched, stale, swapped, overtaken>>

TickSets ==
  /\ rpc = "rejoining" /\ Rests
  /\ \/ Goes(joiners) /\ UNCHANGED events
     \/ Happens /\ UNCHANGED <<live, event>>
  /\ UNCHANGED <<store, playing, doubt, seq, serial, request, kick, dissolved, look, history>>
-----------------------------------------------------------------------------
FirmwareDissolves ==
  /\ live # {} /\ Happens /\ Goes({}) /\ last' = None
  /\ UNCHANGED <<store, playing, doubt, seq, serial, request, player, look, kept,
                 contradicted, touched, stale, swapped, overtaken>>

(* NoteBoxZoneState.                                                       *)
NoteBoxZoneState ==
  /\ event # None /\ event' = None
  /\ IF event = "joined" THEN ForgetDoubt /\ UNCHANGED dissolved
     ELSE IF zone # NoGroup THEN NoteDoubt /\ dissolved' = TRUE
     ELSE UNCHANGED <<doubt, contradicted, dissolved>>
  /\ UNCHANGED <<store, live, playing, seq, serial, request, kick, rpc, joiners, look, events, kept,
                 last, touched, stale, swapped, overtaken>>

(* boxInZone asks the firmware about a document that is not permanent ...  *)
WakeLooks ==
  /\ ~look /\ zone # NoGroup /\ ~zone.permanent
  /\ IF live = {}
     THEN look' = TRUE /\ touched' = touched \ {Look} /\ UNCHANGED <<doubt, contradicted>>
     ELSE ForgetDoubt /\ UNCHANGED <<look, touched>>
  /\ UNCHANGED <<store, firmware, seq, serial, request, player, events, kept, last, stale,
                 swapped, overtaken>>

(* ... and gives it up once it has been contradicted before.               *)
WakeNotes ==
  /\ look /\ look' = FALSE
  /\ \/ /\ ~Already
        /\ IF zone = NoGroup THEN UNCHANGED <<doubt, contradicted>> ELSE NoteDoubt
        /\ touched' = touched \ {Look} /\ UNCHANGED <<store, stale>>
     \/ Already /\ Clear(Look) /\ WritesBack(Look) /\ ForgetDoubt
  /\ UNCHANGED <<firmware, seq, serial, request, player, events, kept, last, swapped, overtaken>>

(* The agent starts again, with or without the speaker.                    *)
Restart ==
  /\ Happens
  /\ \/ UNCHANGED <<live, playing>>
     \/ live' = {} /\ playing' = FALSE
  /\ event' = None /\ doubt' = None /\ contradicted' = FALSE
  /\ seq' = 0 /\ mine' = [r \in Requests |-> 0] /\ serial' = None
  /\ pc' = [r \in Requests |-> IF pc[r] = "idle" THEN "idle" ELSE "done"]
  /\ kick' = FALSE /\ Rests /\ dissolved' = FALSE /\ look' = FALSE
  /\ ask' = [r \in Requests |-> None] /\ seen' = [r \in Requests |-> None]
  /\ last' = None /\ overtaken' = FALSE /\ touched' = {}
  /\ UNCHANGED <<store, kept, stale, swapped>>
-----------------------------------------------------------------------------
Comes(r) == \E a \in Asks : Arrives(r, a) \/ Define(r, a) \/ Purge(r, a)

FormStep(r) ==
  \/ Superseded(r) \/ LeaderSilent(r) \/ FormBegins(r) \/ FormPersists(r) \/ FormDefers(r)
  \/ WakeFails(r) \/ FormDrops(r) \/ FormAdds(r) \/ FormStartsOver(r) \/ FormSets(r)
  \/ SetZoneFails(r) \/ FormRestores(r)

DissolveStep(r) ==
  \/ DissolveBegins(r) \/ DissolveNothing(r) \/ DissolveDrives(r) \/ DissolveStores(r)
  \/ RemoveMember(r)

Reconcile ==
  \/ KickForms \/ KickSets \/ HoldLooks \/ HoldSets
  \/ TickRejoins \/ TickReforms \/ TickSets

Next ==
  \/ \E r \in Requests : Comes(r) \/ Cancelled(r) \/ FormStep(r) \/ DissolveStep(r)
  \/ PlayStarts \/ PlayStops \/ Reconcile
  \/ FirmwareDissolves \/ NoteBoxZoneState
  \/ WakeLooks \/ WakeNotes \/ Restart

Spec == Init /\ [][Next]_vars
-----------------------------------------------------------------------------
(* The permanent group the speaker keeps, in use or set aside, is the one  *)
(* the user settled last: a temporary group over it, a form that failed, a *)
(* dissolve, a member taken out of another, a speaker that never formed it *)
(* and a restart leave it (Set, Clear and Forget of zones.go, "A permanent *)
(* group is never lost to one that is not").  Not when a copy of the       *)
(* document older than another request's change was written back, nor      *)
(* after a permanent group over a temporary one failed.                    *)
SavedIsAsked == ~stale /\ ~swapped => Saved = kept

(* The document goes back to what it was when a form fails                 *)
(* (restorePreviousZone).                                                  *)
RestoreIsWhole == ~stale => Saved = kept

(* When every request is answered, the zone is the members asked for last  *)
(* (zoneFormSeq and zoneFormSerial).  The order of the lock matters in one *)
(* case: a form that began while a dissolve asked for before it still      *)
(* waited is undone by it, wholly or, when the dissolve fails, in part;    *)
(* what is left are members of the newest list, never of an older one.     *)
(* Not when the newest request failed, was given up, deferred or takes one *)
(* member out, and not after a re-form, a restart or a zone the firmware   *)
(* dissolved.                                                              *)
NewestWins ==
  (\A r \in Requests : pc[r] \in {"idle", "done"}) /\ last # None =>
    IF overtaken THEN live \subseteq last ELSE live = last

(* The stronger claim, that "a dissolve arriving between two member        *)
(* changes executes in arrival order" (handleZoneDissolve), so that the    *)
(* newest list is what the zone is in every order of the lock.  It does    *)
(* not hold of the code and no run checks it.                              *)
ArrivalOrderHolds ==
  (\A r \in Requests : pc[r] \in {"idle", "done"}) /\ last # None => live = last

(* A stored group is given up on the second contradiction, never the       *)
(* first, and a contradiction of another document does not count           *)
(* (zoneDocDoubt).                                                         *)
TwoLooks == [][look /\ ~look' /\ zone' # zone => contradicted \/ stale']_vars
=============================================================================
