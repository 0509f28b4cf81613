---------------------------- MODULE PresetStore ----------------------------
(***************************************************************************)
(* The preset keys: internal/presets (the store in RAM, presets.json and   *)
(* its backup) together with the requests of internal/webui that change    *)
(* it.  The store's mutex covers one Get, one change or one Save at a      *)
(* time; a request is several of them with nothing held in between, and    *)
(* the writes to flash take place under the read lock, which other readers *)
(* share.  The agent may be restarted and the power cut at every step.     *)
(*                                                                         *)
(* A preset is the stream URL it plays and whether it was renamed.  A      *)
(* station has one stream; a track of a music library has one for every    *)
(* address its server was ever at, and a heal takes a key from one to      *)
(* another.  A content of the files carries the number of the change that  *)
(* made it.                                                                *)
(***************************************************************************)
EXTENDS Naturals, FiniteSets, Functions

CONSTANTS
  Slots, Stations,
  Streams, StationOf,   \* the stream URLs, and what each one plays
  NoPreset,      \* nothing on this key
  Absent, Torn,  \* no such file; a file of zero bytes
  Requests,      \* requests handled at the same time
  Kinds,         \* what they ask for
  InitialSets,   \* what the keys hold when the behaviour begins
  WriteMayFail,  \* does WriteFile ever report an error
  MayTruncate,   \* can a power cut leave presets.json at zero bytes
  MaxChanges, MaxBoots   \* bounds

Preset == [stream : Streams, name : {"given", "renamed"}]
KeySet == [Slots -> Preset \cup {NoPreset}]
Content == [keys : KeySet, rev : 0..MaxChanges]

ASSUME PresetAssumption ==
  /\ StationOf \in [Streams -> Stations]
  /\ NoPreset \notin Preset
  /\ {Absent, Torn} \cap Content = {} /\ Absent # Torn
  /\ InitialSets \subseteq KeySet
  /\ \A k \in InitialSets : \A s, q \in Slots :
       s # q /\ k[s] # NoPreset /\ k[q] # NoPreset => k[s].stream # k[q].stream
  /\ {WriteMayFail, MayTruncate} \subseteq BOOLEAN
  /\ MaxChanges \in Nat /\ MaxBoots \in Nat

VARIABLES
  keys, rev,     \* the store: what each key holds, and the change that made it
  changes,       \* changes made so far
  pc, op, seen,  \* the requests: next step, what was asked, what was read
  bytes,         \* bytes[r]: the content that r's Save writes
  primaryNow, primarySaved,   \* presets.json
  backupNow, backupSaved,     \* presets.json.bak
  boots,
  acked,         \* history: the change of the last Save that succeeded
  backed,        \* history: the change of the last backup that succeeded
  kept,          \* history: stations saved and not removed by a request since
  moved,         \* history: the streams that a heal put on a key
  met            \* history: two requests were under way at once

store == <<keys, rev, changes>>
files == <<primaryNow, primarySaved, backupNow, backupSaved>>
history == <<acked, backed, kept, moved>>
vars == <<store, files, pc, op, seen, bytes, boots, history, met>>

Primary == INSTANCE DurableFile WITH
  current <- primaryNow, saved <- primarySaved, Data <- Content
Backup == INSTANCE DurableFile WITH
  current <- backupNow, saved <- backupSaved, Data <- Content

Steps == {"idle", "read", "check", "change", "save",
          "primary", "syncPrimary", "backup", "syncBackup"}

(* The steps of Save, which holds the read lock throughout.                *)
Saving == {"primary", "syncPrimary", "backup", "syncBackup"}

(* What a request can ask: put streams on keys (PUT of a key, of the whole *)
(* set, a held hardware key, which may become a "swap"), rename a key,     *)
(* delete it, move it to another one; or point a key at the address its    *)
(* music server answers at now, in the background sweep ("heal") or, with  *)
(* no second look at the key, on a key press or a sighting of the server   *)
(* ("press").                                                              *)
Payloads == UNION {[S -> Streams] : S \in (SUBSET Slots) \ {{}}}
Heals == {"heal", "press"}
Ops ==
  [kind : {"put"}, payload : Payloads]
  \cup [kind : {"hold"}, slot : Slots, stream : Streams]
  \cup [kind : {"rename", "delete"}, slot : Slots]
  \cup [kind : Heals, slot : Slots, to : Streams]
  \cup [kind : {"move"}, slot : Slots, other : Slots]

TypeOK ==
  /\ keys \in KeySet
  /\ rev \in 0..MaxChanges /\ changes \in 0..MaxChanges
  /\ pc \in [Requests -> Steps]
  /\ seen \in [Requests -> Preset \cup {NoPreset}]
  /\ bytes \in [Requests -> Content \cup {Absent}]
  /\ {primaryNow, primarySaved, backupNow, backupSaved}
       \subseteq Content \cup {Absent, Torn}
  /\ acked \in 0..MaxChanges /\ backed \in 0..MaxChanges
  /\ kept \subseteq Stations /\ moved \subseteq Streams /\ met \in BOOLEAN
-----------------------------------------------------------------------------
(* Sets of keys.                                                           *)

Held(k, s) == k[s] # NoPreset
StationsAt(k, S) == {StationOf[k[s].stream] : s \in {t \in S : Held(k, t)}}
StationsOn(k) == StationsAt(k, Slots)
IsEmpty(k) == StationsOn(k) = {}
SlotsWith(k, u) == {s \in Slots : Held(k, s) /\ k[s].stream = u}

(* SetSlot and SetSlots.                                                   *)
Put(k, payload) ==
  [s \in Slots |-> IF s \in DOMAIN payload
                     THEN [stream |-> payload[s], name |-> "given"] ELSE k[s]]

(* Mutant of Moved: the first of two writes.                               *)
MovedHalf(k, from, to, p) == [k EXCEPT ![from] = NoPreset]

Moved(k, from, to, p) == [k EXCEPT ![from] = NoPreset, ![to] = p]

Swapped(k, a, b) == [k EXCEPT ![a] = k[b], ![b] = k[a]]

(* The keys that already have a stream of the request; keys the request    *)
(* rewrites do not count, nor does the same track at another address.      *)
Collisions(k, payload) ==
  {s \in Slots \ DOMAIN payload : Held(k, s) /\ k[s].stream \in Range(payload)}

(* Mutant of Refused: only the set itself is looked at.                    *)
RefusedInside(k, payload) == ~IsInjective(payload)

(* A request that would put a stream on a second key is refused.           *)
Refused(k, payload) == ~IsInjective(payload) \/ Collisions(k, payload) # {}

Usable(c) == c \notin {Absent, Torn}

(* Mutant of Loaded: an empty set counts as lost.                          *)
LoadedIfAny(primary, backup) ==
  IF Usable(primary) /\ ~IsEmpty(primary.keys) THEN primary
  ELSE IF Usable(backup) THEN backup
  ELSE IF Usable(primary) THEN primary
  ELSE [keys |-> [s \in Slots |-> NoPreset], rev |-> 0]

(* Load: a primary that parses is authoritative even when it is empty.     *)
Loaded(primary, backup) ==
  IF Usable(primary) THEN primary
  ELSE IF Usable(backup) /\ ~IsEmpty(backup.keys) THEN backup
  ELSE [keys |-> [s \in Slots |-> NoPreset], rev |-> 0]
-----------------------------------------------------------------------------
(* A speaker whose keys were saved by this agent.                          *)
Init ==
  /\ keys \in InitialSets
  /\ rev = 0 /\ changes = 0
  /\ pc = [r \in Requests |-> "idle"]
  /\ op = [r \in Requests |-> [kind |-> "none"]]
  /\ seen = [r \in Requests |-> NoPreset]
  /\ bytes = [r \in Requests |-> Absent]
  /\ primaryNow = IF IsEmpty(keys) THEN Absent ELSE [keys |-> keys, rev |-> 0]
  /\ primarySaved = primaryNow
  /\ backupNow = primaryNow /\ backupSaved = primaryNow
  /\ boots = 0
  /\ acked = 0 /\ backed = 0
  /\ kept = StationsOn(keys) /\ moved = {} /\ met = FALSE

GoTo(r, s) == pc' = [pc EXCEPT ![r] = s]

(* The request is over.                                                    *)
Finish(r) ==
  /\ GoTo(r, "idle")
  /\ op' = [op EXCEPT ![r] = [kind |-> "none"]]
  /\ seen' = [seen EXCEPT ![r] = NoPreset]

(* A request arrives (handlePresetSlot, handlePresetsBulkPut,              *)
(* handlePresetMove, handlePresetRename, HoldSaveLive, the heal of a key). *)
Arrive(r, o) ==
  /\ pc[r] = "idle"
  /\ o.kind \in Kinds
  /\ o.kind = "move" => o.slot # o.other
  /\ changes < MaxChanges
  /\ op' = [op EXCEPT ![r] = o]
  /\ met' = (met \/ \E q \in Requests : pc[q] # "idle")
  /\ GoTo(r, IF o.kind = "delete" THEN "change" ELSE "read")
  /\ UNCHANGED <<seen, bytes, store, files, boots, history>>

(* The stream is looked for among all presets.                             *)
LookForPut(r) ==
  /\ pc[r] = "read" /\ op[r].kind = "put"
  /\ IF Refused(keys, op[r].payload)
       THEN Finish(r) ELSE GoTo(r, "change") /\ UNCHANGED <<op, seen>>
  /\ UNCHANGED <<bytes, store, files, boots, history>>

(* holdSaveOrSwap: a held key takes the station over from the key that the *)
(* refusal names.                                                          *)
LookForHold(r) ==
  LET o == op[r]
      payload == [s \in {o.slot} |-> o.stream]
  IN
  /\ pc[r] = "read" /\ o.kind = "hold"
  /\ \/ /\ ~Refused(keys, payload)
        /\ op' = [op EXCEPT ![r] = [kind |-> "put", payload |-> payload]]
        /\ GoTo(r, "change")
     \/ \E s \in Collisions(keys, payload) :
          /\ op' = [op EXCEPT ![r] = [kind |-> "swap", slot |-> o.slot, other |-> s]]
          /\ GoTo(r, "check")
  /\ UNCHANGED <<seen, bytes, store, files, boots, history>>

(* There is something to do: the key is not empty, and a track to heal is  *)
(* not where its server answers.                                           *)
Due(o, p) ==
  /\ p # NoPreset
  /\ o.kind \in Heals => StationOf[o.to] = StationOf[p.stream] /\ o.to # p.stream

(* Get of the key that is renamed, healed or moved.  A rename may also ask *)
(* for the name the key has.                                               *)
ReadKey(r) ==
  LET o == op[r]
      p == keys[o.slot]
  IN
  /\ pc[r] = "read" /\ o.kind \in {"rename", "move"} \cup Heals
  /\ \/ /\ Due(o, p)
        /\ seen' = [seen EXCEPT ![r] = p]
        /\ GoTo(r, IF o.kind = "heal" THEN "check" ELSE "change")
        /\ UNCHANGED op
     \/ /\ ~(Due(o, p) /\ (o.kind = "rename" => p.name = "given"))
        /\ Finish(r)
  /\ UNCHANGED <<bytes, store, files, boots, history>>

(* holdSwapKeys: the other key must still hold something.                  *)
CheckSwap(r) ==
  /\ pc[r] = "check" /\ op[r].kind = "swap"
  /\ IF Held(keys, op[r].other)
       THEN GoTo(r, "change") /\ UNCHANGED <<op, seen>> ELSE Finish(r)
  /\ UNCHANGED <<bytes, store, files, boots, history>>

(* storeHealedKey of the sweep: a key that changed while its address was   *)
(* being looked up is left as it is.                                       *)
CheckHeal(r) ==
  /\ pc[r] = "check" /\ op[r].kind = "heal"
  /\ IF keys[op[r].slot] = seen[r]
       THEN GoTo(r, "change") /\ UNCHANGED <<op, seen>> ELSE Finish(r)
  /\ UNCHANGED <<bytes, store, files, boots, history>>
-----------------------------------------------------------------------------
(* The change, under the store's mutex.                                    *)

Changed(r) ==
  LET o == op[r] IN
  CASE o.kind = "put" -> Put(keys, o.payload)
    [] o.kind = "rename" -> [keys EXCEPT ![o.slot] = [seen[r] EXCEPT !.name = "renamed"]]
    [] o.kind \in Heals -> [keys EXCEPT ![o.slot] = [seen[r] EXCEPT !.stream = o.to]]
    [] o.kind = "delete" -> [keys EXCEPT ![o.slot] = NoPreset]
    [] o.kind = "move" -> Moved(keys, o.slot, o.other, seen[r])
    [] o.kind = "swap" -> Swapped(keys, o.slot, o.other)

(* The keys whose content the request means to replace.                    *)
Targets(r) ==
  LET o == op[r] IN
  CASE o.kind = "put" -> DOMAIN o.payload
    [] o.kind \in {"rename", "delete"} \cup Heals -> {o.slot}
    [] o.kind = "move" -> {o.other} \cup (IF keys[o.slot] = seen[r] THEN {} ELSE {o.slot})
    [] o.kind = "swap" -> {}

(* Mutant of Change: without waiting for the Saves that run.               *)
ChangeDuringSave(r) ==
  /\ pc[r] = "change"
  /\ keys' = Changed(r)
  /\ changes' = changes + 1 /\ rev' = changes + 1
  /\ changes < MaxChanges
  /\ kept' = kept \ StationsAt(keys, Targets(r))
  /\ moved' = moved \cup (IF op[r].kind \in Heals THEN {op[r].to} ELSE {})
  /\ GoTo(r, "save")
  /\ UNCHANGED <<op, seen, bytes, files, boots, acked, backed>>

Change(r) ==
  /\ pc[r] = "change"
  /\ \A q \in Requests : pc[q] \notin Saving
  /\ keys' = Changed(r)
  /\ changes < MaxChanges
  /\ changes' = changes + 1 /\ rev' = changes + 1
  /\ kept' = kept \ StationsAt(keys, Targets(r))
  /\ moved' = moved \cup (IF op[r].kind \in Heals THEN {op[r].to} ELSE {})
  /\ GoTo(r, "save")
  /\ UNCHANGED <<op, seen, bytes, files, boots, acked, backed>>
-----------------------------------------------------------------------------
(* Save, under the read lock: presets.json, then its backup unless the set *)
(* is empty.  A failed primary write ends the request with an error.       *)

Save(r) ==
  /\ pc[r] = "save"
  /\ bytes' = [bytes EXCEPT ![r] = [keys |-> keys, rev |-> rev]]
  /\ GoTo(r, "primary")
  /\ UNCHANGED <<op, seen, store, files, boots, history>>

EndSave(r) ==
  /\ Finish(r)
  /\ bytes' = [bytes EXCEPT ![r] = Absent]

WritePrimary(r) ==
  /\ pc[r] = "primary"
  /\ \A q \in Requests : pc[q] # "syncPrimary"
  /\ Primary!Replace(bytes[r])
  /\ GoTo(r, "syncPrimary")
  /\ UNCHANGED <<op, seen, bytes, store, backupNow, backupSaved, boots, history>>

PrimaryFails(r) ==
  /\ WriteMayFail
  /\ pc[r] = "primary"
  /\ EndSave(r)
  /\ UNCHANGED <<store, files, boots, history>>

(* Mutant of SyncPrimary: any set is backed up.                            *)
SyncPrimaryBackupAll(r) ==
  /\ pc[r] = "syncPrimary"
  /\ Primary!Persist
  /\ acked' = bytes[r].rev
  /\ kept' = kept \cup StationsOn(bytes[r].keys)
  /\ GoTo(r, "backup")
  /\ UNCHANGED <<op, seen, bytes, store, backupNow, backupSaved, boots, backed, moved>>

SyncPrimary(r) ==
  /\ pc[r] = "syncPrimary"
  /\ Primary!Persist
  /\ acked' = bytes[r].rev
  /\ kept' = kept \cup StationsOn(bytes[r].keys)
  /\ IF IsEmpty(bytes[r].keys)
       THEN EndSave(r) ELSE GoTo(r, "backup") /\ UNCHANGED <<op, seen, bytes>>
  /\ UNCHANGED <<store, backupNow, backupSaved, boots, backed, moved>>

WriteBackup(r) ==
  /\ pc[r] = "backup"
  /\ \A q \in Requests : pc[q] # "syncBackup"
  /\ Backup!Replace(bytes[r])
  /\ GoTo(r, "syncBackup")
  /\ UNCHANGED <<op, seen, bytes, store, primaryNow, primarySaved, boots, history>>

BackupFails(r) ==
  /\ WriteMayFail
  /\ pc[r] = "backup"
  /\ EndSave(r)
  /\ UNCHANGED <<store, files, boots, history>>

SyncBackup(r) ==
  /\ pc[r] = "syncBackup"
  /\ Backup!Persist
  /\ backed' = bytes[r].rev
  /\ EndSave(r)
  /\ UNCHANGED <<store, primaryNow, primarySaved, boots, acked, kept, moved>>
-----------------------------------------------------------------------------
(* The agent starts: Load, which also rewrites a primary it had to recover *)
(* from the backup, and may fail to.                                       *)
Boot(primary, backup) ==
  LET content == Loaded(primary, backup)
      restored == IF content # primary /\ content = backup /\ ~IsEmpty(content.keys)
                    THEN {primary, content} ELSE {primary}
  IN
  /\ boots < MaxBoots
  /\ boots' = boots + 1
  /\ keys' = content.keys /\ rev' = content.rev
  /\ primaryNow' \in (IF WriteMayFail THEN restored
                      ELSE IF content \in restored THEN {content} ELSE restored)
  /\ pc' = [r \in Requests |-> "idle"]
  /\ op' = [r \in Requests |-> [kind |-> "none"]]
  /\ seen' = [r \in Requests |-> NoPreset]
  /\ bytes' = [r \in Requests |-> Absent]
  /\ UNCHANGED changes

Restart ==
  /\ Boot(primaryNow, backupNow)
  /\ primarySaved' = IF primaryNow' = primaryNow THEN primarySaved ELSE primaryNow'
  /\ UNCHANGED <<backupNow, backupSaved, history>>

PowerCut ==
  /\ Boot(primarySaved, backupSaved)
  /\ primarySaved' = primaryNow'
  /\ backupNow' = backupSaved
  /\ UNCHANGED <<backupSaved, history>>

(* The cut that left presets.json at zero bytes: what was acknowledged is  *)
(* then what the backup has.                                               *)
PowerCutTruncates ==
  /\ MayTruncate
  /\ Usable(primarySaved)
  /\ Boot(Torn, backupSaved)
  /\ primarySaved' = primaryNow'
  /\ backupNow' = backupSaved
  /\ acked' = rev'
  /\ kept' = kept \cap StationsOn(keys')
  /\ UNCHANGED <<backupSaved, backed, moved>>

RequestStep(r) ==
  /\ \/ LookForPut(r) \/ LookForHold(r) \/ ReadKey(r) \/ CheckSwap(r) \/ CheckHeal(r)
     \/ Change(r) \/ Save(r)
     \/ WritePrimary(r) \/ PrimaryFails(r) \/ SyncPrimary(r)
     \/ WriteBackup(r) \/ BackupFails(r) \/ SyncBackup(r)
  /\ UNCHANGED met

Next ==
  \/ \E r \in Requests : RequestStep(r) \/ \E o \in Ops : Arrive(r, o)
  \/ (Restart \/ PowerCut \/ PowerCutTruncates) /\ UNCHANGED met

Spec == Init /\ [][Next]_vars
-----------------------------------------------------------------------------
(* Saves overlap, but a change waits for all of them: each writes exactly  *)
(* what the store holds, so the order of their writes cannot matter.       *)
StoreInv ==
  /\ TypeOK
  /\ rev <= changes
  /\ \A r \in Requests :
       IF pc[r] \in Saving THEN bytes[r] = [keys |-> keys, rev |-> rev]
                         ELSE bytes[r] = Absent

(* A Save that returned without an error survives every later power cut:   *)
(* what the next start loads is that change or a later one, an explicit    *)
(* clear included, whatever Saves overlapped (Save, Load).                 *)
AcknowledgedSurvives ==
  primarySaved # Torn => Loaded(primarySaved, backupSaved).rev >= acked

(* The safety net: the backup always holds a key, and it is as recent as   *)
(* the last backup that was written (Save: "a stray empty save must not    *)
(* erase the safety net").                                                 *)
SafetyNet ==
  backupSaved = Absent \/ (~IsEmpty(backupSaved.keys) /\ backupSaved.rev >= backed)

(* A station that was saved once is on a key after every power cut until a *)
(* request replaces or deletes it; a move or a swap that is interrupted    *)
(* leaves it on no key at no moment (MoveSlot, SwapSlots).                 *)
KeptStationsSurvive ==
  primarySaved # Torn => kept \subseteq StationsOn(Loaded(primarySaved, backupSaved).keys)

(* A request that would give a second key a stream that some key has is    *)
(* refused or becomes a swap: across refusals, swaps, moves, renames,      *)
(* failed writes and starts no two keys hold one stream (savePresetSlot,   *)
(* handlePresetsBulkPut, holdSaveOrSwap, MoveSlot).  Two exceptions: two   *)
(* requests were under way at once, or a heal has brought a key to the     *)
(* stream, which looks at no other key.                                    *)
OneKeyPerStream ==
  met \/ \A u \in Streams \ moved : Cardinality(SlotsWith(keys, u)) <= 1

(* "A given playlist/station lives on at most ONE key" (savePresetSlot):   *)
(* false of a library track that is saved at its server's new address      *)
(* while another key still has it at the old one.                          *)
OneKeyPerStation ==
  met \/ \A s, q \in Slots : s # q /\ Held(keys, s) /\ Held(keys, q) =>
            StationOf[keys[s].stream] # StationOf[keys[q].stream]

(* A rename leaves every field of the key but the name untouched           *)
(* (handlePresetRename).                                                   *)
RenameOnlyRenames ==
  [][\A r \in Requests : Change(r) /\ op[r].kind = "rename" =>
       LET s == op[r].slot IN Held(keys, s) /\ keys'[s].stream = keys[s].stream]_vars

(* "A key the owner re-saved in that time must not be overwritten with the *)
(* old one" (storeHealedKey).                                              *)
ResavedKeyKept ==
  [][\A r \in Requests : Change(r) /\ op[r].kind = "heal" =>
       keys[op[r].slot] = seen[r]]_vars
=============================================================================
