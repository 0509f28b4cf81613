------------------------ MODULE PresetStoreProofs -------------------------
(***************************************************************************)
(* Proofs that what was acknowledged survives every restart and power cut, *)
(* that the backup is never an empty set, and that no request loses a      *)
(* station it does not replace, and that no stream gets onto two keys but  *)
(* by a heal: for any keys, stations, streams and requests, and any number *)
(* of changes and starts.                                                  *)
(***************************************************************************)
EXTENDS PresetStore, FiniteSetTheorems, TLAPS

AllOps == Ops \cup [kind : {"swap"}, slot : Slots, other : Slots] \cup {[kind |-> "none"]}

(* What a request may be asked at each step, and what it has read by then. *)
OpInv ==
  /\ op \in [Requests -> AllOps]
  /\ \A r \in Requests :
       /\ pc[r] \in {"read", "check", "change"} => op[r].kind # "none"
       /\ pc[r] = "read" => op[r].kind # "swap"
       /\ pc[r] = "check" => op[r].kind \in Heals \cup {"swap"}
       /\ pc[r] = "change" => op[r].kind # "hold"
       /\ pc[r] \in {"check", "change"} /\ op[r].kind \in {"rename", "move"} \cup Heals => seen[r] \in Preset

(* Who writes a file has just put its content there, and who backs it up   *)
(* has had presets.json acknowledged.                                      *)
SaveInv ==
  \A r \in Requests :
    /\ pc[r] = "syncPrimary" => primaryNow = bytes[r]
    /\ pc[r] = "syncBackup" => backupNow = bytes[r]
    /\ pc[r] \in {"backup", "syncBackup"} =>
         Usable(primaryNow) /\ Usable(primarySaved) /\ acked = rev /\ ~IsEmpty(keys)

Empty == [keys |-> [s \in Slots |-> NoPreset], rev |-> 0]

(* What a start on p and b would find keeps the promise.                   *)
Safe(p, b) ==
  /\ Loaded(p, b).rev >= acked
  /\ kept \subseteq StationsOn(Loaded(p, b).keys)
  /\ p = Absent => acked = 0 /\ kept = {}

BackupInv ==
  /\ \A b \in {backupNow, backupSaved} :
       b = Absent \/ (b \in Content /\ ~IsEmpty(b.keys) /\ b.rev >= backed)
  /\ backupSaved = Absent => backed = 0
  /\ backed <= acked

FileInv ==
  /\ Safe(primaryNow, backupNow) /\ Safe(primarySaved, backupSaved)
  /\ primarySaved = Torn => backupNow = backupSaved
  /\ \A f \in {primaryNow, primarySaved, backupNow, backupSaved} : f \in Content => f.rev <= changes
  /\ acked <= rev /\ kept \subseteq StationsOn(keys)

PresetInv == StoreInv /\ OpInv /\ SaveInv /\ BackupInv /\ FileInv
-----------------------------------------------------------------------------
LEMMA LoadedFacts ==
  ASSUME NEW p \in Content \cup {Absent, Torn}, NEW b \in Content \cup {Absent, Torn}
  PROVE  /\ Loaded(p, b) \in Content
         /\ Usable(p) <=> p \in Content
         /\ Usable(p) => Loaded(p, b) = p
         /\ ~Usable(p) /\ b \in Content /\ ~IsEmpty(b.keys) => Loaded(p, b) = b
         /\ ~Usable(p) /\ b = Absent => Loaded(p, b) = Empty
         /\ Loaded(p, b) # p => Loaded(p, b) \in {b, Empty}
<1>1. Empty \in Content
  BY PresetAssumption DEF Empty, Content, KeySet
<1> QED
  BY <1>1, PresetAssumption DEF Loaded, Usable, Empty

LEMMA EmptyFacts == StationsOn(Empty.keys) = {} /\ IsEmpty(Empty.keys)
BY DEF StationsOn, StationsAt, Held, IsEmpty, Empty

LEMMA ContentFacts ==
  ASSUME NEW c \in Content
  PROVE  c.keys \in KeySet /\ c.rev \in 0..MaxChanges /\ StationsOn(c.keys) \subseteq Stations
BY PresetAssumption DEF Content, KeySet, StationsOn, StationsAt, Held, Preset

(* A start finds what it would have found before it rewrote presets.json.  *)
LEMMA BootFacts ==
  ASSUME NEW p \in Content \cup {Absent, Torn}, NEW b \in Content \cup {Absent, Torn}, Boot(p, b)
  PROVE  /\ keys' = Loaded(p, b).keys /\ rev' = Loaded(p, b).rev
         /\ primaryNow' = p \/ (primaryNow' = Loaded(p, b) /\ Loaded(p, b) = b /\ b \in Content /\ ~Usable(p))
         /\ \A c : Loaded(primaryNow', b) = Loaded(p, b)
         /\ primaryNow' \in Content \cup {Absent, Torn}
         /\ UNCHANGED changes
         /\ pc' = [r \in Requests |-> "idle"] /\ op' = [r \in Requests |-> [kind |-> "none"]]
         /\ seen' = [r \in Requests |-> NoPreset] /\ bytes' = [r \in Requests |-> Absent]
<1> DEFINE content == Loaded(p, b)
<1>1. primaryNow' = p \/ (primaryNow' = content /\ content # p /\ content = b /\ ~IsEmpty(content.keys))
  BY DEF Boot
<1>2. content # p => ~Usable(p)
  BY DEF Loaded
<1>3. content = b /\ content \in Content
  => Loaded(content, b) = content
  BY LoadedFacts, PresetAssumption
<1> QED
  BY <1>1, <1>2, <1>3, LoadedFacts DEF Boot

LEMMA IdleFacts ==
  ASSUME pc' = [r \in Requests |-> "idle"], op' = [r \in Requests |-> [kind |-> "none"]],
         seen' = [r \in Requests |-> NoPreset], bytes' = [r \in Requests |-> Absent]
  PROVE  /\ OpInv' /\ SaveInv'
         /\ pc' \in [Requests -> Steps] /\ seen' \in [Requests -> Preset \cup {NoPreset}]
         /\ bytes' \in [Requests -> Content \cup {Absent}]
         /\ \A r \in Requests : pc'[r] \notin Saving /\ bytes'[r] = Absent
BY DEF OpInv, SaveInv, AllOps, Steps, Saving

LEMMA RestartKeeps == PresetInv /\ Restart /\ UNCHANGED met => PresetInv'
<1> SUFFICES ASSUME PresetInv, Restart, UNCHANGED met PROVE PresetInv'
  OBVIOUS
<1> USE DEF PresetInv, StoreInv
<1>1. /\ primaryNow \in Content \cup {Absent, Torn} /\ backupNow \in Content \cup {Absent, Torn}
      /\ Boot(primaryNow, backupNow)
  BY DEF TypeOK, Restart
<1>2. UNCHANGED <<backupNow, backupSaved, acked, backed, kept, moved>>
  BY DEF Restart, history
<1>3. OpInv' /\ SaveInv' /\ BackupInv'
  BY <1>1, <1>2, BootFacts, IdleFacts DEF BackupInv
<1>4. keys' \in KeySet /\ rev' \in 0..MaxChanges /\ Loaded(primaryNow, backupNow).rev <= changes
  <2>1. Loaded(primaryNow, backupNow) \in Content
    BY <1>1, LoadedFacts
  <2>2. Loaded(primaryNow, backupNow).rev <= changes
    <3>1. Loaded(primaryNow, backupNow) \in {primaryNow, backupNow, Empty}
      BY <1>1, LoadedFacts
    <3>2. Empty.rev = 0 /\ changes >= 0
      BY PresetAssumption DEF Empty, TypeOK
    <3> QED
      BY <2>1, <3>1, <3>2 DEF FileInv
  <2> QED
    BY <1>1, <2>1, <2>2, BootFacts, ContentFacts
<1>5. primarySaved' \in {primarySaved, primaryNow'} /\ (primaryNow' = primaryNow => primarySaved' = primarySaved)
  BY DEF Restart
<1>6. StoreInv'
  BY <1>1, <1>2, <1>4, <1>5, BootFacts, IdleFacts DEF TypeOK, Restart
<1>7. FileInv'
  <2>1. Safe(primaryNow, backupNow)'
    <3>1. Loaded(primaryNow', backupNow') = Loaded(primaryNow, backupNow)
      BY <1>1, <1>2, BootFacts
    <3>2. primaryNow' = Absent => primaryNow = Absent
      BY <1>1, BootFacts, PresetAssumption
    <3> QED
      BY <1>2, <3>1, <3>2 DEF FileInv, Safe
  <2>2. Safe(primarySaved, backupSaved)'
    <3>1. CASE primaryNow' = primaryNow
      BY <1>2, <1>5, <3>1 DEF FileInv, Safe
    <3>2. CASE primaryNow' # primaryNow
      <4>1. primarySaved' = primaryNow' /\ primaryNow' = Loaded(primaryNow, backupNow) /\ primaryNow' \in Content
        BY <1>1, <3>2, BootFacts DEF Restart
      <4>2. Loaded(primaryNow', backupSaved) = primaryNow' /\ primaryNow' # Absent
        BY <1>1, <4>1, LoadedFacts, PresetAssumption DEF TypeOK
      <4> QED
        BY <1>2, <4>1, <4>2 DEF FileInv, Safe
    <3> QED
      BY <3>1, <3>2
  <2>3. (primarySaved = Torn => backupNow = backupSaved)'
    BY <1>1, <1>2, <1>5, BootFacts, PresetAssumption DEF FileInv, Restart
  <2>4. /\ (acked <= rev /\ kept \subseteq StationsOn(keys))'
    BY <1>1, <1>2, BootFacts, LoadedFacts, ContentFacts DEF FileInv, Safe, TypeOK
  <2>5. \A f \in {primaryNow', primarySaved', backupNow', backupSaved'} : f \in Content => f.rev <= changes'
    BY <1>1, <1>2, <1>4, <1>5, BootFacts DEF FileInv
  <2> QED
    BY <2>1, <2>2, <2>3, <2>4, <2>5 DEF FileInv
<1> QED
  BY <1>3, <1>6, <1>7

LEMMA CutKeeps == PresetInv /\ (PowerCut \/ PowerCutTruncates) /\ UNCHANGED met => PresetInv'
<1> SUFFICES ASSUME PresetInv, PowerCut \/ PowerCutTruncates, UNCHANGED met,
                    NEW p, p = IF PowerCut THEN primarySaved ELSE Torn
             PROVE  PresetInv'
  OBVIOUS
<1> USE DEF PresetInv, StoreInv
<1>1. /\ p \in Content \cup {Absent, Torn} /\ backupSaved \in Content \cup {Absent, Torn}
      /\ Boot(p, backupSaved)
  BY DEF TypeOK, PowerCut, PowerCutTruncates
<1>2. /\ primarySaved' = primaryNow' /\ backupNow' = backupSaved
      /\ UNCHANGED <<backupSaved, backed, moved>>
  BY DEF PowerCut, PowerCutTruncates, history
<1>3. OpInv' /\ SaveInv'
  BY <1>1, BootFacts, IdleFacts
<1>4. keys' \in KeySet /\ rev' \in 0..MaxChanges /\ rev' <= changes
  <2>1. Loaded(p, backupSaved) \in Content
    BY <1>1, LoadedFacts
  <2>2. Loaded(p, backupSaved).rev <= changes
    <3>1. Loaded(p, backupSaved) \in {p, backupSaved, Empty}
      BY <1>1, LoadedFacts
    <3>2. Empty.rev = 0 /\ changes >= 0
      BY PresetAssumption DEF Empty, TypeOK
    <3>3. p \in Content => p = primarySaved
      BY PresetAssumption
    <3> QED
      BY <2>1, <3>1, <3>2, <3>3 DEF FileInv
  <2> QED
    BY <1>1, <2>1, <2>2, BootFacts, ContentFacts
<1>5. /\ acked' \in 0..MaxChanges /\ acked' <= rev' /\ backed <= acked'
      /\ kept' \subseteq StationsOn(keys') /\ kept' \subseteq Stations
      /\ primaryNow' = Absent => acked' = 0 /\ kept' = {}
  <2>1. CASE PowerCut
    <3>1. UNCHANGED <<acked, kept>> /\ p = primarySaved
      BY <2>1 DEF PowerCut, history
    <3>2. primaryNow' = Absent => p = Absent
      BY <1>1, BootFacts, PresetAssumption
    <3> QED
      BY <1>1, <3>1, <3>2, BootFacts DEF FileInv, Safe, TypeOK, BackupInv
  <2>2. CASE ~PowerCut
    <3>1. acked' = rev' /\ kept' = kept \cap StationsOn(keys') /\ p = Torn
      BY <2>2 DEF PowerCutTruncates
    <3>2. primaryNow' # Absent
      BY <1>1, <3>1, BootFacts, PresetAssumption
    <3>3. backed <= rev'
      <4>1. CASE backupSaved = Absent
        BY <1>4, <4>1 DEF BackupInv
      <4>2. CASE backupSaved # Absent
        BY <1>1, <3>1, <4>2, BootFacts, LoadedFacts, PresetAssumption DEF BackupInv
      <4> QED
        BY <4>1, <4>2
    <3> QED
      BY <1>4, <3>1, <3>2, <3>3 DEF TypeOK
  <2> QED
    BY <2>1, <2>2
<1>6. StoreInv'
  BY <1>1, <1>2, <1>4, <1>5, BootFacts, IdleFacts DEF TypeOK
<1>7. FileInv'
  <2>1. Loaded(primaryNow', backupSaved) = Loaded(p, backupSaved)
    BY <1>1, BootFacts
  <2>2. Safe(primaryNow, backupNow)' /\ Safe(primarySaved, backupSaved)'
    BY <1>1, <1>2, <1>5, <2>1, BootFacts DEF Safe
  <2>3. \A f \in {primaryNow', primarySaved', backupNow', backupSaved'} : f \in Content => f.rev <= changes'
    <3>1. p \in Content => p = primarySaved
      BY PresetAssumption
    <3> QED
      BY <1>1, <1>2, <3>1, BootFacts DEF FileInv
  <2> QED
    BY <1>2, <1>5, <2>2, <2>3 DEF FileInv
<1>8. BackupInv'
  BY <1>2, <1>5 DEF BackupInv
<1> QED
  BY <1>3, <1>6, <1>7, <1>8
-----------------------------------------------------------------------------
(* The steps before the change only choose what will be done.              *)
LEMMA QuietKeeps ==
  ASSUME PresetInv, NEW r \in Requests, UNCHANGED <<store, files, bytes, history>>,
         pc[r] \in {"idle", "read", "check"},
         \E s \in {"idle", "read", "check", "change"} : GoTo(r, s),
         seen' \in [Requests -> Preset \cup {NoPreset}], met' \in BOOLEAN, OpInv'
  PROVE  PresetInv'
<1> USE DEF PresetInv, store, files, history
<1>1. /\ pc' \in [Requests -> Steps]
      /\ \A q \in Requests : pc'[q] \in Saving => pc[q] = pc'[q]
      /\ \A q \in Requests : pc[q] \in Saving => pc[q] = pc'[q]
  BY DEF GoTo, StoreInv, TypeOK, Steps, Saving
<1>2. StoreInv'
  BY <1>1 DEF StoreInv, TypeOK
<1>3. SaveInv'
  BY <1>1 DEF SaveInv, Saving, Usable, IsEmpty, StationsOn, StationsAt, Held
<1>4. BackupInv' /\ FileInv'
  BY DEF BackupInv, FileInv, Safe
<1> QED
  BY <1>2, <1>3, <1>4

LEMMA ArriveKeeps ==
  ASSUME PresetInv, NEW r \in Requests, NEW o \in Ops, Arrive(r, o)
  PROVE  PresetInv'
<1> USE DEF PresetInv
<1>1. /\ UNCHANGED <<store, files, bytes, history, seen>> /\ pc[r] = "idle" /\ met' \in BOOLEAN
      /\ \E s \in {"idle", "read", "check", "change"} : GoTo(r, s)
  BY DEF Arrive, StoreInv, TypeOK
<1>2. o \in AllOps /\ o.kind \in {"put", "hold", "rename", "delete", "move"} \cup Heals
  BY DEF AllOps, Ops, Heals
<1>3. pc' = [pc EXCEPT ![r] = IF o.kind = "delete" THEN "change" ELSE "read"] /\ op' = [op EXCEPT ![r] = o]
      /\ seen' = seen
  BY DEF Arrive, GoTo
<1>4. OpInv'
  <2>1. op' \in [Requests -> AllOps]
    BY <1>2, <1>3 DEF OpInv
  <2>2. \A q \in Requests \ {r} : pc'[q] = pc[q] /\ op'[q] = op[q]
    BY <1>3 DEF OpInv, StoreInv, TypeOK
  <2>3. op'[r] = o /\ pc'[r] = IF o.kind = "delete" THEN "change" ELSE "read"
    BY <1>3 DEF OpInv, StoreInv, TypeOK
  <2> QED
    BY <1>2, <1>3, <2>1, <2>2, <2>3 DEF OpInv, Heals
<1> QED
  BY <1>1, <1>4, QuietKeeps DEF StoreInv, TypeOK

Looks(r) == LookForPut(r) \/ LookForHold(r) \/ ReadKey(r) \/ CheckSwap(r) \/ CheckHeal(r)

LEMMA LooksKeep ==
  ASSUME PresetInv, NEW r \in Requests, Looks(r), UNCHANGED met
  PROVE  PresetInv'
<1> USE DEF PresetInv
<1>1. /\ UNCHANGED <<store, files, bytes, history>> /\ pc[r] \in {"read", "check"}
  BY DEF Looks, LookForPut, LookForHold, ReadKey, CheckSwap, CheckHeal
<1>2. ASSUME Finish(r) PROVE PresetInv'
  <2>1. op' \in [Requests -> AllOps] /\ seen' \in [Requests -> Preset \cup {NoPreset}]
    BY <1>2 DEF Finish, OpInv, AllOps, StoreInv, TypeOK
  <2>2. /\ \A q \in Requests \ {r} : pc'[q] = pc[q] /\ op'[q] = op[q] /\ seen'[q] = seen[q]
        /\ pc'[r] = "idle"
    BY <1>2 DEF Finish, GoTo, OpInv, StoreInv, TypeOK
  <2>3. OpInv'
    BY <2>1, <2>2 DEF OpInv
  <2> QED
    BY <1>1, <1>2, <2>1, <2>3, QuietKeeps DEF Finish, StoreInv, TypeOK
<1>3. ASSUME NEW s \in {"check", "change"}, NEW o \in AllOps, NEW p \in Preset \cup {NoPreset},
             pc' = [pc EXCEPT ![r] = s], op' = [op EXCEPT ![r] = o], seen' = [seen EXCEPT ![r] = p],
             o.kind \notin {"none", "hold"}, s = "check" => o.kind \in Heals \cup {"swap"},
             o.kind \in {"rename", "move"} \cup Heals => p \in Preset
      PROVE  PresetInv'
  <2>1. op' \in [Requests -> AllOps] /\ seen' \in [Requests -> Preset \cup {NoPreset}]
    BY <1>3 DEF OpInv, StoreInv, TypeOK
  <2>2. /\ \A q \in Requests \ {r} : pc'[q] = pc[q] /\ op'[q] = op[q] /\ seen'[q] = seen[q]
        /\ pc'[r] = s /\ op'[r] = o /\ seen'[r] = p
    BY <1>3 DEF OpInv, StoreInv, TypeOK
  <2>3. OpInv'
    BY <1>3, <2>1, <2>2 DEF OpInv
  <2> QED
    BY <1>1, <1>3, <2>1, <2>3, QuietKeeps DEF GoTo, StoreInv, TypeOK
<1>4. op[r] \in AllOps /\ seen[r] \in Preset \cup {NoPreset}
      /\ op = [op EXCEPT ![r] = op[r]] /\ seen = [seen EXCEPT ![r] = seen[r]]
  BY DEF OpInv, StoreInv, TypeOK
<1>5. CASE LookForPut(r)
  BY <1>2, <1>3, <1>4, <1>5 DEF LookForPut, GoTo, Heals
<1>6. CASE LookForHold(r)
  <2> DEFINE o == op[r]
             payload == [s \in {o.slot} |-> o.stream]
  <2>1. o.slot \in Slots /\ o.stream \in Streams
    BY <1>4, <1>6 DEF LookForHold, AllOps, Ops, Heals
  <2>2. [kind |-> "put", payload |-> payload] \in AllOps
    BY <2>1 DEF AllOps, Ops, Payloads
  <2>3. \A s \in Collisions(keys, payload) : [kind |-> "swap", slot |-> o.slot, other |-> s] \in AllOps
    BY <2>1 DEF AllOps, Collisions
  <2>4. seen' = [seen EXCEPT ![r] = seen[r]]
    BY <1>4, <1>6 DEF LookForHold
  <2> HIDE DEF payload
  <2>5. CASE op' = [op EXCEPT ![r] = [kind |-> "put", payload |-> payload]] /\ GoTo(r, "change")
    BY <1>3, <1>4, <2>2, <2>4, <2>5 DEF GoTo, Heals
  <2>6. CASE \E s \in Collisions(keys, payload) :
               op' = [op EXCEPT ![r] = [kind |-> "swap", slot |-> o.slot, other |-> s]] /\ GoTo(r, "check")
    BY <1>3, <1>4, <2>3, <2>4, <2>6 DEF GoTo, Heals
  <2> QED
    BY <1>6, <2>5, <2>6 DEF LookForHold, payload
<1>7. CASE ReadKey(r)
  <2>1. op[r].slot \in Slots /\ op[r].kind \in {"rename", "move"} \cup Heals
    BY <1>4, <1>7 DEF ReadKey, AllOps, Ops, Heals
  <2>2. keys[op[r].slot] \in Preset \cup {NoPreset}
    BY <2>1 DEF StoreInv, TypeOK, KeySet
  <2>3. CASE /\ Due(op[r], keys[op[r].slot]) /\ seen' = [seen EXCEPT ![r] = keys[op[r].slot]]
             /\ GoTo(r, IF op[r].kind = "heal" THEN "check" ELSE "change") /\ UNCHANGED op
    <3>1. keys[op[r].slot] \in Preset
      BY <2>2, <2>3 DEF Due
    <3>2. op[r].kind \notin {"none", "hold"}
      BY <2>1 DEF Heals
    <3>3. CASE op[r].kind = "heal"
      BY <1>3, <1>4, <2>3, <3>1, <3>2, <3>3 DEF GoTo, Heals
    <3>4. CASE op[r].kind # "heal"
      BY <1>3, <1>4, <2>3, <3>1, <3>2, <3>4 DEF GoTo
    <3> QED
      BY <3>3, <3>4
  <2> QED
    BY <1>2, <1>7, <2>3 DEF ReadKey
<1>8. CASE CheckSwap(r) \/ CheckHeal(r)
  <2>1. CASE GoTo(r, "change") /\ UNCHANGED <<op, seen>>
    BY <1>3, <1>4, <1>8, <2>1 DEF GoTo, CheckSwap, CheckHeal, OpInv
  <2> QED
    BY <1>2, <1>8, <2>1 DEF CheckSwap, CheckHeal
<1> QED
  BY <1>5, <1>6, <1>7, <1>8 DEF Looks
-----------------------------------------------------------------------------
(* A station that no target holds stays, if what was on its key does.      *)
LEMMA NotTargeted ==
  ASSUME keys \in KeySet, kept \subseteq StationsOn(keys), NEW k \in KeySet, NEW T,
         \A t \in Slots \ T : \E u \in Slots : k[u] = keys[t]
  PROVE  kept \ StationsAt(keys, T) \subseteq StationsOn(k)
<1> SUFFICES ASSUME NEW a \in kept, a \notin StationsAt(keys, T) PROVE a \in StationsOn(k)
  OBVIOUS
<1>1. PICK t \in Slots : Held(keys, t) /\ StationOf[keys[t].stream] = a
  BY DEF StationsOn, StationsAt
<1>2. t \notin T
  BY <1>1 DEF StationsAt
<1>3. PICK u \in Slots : k[u] = keys[t]
  BY <1>2
<1> QED
  BY <1>1, <1>3 DEF StationsOn, StationsAt, Held

LEMMA ChangedFacts ==
  ASSUME PresetInv, NEW r \in Requests, pc[r] = "change"
  PROVE  /\ Changed(r) \in KeySet
         /\ kept \ StationsAt(keys, Targets(r)) \subseteq StationsOn(Changed(r))
<1> DEFINE o == op[r]
<1>0. /\ keys \in KeySet /\ kept \subseteq StationsOn(keys)
      /\ o \in AllOps /\ o.kind \notin {"none", "hold"}
      /\ o.kind \in {"rename", "move"} \cup Heals => seen[r] \in Preset
  BY DEF PresetInv, StoreInv, TypeOK, FileInv, OpInv
<1> HIDE DEF o
<1>1. CASE o.kind = "put"
  <2>1. o.payload \in Payloads
    BY <1>0, <1>1 DEF AllOps, Ops, Heals
  <2>2. PICK S \in SUBSET Slots : o.payload \in [S -> Streams]
    BY <2>1 DEF Payloads
  <2>3. Changed(r) = Put(keys, o.payload) /\ Targets(r) = S
    BY <1>1, <2>2 DEF Changed, Targets, Heals, o
  <2>4. Put(keys, o.payload) \in KeySet
    BY <1>0, <2>2 DEF Put, KeySet, Preset
  <2>5. \A t \in Slots \ S : Put(keys, o.payload)[t] = keys[t]
    BY <2>2 DEF Put
  <2> QED
    BY <1>0, <2>3, <2>4, <2>5, NotTargeted
<1>2. CASE o.kind \in {"rename", "delete"} \cup Heals
  <2>1. o.slot \in Slots /\ (o.kind \in Heals => o.to \in Streams)
    BY <1>0, <1>2 DEF AllOps, Ops, Heals
  <2>2. PICK p \in Preset \cup {NoPreset} : Changed(r) = [keys EXCEPT ![o.slot] = p]
    <3>1. CASE o.kind = "delete"
      BY <3>1 DEF Changed, Heals, o
    <3>2. CASE o.kind = "rename"
      <4>1. [seen[r] EXCEPT !.name = "renamed"] \in Preset
        BY <1>0, <3>2 DEF Preset
      <4> QED
        BY <3>2, <4>1 DEF Changed, Heals, o
    <3>3. CASE o.kind \in Heals
      <4>1. [seen[r] EXCEPT !.stream = o.to] \in Preset
        BY <1>0, <2>1, <3>3 DEF Preset
      <4> QED
        BY <3>3, <4>1 DEF Changed, Heals, o
    <3> QED
      BY <1>2, <3>1, <3>2, <3>3
  <2>3. Targets(r) = {o.slot}
    BY <1>2 DEF Targets, Heals, o
  <2>4. Changed(r) \in KeySet
    BY <1>0, <2>1, <2>2 DEF KeySet
  <2>5. \A t \in Slots \ {o.slot} : Changed(r)[t] = keys[t]
    BY <1>0, <2>1, <2>2 DEF KeySet
  <2> QED
    BY <1>0, <2>3, <2>4, <2>5, NotTargeted
<1>3. CASE o.kind = "move"
  <2>1. o.slot \in Slots /\ o.other \in Slots /\ seen[r] \in Preset
    BY <1>0, <1>3 DEF AllOps, Ops, Heals
  <2>2. Changed(r) = Moved(keys, o.slot, o.other, seen[r])
        /\ Targets(r) = {o.other} \cup (IF keys[o.slot] = seen[r] THEN {} ELSE {o.slot})
    BY <1>3 DEF Changed, Targets, Heals, o
  <2>3. Changed(r) \in KeySet
    BY <1>0, <2>1, <2>2 DEF Moved, KeySet
  <2>4. \A t \in Slots \ {o.slot, o.other} : Changed(r)[t] = keys[t]
    BY <1>0, <2>1, <2>2 DEF Moved, KeySet
  <2>5. Changed(r)[o.other] = seen[r]
    BY <1>0, <2>1, <2>2 DEF Moved, KeySet
  <2>6. \A t \in Slots \ Targets(r) : \E u \in Slots : Changed(r)[u] = keys[t]
    BY <2>1, <2>2, <2>4, <2>5
  <2> QED
    BY <1>0, <2>3, <2>6, NotTargeted
<1>4. CASE o.kind = "swap"
  <2>1. o.slot \in Slots /\ o.other \in Slots
    BY <1>0, <1>4 DEF AllOps, Ops, Heals
  <2>2. Changed(r) = Swapped(keys, o.slot, o.other) /\ Targets(r) = {}
    BY <1>4 DEF Changed, Targets, Heals, o
  <2>3. Changed(r) \in KeySet
    BY <1>0, <2>1, <2>2 DEF Swapped, KeySet
  <2>4. /\ \A t \in Slots \ {o.slot, o.other} : Changed(r)[t] = keys[t]
        /\ Changed(r)[o.slot] = keys[o.other] /\ Changed(r)[o.other] = keys[o.slot]
    BY <1>0, <2>1, <2>2 DEF Swapped, KeySet
  <2>5. \A t \in Slots \ Targets(r) : \E u \in Slots : Changed(r)[u] = keys[t]
    BY <2>1, <2>2, <2>4
  <2> QED
    BY <1>0, <2>3, <2>5, NotTargeted
<1> QED
  BY <1>0, <1>1, <1>2, <1>3, <1>4 DEF AllOps, Ops, Heals

LEMMA ChangeKeeps ==
  ASSUME PresetInv, NEW r \in Requests, Change(r), UNCHANGED met
  PROVE  PresetInv'
<1> USE DEF PresetInv
<1>1. /\ keys' \in KeySet /\ kept' \subseteq StationsOn(keys') /\ kept' \subseteq kept
  BY ChangedFacts DEF Change
<1>2. /\ rev' = changes + 1 /\ changes' = changes + 1 /\ changes < MaxChanges
      /\ changes \in Nat /\ rev \in Nat /\ acked \in Nat /\ rev <= changes
  BY PresetAssumption DEF Change, StoreInv, TypeOK
<1>3. /\ \A q \in Requests : pc[q] \notin Saving /\ pc'[q] \notin Saving
      /\ UNCHANGED <<op, seen, bytes, files, boots, acked, backed>>
      /\ pc' = [pc EXCEPT ![r] = "save"]
  BY DEF Change, GoTo, StoreInv, TypeOK, Saving
<1>a. moved' \subseteq Streams
  <2>1. op[r].kind \in Heals => op[r].to \in Streams
    BY DEF OpInv, AllOps, Ops, Heals
  <2> QED
    BY <2>1 DEF Change, StoreInv, TypeOK
<1>4. StoreInv'
  BY <1>1, <1>2, <1>3, <1>a, PresetAssumption DEF StoreInv, TypeOK, Steps, files
<1>5. OpInv' /\ SaveInv'
  BY <1>3 DEF OpInv, SaveInv, StoreInv, TypeOK, Saving
<1>6. BackupInv'
  BY <1>3 DEF BackupInv, files
<1>7. FileInv'
  <2>1. Safe(primaryNow, backupNow)' /\ Safe(primarySaved, backupSaved)'
    BY <1>1, <1>3 DEF FileInv, Safe, files
  <2>2. \A f \in {primaryNow, primarySaved, backupNow, backupSaved} : f \in Content => f.rev <= changes'
    BY <1>2, ContentFacts, PresetAssumption DEF FileInv
  <2>3. acked <= rev'
    BY <1>2 DEF FileInv
  <2> QED
    BY <1>1, <1>3, <2>1, <2>2, <2>3 DEF FileInv, files
<1> QED
  BY <1>4, <1>5, <1>6, <1>7

(* The steps of a Save change neither the store nor what is asked: the     *)
(* request goes to its next step with its content, or it is over.          *)
LEMMA SavingKeeps ==
  ASSUME PresetInv, NEW r \in Requests, UNCHANGED <<store, met>>, pc[r] \in Saving \cup {"save"},
         \/ \E s \in Saving : GoTo(r, s) /\ UNCHANGED <<op, seen>> /\
              bytes' = [bytes EXCEPT ![r] = [keys |-> keys, rev |-> rev]]
         \/ EndSave(r),
         {primaryNow', primarySaved', backupNow', backupSaved'} \subseteq Content \cup {Absent, Torn},
         acked' \in 0..MaxChanges, backed' \in 0..MaxChanges, kept' \subseteq Stations,
         UNCHANGED moved
  PROVE  /\ StoreInv' /\ OpInv'
         /\ \A q \in Requests \ {r} : pc'[q] = pc[q] /\ bytes'[q] = bytes[q]
<1> USE DEF PresetInv
<1> DEFINE c == [keys |-> keys, rev |-> rev]
<1>1. c \in Content
  BY DEF StoreInv, TypeOK, Content
<1>2. CASE \E s \in Saving : GoTo(r, s) /\ UNCHANGED <<op, seen>> /\ bytes' = [bytes EXCEPT ![r] = c]
  <2>1. PICK s \in Saving : GoTo(r, s) /\ UNCHANGED <<op, seen>> /\ bytes' = [bytes EXCEPT ![r] = c]
    BY <1>2
  <2> HIDE DEF c
  <2>2. /\ \A q \in Requests \ {r} : pc'[q] = pc[q] /\ bytes'[q] = bytes[q]
        /\ pc'[r] = s /\ bytes'[r] = c
        /\ pc' \in [Requests -> Steps] /\ bytes' \in [Requests -> Content \cup {Absent}]
    BY <1>1, <2>1 DEF GoTo, StoreInv, TypeOK, Steps, Saving
  <2>3. OpInv'
    BY <2>1, <2>2 DEF OpInv, Saving
  <2>4. StoreInv'
    BY <2>1, <2>2 DEF StoreInv, TypeOK, store, c
  <2> QED
    BY <2>2, <2>3, <2>4
<1>3. CASE EndSave(r)
  <2>1. op' \in [Requests -> AllOps] /\ seen' \in [Requests -> Preset \cup {NoPreset}]
    BY <1>3 DEF EndSave, Finish, OpInv, AllOps, StoreInv, TypeOK
  <2>2. /\ \A q \in Requests \ {r} : pc'[q] = pc[q] /\ bytes'[q] = bytes[q]
        /\ pc'[r] = "idle" /\ bytes'[r] = Absent
        /\ pc' \in [Requests -> Steps] /\ bytes' \in [Requests -> Content \cup {Absent}]
    BY <1>3 DEF EndSave, Finish, GoTo, StoreInv, TypeOK, Steps
  <2>3. \A q \in Requests \ {r} : op'[q] = op[q] /\ seen'[q] = seen[q]
    BY <1>3 DEF EndSave, Finish, OpInv, StoreInv, TypeOK
  <2>4. OpInv'
    BY <2>1, <2>2, <2>3 DEF OpInv
  <2>5. StoreInv'
    BY <2>1, <2>2 DEF StoreInv, TypeOK, store, Saving
  <2> QED
    BY <2>2, <2>4, <2>5
<1> QED
  BY <1>2, <1>3

(* What is known of the request that saves and of the files it writes.     *)
LEMMA SavingFacts ==
  ASSUME PresetInv, NEW r \in Requests, NEW c, c = [keys |-> keys, rev |-> rev]
  PROVE  /\ c \in Content /\ c.rev = rev /\ c.keys = keys /\ Usable(c) /\ c # Absent /\ c # Torn
         /\ \A b : Loaded(c, b) = c
         /\ pc[r] \in Saving => bytes[r] = c /\ bytes = [bytes EXCEPT ![r] = c]
         /\ acked <= rev /\ backed <= acked /\ acked \in Nat /\ backed \in Nat /\ rev \in Nat
         /\ kept \subseteq StationsOn(keys) /\ StationsOn(keys) \subseteq Stations
<1> USE DEF PresetInv
<1>1. c \in Content
  BY DEF StoreInv, TypeOK, Content
<1>2. Usable(c) /\ c # Absent /\ c # Torn
  BY <1>1, PresetAssumption DEF Usable
<1>3. \A b : Loaded(c, b) = c
  BY <1>2 DEF Loaded
<1>4. StationsOn(keys) \subseteq Stations
  BY <1>1, ContentFacts
<1> QED
  BY <1>1, <1>2, <1>3, <1>4, PresetAssumption DEF StoreInv, TypeOK, FileInv, BackupInv

LEMMA WritesKeep ==
  ASSUME PresetInv, NEW r \in Requests, UNCHANGED met, Save(r) \/ WritePrimary(r) \/ SyncPrimary(r)
  PROVE  PresetInv'
<1> USE DEF PresetInv
<1> DEFINE c == [keys |-> keys, rev |-> rev]
<1>1. /\ c \in Content /\ c.rev = rev /\ c.keys = keys /\ Usable(c) /\ c # Absent /\ c # Torn
      /\ \A b : Loaded(c, b) = c
      /\ pc[r] \in Saving => bytes[r] = c /\ bytes = [bytes EXCEPT ![r] = c]
      /\ acked <= rev /\ backed <= acked /\ acked \in Nat /\ backed \in Nat /\ rev \in Nat
      /\ kept \subseteq StationsOn(keys) /\ StationsOn(keys) \subseteq Stations
  BY SavingFacts
<1>2. {primaryNow, primarySaved, backupNow, backupSaved} \subseteq Content \cup {Absent, Torn}
      /\ acked \in 0..MaxChanges /\ backed \in 0..MaxChanges /\ kept \subseteq Stations
      /\ rev \in 0..MaxChanges /\ rev <= changes
  BY DEF StoreInv, TypeOK
<1> HIDE DEF c
<1>3. CASE Save(r)
  <2>1. /\ UNCHANGED <<store, files, history, op, seen>> /\ GoTo(r, "primary")
        /\ bytes' = [bytes EXCEPT ![r] = c] /\ pc[r] = "save"
    BY <1>3 DEF Save, c
  <2>2. /\ StoreInv' /\ OpInv'
        /\ \A q \in Requests \ {r} : pc'[q] = pc[q] /\ bytes'[q] = bytes[q]
    BY <1>2, <2>1, SavingKeeps DEF Saving, c, files, history, store
  <2>3. pc'[r] = "primary"
    BY <2>1 DEF GoTo, StoreInv, TypeOK
  <2>4. SaveInv'
    BY <2>1, <2>2, <2>3 DEF SaveInv, store, files, history
  <2>5. BackupInv' /\ FileInv'
    BY <2>1 DEF BackupInv, FileInv, Safe, store, files, history
  <2> QED
    BY <2>2, <2>4, <2>5
<1>4. CASE WritePrimary(r)
  <2>1. /\ UNCHANGED <<store, primarySaved, backupNow, backupSaved, history, op, seen, bytes>>
        /\ GoTo(r, "syncPrimary") /\ pc[r] = "primary" /\ primaryNow' = c
        /\ bytes' = [bytes EXCEPT ![r] = c] /\ bytes[r] = c
        /\ \A q \in Requests : pc[q] # "syncPrimary"
    BY <1>1, <1>4 DEF WritePrimary, Primary!Replace, Saving
  <2>2. /\ StoreInv' /\ OpInv'
        /\ \A q \in Requests \ {r} : pc'[q] = pc[q] /\ bytes'[q] = bytes[q]
    BY <1>1, <1>2, <2>1, SavingKeeps DEF Saving, c, history, store
  <2>3. pc'[r] = "syncPrimary"
    BY <2>1 DEF GoTo, StoreInv, TypeOK
  <2>4. SaveInv'
    BY <1>1, <2>1, <2>2, <2>3 DEF SaveInv, store, history
  <2>5. BackupInv'
    BY <2>1 DEF BackupInv, history
  <2>6. FileInv'
    BY <1>1, <1>2, <2>1 DEF FileInv, Safe, history, store
  <2> QED
    BY <2>2, <2>4, <2>5, <2>6
<1>5. CASE SyncPrimary(r)
  <2>1. /\ UNCHANGED <<store, primaryNow, backupNow, backupSaved, backed, moved>> /\ primarySaved' = c /\ primaryNow = c
        /\ acked' = rev /\ kept' = kept \cup StationsOn(keys) /\ kept' = StationsOn(keys)
        /\ bytes[r] = c /\ pc[r] = "syncPrimary"
    BY <1>1, <1>5 DEF SyncPrimary, Primary!Persist, Saving, SaveInv
  <2>2. \/ EndSave(r)
        \/ /\ ~IsEmpty(keys) /\ GoTo(r, "backup") /\ UNCHANGED <<op, seen>>
           /\ bytes' = [bytes EXCEPT ![r] = c]
    BY <1>1, <1>5, <2>1 DEF SyncPrimary, Saving
  <2>3. /\ StoreInv' /\ OpInv'
        /\ \A q \in Requests \ {r} : pc'[q] = pc[q] /\ bytes'[q] = bytes[q]
    <3>1. \/ \E s \in Saving : GoTo(r, s) /\ UNCHANGED <<op, seen>> /\
              bytes' = [bytes EXCEPT ![r] = [keys |-> keys, rev |-> rev]]
          \/ EndSave(r)
      BY <2>2 DEF Saving, c
    <3>2. /\ UNCHANGED <<store, met, moved>> /\ pc[r] \in Saving \cup {"save"}
          /\ {primaryNow', primarySaved', backupNow', backupSaved'} \subseteq Content \cup {Absent, Torn}
          /\ acked' \in 0..MaxChanges /\ backed' \in 0..MaxChanges /\ kept' \subseteq Stations
      BY <1>1, <1>2, <2>1 DEF Saving
    <3> QED
      BY <3>1, <3>2, SavingKeeps
  <2>4. pc'[r] = "idle" \/ (pc'[r] = "backup" /\ ~IsEmpty(keys))
    BY <2>2 DEF GoTo, EndSave, Finish, StoreInv, TypeOK
  <2>5. SaveInv'
    BY <1>1, <2>1, <2>3, <2>4 DEF SaveInv, store
  <2>6. BackupInv'
    BY <1>1, <2>1 DEF BackupInv
  <2>7. FileInv'
    BY <1>1, <1>2, <2>1 DEF FileInv, Safe, store
  <2> QED
    BY <2>3, <2>5, <2>6, <2>7
<1> QED
  BY <1>3, <1>4, <1>5

LEMMA BackupsKeep ==
  ASSUME PresetInv, NEW r \in Requests, UNCHANGED met,
         PrimaryFails(r) \/ WriteBackup(r) \/ BackupFails(r) \/ SyncBackup(r)
  PROVE  PresetInv'
<1> USE DEF PresetInv
<1> DEFINE c == [keys |-> keys, rev |-> rev]
<1>1. /\ c \in Content /\ c.rev = rev /\ c.keys = keys /\ Usable(c) /\ c # Absent /\ c # Torn
      /\ \A b : Loaded(c, b) = c
      /\ pc[r] \in Saving => bytes[r] = c /\ bytes = [bytes EXCEPT ![r] = c]
      /\ acked <= rev /\ backed <= acked /\ acked \in Nat /\ backed \in Nat /\ rev \in Nat
      /\ kept \subseteq StationsOn(keys) /\ StationsOn(keys) \subseteq Stations
  BY SavingFacts
<1>2. {primaryNow, primarySaved, backupNow, backupSaved} \subseteq Content \cup {Absent, Torn}
      /\ acked \in 0..MaxChanges /\ backed \in 0..MaxChanges /\ kept \subseteq Stations
      /\ rev \in 0..MaxChanges /\ rev <= changes
  BY DEF StoreInv, TypeOK
<1> HIDE DEF c
<1>3. CASE PrimaryFails(r) \/ BackupFails(r)
  <2>1. /\ UNCHANGED <<store, files, history>> /\ EndSave(r) /\ pc[r] \in Saving
    BY <1>3 DEF PrimaryFails, BackupFails, Saving
  <2>2. /\ StoreInv' /\ OpInv'
        /\ \A q \in Requests \ {r} : pc'[q] = pc[q] /\ bytes'[q] = bytes[q]
    BY <1>2, <2>1, SavingKeeps DEF files, history
  <2>3. pc'[r] = "idle"
    BY <2>1 DEF EndSave, Finish, GoTo, StoreInv, TypeOK
  <2>4. SaveInv'
    BY <2>1, <2>2, <2>3 DEF SaveInv, store, files, history
  <2>5. BackupInv' /\ FileInv'
    BY <2>1 DEF BackupInv, FileInv, Safe, store, files, history
  <2> QED
    BY <2>2, <2>4, <2>5
<1>4. CASE WriteBackup(r)
  <2>1. /\ UNCHANGED <<store, primaryNow, primarySaved, backupSaved, history, op, seen, bytes>>
        /\ GoTo(r, "syncBackup") /\ pc[r] = "backup" /\ backupNow' = c
        /\ bytes' = [bytes EXCEPT ![r] = c] /\ bytes[r] = c
        /\ \A q \in Requests : pc[q] # "syncBackup"
        /\ Usable(primaryNow) /\ Usable(primarySaved) /\ acked = rev /\ ~IsEmpty(keys)
    BY <1>1, <1>4 DEF WriteBackup, Backup!Replace, Saving, SaveInv
  <2>2. /\ StoreInv' /\ OpInv'
        /\ \A q \in Requests \ {r} : pc'[q] = pc[q] /\ bytes'[q] = bytes[q]
    BY <1>1, <1>2, <2>1, SavingKeeps DEF Saving, c, history, store
  <2>3. pc'[r] = "syncBackup"
    BY <2>1 DEF GoTo, StoreInv, TypeOK
  <2>4. SaveInv'
    BY <1>1, <2>1, <2>2, <2>3 DEF SaveInv, store, history
  <2>5. BackupInv'
    BY <1>1, <2>1 DEF BackupInv, history
  <2>6. FileInv'
    <3>1. Loaded(primaryNow, backupNow) = primaryNow /\ Loaded(primaryNow, c) = primaryNow
          /\ primarySaved # Torn
      BY <2>1 DEF Loaded, Usable
    <3> QED
      BY <1>1, <1>2, <2>1, <3>1 DEF FileInv, Safe, history, store
  <2> QED
    BY <2>2, <2>4, <2>5, <2>6
<1>5. CASE SyncBackup(r)
  <2>1. /\ UNCHANGED <<store, primaryNow, primarySaved, backupNow, acked, kept, moved>>
        /\ backupSaved' = c /\ backupNow = c /\ backed' = rev /\ EndSave(r)
        /\ bytes[r] = c /\ pc[r] = "syncBackup"
        /\ Usable(primaryNow) /\ Usable(primarySaved) /\ acked = rev /\ ~IsEmpty(keys)
    BY <1>1, <1>5 DEF SyncBackup, Backup!Persist, Saving, SaveInv
  <2>2. /\ StoreInv' /\ OpInv'
        /\ \A q \in Requests \ {r} : pc'[q] = pc[q] /\ bytes'[q] = bytes[q]
    BY <1>1, <1>2, <2>1, SavingKeeps DEF Saving
  <2>3. pc'[r] = "idle"
    BY <2>1 DEF EndSave, Finish, GoTo, StoreInv, TypeOK
  <2>4. SaveInv'
    BY <1>1, <2>1, <2>2, <2>3 DEF SaveInv, store
  <2>5. BackupInv'
    BY <1>1, <2>1 DEF BackupInv
  <2>6. FileInv'
    <3>1. Loaded(primarySaved, backupSaved) = primarySaved /\ Loaded(primarySaved, c) = primarySaved
      BY <2>1 DEF Loaded, Usable
    <3> QED
      BY <1>1, <1>2, <2>1, <3>1 DEF FileInv, Safe, store
  <2> QED
    BY <2>2, <2>4, <2>5, <2>6
<1> QED
  BY <1>3, <1>4, <1>5
-----------------------------------------------------------------------------
LEMMA PresetInit == Init => PresetInv
<1> SUFFICES ASSUME Init PROVE PresetInv
  OBVIOUS
<1> DEFINE f == [keys |-> keys, rev |-> 0]
<1>1. keys \in KeySet /\ f \in Content /\ f # Absent /\ f # Torn
  BY PresetAssumption DEF Init, Content
<1>2. /\ primaryNow \in {Absent, f} /\ (primaryNow = Absent <=> IsEmpty(keys))
      /\ primarySaved = primaryNow /\ backupNow = primaryNow /\ backupSaved = primaryNow
  BY <1>1 DEF Init
<1>3. /\ acked = 0 /\ backed = 0 /\ rev = 0 /\ changes = 0 /\ kept = StationsOn(keys)
      /\ 0 \in 0..MaxChanges /\ kept \subseteq Stations
  BY <1>1, ContentFacts, PresetAssumption DEF Init
<1>4. /\ pc = [r \in Requests |-> "idle"] /\ op = [r \in Requests |-> [kind |-> "none"]]
      /\ seen = [r \in Requests |-> NoPreset] /\ bytes = [r \in Requests |-> Absent] /\ met = FALSE /\ moved = {}
  BY DEF Init
<1>5. StoreInv
  <2>1. {primaryNow, primarySaved, backupNow, backupSaved} \subseteq Content \cup {Absent, Torn}
    BY <1>1, <1>2
  <2>2. /\ pc \in [Requests -> Steps] /\ seen \in [Requests -> Preset \cup {NoPreset}]
        /\ bytes \in [Requests -> Content \cup {Absent}] /\ met \in BOOLEAN /\ moved \subseteq Streams
    BY <1>4 DEF Steps
  <2>3. \A r \in Requests : pc[r] \notin Saving /\ bytes[r] = Absent
    BY <1>4 DEF Saving
  <2> HIDE DEF f
  <2>4. TypeOK
    BY <1>1, <1>3, <2>1, <2>2 DEF TypeOK
  <2> QED
    BY <1>3, <2>3, <2>4 DEF StoreInv
<1>6. OpInv /\ SaveInv
  BY <1>4 DEF OpInv, SaveInv, AllOps
<1>7. BackupInv
  BY <1>1, <1>2, <1>3 DEF BackupInv
<1>8. FileInv
  <2>1. Loaded(f, f) = f
    BY <1>1 DEF Loaded, Usable
  <2>2. Loaded(Absent, Absent) = Empty
    BY DEF Loaded, Usable, Empty
  <2>3. CASE IsEmpty(keys)
    BY <1>2, <1>3, <2>2, <2>3, EmptyFacts, PresetAssumption DEF FileInv, Safe, IsEmpty, Empty
  <2>4. CASE ~IsEmpty(keys)
    BY <1>1, <1>2, <1>3, <2>1, <2>4 DEF FileInv, Safe
  <2> QED
    BY <2>3, <2>4
<1> QED
  BY <1>5, <1>6, <1>7, <1>8 DEF PresetInv

LEMMA PresetStep == PresetInv /\ [Next]_vars => PresetInv'
<1> SUFFICES ASSUME PresetInv, [Next]_vars PROVE PresetInv'
  OBVIOUS
<1>1. ASSUME NEW r \in Requests, RequestStep(r) PROVE PresetInv'
  BY <1>1, LooksKeep, ChangeKeeps, WritesKeep, BackupsKeep DEF RequestStep, Looks
<1>2. ASSUME NEW r \in Requests, NEW o \in Ops, Arrive(r, o) PROVE PresetInv'
  BY <1>2, ArriveKeeps
<1>3. CASE (Restart \/ PowerCut \/ PowerCutTruncates) /\ UNCHANGED met
  BY <1>3, RestartKeeps, CutKeeps
<1>4. CASE UNCHANGED vars
  BY <1>4 DEF vars, store, files, history, PresetInv, StoreInv, TypeOK, OpInv, SaveInv, BackupInv, FileInv, Safe
<1> QED
  BY <1>1, <1>2, <1>3, <1>4 DEF Next

LEMMA PresetAlways == Spec => []PresetInv
BY PresetInit, PresetStep, PTL DEF Spec

(* Every Save under way writes exactly what the store holds, since a       *)
(* change waits for the Saves that hold the read lock: the order in which  *)
(* overlapping Saves reach the flash cannot matter (Store.Save).           *)
THEOREM StoreInvHolds == Spec => []StoreInv
<1>1. PresetInv => StoreInv
  BY DEF PresetInv
<1> QED
  BY <1>1, PresetAlways, PTL

(* A Save that returned without an error is what the next start loads, or  *)
(* a later change is, whatever Saves, failed writes, restarts and power    *)
(* cuts lie between (Store.Save, Store.Load).                              *)
THEOREM AcknowledgedSurvivesHolds == Spec => []AcknowledgedSurvives
<1>1. PresetInv => AcknowledgedSurvives
  BY DEF PresetInv, FileInv, Safe, AcknowledgedSurvives
<1> QED
  BY <1>1, PresetAlways, PTL

(* presets.json.bak is never an empty set and never older than the last    *)
(* backup that was reported written (Store.Save).                          *)
THEOREM SafetyNetHolds == Spec => []SafetyNet
<1>1. PresetInv => SafetyNet
  BY DEF PresetInv, BackupInv, SafetyNet
<1> QED
  BY <1>1, PresetAlways, PTL

(* A station that was saved once is found by every later start, until a    *)
(* request replaces or removes it (Load's recovery from the backup, Move   *)
(* and Swap that never leave a station on no key).                         *)
THEOREM KeptStationsSurviveHolds == Spec => []KeptStationsSurvive
<1>1. PresetInv => KeptStationsSurvive
  BY DEF PresetInv, FileInv, Safe, KeptStationsSurvive
<1> QED
  BY <1>1, PresetAlways, PTL
-----------------------------------------------------------------------------
(* A stream on two keys is one that a heal has brought, one of M.          *)
OneEach(k, M) ==
  \A s, q \in Slots : s # q /\ Held(k, s) /\ Held(k, q) /\ k[s].stream = k[q].stream => k[s].stream \in M

(* What the request is about to do still fits what the store holds.        *)
Ready(r) ==
  /\ op[r].kind = "put" => ~Refused(keys, op[r].payload)
  /\ op[r].kind \in {"rename", "move"} \cup Heals => seen[r] = keys[op[r].slot]

(* As long as no two requests met, one at most is under way, what it looked *)
(* at is still so, and neither the store nor a file has a stream twice that *)
(* no heal brought.                                                        *)
OneInv ==
  met \/ /\ \A r, q \in Requests : pc[r] # "idle" /\ pc[q] # "idle" => r = q
         /\ OneEach(keys, moved)
         /\ \A f \in {primaryNow, primarySaved, backupNow, backupSaved} :
              f \in Content => OneEach(f.keys, moved)
         /\ \A r \in Requests : pc[r] = "change" => Ready(r)

LEMMA MoreMoved ==
  ASSUME NEW k, NEW M, NEW N, M \subseteq N, OneEach(k, M)
  PROVE  OneEach(k, N)
BY DEF OneEach

(* A key that keeps its stream, or gets one that counts as moved.          *)
LEMMA OtherForm ==
  ASSUME NEW s, NEW p \in Preset, NEW M, NEW N, keys \in KeySet, OneEach(keys, M), M \subseteq N,
         \/ p.stream \in N
         \/ keys[s] # NoPreset /\ p.stream = keys[s].stream
  PROVE  OneEach([keys EXCEPT ![s] = p], N)
<1> DEFINE k == [keys EXCEPT ![s] = p]
<1>1. \A q \in Slots : k[q] = IF q = s THEN p ELSE keys[q]
  BY DEF KeySet
<1> HIDE DEF k
<1>2. ASSUME NEW q \in Slots, NEW u \in Slots, q # u, Held(k, q), Held(k, u), k[q].stream = k[u].stream
      PROVE  k[q].stream \in N
  <2>1. CASE p.stream \in N
    BY <1>1, <1>2, <2>1 DEF OneEach, Held
  <2>2. CASE keys[s] # NoPreset /\ p.stream = keys[s].stream
    <3>1. \A v \in {q, u} : Held(keys, v) /\ keys[v].stream = k[v].stream
      BY <1>1, <1>2, <2>2 DEF Held
    <3> QED
      BY <1>2, <3>1 DEF OneEach
  <2> QED
    BY <2>1, <2>2
<1> QED
  BY <1>2 DEF OneEach, k

(* What a request is about to do is what the look that let it pass saw.    *)
LEMMA LooksReady ==
  ASSUME PresetInv, NEW r \in Requests, Looks(r), pc'[r] = "change"
  PROVE  Ready(r)'
<1>1. /\ pc \in [Requests -> Steps] /\ op \in [Requests -> AllOps] /\ keys' = keys
      /\ seen \in [Requests -> Preset \cup {NoPreset}]
  BY DEF Looks, LookForPut, LookForHold, ReadKey, CheckSwap, CheckHeal, store, PresetInv, StoreInv, TypeOK, OpInv
<1>2. ~Finish(r)
  BY <1>1 DEF Finish, GoTo
<1>3. CASE LookForPut(r)
  <2>1. ~Refused(keys, op[r].payload) /\ op' = op /\ op[r].kind = "put"
    BY <1>2, <1>3 DEF LookForPut
  <2> QED
    BY <1>1, <2>1 DEF Ready, Refused, Collisions, Held, Heals
<1>4. CASE LookForHold(r)
  <2> DEFINE payload == [s \in {op[r].slot} |-> op[r].stream]
  <2>1. ~Refused(keys, payload) /\ op' = [op EXCEPT ![r] = [kind |-> "put", payload |-> payload]]
    <3>1. pc' # [pc EXCEPT ![r] = "check"]
      BY <1>1
    <3> QED
      BY <1>4, <3>1 DEF LookForHold, GoTo
  <2> HIDE DEF payload
  <2>2. op'[r] = [kind |-> "put", payload |-> payload]
    BY <1>1, <2>1
  <2> QED
    BY <1>1, <2>1, <2>2 DEF Ready, Refused, Collisions, Held, Heals
<1>5. CASE ReadKey(r)
  <2>1. seen' = [seen EXCEPT ![r] = keys[op[r].slot]] /\ op' = op
    BY <1>2, <1>5 DEF ReadKey
  <2>2. op[r].kind # "put"
    BY <1>5 DEF ReadKey, Heals
  <2> QED
    BY <1>1, <2>1, <2>2 DEF Ready
<1>6. CASE CheckSwap(r)
  <2>1. op' = op /\ op[r].kind = "swap"
    BY <1>2, <1>6 DEF CheckSwap
  <2> QED
    BY <2>1 DEF Ready, Heals
<1>7. CASE CheckHeal(r)
  <2>1. op' = op /\ seen' = seen /\ op[r].kind = "heal" /\ keys[op[r].slot] = seen[r]
    BY <1>2, <1>7 DEF CheckHeal
  <2> QED
    BY <1>1, <2>1 DEF Ready
<1> QED
  BY <1>3, <1>4, <1>5, <1>6, <1>7 DEF Looks

LEMMA OneEachInit == Init => OneInv
<1> SUFFICES ASSUME Init PROVE OneInv
  OBVIOUS
<1>1. OneEach(keys, moved)
  BY PresetAssumption DEF Init, OneEach, Held
<1>2. \A f \in {primaryNow, primarySaved, backupNow, backupSaved} : f \in Content => OneEach(f.keys, moved)
  BY <1>1, PresetAssumption DEF Init
<1>3. \A r \in Requests : pc[r] = "idle"
  BY DEF Init
<1> QED
  BY <1>1, <1>2, <1>3 DEF OneInv

(* A request that looked at the keys puts no stream on a second one, but   *)
(* for the stream a heal brings.                                           *)
LEMMA ChangedKeepsOneEach ==
  ASSUME PresetInv, NEW r \in Requests, pc[r] = "change", OneEach(keys, moved), Ready(r),
         NEW M, M = moved \cup (IF op[r].kind \in Heals THEN {op[r].to} ELSE {})
  PROVE  OneEach(Changed(r), M)
<1> DEFINE o == op[r]
<1>0. moved \subseteq M /\ OneEach(keys, M)
  BY MoreMoved
<1>1. o \in AllOps /\ o.kind # "none" /\ o.kind # "hold" /\ keys \in KeySet
      /\ (o.kind \in {"rename", "move"} \cup Heals => seen[r] \in Preset)
  BY DEF PresetInv, OpInv, StoreInv, TypeOK
<1>2. CASE o.kind = "put"
  <2>1. o.payload \in Payloads
    BY <1>1, <1>2 DEF AllOps, Ops, Heals
  <2>2. PICK S \in SUBSET Slots : o.payload \in [S -> Streams]
    BY <2>1 DEF Payloads
  <2>3. IsInjective(o.payload) /\ Collisions(keys, o.payload) = {}
    BY <1>2 DEF Ready, Refused
  <2>4. \A s, q \in S : o.payload[s] = o.payload[q] => s = q
    BY <2>2, <2>3 DEF IsInjective
  <2>5. \A s \in Slots \ S, q \in S : Held(keys, s) => keys[s].stream # o.payload[q]
    BY <2>2, <2>3 DEF Collisions, Range
  <2>6. Changed(r) = Put(keys, o.payload)
    BY <1>2 DEF Changed, Heals
  <2>7. \A s \in Slots : Put(keys, o.payload)[s] =
          IF s \in S THEN [stream |-> o.payload[s], name |-> "given"] ELSE keys[s]
    BY <2>2 DEF Put
  <2> DEFINE k == Put(keys, o.payload)
  <2>9. \A s \in Slots : /\ s \in S => k[s].stream = o.payload[s]
                         /\ s \notin S => k[s] = keys[s]
    <3> SUFFICES ASSUME NEW s \in Slots
                 PROVE  (s \in S => k[s].stream = o.payload[s]) /\ (s \notin S => k[s] = keys[s])
      OBVIOUS
    <3>1. s \in S => k[s] = [stream |-> o.payload[s], name |-> "given"]
      BY <2>7
    <3>2. s \notin S => k[s] = keys[s]
      BY <2>7
    <3> HIDE DEF k
    <3> QED
      BY <3>1, <3>2
  <2> HIDE DEF k
  <2>8. ASSUME NEW s \in Slots, NEW q \in Slots, s # q,
               Held(k, s), Held(k, q), k[s].stream = k[q].stream
        PROVE  k[s].stream \in M
    <3>1. CASE s \in S /\ q \in S
      BY <2>4, <2>8, <2>9, <3>1
    <3>2. CASE s \notin S /\ q \in S
      BY <2>5, <2>8, <2>9, <3>2 DEF Held
    <3>3. CASE s \in S /\ q \notin S
      BY <2>5, <2>8, <2>9, <3>3 DEF Held
    <3>4. CASE s \notin S /\ q \notin S
      BY <1>0, <2>8, <2>9, <3>4 DEF Held, OneEach
    <3> QED
      BY <3>1, <3>2, <3>3, <3>4
  <2> QED
    BY <2>6, <2>8 DEF OneEach, k
<1>3. CASE o.kind = "rename"
  <2> DEFINE p == [seen[r] EXCEPT !.name = "renamed"]
  <2>1. Changed(r) = [keys EXCEPT ![o.slot] = p]
    BY <1>3 DEF Changed, Heals
  <2>2. seen[r] = keys[o.slot] /\ seen[r] # NoPreset /\ seen[r] \in Preset
    BY <1>1, <1>3, PresetAssumption DEF Ready
  <2>3. p \in Preset /\ p.stream = seen[r].stream
    BY <2>2 DEF Preset
  <2> HIDE DEF p
  <2> QED
    <3>1. keys[o.slot] # NoPreset /\ p.stream = keys[o.slot].stream
      BY <2>2, <2>3
    <3>2. OneEach([keys EXCEPT ![o.slot] = p], M)
      BY <1>0, <1>1, <2>3, <3>1, OtherForm
    <3> QED
      BY <2>1, <3>2
<1>4. CASE o.kind \in Heals
  <2> DEFINE p == [seen[r] EXCEPT !.stream = o.to]
  <2>1. Changed(r) = [keys EXCEPT ![o.slot] = p]
    BY <1>4 DEF Changed, Heals
  <2>2. seen[r] \in Preset /\ o.to \in Streams /\ o.to \in M
    BY <1>1, <1>4 DEF AllOps, Ops, Heals
  <2>3. p \in Preset /\ p.stream = o.to
    BY <2>2 DEF Preset
  <2> HIDE DEF p
  <2> QED
    <3>1. p.stream \in M
      BY <2>2, <2>3
    <3>2. OneEach([keys EXCEPT ![o.slot] = p], M)
      BY <1>0, <1>1, <2>3, <3>1, OtherForm
    <3> QED
      BY <2>1, <3>2
<1>5. CASE o.kind = "delete"
  BY <1>0, <1>1, <1>5 DEF Changed, Heals, OneEach, Held, KeySet
<1>6. CASE o.kind = "move"
  <2>1. seen[r] = keys[o.slot] /\ seen[r] # NoPreset
        /\ Changed(r) = [keys EXCEPT ![o.slot] = NoPreset, ![o.other] = seen[r]]
    BY <1>1, <1>6, PresetAssumption DEF Ready, Changed, Heals, Moved
  <2> DEFINE k == [keys EXCEPT ![o.slot] = NoPreset, ![o.other] = seen[r]]
  <2>2. /\ o.slot \in Slots /\ o.other \in Slots
        /\ \A s \in Slots : k[s] = IF s = o.other THEN keys[o.slot] ELSE IF s = o.slot THEN NoPreset ELSE keys[s]
    BY <1>1, <1>6, <2>1 DEF AllOps, Ops, Heals, KeySet
  <2> HIDE DEF k
  <2>3. OneEach(k, M)
    BY <1>0, <2>2 DEF OneEach, Held
  <2> QED
    BY <2>1, <2>3 DEF k
<1>7. CASE o.kind = "swap"
  <2>1. Changed(r) = [keys EXCEPT ![o.slot] = keys[o.other], ![o.other] = keys[o.slot]]
    BY <1>7 DEF Changed, Heals, Swapped
  <2>2. o.slot \in Slots /\ o.other \in Slots
    BY <1>1, <1>7 DEF AllOps, Ops, Heals
  <2> QED
    BY <1>0, <1>1, <2>1, <2>2 DEF OneEach, Held, KeySet
<1> QED
  BY <1>1, <1>2, <1>3, <1>4, <1>5, <1>6, <1>7 DEF AllOps, Ops, Heals

(* Only one request is under way, and it is r.                             *)
LEMMA AloneKeeps ==
  ASSUME PresetInv, PresetInv', OneInv, ~met, UNCHANGED met, NEW r \in Requests, pc[r] # "idle",
         \A q \in Requests \ {r} : pc'[q] = pc[q],
         OneEach(keys', moved'), pc'[r] = "change" => Ready(r)',
         \A f \in {primaryNow', primarySaved', backupNow', backupSaved'} : f \in Content => OneEach(f.keys, moved')
  PROVE  OneInv'
<1>1. \A q \in Requests \ {r} : pc'[q] = "idle"
  BY DEF OneInv
<1> QED
  BY <1>1 DEF OneInv

LEMMA BootKeepsOneEach ==
  ASSUME PresetInv, OneInv, ~met, UNCHANGED met, Restart \/ PowerCut \/ PowerCutTruncates
  PROVE  OneInv'
<1>1. PICK p \in {primaryNow, primarySaved, Torn}, b \in {backupNow, backupSaved} : Boot(p, b) /\ primarySaved' \in {primarySaved, primaryNow'}
      /\ {backupNow', backupSaved'} \subseteq {backupNow, backupSaved} /\ moved' = moved
  BY DEF Restart, PowerCut, PowerCutTruncates, history
<1>2. p \in Content \cup {Absent, Torn} /\ b \in Content \cup {Absent, Torn}
  BY <1>1 DEF PresetInv, StoreInv, TypeOK
<1>3. OneEach(Empty.keys, moved) /\ Empty \in Content
  BY PresetAssumption DEF Empty, OneEach, Held, Content, KeySet
<1>4. \A f \in {p, b, Empty} : f \in Content => OneEach(f.keys, moved)
  BY <1>1, <1>3, PresetAssumption DEF OneInv
<1>5. Loaded(p, b) \in Content /\ Loaded(p, b) \in {p, b, Empty}
  BY <1>2, LoadedFacts
<1>6. OneEach(keys', moved') /\ primaryNow' \in {p, b}
  BY <1>1, <1>2, <1>4, <1>5, BootFacts
<1>7. \A q \in Requests : pc'[q] = "idle"
  BY <1>1, <1>2, BootFacts
<1>8. \A f \in {primaryNow', primarySaved', backupNow', backupSaved'} : f \in Content => OneEach(f.keys, moved')
  BY <1>1, <1>4, <1>6 DEF OneInv
<1> QED
  BY <1>6, <1>7, <1>8 DEF OneInv

LEMMA OneStep == PresetInv /\ PresetInv' /\ OneInv /\ [Next]_vars => OneInv'
<1> SUFFICES ASSUME PresetInv, PresetInv', OneInv, [Next]_vars PROVE OneInv'
  OBVIOUS
<1> DEFINE Kept == \A f \in {primaryNow', primarySaved', backupNow', backupSaved'} : f \in Content => OneEach(f.keys, moved')
<1>1. CASE met /\ met'
  BY <1>1 DEF OneInv
<1>2. CASE met /\ ~met'
  BY <1>2 DEF Next, RequestStep, Arrive, vars
<1>3. CASE ~met
  <2> USE <1>3
  <2>0. OneEach(keys, moved) /\ \A r \in Requests : pc[r] = "change" => Ready(r)
    BY DEF OneInv
  <2>1. ASSUME NEW r \in Requests, NEW o \in Ops, Arrive(r, o) PROVE OneInv'
    <3>1. CASE met'
      BY <3>1 DEF OneInv
    <3>2. CASE ~met'
      <4>1. \A q \in Requests : pc[q] = "idle"
        BY <2>1, <3>2 DEF Arrive
      <4>2. /\ UNCHANGED <<store, files, seen, moved>> /\ op' = [op EXCEPT ![r] = o]
            /\ pc' = [pc EXCEPT ![r] = IF o.kind = "delete" THEN "change" ELSE "read"]
        BY <2>1 DEF Arrive, GoTo, history
      <4>3. pc \in [Requests -> Steps] /\ op \in [Requests -> AllOps]
        BY DEF PresetInv, StoreInv, TypeOK, OpInv
      <4>4. \A q \in Requests : q # r => pc'[q] = "idle"
        BY <4>1, <4>2, <4>3
      <4>5. pc'[r] = "change" => op'[r].kind = "delete"
        BY <4>2, <4>3
      <4>6. \A q \in Requests : pc'[q] = "change" => Ready(q)'
        BY <4>4, <4>5 DEF Ready, Heals
      <4>7. OneEach(keys', moved') /\ Kept
        BY <2>0, <4>2 DEF OneInv, store, files
      <4> QED
        BY <4>4, <4>6, <4>7 DEF OneInv
    <3> QED
      BY <3>1, <3>2
  <2>2. ASSUME NEW r \in Requests, RequestStep(r) PROVE OneInv'
    <3>1. /\ UNCHANGED met /\ pc \in [Requests -> Steps] /\ op \in [Requests -> AllOps]
          /\ seen \in [Requests -> Preset \cup {NoPreset}]
      BY <2>2 DEF RequestStep, PresetInv, StoreInv, TypeOK, OpInv
    <3>2. CASE Looks(r)
      <4>1. UNCHANGED <<store, files, moved>> /\ pc[r] # "idle" /\ pc[r] # "change"
        BY <3>2 DEF history, Looks, LookForPut, LookForHold, ReadKey, CheckSwap, CheckHeal
      <4>2. OneEach(keys', moved') /\ Kept
        BY <2>0, <4>1 DEF OneInv, store, files
      <4>3. \A q \in Requests \ {r} : pc'[q] = pc[q]
        BY <3>1, <3>2 DEF Looks, LookForPut, LookForHold, ReadKey, CheckSwap, CheckHeal, Finish, GoTo
      <4>4. pc'[r] = "change" => Ready(r)'
        BY <3>1, <3>2, LooksReady
      <4> QED
        BY <3>1, <4>1, <4>2, <4>3, <4>4, AloneKeeps
    <3>3. CASE Change(r)
      <4>1. /\ pc[r] = "change" /\ keys' = Changed(r) /\ UNCHANGED files
            /\ pc' = [pc EXCEPT ![r] = "save"]
        BY <3>3 DEF Change, GoTo
      <4>2. OneEach(keys', moved')
        <5>1. moved' = moved \cup (IF op[r].kind \in Heals THEN {op[r].to} ELSE {})
          BY <3>3 DEF Change
        <5> QED
          BY <2>0, <4>1, <5>1, ChangedKeepsOneEach
      <4>3. Kept
        <5>1. moved \subseteq moved'
          BY <3>3 DEF Change
        <5> QED
          BY <4>1, <5>1, MoreMoved DEF OneInv, files
      <4>4. pc'[r] = "save" /\ \A q \in Requests \ {r} : pc'[q] = pc[q]
        BY <3>1, <4>1
      <4> QED
        BY <3>1, <4>1, <4>2, <4>3, <4>4, AloneKeeps
    <3>4. CASE ~Looks(r) /\ ~Change(r)
      <4>1. /\ UNCHANGED <<store, moved>> /\ pc[r] \in Saving \cup {"save"}
            /\ \E s \in Saving \cup {"idle"} : GoTo(r, s)
            /\ {primaryNow', primarySaved', backupNow', backupSaved'}
                 \subseteq {primaryNow, primarySaved, backupNow, backupSaved, bytes[r]}
        <5>1. \/ Save(r) \/ WritePrimary(r) \/ PrimaryFails(r) \/ SyncPrimary(r)
              \/ WriteBackup(r) \/ BackupFails(r) \/ SyncBackup(r)
          BY <2>2, <3>4 DEF RequestStep, Looks
        <5>2. CASE Save(r) \/ PrimaryFails(r) \/ BackupFails(r)
          BY <5>2 DEF Save, PrimaryFails, BackupFails, EndSave, Finish, Saving, files, history
        <5>3. CASE WritePrimary(r) \/ SyncPrimary(r)
          BY <5>3 DEF WritePrimary, SyncPrimary, EndSave, Finish, Saving, history, Primary!Replace, Primary!Persist
        <5>4. CASE WriteBackup(r) \/ SyncBackup(r)
          BY <5>4 DEF WriteBackup, SyncBackup, EndSave, Finish, Saving, history, Backup!Replace, Backup!Persist
        <5> QED
          BY <5>1, <5>2, <5>3, <5>4
      <4>2. bytes[r] \in Content => OneEach(bytes[r].keys, moved)
        BY <2>0, PresetAssumption DEF PresetInv, StoreInv
      <4>3. OneEach(keys', moved') /\ Kept
        BY <2>0, <4>1, <4>2 DEF OneInv, store
      <4>4. pc'[r] # "change" /\ pc[r] # "idle" /\ \A q \in Requests \ {r} : pc'[q] = pc[q]
        BY <3>1, <4>1 DEF GoTo, Saving
      <4> QED
        BY <3>1, <4>3, <4>4, AloneKeeps
    <3> QED
      BY <3>2, <3>3, <3>4
  <2>3. CASE (Restart \/ PowerCut \/ PowerCutTruncates) /\ UNCHANGED met
    BY <2>3, BootKeepsOneEach
  <2>4. CASE UNCHANGED vars
    BY <2>4 DEF vars, store, files, history, OneInv, Ready, OneEach, Held
  <2> QED
    BY <2>1, <2>2, <2>3, <2>4 DEF Next
<1> QED
  BY <1>1, <1>2, <1>3

(* OneKeyPerStream holds in every reachable state: the refusal of a set    *)
(* that has a stream twice or collides with another key, the swap that     *)
(* takes a held key's stream over and the move in one change leave each    *)
(* stream on one key, in RAM and in both files, as long as no two requests *)
(* overlap and no heal brings the stream to a second key (savePresetSlot,  *)
(* handlePresetsBulkPut, holdSaveOrSwap, MoveSlot).                        *)
THEOREM OneKeyPerStreamHolds == Spec => []OneKeyPerStream
<1>1. PresetInv /\ OneInv => OneKeyPerStream
  <2> SUFFICES ASSUME ~met, OneEach(keys, moved), NEW u \in Streams \ moved
               PROVE  Cardinality(SlotsWith(keys, u)) <= 1
    BY DEF OneInv, OneKeyPerStream
  <2>1. \A s, q \in SlotsWith(keys, u) : s = q
    BY DEF SlotsWith, OneEach
  <2>2. SlotsWith(keys, u) = {} \/ \E s : SlotsWith(keys, u) = {s}
    BY <2>1
  <2>3. CASE SlotsWith(keys, u) = {}
    BY <2>3, FS_EmptySet
  <2>4. CASE \E s : SlotsWith(keys, u) = {s}
    <3>1. Cardinality(SlotsWith(keys, u)) = 1
      BY <2>4, FS_Singleton, Zenon
    <3> QED
      BY <3>1
  <2> QED
    BY <2>2, <2>3, <2>4
<1> QED
  BY <1>1, OneEachInit, OneStep, PresetAlways, PTL DEF Spec
=============================================================================
