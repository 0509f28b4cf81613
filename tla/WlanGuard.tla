----------------------------- MODULE WlanGuard ------------------------------
(***************************************************************************)
(* Moving the speaker to another Wi-Fi network and keeping it there: the   *)
(* switch of PUT /api/box/wlan and the clear of its DELETE (wlan.go,       *)
(* wlanclear.go), the record of the network the user asked for             *)
(* (wlantarget.go), what retires it (wlansupersede.go), and the guard that *)
(* corrects the network once per boot (wlanguard.go).  All of them move    *)
(* the same wpa_supplicant under wlanMu; the guard drops the mutex between *)
(* its attempts, and a request persists its credentials before it waits    *)
(* for it.                                                                 *)
(*                                                                         *)
(* The speaker's own firmware decides which stored network the speaker     *)
(* boots on, and its owner may add one there.  The chassis modelled is the *)
(* one whose Wi-Fi can be switched at run time (mechanism "wpa").          *)
(***************************************************************************)
EXTENDS Naturals, FiniteSets

CONSTANTS
  Nets,              \* names of Wi-Fi networks
  Requests,          \* PUT requests
  Guard,             \* the guard, as a holder of wlanMu
  None,
  MaxFailedBoots,    \* maxFailedBoots
  MaxOwnerOverrides, \* maxOwnerOverrides
  MaxAttempts,       \* wlanGuardAttempts
  MaxBoots           \* bound

Target == [ssid : Nets, gen : Nat, failed : Nat, over : Nat,
           verdict : {"", "moved-back", "failed", "on-target", "stood-down", "gave-up"}]

ASSUME WlanAssumption ==
  /\ {MaxFailedBoots, MaxOwnerOverrides, MaxAttempts} \subseteq Nat \ {0}
  /\ MaxBoots \in Nat
  /\ None \notin Nets \cup Requests \cup {Guard} /\ None \notin Target
  /\ None \notin [tag : Nets, nets : SUBSET Nets]
  /\ Guard \notin Requests

VARIABLES
  target,            \* wlan-target, or None
  creds, credsBak,   \* the network of wlan-creds and of its .bak, or None
  known,             \* wlan-known.json, or None
  profiles,          \* networks in the firmware's own store
  conf, confBak,     \* the network wpa_supplicant.conf names, and its backup
  net,               \* the network the speaker is on, or None
  reach, wired,      \* this boot: the networks it can join; a cable is in
  lock,              \* holder of wlanMu, or None
  gpc, gtgt, gcur,   \* the guard: next step, its copy of the target, cameUpOn
  attempt, bootConf, \* its attempts, the conf it snapshotted or None
  rpc, want,         \* each PUT: next step, the network it asks for
  boots,             \* counted against MaxBoots
  moved, missed,     \* history: boots corrected, boots failed, for one wish
                     \* and with no boot between that left it alone
  added,             \* history: networks the owner added since the last PUT
  mixed              \* history: a PUT met the guard, a boot or another PUT

record == <<target, creds, credsBak, known>>
radio == <<conf, confBak, net>>
world == <<reach, wired, boots>>
guard == <<gpc, gtgt, gcur, attempt, bootConf>>
puts == <<rpc, want>>
counts == <<moved, missed>>
vars == <<record, profiles, radio, world, lock, guard, puts, counts, added, mixed>>

TypeOK ==
  /\ {target, gtgt} \subseteq Target \cup {None}
  /\ {creds, credsBak, conf, confBak, net, gcur, bootConf} \subseteq Nets \cup {None}
  /\ known \in [tag : Nets, nets : SUBSET Nets] \cup {None}
  /\ profiles \subseteq Nets /\ reach \subseteq Nets /\ added \subseteq Nets
  /\ wired \in BOOLEAN /\ mixed \in BOOLEAN
  /\ lock \in Requests \cup {Guard, None} /\ attempt \in 0..MaxAttempts
  /\ gpc \in {"start", "settle", "survey", "attempt", "applying", "backoff", "late",
              "finish", "restore", "done"}
  /\ rpc \in [Requests -> {"idle", "waiting", "applying", "done"}]
  /\ want \in [Requests -> Nets \cup {None}]
  /\ gpc = "applying" <=> lock = Guard
  /\ \A r \in Requests : rpc[r] = "applying" <=> lock = r
  /\ lock = None /\ net # None => net = conf

InFlight == {r \in Requests : rpc[r] \in {"waiting", "applying"}}
GuardBusy == gpc \notin {"start", "done"}
-----------------------------------------------------------------------------
(* The record.                                                             *)

(* armWlanTarget: a generation past the record that is there, 1 if none.   *)
Arm(n) ==
  target' = [ssid |-> n, gen |-> IF target = None THEN 1 ELSE target.gen + 1,
             failed |-> 0, over |-> 0, verdict |-> ""]

(* noteWlanTargetVerdict.                                                  *)
Note(t, verdict, budget) ==
  IF t = None THEN None
  ELSE [t EXCEPT !.verdict = verdict,
                 !.failed = IF budget = "reset" THEN 0
                            ELSE IF budget = "burn" THEN t.failed + 1 ELSE t.failed]

Baseline(n, live) == [tag |-> n, nets |-> ({n, live} \ {None}) \cup profiles]

(* supersedingNetwork: one the owner added, and STR did not know of.       *)
Superseded(n, live) ==
  \E m \in ({live} \ {None}) \cup profiles : m # n /\ m \notin known.nets

(* Mutant of Reconcile: the baseline is renewed, and nothing retired.      *)
ReconcileForgets(live) ==
  LET wish == IF target # None THEN target.ssid ELSE creds
      key == IF creds # None THEN creds ELSE wish
  IN
  /\ known' = IF lock = None /\ wish # None THEN Baseline(key, live) ELSE known
  /\ UNCHANGED <<target, creds, credsBak>>

(* reconcileWlanIntent: not while a switch holds the mutex.  The intent is *)
(* retired, creds included, when the speaker has a network new to STR.     *)
Reconcile(live) ==
  LET wish == IF target # None THEN target.ssid ELSE creds
      key == IF creds # None THEN creds ELSE wish
      stale == known = None \/ known.tag # key
      retire == ~stale /\ (Superseded(key, live) \/ (key # wish /\ Superseded(wish, live)))
  IN
  \/ lock # None /\ UNCHANGED record
  \/ lock = None /\ wish = None /\ UNCHANGED record
  \/ /\ lock = None /\ wish # None /\ ~retire
     /\ known' = IF stale THEN Baseline(key, live) ELSE known
     /\ UNCHANGED <<target, creds, credsBak>>
  \/ /\ lock = None /\ wish # None /\ retire
     /\ target' = None /\ creds' = None /\ known' = None
     /\ UNCHANGED credsBak

(* commitFirmwareProfile: the firmware may refuse.                         *)
Commit(n) == profiles' \in {profiles, profiles \cup {n}}
-----------------------------------------------------------------------------
Home == CHOOSE n \in Nets : TRUE

(* A speaker that was switched to its network earlier, and is booting.     *)
Booted(p, n, r, w) ==
  /\ net' = n /\ conf' \in IF n # None THEN {n} ELSE p \cup (IF p = {} THEN {None} ELSE {})
  /\ reach' = r /\ wired' = w
  /\ n # None => n \in p \cap r

Init ==
  /\ target = [ssid |-> Home, gen |-> 1, failed |-> 0, over |-> 0, verdict |-> ""]
  /\ creds = Home /\ credsBak = None
  /\ profiles \in {p \in SUBSET Nets : Home \in p}
  /\ known = [tag |-> Home, nets |-> profiles]
  /\ conf \in profiles /\ confBak = None
  /\ reach \in SUBSET Nets /\ net \in {conf, None} /\ (net # None => net \in reach)
  /\ wired \in BOOLEAN /\ lock = None
  /\ gpc = "start" /\ gtgt = None /\ gcur = None /\ attempt = 0 /\ bootConf = None
  /\ rpc = [r \in Requests |-> "idle"] /\ want = [r \in Requests |-> None]
  /\ boots = 0 /\ moved = 0 /\ missed = 0 /\ added = {} /\ mixed = FALSE

(* The power is cut, or the box restarts: it comes up on a network that is *)
(* stored, the owner may have added one, and the guard runs anew.          *)
Boot ==
  /\ boots < MaxBoots /\ boots' = boots + 1
  /\ \E new \in {{}} \cup {{n} : n \in Nets}, r \in SUBSET Nets, w \in BOOLEAN :
       /\ profiles' = profiles \cup new /\ added' = added \cup (new \ profiles)
       /\ \E n \in Nets \cup {None} : Booted(profiles', n, r, w)
  /\ lock' = None
  /\ gpc' = "start" /\ gtgt' = None /\ gcur' = None /\ attempt' = 0 /\ bootConf' = None
  /\ rpc' = [r \in Requests |-> IF r \in InFlight THEN "done" ELSE rpc[r]]
  /\ mixed' = (mixed \/ InFlight # {})
  /\ UNCHANGED <<record, confBak, want, counts>>

(* wpa_supplicant associates late, or after a reload.                      *)
Associate ==
  /\ lock = None /\ net = None /\ conf \in reach
  /\ net' = conf
  /\ UNCHANGED <<record, profiles, conf, confBak, world, lock, guard, puts, counts, added, mixed>>
-----------------------------------------------------------------------------
(* StartWLANBootGuard.                                                     *)

Done(t) ==
  /\ target' = t /\ gpc' = "done"
  /\ UNCHANGED <<creds, credsBak, known, profiles, radio, lock, gtgt, gcur, attempt, bootConf>>

GuardStarts ==
  /\ gpc = "start"
  /\ Reconcile(net)
  /\ gtgt' = target'
  /\ gpc' = "settle"
  /\ mixed' = (mixed \/ InFlight # {})
  /\ UNCHANGED <<profiles, radio, world, lock, gcur, attempt, bootConf, puts, counts, added>>

(* A cable is in (standDownForCable), or the association has settled and   *)
(* the record is reconciled against it and read again.                     *)
GuardStandsDownForCable ==
  /\ gpc = "settle" /\ wired
  /\ Done(IF gtgt = None THEN target ELSE Note(target, "stood-down", "hold"))
  /\ moved' = 0
  /\ UNCHANGED <<world, puts, missed, added, mixed>>

GuardSettles ==
  /\ gpc = "settle" /\ ~wired
  /\ gcur' = net
  /\ IF gtgt # None /\ gcur' # None /\ gcur' # gtgt.ssid
       THEN Reconcile(gcur') /\ gtgt' = target'
       ELSE UNCHANGED <<record, gtgt>>
  /\ gpc' = IF gtgt' = None THEN "done" ELSE "survey"
  /\ UNCHANGED <<profiles, radio, world, lock, attempt, bootConf, puts, counts, added, mixed>>

(* guardDecision, when it decides against a correction.                    *)
GuardLeavesIt ==
  /\ gpc = "survey"
  /\ UNCHANGED <<world, puts, added, mixed>>
  /\ \/ /\ gtgt.failed >= MaxFailedBoots
        /\ Done(Note(target, "gave-up", "hold"))
        /\ UNCHANGED counts
     \/ /\ gtgt.failed < MaxFailedBoots /\ gcur # gtgt.ssid
        /\ Done(Note(target, "stood-down", "hold"))
        /\ moved' = 0 /\ UNCHANGED missed
     \/ /\ gtgt.failed < MaxFailedBoots /\ gcur = gtgt.ssid
        /\ Done(Note(target, "on-target", "reset"))
        /\ moved' = 0 /\ missed' = 0

(* Mutant of GuardReapplies: the owner's overrides are counted in the copy *)
(* only.                                                                   *)
GuardReappliesAlways ==
  /\ gpc = "survey"
  /\ gtgt.failed < MaxFailedBoots /\ gcur # None /\ gcur # gtgt.ssid
  /\ gpc' = "attempt" /\ attempt' = 1
  /\ UNCHANGED <<record, profiles, radio, world, lock, gtgt, gcur, bootConf, puts, counts, added,
                 mixed>>

(* It decides for one, the target being in its survey.  A speaker put back *)
(* on another network a boot after the last correction is counted; the     *)
(* guard gives way after MaxOwnerOverrides of them.  The record written is *)
(* the copy read before the survey.                                        *)
GuardReapplies ==
  LET overridden == [gtgt EXCEPT !.over = @ + 1] IN
  /\ gpc = "survey"
  /\ gtgt.failed < MaxFailedBoots /\ gcur # None /\ gcur # gtgt.ssid
  /\ \/ /\ gtgt.verdict # "moved-back"
        /\ gpc' = "attempt" /\ attempt' = 1
        /\ UNCHANGED <<target, gtgt>>
     \/ /\ gtgt.verdict = "moved-back" /\ overridden.over < MaxOwnerOverrides
        /\ target' = overridden /\ gtgt' = overridden
        /\ gpc' = "attempt" /\ attempt' = 1
     \/ /\ gtgt.verdict = "moved-back" /\ overridden.over >= MaxOwnerOverrides
        /\ target' = None
        /\ gpc' = "done" /\ UNCHANGED <<gtgt, attempt>>
  /\ UNCHANGED <<creds, credsBak, known, profiles, radio, world, lock, gcur, bootConf, puts,
                 counts, added, mixed>>

(* correctWLAN, attemptOnce: the conf it booted with is snapshotted once.  *)
GuardApplies ==
  /\ gpc = "attempt" /\ lock = None
  /\ lock' = Guard /\ gpc' = "applying"
  /\ bootConf' = IF bootConf = None THEN conf ELSE bootConf
  /\ confBak' = conf /\ conf' = gtgt.ssid /\ net' = None
  /\ UNCHANGED <<record, profiles, world, gtgt, gcur, attempt, puts, counts, added, mixed>>

(* finishCorrection: every other network is pruned from the running        *)
(* supplicant and from its conf.                                           *)
Finish ==
  /\ conf' = IF conf = gtgt.ssid THEN conf ELSE None
  /\ confBak' = None
  /\ Commit(gtgt.ssid)
  /\ target' = Note(target, "moved-back", "reset")
  /\ moved' = moved + 1 /\ missed' = 0
  /\ gpc' = "done"
  /\ UNCHANGED <<creds, credsBak, known, world, gtgt, gcur, attempt, bootConf, puts, added, mixed>>

GuardConfirmed ==
  /\ gpc = "applying" /\ gtgt.ssid \in reach
  /\ lock' = None /\ net' = gtgt.ssid
  /\ Finish

(* Mutant of GuardNotAssociated: the backoff is spent with the mutex held. *)
GuardKeepsLock ==
  /\ gpc = "applying"
  /\ gpc' = "backoff"
  /\ UNCHANGED <<record, profiles, radio, world, lock, gtgt, gcur, attempt, bootConf, puts, counts,
                 added, mixed>>

GuardNotAssociated ==
  /\ gpc = "applying"
  /\ lock' = None /\ gpc' = "backoff"
  /\ UNCHANGED <<record, profiles, radio, world, gtgt, gcur, attempt, bootConf, puts, counts,
                 added, mixed>>

(* After the backoff: another generation, or none, is another wish.        *)
GuardBacksOff ==
  LET stale == target = None \/ target.gen # gtgt.gen IN
  /\ gpc = "backoff"
  /\ gpc' = IF stale THEN "done" ELSE IF attempt < MaxAttempts THEN "attempt" ELSE "late"
  /\ attempt' = IF ~stale /\ attempt < MaxAttempts THEN attempt + 1 ELSE attempt
  /\ UNCHANGED <<record, profiles, radio, world, lock, gtgt, gcur, bootConf, puts, counts, added,
                 mixed>>

GuardLooksAgain ==
  /\ gpc = "late"
  /\ gpc' = IF net = gtgt.ssid THEN "finish" ELSE "restore"
  /\ UNCHANGED <<record, profiles, radio, world, lock, gtgt, gcur, attempt, bootConf, puts,
                 counts, added, mixed>>

GuardFinishes ==
  /\ gpc = "finish" /\ lock = None
  /\ net' = IF net = gtgt.ssid THEN net ELSE None
  /\ Finish
  /\ UNCHANGED lock

(* Mutant of GuardRestores: the backup of the last attempt is restored.    *)
GuardRestoresBackup ==
  /\ gpc = "restore" /\ lock = None
  /\ conf' = confBak /\ net' = None
  /\ target' = Note(target, "failed", "burn") /\ missed' = missed + 1
  /\ gpc' = "done"
  /\ UNCHANGED <<creds, credsBak, known, profiles, confBak, world, lock, gtgt, gcur, attempt,
                 bootConf, puts, moved, added, mixed>>

(* The attempts are spent: the conf it booted with, and a boot off the     *)
(* budget of whatever record is there by now.                              *)
GuardRestores ==
  /\ gpc = "restore" /\ lock = None
  /\ conf' = bootConf /\ net' = None
  /\ target' = Note(target, "failed", "burn") /\ missed' = missed + 1
  /\ gpc' = "done"
  /\ UNCHANGED <<creds, credsBak, known, profiles, confBak, world, lock, gtgt, gcur, attempt,
                 bootConf, puts, moved, added, mixed>>
-----------------------------------------------------------------------------
(* PUT /api/box/wlan: handleBoxWLAN persists and answers, applyWLANChange  *)
(* switches.                                                               *)

PutPersists(r, n) ==
  /\ rpc[r] = "idle"
  /\ credsBak' = IF creds # None THEN creds ELSE credsBak
  /\ creds' = n
  /\ known' = Baseline(n, None) /\ added' = {}
  /\ rpc' = [rpc EXCEPT ![r] = "waiting"] /\ want' = [want EXCEPT ![r] = n]
  /\ mixed' = (mixed \/ GuardBusy \/ InFlight # {})
  /\ UNCHANGED <<target, profiles, radio, world, lock, guard, counts>>

(* storeWLANForWiredUplink: nothing is switched.                           *)
PutStores(r) ==
  /\ rpc[r] = "waiting" /\ lock = None /\ wired
  /\ credsBak' = None
  /\ Commit(want[r]) /\ Arm(want[r])
  /\ moved' = 0 /\ missed' = 0
  /\ rpc' = [rpc EXCEPT ![r] = "done"]
  /\ UNCHANGED <<creds, known, radio, world, lock, guard, want, added, mixed>>

PutApplies(r) ==
  /\ rpc[r] = "waiting" /\ lock = None /\ ~wired
  /\ lock' = r
  /\ confBak' = conf /\ conf' = want[r] /\ net' = None
  /\ rpc' = [rpc EXCEPT ![r] = "applying"]
  /\ UNCHANGED <<record, profiles, world, guard, want, counts, added, mixed>>

PutConfirmed(r) ==
  /\ rpc[r] = "applying" /\ want[r] \in reach
  /\ net' = want[r] /\ credsBak' = None /\ confBak' = None
  /\ Arm(want[r]) /\ Commit(want[r])
  /\ moved' = 0 /\ missed' = 0
  /\ lock' = None /\ rpc' = [rpc EXCEPT ![r] = "done"]
  /\ UNCHANGED <<creds, known, conf, world, guard, want, added, mixed>>

(* restoreWlanCreds, restoreWPAConfAndReload, clearWlanTarget.             *)
PutRolledBack(r) ==
  /\ rpc[r] = "applying"
  /\ creds' = IF credsBak # None THEN credsBak ELSE creds
  /\ credsBak' = None
  /\ conf' = IF confBak # None THEN confBak ELSE conf
  /\ confBak' = None
  /\ target' = None /\ moved' = 0 /\ missed' = 0
  /\ lock' = None /\ rpc' = [rpc EXCEPT ![r] = "done"]
  /\ UNCHANGED <<known, profiles, net, world, guard, want, added, mixed>>

(* DELETE: over the cable only; every store is emptied.                    *)
Clear ==
  /\ lock = None /\ wired
  /\ target' = None /\ creds' = None /\ credsBak' = None /\ known' = None
  /\ profiles' = {} /\ conf' = None /\ confBak' = None /\ net' = None
  /\ moved' = 0 /\ missed' = 0 /\ added' = {}
  /\ mixed' = (mixed \/ InFlight # {})
  /\ UNCHANGED <<world, lock, guard, puts>>

GuardStep ==
  \/ GuardStarts \/ GuardStandsDownForCable \/ GuardSettles \/ GuardLeavesIt \/ GuardReapplies
  \/ GuardApplies \/ GuardConfirmed \/ GuardNotAssociated \/ GuardBacksOff
  \/ GuardLooksAgain \/ GuardFinishes \/ GuardRestores

PutStep(r) == PutStores(r) \/ PutApplies(r) \/ PutConfirmed(r) \/ PutRolledBack(r)

Next ==
  \/ Boot \/ Associate \/ GuardStep \/ Clear
  \/ \E r \in Requests : PutStep(r) \/ \E n \in Nets : PutPersists(r, n)

Spec == Init /\ [][Next]_vars
-----------------------------------------------------------------------------
(* When neither the guard nor a request is at work, the conf names a       *)
(* network the speaker was on or has joined since, if it came up on one:   *)
(* no failed correction and no failed switch strands it (correctWLAN's     *)
(* bootConf, restoreWPAConfAndReload).  A switch that met the guard or     *)
(* another switch is excepted.                                             *)
NotStranded ==
  gpc = "done" /\ InFlight = {} /\ gcur # None /\ ~mixed => conf \in reach

(* The guard gives way: to an owner who puts the speaker back on another   *)
(* network after every correction, and to a network that cannot be joined  *)
(* on boot after boot (maxOwnerOverrides, maxFailedBoots), requests that   *)
(* write the record at the same time excepted.                             *)
GuardGivesWay == ~mixed => moved <= MaxOwnerOverrides /\ missed <= MaxFailedBoots

(* The guard never takes the speaker off a network its owner added since   *)
(* the last switch (wlansupersede.go), unless that switch met the guard.   *)
OwnersNetworkKept ==
  [][gpc = "attempt" /\ gpc' = "applying" => mixed \/ gcur \notin added]_vars

(* The code claims "A user PUT during the backoff wins": an attempt after  *)
(* the first never follows an older record than the one that is there.     *)
PutWins ==
  [][gpc = "attempt" /\ gpc' = "applying" /\ attempt > 1 /\ target # None
     => target.gen = gtgt.gen]_vars
=============================================================================
