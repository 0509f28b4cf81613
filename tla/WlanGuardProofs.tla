-------------------------- MODULE WlanGuardProofs ---------------------------
(***************************************************************************)
(* Proof that neither a failed correction nor a failed switch strands the  *)
(* speaker, for any networks, requests, attempts, budgets and boots.       *)
(***************************************************************************)
EXTENDS WlanGuard, TLAPS

InWork(r) == rpc[r] \in {"waiting", "applying"}

(* Who holds wlanMu, and what the radio is on.                             *)
RadioInv ==
  /\ {target, gtgt} \subseteq Target \cup {None}
  /\ reach \subseteq Nets
  /\ rpc \in [Requests -> {"idle", "waiting", "applying", "done"}]
  /\ lock \in Requests \cup {Guard, None}
  /\ want \in [Requests -> Nets \cup {None}] /\ \A r \in Requests : InWork(r) => want[r] \in Nets
  /\ gpc = "applying" <=> lock = Guard
  /\ \A r \in Requests : rpc[r] = "applying" <=> lock = r
  /\ net # None => net \in reach
  /\ lock = None /\ net # None => net = conf
  /\ gpc = "applying" => conf = gtgt.ssid
  /\ \A r \in Requests : rpc[r] = "applying" => conf = want[r]
  /\ gpc \in {"start", "settle"} => gcur = None /\ bootConf = None
  /\ gcur # None => ~wired
  /\ gpc \notin {"start", "settle", "done"} => ~wired /\ gtgt # None
  /\ lock # None => net = None

(* The conf that a correction or a switch would put back is of a network   *)
(* the speaker can join, and so is the conf when nothing is under way.     *)
WayBack ==
  /\ bootConf # None => bootConf \in reach
  /\ bootConf = None => gpc \notin {"applying", "backoff", "late", "finish", "restore"}
  /\ gpc = "survey" => bootConf = None
  /\ gpc \in {"survey", "attempt"} /\ bootConf = None => conf \in reach
  /\ gpc = "finish" => conf \in reach /\ conf = gtgt.ssid
  /\ gpc = "done" => IF \E r \in Requests : rpc[r] = "applying"
                       THEN confBak \in reach ELSE conf \in reach

StrandInv ==
  /\ RadioInv
  /\ ~mixed =>
       /\ GuardBusy => \A r \in Requests : ~InWork(r)
       /\ \A r, q \in Requests : InWork(r) /\ InWork(q) => r = q
       /\ ~wired /\ gpc \in {"settle", "survey", "attempt", "applying", "backoff"} => target = gtgt
       /\ gcur # None => WayBack

LEMMA Distinct ==
  None \notin Nets /\ None \notin Target /\ None \notin Requests /\ Guard # None /\ Guard \notin Requests
BY WlanAssumption

LEMMA Fields ==
  ASSUME NEW x \in Target PROVE x.ssid \in Nets /\ {x.gen, x.failed, x.over} \subseteq Nat
BY DEF Target

LEMMA Updates ==
  ASSUME NEW x \in Target, NEW k \in Nat,
         NEW v \in {"", "moved-back", "failed", "on-target", "stood-down", "gave-up"}
  PROVE  /\ [x EXCEPT !.verdict = v, !.failed = k] \in Target
         /\ [x EXCEPT !.over = k] \in Target
BY DEF Target

(* A verdict on a record, a reconciliation of it and a new wish are records. *)
LEMMA Records ==
  /\ \A x \in Target \cup {None}, v \in {"moved-back", "failed", "on-target", "stood-down", "gave-up"},
        b \in {"hold", "burn", "reset"} : Note(x, v, b) \in Target \cup {None}
  /\ \A live : Reconcile(live) => target' \in {target, None}
  /\ \A n \in Nets : target \in Target \cup {None} /\ Arm(n) => target' \in Target
<1>1. ASSUME NEW x \in Target \cup {None}, NEW v \in {"moved-back", "failed", "on-target", "stood-down", "gave-up"},
             NEW b \in {"hold", "burn", "reset"}
      PROVE  Note(x, v, b) \in Target \cup {None}
  <2>1. CASE x = None
    BY <2>1 DEF Note
  <2>2. CASE x # None
    <3> DEFINE k == IF b = "reset" THEN 0 ELSE IF b = "burn" THEN x.failed + 1 ELSE x.failed
    <3>1. x \in Target
      BY <2>2
    <3>2. k \in Nat
      BY <3>1, Fields
    <3>3. Note(x, v, b) = [x EXCEPT !.verdict = v, !.failed = k]
      BY <2>2 DEF Note
    <3> HIDE DEF k
    <3>4. [x EXCEPT !.verdict = v, !.failed = k] \in Target
      BY <3>1, <3>2, Updates
    <3> QED
      BY <3>3, <3>4
  <2> QED
    BY <2>1, <2>2
<1>2. ASSUME NEW live, Reconcile(live) PROVE target' \in {target, None}
  BY <1>2 DEF Reconcile, record
<1>3. ASSUME NEW n \in Nets, target \in Target \cup {None}, Arm(n) PROVE target' \in Target
  <2>1. CASE target = None
    BY <1>3, <2>1 DEF Arm, Target
  <2>2. CASE target # None
    <3>1. target.gen + 1 \in Nat
      BY <1>3, <2>2, Fields
    <3> QED
      BY <1>3, <2>2, <3>1 DEF Arm, Target
  <2> QED
    BY <2>1, <2>2
<1> QED
  BY <1>1, <1>2, <1>3

LEMMA RadioStep == RadioInv /\ [Next]_vars => RadioInv'
<1> SUFFICES ASSUME RadioInv, [Next]_vars PROVE RadioInv'
  OBVIOUS
<1> USE Distinct, Records DEF RadioInv, InWork, InFlight, record, radio, world, guard, puts, counts
<1>1. ASSUME Boot PROVE RadioInv'
  BY <1>1 DEF Boot, Booted
<1>2. ASSUME Associate PROVE RadioInv'
  BY <1>2 DEF Associate
<1>3. ASSUME GuardStarts PROVE RadioInv'
  BY <1>3 DEF GuardStarts
<1>4. ASSUME GuardStandsDownForCable PROVE RadioInv'
  BY <1>4 DEF GuardStandsDownForCable, Done
<1>5. ASSUME GuardSettles PROVE RadioInv'
  BY <1>5 DEF GuardSettles
<1>6. ASSUME GuardLeavesIt PROVE RadioInv'
  BY <1>6 DEF GuardLeavesIt, Done
<1>7. ASSUME GuardReapplies PROVE RadioInv'
  <2>1. gtgt \in Target
    BY <1>7 DEF GuardReapplies
  <2>2. gtgt.over + 1 \in Nat
    BY <2>1, Fields
  <2>3. [gtgt EXCEPT !.over = @ + 1] \in Target
    BY <2>1, <2>2, Updates
  <2>4. /\ target' \in {target, [gtgt EXCEPT !.over = @ + 1], None}
        /\ gtgt' \in {gtgt, [gtgt EXCEPT !.over = @ + 1]}
    BY <1>7 DEF GuardReapplies
  <2>5. target' \in Target \cup {None} /\ gtgt' \in Target
    BY <2>1, <2>3, <2>4
  <2> QED
    BY <1>7, <2>4, <2>5 DEF GuardReapplies
<1>8. ASSUME GuardApplies PROVE RadioInv'
  BY <1>8 DEF GuardApplies
<1>9. ASSUME GuardConfirmed PROVE RadioInv'
  BY <1>9 DEF GuardConfirmed, Finish
<1>10. ASSUME GuardNotAssociated PROVE RadioInv'
  BY <1>10 DEF GuardNotAssociated
<1>11. ASSUME GuardBacksOff PROVE RadioInv'
  BY <1>11 DEF GuardBacksOff
<1>12. ASSUME GuardLooksAgain PROVE RadioInv'
  BY <1>12 DEF GuardLooksAgain
<1>13. ASSUME GuardFinishes PROVE RadioInv'
  BY <1>13 DEF GuardFinishes, Finish
<1>14. ASSUME GuardRestores PROVE RadioInv'
  BY <1>14 DEF GuardRestores
<1>15. ASSUME Clear PROVE RadioInv'
  BY <1>15 DEF Clear
<1>16. ASSUME NEW r \in Requests, NEW n \in Nets, PutPersists(r, n) PROVE RadioInv'
  BY <1>16 DEF PutPersists
<1>17. ASSUME NEW r \in Requests, PutStores(r) PROVE RadioInv'
  BY <1>17 DEF PutStores
<1>18. ASSUME NEW r \in Requests, PutApplies(r) PROVE RadioInv'
  BY <1>18 DEF PutApplies
<1>19. ASSUME NEW r \in Requests, PutConfirmed(r) PROVE RadioInv'
  BY <1>19 DEF PutConfirmed
<1>20. ASSUME NEW r \in Requests, PutRolledBack(r) PROVE RadioInv'
  BY <1>20 DEF PutRolledBack
<1>21. CASE UNCHANGED vars
  BY <1>21 DEF vars
<1> QED
  BY <1>1, <1>2, <1>3, <1>4, <1>5, <1>6, <1>7, <1>8, <1>9, <1>10, <1>11, <1>12, <1>13, <1>14, <1>15, <1>16, <1>17, <1>18, <1>19, <1>20, <1>21
     DEF Next, GuardStep, PutStep
LEMMA StrandStep == StrandInv /\ [Next]_vars => StrandInv'
<1> SUFFICES ASSUME StrandInv, [Next]_vars PROVE StrandInv'
  OBVIOUS
<1> RadioInv'
  BY RadioStep DEF StrandInv
<1> USE Distinct DEF StrandInv, RadioInv, WayBack, GuardBusy, InWork, InFlight,
                    record, radio, world, guard, puts, counts
<1>1. ASSUME Boot PROVE StrandInv'
  BY <1>1 DEF Boot, Booted
<1>2. ASSUME Associate PROVE StrandInv'
  BY <1>2 DEF Associate
<1>3. ASSUME GuardStarts PROVE StrandInv'
  BY <1>3 DEF GuardStarts
<1>4. ASSUME GuardStandsDownForCable PROVE StrandInv'
  BY <1>4 DEF GuardStandsDownForCable, Done
<1>5. ASSUME GuardSettles PROVE StrandInv'
  BY <1>5 DEF GuardSettles
<1>6. ASSUME GuardLeavesIt PROVE StrandInv'
  BY <1>6 DEF GuardLeavesIt, Done
<1>7. ASSUME GuardReapplies PROVE StrandInv'
  BY <1>7 DEF GuardReapplies
<1>8. ASSUME GuardApplies PROVE StrandInv'
  BY <1>8 DEF GuardApplies
<1>9. ASSUME GuardConfirmed PROVE StrandInv'
  BY <1>9 DEF GuardConfirmed, Finish
<1>10. ASSUME GuardNotAssociated PROVE StrandInv'
  BY <1>10 DEF GuardNotAssociated
<1>11. ASSUME GuardBacksOff PROVE StrandInv'
  BY <1>11 DEF GuardBacksOff
<1>12. ASSUME GuardLooksAgain PROVE StrandInv'
  <2>1. gtgt.ssid \in Nets
    BY <1>12 DEF GuardLooksAgain, Target
  <2> QED
    BY <1>12, <2>1 DEF GuardLooksAgain
<1>13. ASSUME GuardFinishes PROVE StrandInv'
  BY <1>13 DEF GuardFinishes, Finish
<1>14. ASSUME GuardRestores PROVE StrandInv'
  BY <1>14 DEF GuardRestores
<1>15. ASSUME Clear PROVE StrandInv'
  BY <1>15 DEF Clear
<1>16. ASSUME NEW r \in Requests, NEW n \in Nets, PutPersists(r, n) PROVE StrandInv'
  BY <1>16 DEF PutPersists
<1>17. ASSUME NEW r \in Requests, PutStores(r) PROVE StrandInv'
  BY <1>17 DEF PutStores
<1>18. ASSUME NEW r \in Requests, PutApplies(r) PROVE StrandInv'
  BY <1>18 DEF PutApplies
<1>19. ASSUME NEW r \in Requests, PutConfirmed(r) PROVE StrandInv'
  BY <1>19 DEF PutConfirmed
<1>20. ASSUME NEW r \in Requests, PutRolledBack(r) PROVE StrandInv'
  BY <1>20 DEF PutRolledBack
<1>21. CASE UNCHANGED vars
  BY <1>21 DEF vars
<1> QED
  BY <1>1, <1>2, <1>3, <1>4, <1>5, <1>6, <1>7, <1>8, <1>9, <1>10, <1>11, <1>12, <1>13, <1>14, <1>15, <1>16, <1>17, <1>18, <1>19, <1>20, <1>21
     DEF Next, GuardStep, PutStep

(* NotStranded holds in every reachable state: correctWLAN's bootConf and  *)
(* restoreWPAConfAndReload put back a network the speaker can join.        *)
THEOREM NotStrandedHolds == Spec => []NotStranded
<1>1. Init => StrandInv
  <2> SUFFICES ASSUME Init PROVE StrandInv
    OBVIOUS
  <2>1. Home \in Nets
    BY DEF Init
  <2>2. target \in Target
    BY <2>1 DEF Init, Target
  <2> QED
    BY <2>2, Distinct DEF Init, StrandInv, RadioInv, InWork, GuardBusy
<1>2. StrandInv => NotStranded
  BY DEF StrandInv, WayBack, NotStranded, InFlight
<1> QED
  BY <1>1, <1>2, StrandStep, PTL DEF Spec
-----------------------------------------------------------------------------
Names == Nets \cup {None}

(* RadioInv and the types of what it leaves open.                          *)
TypeInv ==
  /\ RadioInv
  /\ TypeOK

LEMMA RecordTypes ==
  ASSUME NEW live \in Names, Reconcile(live), TypeOK
  PROVE  /\ creds' \in Names /\ credsBak' \in Names
         /\ known' \in [tag : Nets, nets : SUBSET Nets] \cup {None}
<1> DEFINE wish == IF target # None THEN target.ssid ELSE creds
           key == IF creds # None THEN creds ELSE wish
<1>1. wish # None => wish \in Nets /\ key \in Nets
  BY Fields DEF TypeOK, Names
<1> HIDE DEF wish, key
<1>2. wish # None => Baseline(key, live) \in [tag : Nets, nets : SUBSET Nets]
  BY <1>1 DEF Baseline, TypeOK, Names
<1> QED
  BY <1>2 DEF Reconcile, record, TypeOK, Names, wish, key

LEMMA TypeStep == TypeInv /\ [Next]_vars => TypeInv'
<1> SUFFICES ASSUME TypeInv, [Next]_vars PROVE TypeInv'
  OBVIOUS
<1> RadioInv'
  BY RadioStep DEF TypeInv
<1>a. {target, gtgt} \ {None} \subseteq Target /\ (gtgt # None => gtgt.ssid \in Nets)
  BY Fields DEF TypeInv, TypeOK
<1>b. MaxAttempts \in Nat /\ 1 \in 0..MaxAttempts
  BY WlanAssumption
<1> USE <1>a, <1>b, Distinct DEF TypeInv, TypeOK, RadioInv, InFlight, InWork, record, radio, world, guard, puts, counts
<1>1. ASSUME Boot PROVE TypeInv'
  BY <1>1 DEF Boot, Booted
<1>2. ASSUME Associate PROVE TypeInv'
  BY <1>2 DEF Associate
<1>3. ASSUME GuardStarts PROVE TypeInv'
  BY <1>3, RecordTypes DEF GuardStarts, Names
<1>4. ASSUME GuardStandsDownForCable PROVE TypeInv'
  BY <1>4 DEF GuardStandsDownForCable, Done
<1>5. ASSUME GuardSettles PROVE TypeInv'
  BY <1>5, RecordTypes DEF GuardSettles, Names
<1>6. ASSUME GuardLeavesIt PROVE TypeInv'
  BY <1>6 DEF GuardLeavesIt, Done
<1>7. ASSUME GuardReapplies PROVE TypeInv'
  BY <1>7 DEF GuardReapplies
<1>8. ASSUME GuardApplies PROVE TypeInv'
  BY <1>8 DEF GuardApplies
<1>9. ASSUME GuardConfirmed PROVE TypeInv'
  BY <1>9 DEF GuardConfirmed, Finish, Commit
<1>10. ASSUME GuardNotAssociated PROVE TypeInv'
  BY <1>10 DEF GuardNotAssociated
<1>11. ASSUME GuardBacksOff PROVE TypeInv'
  BY <1>11 DEF GuardBacksOff
<1>12. ASSUME GuardLooksAgain PROVE TypeInv'
  BY <1>12 DEF GuardLooksAgain
<1>13. ASSUME GuardFinishes PROVE TypeInv'
  BY <1>13 DEF GuardFinishes, Finish, Commit
<1>14. ASSUME GuardRestores PROVE TypeInv'
  BY <1>14 DEF GuardRestores
<1>15. ASSUME Clear PROVE TypeInv'
  BY <1>15 DEF Clear
<1>16. ASSUME NEW r \in Requests, NEW n \in Nets, PutPersists(r, n) PROVE TypeInv'
  BY <1>16 DEF PutPersists, Baseline
<1>17. ASSUME NEW r \in Requests, PutStores(r) PROVE TypeInv'
  BY <1>17 DEF PutStores, Commit
<1>18. ASSUME NEW r \in Requests, PutApplies(r) PROVE TypeInv'
  BY <1>18 DEF PutApplies
<1>19. ASSUME NEW r \in Requests, PutConfirmed(r) PROVE TypeInv'
  BY <1>19 DEF PutConfirmed, Commit
<1>20. ASSUME NEW r \in Requests, PutRolledBack(r) PROVE TypeInv'
  BY <1>20 DEF PutRolledBack
<1>21. CASE UNCHANGED vars
  BY <1>21 DEF vars
<1> QED
  BY <1>1, <1>2, <1>3, <1>4, <1>5, <1>6, <1>7, <1>8, <1>9, <1>10, <1>11, <1>12, <1>13, <1>14, <1>15, <1>16, <1>17, <1>18, <1>19, <1>20, <1>21
     DEF Next, GuardStep, PutStep
-----------------------------------------------------------------------------
(* The fields of a record after a verdict, an override and a new wish.     *)
LEMMA NoteFields ==
  ASSUME NEW x \in Target, NEW v, NEW b
  PROVE  /\ Note(x, v, b) # None => Note(x, v, b).verdict = v
         /\ Note(x, v, b).ssid = x.ssid /\ Note(x, v, b).gen = x.gen /\ Note(x, v, b).over = x.over
         /\ Note(x, v, b).failed = IF b = "reset" THEN 0 ELSE IF b = "burn" THEN x.failed + 1 ELSE x.failed
BY Distinct DEF Note, Target

LEMMA OverFields ==
  ASSUME NEW x \in Target, NEW y, y = [x EXCEPT !.over = @ + 1]
  PROVE  /\ y # None /\ y.over = x.over + 1 /\ y.ssid = x.ssid /\ y.gen = x.gen
         /\ y.failed = x.failed /\ y.verdict = x.verdict
<1>1. x.over + 1 \in Nat
  BY Fields
<1>2. y = [x EXCEPT !.over = x.over + 1] /\ y \in Target
  BY <1>1, Updates
<1>3. y # None
  BY <1>2, Distinct
<1>4. y.over = x.over + 1 /\ y.ssid = x.ssid /\ y.gen = x.gen /\ y.failed = x.failed /\ y.verdict = x.verdict
  BY DEF Target
<1> QED
  BY <1>3, <1>4

LEMMA ArmFields ==
  ASSUME NEW n \in Nets, target \in Target \cup {None}, Arm(n)
  PROVE  /\ target' # None /\ target'.ssid = n /\ target'.failed = 0 /\ target'.over = 0 /\ target'.verdict # "moved-back"
         /\ target'.failed \in Nat /\ target'.over \in Nat
<1>1. target' \in Target
  BY Records
<1> QED
  BY <1>1, Fields, Distinct DEF Arm

Correcting == {"attempt", "applying", "backoff", "late", "finish", "restore"}

(* The budgets: the record counts the failed boots and the overrides of    *)
(* one wish, and a correction is only begun with some of both left.        *)
BudgetInv ==
  /\ TypeInv /\ StrandInv
  /\ ~mixed =>
       /\ {moved, missed} \subseteq Nat /\ GuardGivesWay
       /\ gpc \in {"late", "finish", "restore"} => target = gtgt
       /\ gpc \in Correcting => gtgt.failed < MaxFailedBoots /\ moved <= gtgt.over
       /\ target # None =>
            /\ missed = target.failed /\ target.over < MaxOwnerOverrides
            /\ IF target.verdict = "moved-back" THEN target.failed = 0 /\ moved <= target.over + 1
                                                ELSE moved <= target.over

LEMMA BudgetStep == BudgetInv /\ [Next]_vars => BudgetInv'
<1> SUFFICES ASSUME BudgetInv, [Next]_vars PROVE BudgetInv'
  OBVIOUS
<1> TypeInv' /\ StrandInv'
  BY TypeStep, StrandStep DEF BudgetInv
<1>a. /\ MaxFailedBoots \in Nat /\ MaxFailedBoots > 0 /\ MaxOwnerOverrides \in Nat /\ MaxOwnerOverrides > 0
      /\ target # None => target \in Target /\ target.ssid \in Nets /\ {target.failed, target.over, target.gen} \subseteq Nat
      /\ gtgt # None => gtgt \in Target /\ gtgt.ssid \in Nets /\ {gtgt.failed, gtgt.over, gtgt.gen} \subseteq Nat
      /\ DOMAIN want = Requests /\ DOMAIN rpc = Requests
  BY WlanAssumption, Fields DEF BudgetInv, StrandInv, RadioInv
<1> USE <1>a, Distinct DEF BudgetInv, StrandInv, RadioInv, GuardBusy, InFlight, InWork, record, radio, world, guard, puts, counts, Correcting, GuardGivesWay
<1>1. ASSUME Boot PROVE BudgetInv'
  BY <1>1 DEF Boot, Booted
<1>2. ASSUME Associate PROVE BudgetInv'
  BY <1>2 DEF Associate
<1>3. ASSUME GuardStarts PROVE BudgetInv'
  BY <1>3 DEF GuardStarts, Reconcile
<1>4. ASSUME GuardStandsDownForCable PROVE BudgetInv'
  BY <1>4 DEF GuardStandsDownForCable, Done, Note
<1>5. ASSUME GuardSettles PROVE BudgetInv'
  BY <1>5 DEF GuardSettles, Reconcile
<1>6. ASSUME GuardLeavesIt PROVE BudgetInv'
  <2>1. mixed \/ (target = gtgt /\ target \in Target /\ gpc' = "done" /\ mixed' = mixed)
    BY <1>6 DEF GuardLeavesIt, Done
  <2> QED
    BY <1>6, <2>1, NoteFields DEF GuardLeavesIt, Done
<1>7. ASSUME GuardReapplies PROVE BudgetInv'
  <2> DEFINE y == [gtgt EXCEPT !.over = @ + 1]
  <2>1. gtgt \in Target /\ mixed' = mixed /\ moved' = moved /\ missed' = missed /\ ~wired
        /\ (~mixed => target = gtgt)
    BY <1>7 DEF GuardReapplies
  <2>2. /\ y # None /\ y.over = gtgt.over + 1 /\ y.failed = gtgt.failed /\ y.verdict = gtgt.verdict
    BY <2>1, OverFields
  <2> HIDE DEF y
  <2>3. gpc' \in {"attempt", "done"} /\ (gpc' = "attempt" => gtgt.failed < MaxFailedBoots)
    BY <1>7 DEF GuardReapplies
  <2>4. \/ gtgt.verdict # "moved-back" /\ target' = target /\ gtgt' = gtgt
        \/ gtgt.verdict = "moved-back" /\ y.over < MaxOwnerOverrides /\ target' = y /\ gtgt' = y
        \/ target' = None /\ gpc' = "done"
    BY <1>7 DEF GuardReapplies, y
  <2> QED
    BY <2>1, <2>2, <2>3, <2>4
<1>8. ASSUME GuardApplies PROVE BudgetInv'
  BY <1>8 DEF GuardApplies
<1>9. ASSUME GuardConfirmed PROVE BudgetInv'
  BY <1>9 DEF GuardConfirmed, Finish, Commit, Note
<1>10. ASSUME GuardNotAssociated PROVE BudgetInv'
  BY <1>10 DEF GuardNotAssociated
<1>11. ASSUME GuardBacksOff PROVE BudgetInv'
  BY <1>11 DEF GuardBacksOff
<1>12. ASSUME GuardLooksAgain PROVE BudgetInv'
  BY <1>12 DEF GuardLooksAgain
<1>13. ASSUME GuardFinishes PROVE BudgetInv'
  BY <1>13 DEF GuardFinishes, Finish, Commit, Note
<1>14. ASSUME GuardRestores PROVE BudgetInv'
  BY <1>14 DEF GuardRestores, Note
<1>15. ASSUME Clear PROVE BudgetInv'
  BY <1>15 DEF Clear
<1>16. ASSUME NEW r \in Requests, NEW n \in Nets, PutPersists(r, n) PROVE BudgetInv'
  BY <1>16 DEF PutPersists, Baseline
<1>17. ASSUME NEW r \in Requests, PutStores(r) PROVE BudgetInv'
  <2>1. /\ target' # None /\ target'.ssid = want[r] /\ target'.failed = 0 /\ target'.over = 0
        /\ target'.verdict # "moved-back" /\ target'.failed \in Nat /\ target'.over \in Nat
    BY <1>17, ArmFields DEF PutStores
  <2>2. moved' = 0 /\ missed' = 0 /\ mixed' = mixed /\ gpc' = gpc /\ (~mixed => gpc \notin Correcting)
    BY <1>17 DEF PutStores
  <2>3. ~mixed' => moved' \in Nat /\ missed' \in Nat /\ moved' <= MaxOwnerOverrides /\ missed' <= MaxFailedBoots
    BY <2>2
  <2> QED
    BY <2>1, <2>2, <2>3
<1>18. ASSUME NEW r \in Requests, PutApplies(r) PROVE BudgetInv'
  BY <1>18 DEF PutApplies
<1>19. ASSUME NEW r \in Requests, PutConfirmed(r) PROVE BudgetInv'
  <2>1. /\ target' # None /\ target'.ssid = want[r] /\ target'.failed = 0 /\ target'.over = 0
        /\ target'.verdict # "moved-back" /\ target'.failed \in Nat /\ target'.over \in Nat
    BY <1>19, ArmFields DEF PutConfirmed
  <2>2. moved' = 0 /\ missed' = 0 /\ mixed' = mixed /\ gpc' = gpc /\ (~mixed => gpc \notin Correcting)
    BY <1>19 DEF PutConfirmed
  <2>3. ~mixed' => moved' \in Nat /\ missed' \in Nat /\ moved' <= MaxOwnerOverrides /\ missed' <= MaxFailedBoots
    BY <2>2
  <2> QED
    BY <2>1, <2>2, <2>3
<1>20. ASSUME NEW r \in Requests, PutRolledBack(r) PROVE BudgetInv'
  BY <1>20 DEF PutRolledBack
<1>21. CASE UNCHANGED vars
  BY <1>21 DEF vars
<1> QED
  BY <1>1, <1>2, <1>3, <1>4, <1>5, <1>6, <1>7, <1>8, <1>9, <1>10, <1>11, <1>12, <1>13, <1>14, <1>15, <1>16, <1>17, <1>18, <1>19, <1>20, <1>21
     DEF Next, GuardStep, PutStep

(* The intent: what is recorded of the user's wish agrees, and the only    *)
(* added network that counts as known is the one that was asked for.       *)
WishInv ==
  /\ TypeInv /\ StrandInv
  /\ ~mixed =>
       /\ \A r \in Requests : InWork(r) => creds = want[r] /\ known # None /\ known.tag = want[r] /\ added = {}
       /\ target # None \/ (\E r \in Requests : InWork(r)) =>
            known # None /\ known.nets \subseteq profiles \cup {known.tag}
       /\ target # None => \A n \in added : n \in known.nets => n = known.tag
       /\ target # None /\ (\A r \in Requests : ~InWork(r)) => creds = target.ssid /\ known.tag = creds
       /\ gpc \in {"survey", "attempt", "applying", "backoff"} /\ gcur \notin {None, gtgt.ssid} => gcur \notin added
       /\ gpc \in {"attempt", "applying", "backoff"} => gcur \notin {None, gtgt.ssid}

LEMMA WishStep == WishInv /\ [Next]_vars => WishInv'
<1> SUFFICES ASSUME WishInv, [Next]_vars PROVE WishInv'
  OBVIOUS
<1> TypeInv' /\ StrandInv'
  BY TypeStep, StrandStep DEF WishInv
<1>a. /\ MaxFailedBoots \in Nat /\ MaxFailedBoots > 0 /\ MaxOwnerOverrides \in Nat /\ MaxOwnerOverrides > 0
      /\ target # None => target \in Target /\ target.ssid \in Nets /\ {target.failed, target.over, target.gen} \subseteq Nat
      /\ gtgt # None => gtgt \in Target /\ gtgt.ssid \in Nets /\ {gtgt.failed, gtgt.over, gtgt.gen} \subseteq Nat
      /\ DOMAIN want = Requests /\ DOMAIN rpc = Requests
  BY WlanAssumption, Fields DEF WishInv, StrandInv, RadioInv
<1> USE <1>a, Distinct DEF WishInv, StrandInv, RadioInv, GuardBusy, InFlight, InWork, record, radio, world, guard, puts, counts
<1>1. ASSUME Boot PROVE WishInv'
  BY <1>1 DEF Boot, Booted
<1>2. ASSUME Associate PROVE WishInv'
  BY <1>2 DEF Associate
<1>3. ASSUME GuardStarts PROVE WishInv'
  BY <1>3 DEF GuardStarts, Reconcile
<1>4. ASSUME GuardStandsDownForCable PROVE WishInv'
  BY <1>4 DEF GuardStandsDownForCable, Done, Note
<1>5. ASSUME GuardSettles PROVE WishInv'
  <2>1. CASE ~mixed /\ gtgt # None /\ gcur' # None /\ gcur' # gtgt.ssid
    <3>1. target = gtgt /\ lock = None /\ creds = target.ssid /\ known.tag = creds /\ known # None
          /\ Reconcile(gcur') /\ gtgt' = target' /\ creds # None
      BY <1>5, <2>1 DEF GuardSettles
    <3>2. gcur' \in added => Superseded(creds, gcur')
      BY <2>1, <3>1 DEF Superseded
    <3>3. \/ target' = None
          \/ UNCHANGED record /\ gcur' \notin added
      BY <3>1, <3>2 DEF Reconcile
    <3> QED
      BY <1>5, <2>1, <3>1, <3>3 DEF GuardSettles
  <2>2. CASE ~(gtgt # None /\ gcur' # None /\ gcur' # gtgt.ssid)
    BY <1>5, <2>2 DEF GuardSettles
  <2> QED
    BY <1>5, <2>1, <2>2 DEF GuardSettles
<1>6. ASSUME GuardLeavesIt PROVE WishInv'
  <2>1. target # None /\ ~mixed => Note(target, "gave-up", "hold").ssid = target.ssid
        /\ Note(target, "stood-down", "hold").ssid = target.ssid /\ Note(target, "on-target", "reset").ssid = target.ssid
    BY <1>6, NoteFields
  <2> QED
    BY <1>6, <2>1 DEF GuardLeavesIt, Done
<1>7. ASSUME GuardReapplies PROVE WishInv'
  <2> DEFINE y == [gtgt EXCEPT !.over = @ + 1]
  <2>1. gtgt \in Target /\ y # None /\ y.ssid = gtgt.ssid
    BY <1>7, OverFields DEF GuardReapplies
  <2> HIDE DEF y
  <2>2. target' \in {target, y, None} /\ gtgt' \in {gtgt, y} /\ gpc' \in {"attempt", "done"}
        /\ (target' = y => target = gtgt \/ mixed)
    BY <1>7 DEF GuardReapplies, y
  <2> QED
    BY <1>7, <2>1, <2>2 DEF GuardReapplies
<1>8. ASSUME GuardApplies PROVE WishInv'
  BY <1>8 DEF GuardApplies
<1>9. ASSUME GuardConfirmed PROVE WishInv'
  BY <1>9 DEF GuardConfirmed, Finish, Commit, Note
<1>10. ASSUME GuardNotAssociated PROVE WishInv'
  BY <1>10 DEF GuardNotAssociated
<1>11. ASSUME GuardBacksOff PROVE WishInv'
  BY <1>11 DEF GuardBacksOff
<1>12. ASSUME GuardLooksAgain PROVE WishInv'
  BY <1>12 DEF GuardLooksAgain
<1>13. ASSUME GuardFinishes PROVE WishInv'
  BY <1>13 DEF GuardFinishes, Finish, Commit, Note
<1>14. ASSUME GuardRestores PROVE WishInv'
  BY <1>14 DEF GuardRestores, Note
<1>15. ASSUME Clear PROVE WishInv'
  BY <1>15 DEF Clear
<1>16. ASSUME NEW r \in Requests, NEW n \in Nets, PutPersists(r, n) PROVE WishInv'
  <2>1. /\ known' # None /\ known'.tag = n /\ known'.nets = {n} \cup profiles
    <3>1. known' = [tag |-> n, nets |-> {n} \cup profiles]
      <4>1. ({n, None} \ {None}) \cup profiles = {n} \cup profiles
        OBVIOUS
      <4> QED
        BY <1>16, <4>1 DEF PutPersists, Baseline
    <3>2. known' \in [tag : Nets, nets : SUBSET Nets]
      BY <3>1 DEF TypeInv, TypeOK
    <3> QED
      BY <3>1, <3>2, WlanAssumption
  <2>2. ~mixed' => ~mixed /\ ~GuardBusy /\ \A q \in Requests : ~InWork(q)
    BY <1>16 DEF PutPersists
  <2>3. /\ creds' = n /\ added' = {} /\ rpc' = [rpc EXCEPT ![r] = "waiting"] /\ want' = [want EXCEPT ![r] = n]
        /\ UNCHANGED <<target, profiles, gpc, gcur, gtgt>>
    BY <1>16 DEF PutPersists
  <2> QED
    BY <2>1, <2>2, <2>3
<1>17. ASSUME NEW r \in Requests, PutStores(r) PROVE WishInv'
  BY <1>17 DEF PutStores, Commit, Arm
<1>18. ASSUME NEW r \in Requests, PutApplies(r) PROVE WishInv'
  BY <1>18 DEF PutApplies
<1>19. ASSUME NEW r \in Requests, PutConfirmed(r) PROVE WishInv'
  BY <1>19 DEF PutConfirmed, Commit, Arm
<1>20. ASSUME NEW r \in Requests, PutRolledBack(r) PROVE WishInv'
  BY <1>20 DEF PutRolledBack
<1>21. CASE UNCHANGED vars
  BY <1>21 DEF vars
<1> QED
  BY <1>1, <1>2, <1>3, <1>4, <1>5, <1>6, <1>7, <1>8, <1>9, <1>10, <1>11, <1>12, <1>13, <1>14, <1>15, <1>16, <1>17, <1>18, <1>19, <1>20, <1>21
     DEF Next, GuardStep, PutStep
-----------------------------------------------------------------------------
LEMMA InitialRecord ==
  ASSUME Init
  PROVE  /\ Home \in Nets /\ target \in Target /\ target # None /\ known # None
         /\ target.ssid = Home /\ target.failed = 0 /\ target.over = 0 /\ target.verdict # "moved-back"
         /\ known.tag = Home /\ known.nets = profiles /\ known \in [tag : Nets, nets : SUBSET Nets]
<1>1. Home \in Nets
  BY DEF Init
<1>2. target \in Target /\ known \in [tag : Nets, nets : SUBSET Nets]
  BY <1>1 DEF Init, Target
<1> QED
  BY <1>1, <1>2, Distinct, WlanAssumption DEF Init

LEMMA AllInit == Init => TypeInv /\ BudgetInv /\ WishInv
<1> SUFFICES ASSUME Init PROVE TypeInv /\ BudgetInv /\ WishInv
  OBVIOUS
<1>0. /\ MaxFailedBoots \in Nat /\ MaxOwnerOverrides \in Nat /\ MaxAttempts \in Nat
      /\ MaxFailedBoots > 0 /\ MaxOwnerOverrides > 0
  BY WlanAssumption
<1>1. StrandInv
  BY InitialRecord, Distinct DEF Init, StrandInv, RadioInv, InWork, GuardBusy
<1>2. TypeInv
  <2>1. RadioInv
    BY <1>1 DEF StrandInv
  <2>2. creds \in Names /\ credsBak \in Names /\ conf \in Names /\ confBak \in Names /\ net \in Names
        /\ gcur \in Names /\ bootConf \in Names /\ attempt \in 0..MaxAttempts
    <3>1. Home \in Nets /\ profiles \subseteq Nets
      BY InitialRecord DEF Init
    <3>2. 0 \in 0..MaxAttempts
      BY <1>0
    <3> QED
      BY <3>1, <3>2 DEF Init, Names
  <2>3. known \in [tag : Nets, nets : SUBSET Nets] /\ profiles \subseteq Nets /\ added \subseteq Nets
        /\ wired \in BOOLEAN /\ mixed \in BOOLEAN /\ gpc = "start"
    BY InitialRecord DEF Init
  <2> QED
    BY <2>1, <2>2, <2>3 DEF TypeInv, TypeOK, RadioInv, Names
<1>3. BudgetInv
  <2>1. moved = 0 /\ missed = 0 /\ gpc = "start"
    BY DEF Init
  <2>2. target # None /\ target.failed = 0 /\ target.over = 0 /\ target.verdict # "moved-back"
        /\ target.failed \in Nat /\ target.over \in Nat
    BY InitialRecord, Fields
  <2> QED
    BY <1>0, <1>1, <1>2, <2>1, <2>2 DEF BudgetInv, Correcting, GuardGivesWay
<1>4. WishInv
  BY <1>1, <1>2, InitialRecord DEF Init, WishInv, InWork
<1> QED
  BY <1>2, <1>3, <1>4

(* The types of the record, the radio, the guard and the requests; only    *)
(* the guard's and a request's step that drives the radio holds wlanMu.    *)
THEOREM WlanTypeCorrect == Spec => []TypeOK
<1>1. TypeInv => TypeOK
  BY DEF TypeInv
<1> QED
  BY <1>1, AllInit, TypeStep, PTL DEF Spec

(* The guard gives way after MaxOwnerOverrides corrections that an owner   *)
(* undid, and after MaxFailedBoots boots on which the network could not be *)
(* joined, whatever is written to the record in between (guardDecision,    *)
(* noteWlanTargetVerdict).                                                 *)
THEOREM GuardGivesWayHolds == Spec => []GuardGivesWay
<1>1. BudgetInv => GuardGivesWay
  BY DEF BudgetInv, GuardGivesWay
<1> QED
  BY <1>1, AllInit, BudgetStep, PTL DEF Spec

(* No correction begins on a network the owner has added since the last    *)
(* switch (supersedingNetwork, reconcileWlanIntent).                       *)
THEOREM OwnersNetworkKeptHolds == Spec => OwnersNetworkKept
<1>1. WishInv /\ [Next]_vars =>
        [gpc = "attempt" /\ gpc' = "applying" => mixed \/ gcur \notin added]_vars
  BY DEF WishInv
<1> QED
  BY <1>1, AllInit, WishStep, PTL DEF Spec, OwnersNetworkKept
=============================================================================
