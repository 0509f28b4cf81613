-------------------------- MODULE AlarmClockProofs --------------------------
(***************************************************************************)
(* Proofs that no alarm rings twice for one instant, that a save is quiet  *)
(* and that no alarm is missed, for any alarms, documents, schedules and   *)
(* number of restarts.                                                     *)
(***************************************************************************)
EXTENDS AlarmClock, WellFoundedInduction, TLAPS

(* A set of naturals with a bound has a greatest element, which Max picks. *)
LEMMA MaxOfBounded ==
  ASSUME NEW n \in Nat, NEW S \in SUBSET (0..n), S # {}
  PROVE  Max(S) \in S /\ \A x \in S : x <= Max(S)
<1> DEFINE T == {n - x : x \in S}
<1>1. T # {}
  OBVIOUS
<1>2. T \subseteq Nat
  <2> SUFFICES ASSUME NEW x \in S PROVE n - x \in Nat
    OBVIOUS
  <2> QED
    OBVIOUS
<1>3. PICK y \in T : \A z \in T : ~(<<z, y>> \in OpToRel(<, Nat))
  <2> HIDE DEF T
  <2> QED
    BY <1>1, <1>2, WFMin, NatLessThanWellFounded
<1>4. \A z \in T : ~(z < y)
  BY <1>2, <1>3 DEF OpToRel
<1>5. PICK m \in S : y = n - m
  OBVIOUS
<1>6. \A x \in S : m >= x
  <2> SUFFICES ASSUME NEW x \in S PROVE m >= x
    OBVIOUS
  <2>1. ~(n - x < n - m)
    BY <1>4, <1>5
  <2> QED
    BY <2>1
<1> QED
  BY <1>6 DEF Max

LEMMA InstantsAreNat == Instants \subseteq Nat /\ Instants \cup {0} \subseteq Nat
BY AlarmAssumption DEF Instants

LEMMA MarksAreNat ==
  ASSUME NEW m \in [Alarms -> Instants \cup {0}], NEW a \in Alarms
  PROVE  m[a] \in Nat
<1>1. m[a] \in Instants \cup {0}
  OBVIOUS
<1> QED
  BY <1>1, InstantsAreNat, Zenon

(* The instant an alarm is due at is an instant, or zero for none.         *)
LEMMA DueIsInstant ==
  ASSUME t \in Nat, NEW d \in Document, NEW a \in Alarms
  PROVE  MostRecentDue(d, a) \in Instants \cup {0}
<1> DEFINE S == {0} \cup {i \in Dues(d, a) : i <= t}
<1>1. Dues(d, a) \subseteq Instants
  <2>1. CASE On(d, a)
    <3>1. d.entries[a] \in Entry /\ d.zone \in Zones
      BY <2>1 DEF On, Document
    <3>2. d.entries[a].times \subseteq UNION Schedules
      BY <3>1 DEF Entry
    <3> QED
      BY <2>1, <3>1, <3>2 DEF Dues, DuesWith, Instants
  <2>2. CASE ~On(d, a)
    BY <2>2 DEF Dues
  <2> QED
    BY <2>1, <2>2
<1>2. S \in SUBSET (0..t) /\ S # {}
  <2> SUFFICES ASSUME NEW i \in S PROVE i \in 0..t
    OBVIOUS
  <2>1. i \in Nat /\ i <= t
    BY <1>1, InstantsAreNat
  <2> QED
    BY <2>1
<1>3. Max(S) \in S
  BY <1>2, MaxOfBounded
<1> QED
  BY <1>1, <1>3 DEF MostRecentDue, MostRecent

-----------------------------------------------------------------------------
(* Why a mark that answers p may be missing; and that it is not.           *)
Excused(p) == p \in unsaved \/ p[1] \in forgotten
Kept(p) == Excused(p) \/ (p[2] <= fired[p[1]] /\ p[2] <= firedSaved[p[1]])

Typed ==
  /\ t \in Nat
  /\ {doc, docSaved} \subseteq Document /\ put \in Document \cup {None}
  /\ rpc = "work" => view \in Document
  /\ {fired, firedSaved} \subseteq [Alarms -> Instants \cup {0}]
  /\ todo \subseteq Alarms /\ (rpc # "work" => todo = {})
  /\ rung \subseteq Alarms \X Instants
  /\ ringing # None => ringing \in Alarms \X Instants

(* What RingsOnce needs: what rang or is about to ring is marked, in RAM   *)
(* and on the flash, so a restart forgets nothing of it; and an            *)
(* acknowledgement only moves a mark forward.                              *)
RingInv ==
  /\ Typed
  /\ \A a \in todo : fired[a] < MostRecentDue(view, a)
  /\ \A p \in rung : Kept(p)
  /\ ringing # None => Kept(ringing) /\ (ringing \in rung => Excused(ringing))
  /\ \A p \in rungAgain : Excused(p)

(* A write of the marks, failed or not, keeps every mark that it does not  *)
(* move back.                                                              *)
LEMMA WriteKeeps ==
  ASSUME Typed, NEW marked \in [Alarms -> Instants \cup {0}], NEW lost, Write(marked, lost),
         forgotten \subseteq forgotten',
         NEW p \in Alarms \X Instants, Kept(p),
         marked[p[1]] >= fired[p[1]] \/ p[1] \in forgotten'
  PROVE  Kept(p)'
<1>1. p[1] \in Alarms /\ p[2] \in Nat /\ fired[p[1]] \in Nat /\ firedSaved[p[1]] \in Nat
      /\ marked[p[1]] \in Nat
  <2>1. p[1] \in Alarms /\ p[2] \in Instants
    OBVIOUS
  <2>2. fired \in [Alarms -> Instants \cup {0}] /\ firedSaved \in [Alarms -> Instants \cup {0}]
    BY DEF Typed
  <2> QED
    BY <2>1, <2>2, MarksAreNat, InstantsAreNat
<1>2. unsaved \subseteq unsaved' /\ fired' = marked /\ firedSaved' \in {marked, firedSaved}
  BY DEF Write
<1> QED
  BY <1>1, <1>2 DEF Kept, Excused

LEMMA WriteTypes ==
  ASSUME Typed, NEW marked \in [Alarms -> Instants \cup {0}], NEW lost, Write(marked, lost)
  PROVE  /\ {fired', firedSaved'} \subseteq [Alarms -> Instants \cup {0}]
         /\ fired' = marked /\ unsaved \subseteq unsaved'
         /\ firedSaved' = marked \/ (firedSaved' = firedSaved /\ lost \subseteq unsaved')
BY DEF Write, Typed

(* A step that leaves the marks and what rang alone keeps the rest.        *)
LEMMA MarksUntouched ==
  ASSUME RingInv, Typed', UNCHANGED <<fired, firedSaved, unsaved, forgotten, rung, rungAgain>>,
         ringing' \in {ringing, None},
         todo' = {} \/ UNCHANGED <<t, todo, view>>
  PROVE  RingInv'
<1>1. \A p : (Kept(p)' <=> Kept(p)) /\ (Excused(p)' <=> Excused(p))
  BY DEF Kept, Excused
<1>2. \A a \in todo' : fired'[a] < MostRecentDue(view, a)'
  BY DEF RingInv, MostRecentDue, MostRecent
<1>3. ringing' # None => Kept(ringing)' /\ (ringing' \in rung' => Excused(ringing)')
  BY <1>1 DEF RingInv
<1> QED
  BY <1>1, <1>2, <1>3 DEF RingInv

LEMMA EvaluateKeeps == RingInv /\ Evaluate => RingInv'
<1> SUFFICES ASSUME RingInv, Evaluate PROVE RingInv'
  OBVIOUS
<1> DEFINE kept == [a \in Alarms |-> IF doc.entries[a] = NoAlarm THEN 0 ELSE fired[a]]
<1>1. kept \in [Alarms -> Instants \cup {0}]
  BY DEF RingInv, Typed
<1>2. Write(kept, {}) \/ (kept = fired /\ UNCHANGED marks)
  BY DEF Evaluate
<1>3. /\ forgotten' = forgotten \cup {a \in Alarms : kept[a] # fired[a]}
      /\ UNCHANGED <<ringing, rung, rungAgain, t, doc, docSaved, put>>
      /\ rpc' = "work" /\ view' = doc
  BY DEF Evaluate, Wakes
<1>4. \A p \in Alarms \X Instants : Kept(p) => Kept(p)'
  <2> SUFFICES ASSUME NEW p \in Alarms \X Instants, Kept(p) PROVE Kept(p)'
    OBVIOUS
  <2>1. kept[p[1]] >= fired[p[1]] \/ p[1] \in forgotten'
    <3>1. p[1] \in Alarms
      OBVIOUS
    <3>2. fired[p[1]] \in Nat
      BY <3>1, MarksAreNat DEF RingInv, Typed
    <3>3. CASE kept[p[1]] = fired[p[1]]
      BY <3>2, <3>3
    <3>4. CASE kept[p[1]] # fired[p[1]]
      BY <1>3, <3>1, <3>4
    <3> QED
      BY <3>3, <3>4
  <2>2. CASE Write(kept, {})
    BY <1>1, <1>3, <2>1, <2>2, WriteKeeps DEF RingInv
  <2>3. CASE kept = fired /\ UNCHANGED marks
    BY <1>3, <2>3 DEF Kept, Excused, marks
  <2> QED
    BY <1>2, <2>2, <2>3
<1>5. fired' = kept /\ {fired', firedSaved'} \subseteq [Alarms -> Instants \cup {0}]
      /\ unsaved \subseteq unsaved'
  <2>1. CASE Write(kept, {})
    BY <1>1, <2>1, WriteTypes DEF RingInv
  <2>2. CASE kept = fired /\ UNCHANGED marks
    BY <2>2 DEF RingInv, Typed, marks
  <2> QED
    BY <1>2, <2>1, <2>2
<1>6. \A a \in todo' : a \in Alarms /\ fired'[a] < MostRecentDue(view, a)'
  <2> SUFFICES ASSUME NEW a \in todo' PROVE a \in Alarms /\ fired'[a] < MostRecentDue(doc, a)
    BY <1>3 DEF MostRecentDue, MostRecent
  <2>1. a \in Alarms /\ On(doc, a) /\ FiresNow(doc, a)
    BY DEF Evaluate, Edited
  <2>2. kept[a] = fired[a]
    BY <2>1 DEF On
  <2> QED
    BY <1>5, <2>1, <2>2 DEF FiresNow
<1>7. Typed'
  BY <1>3, <1>5, <1>6 DEF RingInv, Typed
<1>8. \A p : Excused(p) => Excused(p)'
  BY <1>3, <1>5 DEF Excused
<1> QED
  BY <1>3, <1>4, <1>6, <1>7, <1>8 DEF RingInv, Typed

LEMMA AcknowledgeKeeps ==
  ASSUME RingInv, NEW a \in Alarms, Acknowledge(a) PROVE RingInv'
<1> DEFINE due == MostRecentDue(view, a)
<1> DEFINE marked == [fired EXCEPT ![a] = due]
<1>1. due \in Instants \cup {0} /\ fired[a] < due
  BY DueIsInstant DEF RingInv, Typed, Acknowledge
<1>2. Write(marked, {<<a, due>>}) /\ marked \in [Alarms -> Instants \cup {0}]
  BY <1>1 DEF Acknowledge, MarkFired, RingInv, Typed
<1>3. \A b \in Alarms : marked[b] >= fired[b]
  <2> SUFFICES ASSUME NEW b \in Alarms PROVE marked[b] >= fired[b]
    OBVIOUS
  <2>1. fired \in [Alarms -> Instants \cup {0}]
    BY DEF RingInv, Typed
  <2>2. fired[b] \in Nat /\ due \in Nat
    <3>1. fired[b] \in Nat
      BY <2>1, MarksAreNat
    <3>2. due \in Nat
      BY <1>1, InstantsAreNat, Zenon
    <3> QED
      BY <3>1, <3>2
  <2>3. marked[b] = IF b = a THEN due ELSE fired[b]
    BY <2>1
  <2> HIDE DEF due, marked
  <2> QED
    BY <1>1, <2>2, <2>3
<1>4. UNCHANGED <<forgotten, ringing, rung, rungAgain, t, doc, docSaved, put, rpc, view>>
      /\ todo' = todo \ {a}
  BY DEF Acknowledge, docs, history, rings
<1> HIDE DEF marked, due
<1>5. \A p \in Alarms \X Instants : Kept(p) => Kept(p)'
  BY <1>2, <1>3, <1>4, WriteKeeps DEF RingInv
<1>6. fired' = marked /\ {fired', firedSaved'} \subseteq [Alarms -> Instants \cup {0}]
      /\ unsaved \subseteq unsaved'
  BY <1>2, WriteTypes DEF RingInv
<1>7. \A b \in todo' : fired'[b] = fired[b]
  BY <1>4, <1>6 DEF marked, RingInv, Typed
<1>8. \A b \in todo' : fired'[b] < MostRecentDue(view, b)'
  BY <1>4, <1>7 DEF RingInv, MostRecentDue, MostRecent
<1>9. Typed'
  BY <1>4, <1>6 DEF RingInv, Typed
<1>10. \A p : Excused(p) => Excused(p)'
  BY <1>4, <1>6 DEF Excused
<1> QED
  BY <1>4, <1>5, <1>8, <1>9, <1>10 DEF RingInv, Typed

(* The alarm that fires was not marked for this instant; so if it has rung *)
(* for it, that mark is missing for a known reason.                        *)
LEMMA FireKeeps ==
  ASSUME RingInv, NEW a \in Alarms, Fire(a) PROVE RingInv'
<1>1. PICK due \in Instants : due = MostRecentDue(view, a) /\ due # 0 /\ fired[a] < due
  <2>1. FiresNow(view, a) /\ view \in Document
    BY DEF Fire, RingInv, Typed
  <2> QED
    BY <2>1, DueIsInstant DEF RingInv, Typed, FiresNow
<1> DEFINE marked == [fired EXCEPT ![a] = due]
<1>2. Write(marked, {<<a, due>>}) /\ marked \in [Alarms -> Instants \cup {0}]
  BY <1>1 DEF Fire, MarkFired, RingInv, Typed
<1>3. \A b \in Alarms : marked[b] >= fired[b]
  <2> SUFFICES ASSUME NEW b \in Alarms PROVE marked[b] >= fired[b]
    OBVIOUS
  <2>1. fired \in [Alarms -> Instants \cup {0}]
    BY DEF RingInv, Typed
  <2>2. fired[b] \in Nat /\ due \in Nat
    <3>1. fired[b] \in Nat
      BY <2>1, MarksAreNat
    <3>2. due \in Nat
      BY <1>1, InstantsAreNat
    <3> QED
      BY <3>1, <3>2
  <2>3. marked[b] = IF b = a THEN due ELSE fired[b]
    BY <2>1
  <2> HIDE DEF marked
  <2> QED
    BY <1>1, <2>2, <2>3
<1>4. UNCHANGED <<forgotten, rung, rungAgain, t, doc, docSaved, put, rpc, view>>
      /\ todo = {} /\ todo' = {} /\ ringing' \in {None, <<a, due>>}
  BY <1>1 DEF Fire, docs
<1> HIDE DEF marked
<1>5. \A p \in Alarms \X Instants : Kept(p) => Kept(p)'
  <2> QED
    BY <1>2, <1>3, <1>4, WriteKeeps DEF RingInv
<1>6. /\ fired' = marked /\ {fired', firedSaved'} \subseteq [Alarms -> Instants \cup {0}]
      /\ unsaved \subseteq unsaved'
      /\ firedSaved' = marked \/ <<a, due>> \in unsaved'
  <2> QED
    BY <1>2, WriteTypes DEF RingInv
<1>7. Kept(<<a, due>>)'
  <2>1. marked[a] = due /\ due <= due
    <3>1. fired \in [Alarms -> Instants \cup {0}] /\ due \in Nat
      BY <1>1, InstantsAreNat DEF RingInv, Typed
    <3> QED
      BY <3>1 DEF marked
  <2>2. CASE firedSaved' = marked
    BY <1>6, <2>1, <2>2 DEF Kept
  <2>3. CASE <<a, due>> \in unsaved'
    BY <2>3 DEF Kept, Excused
  <2> QED
    BY <1>6, <2>2, <2>3
<1>8. <<a, due>> \in rung => Excused(<<a, due>>)
  <2> SUFFICES ASSUME Kept(<<a, due>>), ~Excused(<<a, due>>) PROVE FALSE
    BY DEF RingInv
  <2>1. due <= fired[a]
    BY DEF Kept
  <2> QED
    <3>1. fired \in [Alarms -> Instants \cup {0}] /\ due \in Nat
      BY <1>1, InstantsAreNat DEF RingInv, Typed
    <3>2. fired[a] \in Nat
      BY <3>1, MarksAreNat
    <3> QED
      BY <1>1, <2>1, <3>1, <3>2
<1>9. \A p : Excused(p) => Excused(p)'
  BY <1>4, <1>6 DEF Excused
<1>10. Typed'
  BY <1>1, <1>4, <1>6 DEF RingInv, Typed
<1> QED
  BY <1>4, <1>5, <1>7, <1>8, <1>9, <1>10 DEF RingInv, Typed

LEMMA DriveKeeps == RingInv /\ Drive => RingInv'
<1> SUFFICES ASSUME RingInv, Drive PROVE RingInv'
  OBVIOUS
<1>1. \A p : (Kept(p)' <=> Kept(p)) /\ (Excused(p)' <=> Excused(p))
  BY DEF Drive, marks, Kept, Excused
<1>2. rung' = rung \cup {ringing} /\ rungAgain' = rungAgain \cup ({ringing} \cap rung)
      /\ ringing # None /\ ringing' = None
  BY DEF Drive
<1>3. UNCHANGED <<t, doc, docSaved, put, rpc, view, fired, firedSaved, todo>>
  BY DEF Drive, docs, marks
<1>4. Typed'
  BY <1>2, <1>3 DEF RingInv, Typed
<1>5. \A a \in todo' : fired'[a] < MostRecentDue(view, a)'
  BY <1>3 DEF RingInv, MostRecentDue, MostRecent
<1> QED
  BY <1>1, <1>2, <1>4, <1>5 DEF RingInv

(* A restart begins with the marks of the flash, which hold what rang.     *)
LEMMA StopKeeps ==
  ASSUME RingInv, NEW good, Stop(good) PROVE RingInv'
<1>1. fired' = firedSaved /\ todo' = {} /\ ringing' = None
      /\ UNCHANGED <<firedSaved, unsaved, forgotten, rung, rungAgain>>
  BY DEF Stop, rings
<1>2. Typed'
  BY <1>1 DEF Stop, RingInv, Typed
<1>3. \A p \in rung : Kept(p)'
  BY <1>1 DEF RingInv, Kept, Excused
<1>4. \A p \in rungAgain : Excused(p)'
  BY <1>1 DEF RingInv, Excused
<1> QED
  BY <1>1, <1>2, <1>3, <1>4 DEF RingInv

LEMMA RingStep == RingInv /\ [Next]_vars => RingInv'
<1> SUFFICES ASSUME RingInv, [Next]_vars PROVE RingInv'
  OBVIOUS
<1> USE DEF RingInv, Typed, docs, runner, marks, history, rings
<1>1. CASE EvaluateClockBad
  BY <1>1, MarksUntouched DEF EvaluateClockBad, Wakes
<1>2. CASE Rest
  BY <1>2, MarksUntouched DEF Rest
<1>3. ASSUME NEW d \in Saved, PutInRam(d) PROVE RingInv'
  BY <1>3, MarksUntouched, AlarmAssumption DEF PutInRam
<1>4. CASE PutOnFlash
  BY <1>4, MarksUntouched DEF PutOnFlash
<1>5. CASE PutFails
  BY <1>5, MarksUntouched DEF PutFails
<1>6. CASE Tick
  BY <1>6, MarksUntouched DEF Tick
<1>7. CASE RepairClock
  BY <1>7, MarksUntouched DEF RepairClock
<1>8. CASE Start
  BY <1>8, MarksUntouched DEF Start
<1>9. CASE UNCHANGED vars
  BY <1>9, MarksUntouched DEF vars
<1>10. CASE \E a \in Alarms : Acknowledge(a) \/ Fire(a)
  BY <1>10, AcknowledgeKeeps, FireKeeps
<1>11. CASE AgentStops \/ PowerCut
  BY <1>11, StopKeeps DEF AgentStops, PowerCut
<1> QED
  BY <1>1, <1>2, <1>3, <1>4, <1>5, <1>6, <1>7, <1>8, <1>9, <1>10, <1>11,
     EvaluateKeeps, DriveKeeps DEF Next, RunnerStep

(* RingsOnce holds in every reachable state: fireAlarm marks an instant    *)
(* before it drives it, and no restart, repair of the clock or saved       *)
(* document makes it ring again.                                           *)
THEOREM RingsOnceHolds == Spec => []RingsOnce
<1>1. Init => RingInv
  BY AlarmAssumption DEF Init, RingInv, Typed
<1>2. RingInv => RingsOnce
  BY DEF RingInv, RingsOnce, Excused
<1> QED
  BY <1>1, <1>2, RingStep, PTL DEF Spec
-----------------------------------------------------------------------------
(* The types, and what is behind a ring and an answer.                     *)
TypeInv == RingInv /\ TypeOK /\ (ringing # None => ringing \in answered)

LEMMA MinOfNaturals ==
  ASSUME NEW S \in SUBSET Nat, S # {}
  PROVE  Min(S) \in S /\ \A x \in S : Min(S) <= x
<1>1. PICK m \in S : \A z \in S : ~(<<z, m>> \in OpToRel(<, Nat))
  BY WFMin, NatLessThanWellFounded
<1>2. \A z \in S : ~(z < m)
  BY <1>1 DEF OpToRel
<1>3. \A z \in S : m <= z
  BY <1>2
<1> QED
  BY <1>3 DEF Min

(* The last of some instants that is not after x, zero for none.           *)
LastBy(x, dues) == Max({0} \cup {i \in dues : i <= x})

LEMMA LastByFacts ==
  ASSUME NEW x \in Nat, NEW dues \in SUBSET Nat
  PROVE  /\ LastBy(x, dues) \in Nat /\ LastBy(x, dues) <= x
         /\ LastBy(x, dues) # 0 => LastBy(x, dues) \in dues
         /\ \A i \in dues : i <= x => i <= LastBy(x, dues)
<1> DEFINE S == {0} \cup {i \in dues : i <= x}
<1>1. S \in SUBSET (0..x) /\ S # {}
  <2> SUFFICES ASSUME NEW i \in S PROVE i \in 0..x
    OBVIOUS
  <2>1. i \in Nat /\ i <= x
    OBVIOUS
  <2> QED
    BY <2>1
<1>2. Max(S) \in S /\ \A i \in S : i <= Max(S)
  BY <1>1, MaxOfBounded
<1> QED
  BY <1>1, <1>2 DEF LastBy

LEMMA DuesAreInstants ==
  ASSUME NEW d \in Document, NEW a \in Alarms
  PROVE  /\ Dues(d, a) \subseteq Instants /\ Dues(d, a) \subseteq Nat \ {0}
         /\ \A i, j \in Dues(d, a) : i < j => i + Grace < j
<1>1. CASE On(d, a)
  <2>1. d.entries[a] \in Entry /\ d.zone \in Zones /\ d.zone \in Nat
    BY <1>1, AlarmAssumption DEF On, Document
  <2>2. d.entries[a].times \in Schedules
    BY <2>1 DEF Entry
  <2>3. d.entries[a].times \subseteq Nat \ {0}
    BY <2>2, AlarmAssumption
  <2>4. \A i \in Dues(d, a) : \E c \in d.entries[a].times : i = c + d.zone
    BY <1>1 DEF Dues, DuesWith
  <2>5. \A b, c \in d.entries[a].times : b < c => b + Grace < c
    BY <2>2, AlarmAssumption
  <2>6. Dues(d, a) \subseteq Instants
    BY <2>1, <2>2, <2>4 DEF Instants
  <2>7. Grace \in Nat
    BY AlarmAssumption
  <2>8. Dues(d, a) \subseteq Nat \ {0}
    BY <2>1, <2>3, <2>4
  <2>9. ASSUME NEW i \in Dues(d, a), NEW j \in Dues(d, a), i < j PROVE i + Grace < j
    <3>1. PICK b \in d.entries[a].times : i = b + d.zone
      BY <2>4
    <3>2. PICK c \in d.entries[a].times : j = c + d.zone
      BY <2>4
    <3>3. b \in Nat /\ c \in Nat
      BY <2>3
    <3>4. b + Grace < c
      BY <2>1, <2>5, <2>9, <3>1, <3>2, <3>3
    <3> QED
      BY <2>1, <2>7, <3>1, <3>2, <3>3, <3>4
  <2> QED
    BY <2>6, <2>8, <2>9
<1>2. CASE ~On(d, a)
  BY <1>2 DEF Dues
<1> QED
  BY <1>1, <1>2

(* The most recent instant an alarm was due at.                            *)
LEMMA MostRecentFacts ==
  ASSUME t \in Nat, NEW d \in Document, NEW a \in Alarms
  PROVE  /\ MostRecentDue(d, a) = LastBy(t, Dues(d, a))
         /\ MostRecentDue(d, a) \in Nat /\ MostRecentDue(d, a) <= t
         /\ MostRecentDue(d, a) # 0 => MostRecentDue(d, a) \in Dues(d, a)
         /\ \A i \in Dues(d, a) : i <= t => i <= MostRecentDue(d, a)
<1>1. Dues(d, a) \subseteq Nat
  BY DuesAreInstants
<1>2. MostRecentDue(d, a) = LastBy(t, Dues(d, a))
  BY DEF MostRecentDue, MostRecent, LastBy
<1> QED
  BY <1>1, <1>2, LastByFacts

(* How long the runner may sleep.                                          *)
LEMMA WaitsFacts ==
  ASSUME TypeOK, NEW w \in Waits(doc)
  PROVE  /\ w \in Nat /\ w <= MaxSleep
         /\ clockGood => \A i \in Upcoming(doc) : t + w <= i
<1>1. MaxSleep \in Nat /\ t \in Nat /\ doc \in Document
  BY AlarmAssumption DEF TypeOK
<1>2. CASE ~clockGood
  BY <1>1, <1>2 DEF Waits
<1>3. CASE clockGood
  <2> DEFINE S == {MaxSleep} \cup {i - t : i \in Upcoming(doc)}
  <2>1. \A i \in Upcoming(doc) : i \in Nat /\ i > t
    BY <1>1, DuesAreInstants DEF Upcoming
  <2>2. S \subseteq Nat /\ S # {}
    BY <1>1, <2>1
  <2>3. w = Min(S)
    BY <1>3 DEF Waits
  <2> HIDE DEF S
  <2>4. w \in S /\ \A x \in S : w <= x
    BY <2>2, <2>3, MinOfNaturals
  <2>5. w \in Nat
    BY <2>2, <2>4
  <2>6. w <= MaxSleep
    BY <2>4 DEF S
  <2>7. ASSUME NEW i \in Upcoming(doc) PROVE t + w <= i
    <3>1. w <= i - t
      BY <2>4 DEF S
    <3> QED
      BY <1>1, <2>1, <2>5, <3>1
  <2> QED
    BY <2>5, <2>6, <2>7
<1> QED
  BY <1>2, <1>3

LEMMA TypeStep == TypeInv /\ [Next]_vars => TypeInv'
<1> SUFFICES ASSUME TypeInv, [Next]_vars PROVE TypeInv'
  OBVIOUS
<1> RingInv'
  BY RingStep DEF TypeInv
<1>a. MaxTime \in Nat /\ MaxSleep \in Nat /\ Saved \subseteq Document /\ None \notin Document
  BY AlarmAssumption
<1> USE <1>a DEF TypeInv, TypeOK, RingInv, Typed, docs, runner, marks, history, rings
<1>1. CASE EvaluateClockBad
  BY <1>1 DEF EvaluateClockBad, Wakes
<1>2. CASE Evaluate
  <2>1. unsaved' \subseteq Alarms \X Instants
    BY <1>2 DEF Evaluate, Write
  <2> QED
    BY <1>2, <2>1 DEF Evaluate, Wakes
<1>3. ASSUME NEW a \in Alarms, Acknowledge(a) PROVE TypeInv'
  <2>1. MostRecentDue(view, a) \in Instants
    <3>1. fired[a] < MostRecentDue(view, a) /\ view \in Document /\ t \in Nat
      BY <1>3 DEF Acknowledge
    <3>2. fired[a] \in Nat
      BY MarksAreNat
    <3>3. MostRecentDue(view, a) \in Nat /\ MostRecentDue(view, a) # 0
      BY <3>1, <3>2, MostRecentFacts
    <3> QED
      BY <3>1, <3>3, MostRecentFacts, DuesAreInstants
  <2>2. unsaved' \subseteq Alarms \X Instants
    BY <1>3, <2>1 DEF Acknowledge, MarkFired, Write
  <2> QED
    BY <1>3, <2>2 DEF Acknowledge
<1>4. ASSUME NEW a \in Alarms, Fire(a) PROVE TypeInv'
  <2>1. MostRecentDue(view, a) \in Instants
    <3>1. view \in Document /\ t \in Nat /\ MostRecentDue(view, a) # 0
      BY <1>4 DEF Fire, FiresNow
    <3> QED
      BY <3>1, MostRecentFacts, DuesAreInstants
  <2>2. unsaved' \subseteq Alarms \X Instants
    BY <1>4, <2>1 DEF Fire, MarkFired, Write
  <2>3. /\ answered' = answered \cup {<<a, MostRecentDue(view, a)>>}
        /\ ringing' \in {None, <<a, MostRecentDue(view, a)>>} /\ ringing = None
        /\ UNCHANGED <<t, clockGood, docs, rpc, wakeAt, view, seen, todo, rung, rungAgain>> /\ pending' \subseteq pending
        /\ rpc = "work"
    BY <1>4 DEF Fire
  <2> HIDE DEF FiresNow, MostRecentDue
  <2> QED
    BY <2>1, <2>2, <2>3
<1>5. CASE Drive
  BY <1>5 DEF Drive
<1>6. CASE Rest
  <2>1. wakeAt' \in Nat
    BY <1>6, WaitsFacts DEF Rest
  <2> QED
    BY <1>6, <2>1 DEF Rest
<1>7. ASSUME NEW d \in Saved, PutInRam(d) PROVE TypeInv'
  BY <1>7 DEF PutInRam
<1>8. CASE PutOnFlash
  BY <1>8 DEF PutOnFlash
<1>9. CASE PutFails
  BY <1>9 DEF PutFails
<1>10. CASE Tick
  BY <1>10 DEF Tick
<1>11. CASE RepairClock
  BY <1>11 DEF RepairClock
<1>12. CASE AgentStops \/ PowerCut
  <2>1. PICK good \in {clockGood, FALSE} : Stop(good)
    BY <1>12 DEF AgentStops, PowerCut
  <2>2. good \in BOOLEAN
    BY <2>1
  <2> QED
    BY <2>1, <2>2 DEF Stop
<1>13. CASE Start
  BY <1>13 DEF Start
<1>14. CASE UNCHANGED vars
  BY <1>14 DEF vars
<1> QED
  BY <1>1, <1>2, <1>3, <1>4, <1>5, <1>6, <1>7, <1>8, <1>9, <1>10, <1>11, <1>12, <1>13, <1>14 DEF Next, RunnerStep
-----------------------------------------------------------------------------
(* After an edit of a the runner has yet to look, or is to acknowledge, or *)
(* will not ring for anything that was due when a was edited.              *)
Settled(a) ==
  On(seen, a) => MostRecentDue(seen, a) > told[a] \/ ~FiresNow(seen, a) \/ a \in todo

QuietInv ==
  /\ TypeInv
  /\ told \in [Alarms -> Nat] /\ \A a \in Alarms : told[a] <= t
  /\ seen = None => \A a \in Alarms : told[a] = 0
  /\ todo # {} \/ pending # {} => seen = view /\ seen # None
  /\ \A a \in Alarms : told[a] # 0 => Edited(seen, doc, a) \/ Settled(a)

LEMMA LastByNext ==
  ASSUME NEW x \in Nat, NEW dues \in SUBSET Nat
  PROVE  LastBy(x + 1, dues) \in {x + 1, LastBy(x, dues)}
<1> DEFINE m == LastBy(x + 1, dues)
           n == LastBy(x, dues)
<1>1. /\ m \in Nat /\ m <= x + 1 /\ (m # 0 => m \in dues)
      /\ \A i \in dues : i <= x + 1 => i <= m
  BY LastByFacts
<1>2. /\ n \in Nat /\ n <= x /\ (n # 0 => n \in dues)
      /\ \A i \in dues : i <= x => i <= n
  BY LastByFacts
<1> HIDE DEF m, n
<1>3. ASSUME m # x + 1 PROVE m = n
  <2>1. m <= x
    BY <1>1, <1>3
  <2>2. m <= n
    BY <1>1, <1>2, <2>1
  <2>3. n <= m
    BY <1>1, <1>2
  <2> QED
    BY <1>1, <1>2, <2>2, <2>3
<1> QED
  BY <1>3 DEF m, n

(* What has not been edited is due when it was.                            *)
LEMMA NotEdited ==
  ASSUME NEW old \in Document, NEW new \in Document, NEW a \in Alarms, On(new, a), ~Edited(old, new, a)
  PROVE  /\ On(old, a) /\ MostRecentDue(new, a) = MostRecentDue(old, a)
         /\ FiresNow(new, a) <=> FiresNow(old, a)
<1>1. /\ On(old, a) /\ old.zone = new.zone /\ old.entries[a].times = new.entries[a].times
      /\ MostRecent(DuesWith(new, a, old.skip)) = MostRecentDue(new, a)
  BY DEF Edited
<1>2. DuesWith(new, a, old.skip) = Dues(old, a)
  BY <1>1 DEF Dues, DuesWith
<1>3. MostRecentDue(new, a) = MostRecentDue(old, a)
  BY <1>1, <1>2 DEF MostRecentDue
<1> QED
  BY <1>1, <1>3 DEF FiresNow

LEMMA SameNotEdited == \A d, a : ~Edited(d, d, a)
BY DEF Edited, MostRecentDue, Dues

LEMMA QuietUntouched ==
  ASSUME QuietInv, TypeInv', UNCHANGED <<t, doc, seen, told, fired, todo>>,
         (todo = {} /\ pending' = {}) \/ (view' = view /\ pending' \subseteq pending)
  PROVE  QuietInv'
<1>1. \A a : (Edited(seen, doc, a)' <=> Edited(seen, doc, a)) /\ (Settled(a)' <=> Settled(a))
  BY DEF Edited, Settled, FiresNow, MostRecentDue, MostRecent
<1> QED
  BY <1>1 DEF QuietInv

LEMMA QuietEvaluate == QuietInv /\ Evaluate /\ TypeInv' => QuietInv'
<1> SUFFICES ASSUME QuietInv, Evaluate, TypeInv' PROVE QuietInv'
  OBVIOUS
<1> DEFINE kept == [a \in Alarms |-> IF doc.entries[a] = NoAlarm THEN 0 ELSE fired[a]]
<1>1. fired' = kept
  BY DEF Evaluate, Write, marks
<1>2. /\ UNCHANGED <<t, doc, told>> /\ seen' = doc /\ view' = doc /\ doc \in Document /\ doc # None
      /\ todo = {}
  BY AlarmAssumption DEF Evaluate, Wakes, QuietInv, TypeInv, TypeOK
<1>3. seen # None => todo' = {a \in Alarms : Edited(seen, doc, a) /\ FiresNow(doc, a)}
  BY DEF Evaluate
<1>4. ASSUME NEW a \in Alarms, told[a] # 0, On(doc, a)
      PROVE  MostRecentDue(doc, a) > told[a] \/ ~FiresNow(doc, a)' \/ a \in todo'
  <2>1. seen \in Document /\ seen # None
    BY <1>4 DEF QuietInv, TypeInv, TypeOK
  <2>2. FiresNow(doc, a)' <=> FiresNow(doc, a)
    BY <1>1, <1>2, <1>4 DEF On, FiresNow, MostRecentDue, MostRecent
  <2>3. CASE Edited(seen, doc, a)
    BY <1>3, <2>1, <2>2, <2>3
  <2>4. CASE ~Edited(seen, doc, a)
    <3>1. Settled(a)
      BY <1>4, <2>4 DEF QuietInv
    <3> QED
      BY <1>2, <1>4, <2>1, <2>2, <2>4, <3>1, NotEdited DEF Settled
  <2> QED
    BY <2>3, <2>4
<1>5. \A a : MostRecentDue(doc, a)' = MostRecentDue(doc, a)
  BY <1>2 DEF MostRecentDue, MostRecent
<1>6. \A a \in Alarms : told'[a] # 0 => Settled(a)'
  BY <1>2, <1>4, <1>5 DEF Settled, FiresNow
<1> QED
  BY <1>2, <1>6 DEF QuietInv

LEMMA QuietTick == QuietInv /\ Tick /\ TypeInv' => QuietInv'
<1> SUFFICES ASSUME QuietInv, Tick, TypeInv' PROVE QuietInv'
  OBVIOUS
<1>1. t' = t + 1 /\ UNCHANGED <<doc, seen, view, todo, pending, fired, told>> /\ t \in Nat /\ todo = {}
  BY DEF Tick, docs, runner, marks, history, QuietInv, TypeInv, TypeOK, RingInv, Typed
<1>2. ASSUME NEW a \in Alarms, told[a] # 0 PROVE Edited(seen, doc, a)' \/ Settled(a)'
  <2>1. seen \in Document /\ doc \in Document /\ told[a] \in Nat /\ told[a] <= t /\ fired[a] \in Nat /\ Grace \in Nat
    BY <1>2, MarksAreNat, AlarmAssumption DEF QuietInv, TypeInv, TypeOK
  <2> DEFINE m == MostRecentDue(seen, a)
  <2>2. m \in Nat /\ m <= t /\ m = LastBy(t, Dues(seen, a)) /\ m' = LastBy(t + 1, Dues(seen, a))
    BY <1>1, <2>1, MostRecentFacts DEF MostRecentDue, MostRecent, LastBy
  <2>3. Dues(seen, a) \in SUBSET Nat /\ Dues(doc, a) \in SUBSET Nat
    BY <2>1, DuesAreInstants
  <2>4. m' \in {t + 1, m}
    BY <1>1, <2>2, <2>3, LastByNext
  <2>5. CASE Settled(a)
    <3>1. CASE m' = t + 1
      <4>1. m' > told'[a]
        BY <1>1, <2>1, <3>1
      <4> QED
        BY <4>1 DEF Settled
    <3>2. CASE m' = m
      <4>1. ~FiresNow(seen, a) => ~FiresNow(seen, a)'
        BY <1>1, <2>1, <2>2, <3>2 DEF FiresNow
      <4> QED
        BY <1>1, <2>5, <3>2, <4>1 DEF Settled
    <3> QED
      BY <2>4, <3>1, <3>2
  <2>6. CASE Edited(seen, doc, a) /\ ~Edited(seen, doc, a)'
    <3> DEFINE k == MostRecentDue(doc, a)
    <3>1. /\ On(doc, a) /\ On(seen, a) /\ seen.zone = doc.zone /\ seen.entries[a].times = doc.entries[a].times
          /\ MostRecent(DuesWith(doc, a, seen.skip)) # k
          /\ MostRecent(DuesWith(doc, a, seen.skip))' = k'
      BY <1>1, <2>6 DEF Edited
    <3>2. DuesWith(doc, a, seen.skip) = Dues(seen, a)
      BY <3>1 DEF Dues, DuesWith
    <3>3. m # k /\ m' = k'
      BY <1>1, <3>1, <3>2 DEF MostRecentDue, MostRecent
    <3>4. k \in Nat /\ k <= t /\ k' \in {t + 1, k}
      <4>1. k \in Nat /\ k <= t /\ k = LastBy(t, Dues(doc, a)) /\ k' = LastBy(t + 1, Dues(doc, a))
        BY <1>1, <2>1, MostRecentFacts DEF MostRecentDue, MostRecent, LastBy
      <4> QED
        BY <1>1, <2>3, <4>1, LastByNext
    <3> HIDE DEF m, k
    <3>5. m' = t + 1
      BY <1>1, <2>2, <2>4, <3>3, <3>4
    <3>6. m' > told'[a]
      BY <1>1, <2>1, <3>5
    <3> QED
      BY <3>6 DEF Settled, m
  <2> QED
    BY <1>2, <2>5, <2>6 DEF QuietInv
<1>3. \A a \in Alarms : told'[a] <= t'
  BY <1>1 DEF QuietInv
<1> QED
  BY <1>1, <1>2, <1>3 DEF QuietInv

LEMMA QuietAnswer ==
  ASSUME QuietInv, TypeInv', NEW a \in Alarms, Acknowledge(a) \/ Fire(a) PROVE QuietInv'
<1>1. /\ UNCHANGED <<t, doc, seen, told, view>> /\ todo' \in {todo, todo \ {a}} /\ pending' \subseteq pending
      /\ fired' = [fired EXCEPT ![a] = MostRecentDue(view, a)] /\ seen = view /\ view \in Document
      /\ t \in Nat
  BY DEF Acknowledge, Fire, MarkFired, Write, docs, history, QuietInv, TypeInv, TypeOK, RingInv, Typed
<1>2. fired \in [Alarms -> Instants \cup {0}]
  BY DEF QuietInv, TypeInv, TypeOK
<1>3. \A b : MostRecentDue(seen, b)' = MostRecentDue(seen, b) /\ (Edited(seen, doc, b)' <=> Edited(seen, doc, b))
  BY <1>1 DEF MostRecentDue, MostRecent, Edited
<1>4. \A b \in Alarms \ {a} : Settled(b)' <=> Settled(b)
  BY <1>1, <1>2, <1>3 DEF Settled, FiresNow
<1>5. ~FiresNow(seen, a)'
  <2>1. fired'[a] = MostRecentDue(seen, a)
    BY <1>1, <1>2
  <2>2. MostRecentDue(seen, a) \in Nat
    BY <1>1, MostRecentFacts
  <2> QED
    BY <1>3, <2>1, <2>2 DEF FiresNow
<1>6. Settled(a)'
  BY <1>5 DEF Settled
<1> QED
  BY <1>1, <1>3, <1>4, <1>6 DEF QuietInv

LEMMA QuietSave ==
  ASSUME QuietInv, TypeInv', NEW d \in Saved, PutInRam(d) PROVE QuietInv'
<1>1. /\ UNCHANGED <<t, seen, view, todo, pending, fired>> /\ doc' = d /\ t \in Nat
      /\ told' = [a \in Alarms |-> Told(d, a)]
  BY DEF PutInRam, runner, marks, QuietInv, TypeInv, TypeOK, RingInv, Typed
<1>2. \A a : Edited(seen, doc, a)' <=> Edited(seen, d, a)
  BY <1>1 DEF Edited, MostRecentDue, MostRecent
<1>3. \A a \in Alarms : Told(d, a) \in Nat /\ Told(d, a) <= t
  BY <1>1 DEF Told, QuietInv
<1>4. seen = None => \A a \in Alarms : Told(d, a) = 0
  BY DEF Told
<1>5. \A a \in Alarms : Told(d, a) # 0 => Edited(seen, d, a) \/ (Settled(a) /\ Told(d, a) = told[a])
  BY DEF Told, QuietInv
<1>6. \A a \in Alarms : told'[a] = Told(d, a)
  BY <1>1
<1>7. \A a \in Alarms : told'[a] # 0 => Edited(seen, doc, a)' \/ Settled(a)'
  <2> SUFFICES ASSUME NEW a \in Alarms, told'[a] # 0 PROVE Edited(seen, doc, a)' \/ Settled(a)'
    OBVIOUS
  <2>1. CASE Edited(seen, d, a)
    BY <1>2, <2>1, Zenon
  <2>2. CASE Settled(a) /\ Told(d, a) = told[a]
    <3>1. told'[a] = told[a]
      BY <1>6, <2>2
    <3> QED
      BY <1>1, <2>2, <3>1 DEF Settled, FiresNow, MostRecentDue, MostRecent
  <2> QED
    BY <1>5, <1>6, <2>1, <2>2
<1>8. told' \in [Alarms -> Nat] /\ \A a \in Alarms : told'[a] <= t'
  BY <1>1, <1>3
<1> QED
  BY <1>1, <1>4, <1>6, <1>7, <1>8 DEF QuietInv

LEMMA QuietStep == QuietInv /\ [Next]_vars => QuietInv'
<1> SUFFICES ASSUME QuietInv, [Next]_vars PROVE QuietInv'
  OBVIOUS
<1> TypeInv'
  BY TypeStep DEF QuietInv
<1> USE DEF docs, runner, marks, history, rings
<1>1. CASE EvaluateClockBad
  <2>1. todo = {} /\ pending = {} /\ UNCHANGED <<t, doc, told, fired, todo, pending>>
        /\ seen' = IF seen = None THEN doc ELSE seen
    BY <1>1 DEF EvaluateClockBad, Wakes, QuietInv, TypeInv, TypeOK
  <2>2. CASE seen = None
    BY <2>1, <2>2 DEF QuietInv
  <2>3. CASE seen # None
    BY <2>1, <2>3, QuietUntouched
  <2> QED
    BY <2>2, <2>3
<1>2. CASE Drive
  BY <1>2, QuietUntouched DEF Drive
<1>3. CASE Rest
  BY <1>3, QuietUntouched DEF Rest
<1>4. CASE PutOnFlash
  BY <1>4, QuietUntouched DEF PutOnFlash
<1>5. CASE PutFails
  BY <1>5, QuietUntouched DEF PutFails
<1>6. CASE RepairClock
  BY <1>6, QuietUntouched DEF RepairClock
<1>7. CASE Start
  BY <1>7, QuietUntouched DEF Start
<1>8. CASE UNCHANGED vars
  BY <1>8, QuietUntouched DEF vars
<1>9. CASE AgentStops \/ PowerCut
  <2>1. told' = [a \in Alarms |-> 0] /\ todo' = {} /\ pending' = {} /\ t' = t /\ t \in Nat
    BY <1>9 DEF AgentStops, PowerCut, Stop, QuietInv, TypeInv, RingInv, Typed
  <2> QED
    BY <2>1 DEF QuietInv
<1> QED
  BY <1>1, <1>2, <1>3, <1>4, <1>5, <1>6, <1>7, <1>8, <1>9, QuietEvaluate, QuietTick, QuietAnswer, QuietSave
     DEF Next, RunnerStep
-----------------------------------------------------------------------------
(* The runner owes the user an answer for d.                               *)
Owed(a, d) == d \in Dues(doc, a) /\ steady[a] < d /\ goodSince + MaxSleep <= d + Grace

(* A mark x answers what it covers, as long as that could still ring.      *)
Covers(x, now, dues, known, done, a) ==
  x <= now /\ \A d \in dues : known < d /\ d <= x /\ now <= d + Grace => <<a, d>> \in done

Marked(a) ==
  /\ Covers(fired[a], t, Dues(doc, a), steady[a], answered, a)
  /\ Covers(firedSaved[a], t, Dues(doc, a), steady[a], answered, a)

(* The pass that is under way has yet to look at a, or has answered it.    *)
PassOK(a) ==
  /\ Dues(doc, a) = Dues(view, a) \/ steady[a] >= t
  /\ a \in todo => steady[a] >= t
  /\ clockGood /\ goodSince < t /\ On(view, a) =>
       a \in pending \/ <<a, MostRecentDue(view, a)>> \in answered

(* The runner wakes before it owes another answer.                         *)
Sleeps ==
  /\ rpc = "sleep" => wakeAt <= t + MaxSleep
  /\ rpc = "sleep" /\ ~reload =>
       \/ wakeAt <= goodSince + MaxSleep
       \/ \A a \in Alarms, d \in Instants : Owed(a, d) /\ d < wakeAt => <<a, d>> \in answered
  /\ rpc = "parked" /\ ~reload => \A a \in Alarms : Dues(doc, a) = {} \/ steady[a] = Never

Prompt ==
  \A a \in Alarms, d \in Instants :
    Owed(a, d) /\ d < t /\ goodSince + MaxSleep < t => <<a, d>> \in answered

Since == IF clockGood /\ rpc # "down" THEN goodSince <= t ELSE goodSince = Never

MissInv ==
  /\ TypeInv /\ steady \in [Alarms -> Nat] /\ goodSince \in Nat /\ Since
  /\ \A a \in Alarms : Marked(a)
  /\ rpc = "work" => view \in Document /\ \A a \in Alarms : PassOK(a)
  /\ Sleeps /\ Prompt

LEMMA Numbers ==
  ASSUME MissInv
  PROVE  /\ t \in Nat /\ t <= MaxTime /\ MaxTime \in Nat /\ MaxSleep \in Nat /\ MaxSleep > 0 /\ Grace \in Nat
         /\ Never \in Nat /\ Never > t + MaxSleep /\ goodSince \in Nat /\ doc \in Document
         /\ \A a \in Alarms : /\ steady[a] \in Nat /\ fired[a] \in Nat /\ firedSaved[a] \in Nat
                              /\ Dues(doc, a) \in SUBSET (Nat \ {0})
<1>1. t \in Nat /\ t <= MaxTime /\ MaxTime \in Nat /\ MaxSleep \in Nat /\ MaxSleep > 0 /\ Grace \in Nat /\ doc \in Document
  BY AlarmAssumption DEF MissInv, TypeInv, TypeOK
<1>2. \A a \in Alarms : fired[a] \in Nat /\ firedSaved[a] \in Nat
  BY MarksAreNat DEF MissInv, TypeInv, TypeOK
<1>3. \A a \in Alarms : Dues(doc, a) \in SUBSET (Nat \ {0})
  BY <1>1, DuesAreInstants
<1> QED
  BY <1>1, <1>2, <1>3 DEF Never, MissInv

LEMMA CoversKeeps ==
  ASSUME NEW a \in Alarms, NEW x \in Nat, NEW now \in Nat, NEW later \in Nat, now <= later,
         NEW dues \in SUBSET Nat, NEW dues2 \in SUBSET Nat, NEW known \in Nat, NEW known2 \in Nat,
         NEW done, NEW done2, done \subseteq done2,
         Covers(x, now, dues, known, done, a),
         (dues2 = dues /\ known <= known2) \/ now <= known2
  PROVE  Covers(x, later, dues2, known2, done2, a)
<1>1. x <= now
  BY DEF Covers
<1>2. Grace \in Nat
  BY AlarmAssumption
<1>3. ASSUME NEW d \in dues2, known2 < d, d <= x, later <= d + Grace PROVE <<a, d>> \in done2
  <2>1. d \in Nat /\ ~(now <= known2)
    BY <1>1, <1>3
  <2>2. d \in dues /\ known < d /\ now <= d + Grace
    BY <1>2, <1>3, <2>1
  <2> QED
    BY <1>3, <2>2 DEF Covers
<1> QED
  BY <1>1, <1>3 DEF Covers

(* What is known for no longer, or not before now, is owed no more.        *)
KnownNoLonger == \A a \in Alarms : (Dues(doc, a)' = Dues(doc, a) /\ steady[a] <= steady'[a]) \/ t <= steady'[a]

LEMMA MarksKept ==
  ASSUME MissInv, TypeInv', t' = t, answered \subseteq answered', KnownNoLonger,
         steady' \in [Alarms -> Nat], NEW a \in Alarms,
         fired'[a] \in {fired[a], firedSaved[a], 0}, firedSaved'[a] \in {fired[a], firedSaved[a], 0}
  PROVE  Marked(a)'
<1>1. /\ t \in Nat /\ steady[a] \in Nat /\ steady'[a] \in Nat /\ fired[a] \in Nat /\ firedSaved[a] \in Nat
      /\ Dues(doc, a) \in SUBSET (Nat \ {0}) /\ Dues(doc', a) \in SUBSET Nat
  BY Numbers, DuesAreInstants DEF TypeInv, TypeOK
<1>2. \A x \in {fired[a], firedSaved[a], 0} : Covers(x, t, Dues(doc, a), steady[a], answered, a)
  <2>1. Covers(0, t, Dues(doc, a), steady[a], answered, a)
    BY <1>1 DEF Covers
  <2> QED
    BY <2>1 DEF MissInv, Marked
<1>3. (Dues(doc', a) = Dues(doc, a) /\ steady[a] <= steady'[a]) \/ t <= steady'[a]
  BY DEF KnownNoLonger
<1>4. \A x \in {fired[a], firedSaved[a], 0} : Covers(x, t, Dues(doc', a), steady'[a], answered', a)
  BY <1>1, <1>2, <1>3, CoversKeeps
<1> QED
  BY <1>4 DEF Marked

LEMMA PromptKept ==
  ASSUME MissInv, TypeInv', t' = t, goodSince' = goodSince, answered \subseteq answered', KnownNoLonger,
         steady' \in [Alarms -> Nat]
  PROVE  Prompt'
<1> SUFFICES ASSUME NEW a \in Alarms, NEW d \in Instants, Owed(a, d)', d < t, goodSince + MaxSleep < t
             PROVE  <<a, d>> \in answered
  BY DEF Prompt
<1>1. d \in Nat /\ t \in Nat /\ steady[a] \in Nat /\ steady'[a] \in Nat
  BY Numbers, InstantsAreNat
<1>2. d \in Dues(doc', a) /\ steady'[a] < d /\ goodSince + MaxSleep <= d + Grace
  BY DEF Owed
<1>3. ~(t <= steady'[a])
  BY <1>1, <1>2
<1>4. Dues(doc', a) = Dues(doc, a) /\ steady[a] <= steady'[a]
  BY <1>3 DEF KnownNoLonger
<1>5. Owed(a, d)
  BY <1>1, <1>2, <1>4 DEF Owed
<1> QED
  BY <1>5 DEF MissInv, Prompt

(* A step of the pass that changes neither what is due nor what is known.  *)
LEMMA PassKept ==
  ASSUME MissInv, TypeInv', UNCHANGED <<t, clockGood, doc, view, steady, goodSince, rpc>>, rpc = "work",
         answered \subseteq answered', todo' \subseteq todo,
         \A a \in Alarms : Marked(a)',
         \A a \in Alarms : a \in pending => a \in pending' \/ <<a, MostRecentDue(view, a)>> \in answered'
  PROVE  MissInv'
<1>1. Prompt'
  BY Numbers, PromptKept DEF KnownNoLonger, MissInv
<1>2. \A a : MostRecentDue(view, a)' = MostRecentDue(view, a)
  BY DEF MostRecentDue, MostRecent
<1>3. \A a \in Alarms : PassOK(a)'
  BY <1>2 DEF MissInv, PassOK
<1> QED
  BY <1>1, <1>3 DEF MissInv, Since, Sleeps

(* A step that leaves the marks, the time and the pass alone.              *)
LEMMA MissFrame ==
  ASSUME MissInv, TypeInv', UNCHANGED <<t, fired, firedSaved, answered>>, KnownNoLonger, steady' \in [Alarms -> Nat],
         goodSince' \in Nat, Since',
         goodSince' = goodSince \/ t <= goodSince',
         rpc' = "work" => view' \in Document /\ \A a \in Alarms : PassOK(a)',
         Sleeps'
  PROVE  MissInv'
<1>1. \A a \in Alarms : Marked(a)'
  BY MarksKept
<1>2. Prompt'
  <2>1. CASE goodSince' = goodSince
    BY <2>1, PromptKept
  <2>2. CASE t <= goodSince'
    BY <2>2, Numbers DEF Prompt
  <2> QED
    BY <2>1, <2>2
<1> QED
  BY <1>1, <1>2 DEF MissInv

LEMMA MissEvaluateClockBad == MissInv /\ EvaluateClockBad /\ TypeInv' => MissInv'
<1> SUFFICES ASSUME MissInv, EvaluateClockBad, TypeInv' PROVE MissInv'
  OBVIOUS
<1>1. /\ UNCHANGED <<t, clockGood, doc, fired, firedSaved, answered, steady, goodSince>> /\ ~clockGood
      /\ rpc' = "work" /\ rpc # "down" /\ view' = doc /\ todo' = {}
  BY DEF EvaluateClockBad, Wakes, marks, history, rings, MissInv, TypeInv, TypeOK
<1>2. \A a \in Alarms : PassOK(a)'
  BY <1>1 DEF PassOK
<1>3. Sleeps' /\ Since'
  BY <1>1 DEF Sleeps, Since, MissInv
<1> QED
  BY <1>1, <1>2, <1>3, MissFrame, Numbers DEF KnownNoLonger, MissInv

LEMMA MissEvaluate == MissInv /\ Evaluate /\ TypeInv' => MissInv'
<1> SUFFICES ASSUME MissInv, Evaluate, TypeInv' PROVE MissInv'
  OBVIOUS
<1> DEFINE kept == [a \in Alarms |-> IF doc.entries[a] = NoAlarm THEN 0 ELSE fired[a]]
           before == IF seen = None THEN doc ELSE seen
<1>1. /\ UNCHANGED <<t, clockGood, doc, answered, goodSince>> /\ clockGood /\ rpc # "down"
      /\ rpc' = "work" /\ view' = doc /\ doc \in Document
      /\ pending' = {a \in Alarms : On(doc, a)} /\ todo' \subseteq {a \in Alarms : Edited(before, doc, a)}
      /\ steady' = [a \in Alarms |-> IF Edited(before, doc, a) THEN t ELSE steady[a]]
  BY Numbers DEF Evaluate, Wakes
<1>2. fired' = kept /\ firedSaved' \in {kept, firedSaved}
  BY DEF Evaluate, Write, marks
<1> HIDE DEF before
<1>3. steady' \in [Alarms -> Nat] /\ KnownNoLonger
  BY <1>1, Numbers DEF KnownNoLonger, MissInv
<1>4. \A a \in Alarms : fired'[a] \in {fired[a], firedSaved[a], 0} /\ firedSaved'[a] \in {fired[a], firedSaved[a], 0}
  BY <1>2
<1>5. \A a \in Alarms : Marked(a)'
  BY <1>1, <1>3, <1>4, MarksKept
<1>6. Prompt'
  BY <1>1, <1>3, PromptKept
<1>7. \A a \in Alarms : PassOK(a)'
  BY <1>1, Numbers DEF PassOK
<1>8. Since' /\ Sleeps'
  BY <1>1 DEF MissInv, Since, Sleeps
<1> QED
  BY <1>1, <1>3, <1>5, <1>6, <1>7, <1>8 DEF MissInv

LEMMA MissAcknowledge ==
  ASSUME MissInv, NEW a \in Alarms, Acknowledge(a), TypeInv' PROVE MissInv'
<1> DEFINE x == MostRecentDue(view, a)
<1>1. /\ UNCHANGED <<t, clockGood, doc, view, steady, goodSince, rpc, answered, pending>> /\ rpc = "work" /\ a \in todo
      /\ todo' \subseteq todo /\ fired' = [fired EXCEPT ![a] = x]
      /\ firedSaved' \in {fired', firedSaved}
  BY DEF Acknowledge, MarkFired, Write, docs, history, rings
<1>2. x \in Nat /\ x <= t /\ t <= steady[a]
  BY <1>1, Numbers, MostRecentFacts DEF MissInv, PassOK
<1> HIDE DEF x
<1>3. KnownNoLonger /\ steady' \in [Alarms -> Nat]
  BY <1>1, Numbers DEF KnownNoLonger, MissInv
<1>4. fired \in [Alarms -> Instants \cup {0}]
  BY DEF MissInv, TypeInv, TypeOK
<1>5. \A b \in Alarms \ {a} : Marked(b)'
  <2> SUFFICES ASSUME NEW b \in Alarms \ {a} PROVE Marked(b)'
    OBVIOUS
  <2>1. fired'[b] = fired[b] /\ firedSaved'[b] \in {fired[b], firedSaved[b]}
    BY <1>1, <1>4
  <2> QED
    BY <1>1, <1>3, <2>1, MarksKept
<1>6. Marked(a)'
  <2>1. fired'[a] = x /\ firedSaved'[a] \in {x, firedSaved[a]}
    BY <1>1, <1>4
  <2>2. Covers(x, t, Dues(doc, a), steady[a], answered, a)
    BY <1>2, Numbers DEF Covers
  <2>3. Covers(firedSaved[a], t, Dues(doc, a), steady[a], answered, a)
    BY DEF MissInv, Marked
  <2> QED
    BY <1>1, <2>1, <2>2, <2>3 DEF Marked
<1> QED
  BY <1>1, <1>5, <1>6, PassKept

LEMMA MissFire ==
  ASSUME MissInv, NEW a \in Alarms, Fire(a), TypeInv' PROVE MissInv'
<1> DEFINE x == MostRecentDue(view, a)
<1>1. /\ UNCHANGED <<t, clockGood, doc, view, steady, goodSince, rpc, todo>> /\ rpc = "work"
      /\ pending' = pending \ {a} /\ fired' = [fired EXCEPT ![a] = x]
      /\ firedSaved' \in {fired', firedSaved} /\ answered' = answered \cup {<<a, x>>}
  BY DEF Fire, MarkFired, Write, docs
<1>2. /\ view \in Document /\ x \in Nat /\ x <= t /\ t \in Nat /\ (x # 0 => x \in Dues(view, a)) /\ PassOK(a)
      /\ steady[a] \in Nat /\ Grace \in Nat /\ Dues(view, a) \in SUBSET Nat
      /\ \A i, j \in Dues(view, a) : i < j => i + Grace < j
  BY <1>1, Numbers, MostRecentFacts, DuesAreInstants DEF MissInv
<1>3. KnownNoLonger /\ steady' \in [Alarms -> Nat]
  BY <1>1, Numbers DEF KnownNoLonger, MissInv
<1>4. fired \in [Alarms -> Instants \cup {0}]
  BY DEF MissInv, TypeInv, TypeOK
<1> HIDE DEF x
<1>5. \A b \in Alarms \ {a} : Marked(b)'
  <2> SUFFICES ASSUME NEW b \in Alarms \ {a} PROVE Marked(b)'
    OBVIOUS
  <2>1. fired'[b] = fired[b] /\ firedSaved'[b] \in {fired[b], firedSaved[b]}
    BY <1>1, <1>4
  <2> QED
    BY <1>1, <1>3, <2>1, MarksKept
<1>6. Marked(a)'
  <2>1. fired'[a] = x /\ firedSaved'[a] \in {x, firedSaved[a]}
    BY <1>1, <1>4
  <2>2. Covers(x, t, Dues(doc, a), steady[a], answered', a)
    <3>1. ASSUME NEW d \in Dues(doc, a), steady[a] < d, d <= x, t <= d + Grace PROVE d = x
      <4>1. d \in Nat
        BY Numbers
      <4>2. Dues(doc, a) = Dues(view, a)
        BY <1>2, <3>1, <4>1 DEF PassOK
      <4>3. x \in Dues(view, a)
        BY <1>2, <3>1, <4>1
      <4>4. ~(d < x)
        BY <1>2, <3>1, <4>1, <4>2, <4>3
      <4> QED
        BY <1>2, <3>1, <4>1, <4>4
    <3> QED
      BY <1>1, <1>2, <3>1 DEF Covers
  <2>3. Covers(firedSaved[a], t, Dues(doc, a), steady[a], answered', a)
    BY <1>1 DEF MissInv, Marked, Covers
  <2> QED
    BY <1>1, <2>1, <2>2, <2>3 DEF Marked
<1>7. \A b \in Alarms : b \in pending => b \in pending' \/ <<b, MostRecentDue(view, b)>> \in answered'
  BY <1>1 DEF x
<1> QED
  BY <1>1, <1>5, <1>6, <1>7, PassKept

(* The end of a pass: everything owed by now is answered, and nothing else *)
(* is due before the runner wakes.                                         *)
LEMMA PassAnswers ==
  ASSUME MissInv, rpc = "work", clockGood, goodSince < t, \A a \in pending : ~FiresNow(view, a),
         NEW a \in Alarms, NEW d \in Instants, Owed(a, d), d <= t
  PROVE  <<a, d>> \in answered
<1>1. d \in Nat /\ t \in Nat /\ steady[a] \in Nat /\ Grace \in Nat /\ fired[a] \in Nat
      /\ goodSince \in Nat /\ MaxSleep \in Nat
  BY Numbers, InstantsAreNat
<1>2. /\ d \in Dues(doc, a) /\ steady[a] < d /\ goodSince + MaxSleep <= d + Grace
  BY DEF Owed
<1>3. PassOK(a) /\ view \in Document
  BY DEF MissInv
<1>4. d \in Dues(view, a)
  BY <1>1, <1>2, <1>3 DEF PassOK
<1>5. On(view, a)
  BY <1>4 DEF Dues
<1>6. CASE t <= d + Grace
  <2> DEFINE x == MostRecentDue(view, a)
  <2>1. x \in Nat /\ x <= t /\ d <= x /\ (x # 0 => x \in Dues(view, a)) /\ Dues(view, a) \in SUBSET (Nat \ {0})
        /\ \A i, j \in Dues(view, a) : i < j => i + Grace < j
    BY <1>1, <1>3, <1>4, MostRecentFacts, DuesAreInstants
  <2>2. d # 0
    BY <1>4, <2>1
  <2>3. x # 0
    BY <1>1, <2>1, <2>2
  <2>4. ~(d < x)
    BY <1>1, <1>4, <1>6, <2>1, <2>3
  <2>5. x = d
    BY <1>1, <2>1, <2>4
  <2>6. CASE a \in pending
    <3>1. ~FiresNow(view, a)
      BY <2>6
    <3>2. t - d <= Grace
      BY <1>1, <1>6
    <3>3. ~(fired[a] < d)
      BY <2>2, <2>5, <3>1, <3>2 DEF FiresNow
    <3>4. d <= fired[a]
      BY <1>1, <3>3
    <3> QED
      BY <1>2, <1>6, <3>4 DEF MissInv, Marked, Covers
  <2>7. CASE a \notin pending
    BY <1>3, <1>5, <2>5, <2>7 DEF PassOK
  <2> QED
    BY <2>6, <2>7
<1>7. CASE d + Grace < t
  <2>1. d < t /\ goodSince + MaxSleep < t
    BY <1>1, <1>2, <1>7
  <2> QED
    BY <2>1 DEF MissInv, Prompt
<1> QED
  BY <1>1, <1>6, <1>7

LEMMA MissRest == MissInv /\ Rest /\ TypeInv' => MissInv'
<1> SUFFICES ASSUME MissInv, Rest, TypeInv' PROVE MissInv'
  OBVIOUS
<1>1. /\ UNCHANGED <<t, clockGood, doc, reload, steady, goodSince, answered, fired, firedSaved>>
      /\ rpc = "work" /\ \A a \in pending : ~FiresNow(view, a)
  BY DEF Rest, docs, marks, history, rings
<1>2. KnownNoLonger /\ steady' \in [Alarms -> Nat] /\ goodSince \in Nat /\ t \in Nat /\ MaxSleep \in Nat
  BY <1>1, Numbers DEF KnownNoLonger, MissInv
<1>3. CASE ~Scheduled(doc) /\ rpc' = "parked"
  <2>1. \A a \in Alarms : Dues(doc, a) = {}
    BY <1>3 DEF Scheduled, Dues
  <2>2. Sleeps' /\ Since'
    BY <1>1, <1>3, <2>1 DEF Sleeps, Since, MissInv
  <2> QED
    BY <1>1, <1>2, <1>3, <2>2, MissFrame
<1>4. CASE Scheduled(doc) /\ rpc' = "sleep"
  <2>1. PICK w \in Waits(doc) : wakeAt' = t + w
    BY <1>4 DEF Rest
  <2>2. w \in Nat /\ w <= MaxSleep /\ (clockGood => \A i \in Upcoming(doc) : t + w <= i)
    BY WaitsFacts DEF MissInv, TypeInv
  <2>3. wakeAt' <= t + MaxSleep
    BY <1>2, <2>1, <2>2
  <2>4. CASE t <= goodSince
    <3>1. wakeAt' <= goodSince + MaxSleep
      BY <1>2, <2>1, <2>2, <2>4
    <3>2. Sleeps' /\ Since'
      BY <1>1, <1>4, <2>3, <3>1 DEF Sleeps, Since, MissInv
    <3> QED
      BY <1>1, <1>2, <1>4, <3>2, MissFrame
  <2>5. CASE goodSince < t
    <3>1. clockGood
      BY <1>2, <2>5, Numbers DEF MissInv, Since
    <3>2. ASSUME NEW a \in Alarms, NEW d \in Instants, Owed(a, d), d < wakeAt' PROVE <<a, d>> \in answered
      <4>1. d \in Nat /\ d \in Dues(doc, a)
        BY <3>2, InstantsAreNat DEF Owed
      <4>2. d > t => t + w <= d
        BY <2>2, <3>1, <4>1 DEF Upcoming
      <4>3. d <= t
        BY <1>2, <2>1, <2>2, <3>2, <4>1, <4>2
      <4> QED
        BY <1>1, <2>5, <3>1, <3>2, <4>3, PassAnswers
    <3>3. \A a, d : Owed(a, d)' <=> Owed(a, d)
      BY <1>1 DEF Owed
    <3>4. Sleeps' /\ Since'
      BY <1>1, <1>4, <2>3, <3>2, <3>3 DEF Sleeps, Since, MissInv
    <3> QED
      BY <1>1, <1>2, <1>4, <3>4, MissFrame
  <2> QED
    BY <1>2, <2>4, <2>5
<1> QED
  BY <1>3, <1>4 DEF Rest

LEMMA MissSave ==
  ASSUME MissInv, NEW new \in Saved, PutInRam(new), TypeInv' PROVE MissInv'
<1>1. /\ UNCHANGED <<t, clockGood, reload, rpc, wakeAt, view, todo, pending, fired, firedSaved, answered, goodSince>>
      /\ rpc # "down" /\ doc' = new
      /\ \A a \in Alarms : \/ steady'[a] = Never
                           \/ /\ steady'[a] = steady[a] /\ new.entries[a] = doc.entries[a]
                              /\ new.zone = doc.zone /\ new.skip = doc.skip
  BY DEF PutInRam, runner, marks, rings
<1>2. steady' \in [Alarms -> Nat]
  BY Numbers DEF PutInRam, MissInv
<1>3. \A a \in Alarms : \/ steady'[a] = Never
                        \/ steady'[a] = steady[a] /\ Dues(new, a) = Dues(doc, a)
  BY <1>1 DEF Dues, DuesWith, On
<1>4. KnownNoLonger
  BY <1>1, <1>3, Numbers DEF KnownNoLonger
<1>5. \A a : MostRecentDue(view, a)' = MostRecentDue(view, a)
  BY <1>1 DEF MostRecentDue, MostRecent
<1>6. ASSUME rpc = "work", NEW a \in Alarms PROVE PassOK(a)'
  <2>1. PassOK(a) /\ Never >= t
    BY <1>6, Numbers DEF MissInv
  <2>2. steady[a] >= t => steady'[a] >= t
    BY <1>3, <2>1
  <2>3. Dues(new, a) = Dues(view, a) \/ steady'[a] >= t
    <3>1. Dues(doc, a) = Dues(view, a) \/ steady[a] >= t
      BY <2>1 DEF PassOK
    <3> QED
      BY <1>3, <2>1, <2>2, <3>1
  <2>4. a \in todo => steady'[a] >= t
    BY <2>1, <2>2 DEF PassOK
  <2>5. clockGood' /\ goodSince < t /\ On(view, a) => a \in pending \/ <<a, MostRecentDue(view, a)>> \in answered
    BY <1>1, <2>1 DEF PassOK
  <2>6. Dues(doc', a) = Dues(new, a)
    BY <1>1
  <2> QED
    BY <1>1, <1>5, <2>3, <2>4, <2>5, <2>6 DEF PassOK
<1>7. ASSUME NEW a \in Alarms, NEW d \in Instants, Owed(a, d)', rpc = "sleep", d < wakeAt PROVE Owed(a, d)
  <2>1. d < Never /\ d \in Nat
    <3>1. wakeAt \in Nat /\ wakeAt <= t + MaxSleep
      BY <1>7 DEF MissInv, Sleeps, TypeInv, TypeOK
    <3> QED
      BY <1>7, <3>1, Numbers, InstantsAreNat
  <2>2. steady'[a] # Never
    BY <1>7, <2>1, Numbers DEF Owed
  <2> QED
    BY <1>1, <1>3, <1>7, <2>2 DEF Owed
<1>8. Sleeps'
  <2>1. rpc = "sleep" => wakeAt <= t + MaxSleep
    BY DEF MissInv, Sleeps
  <2>2. rpc = "sleep" /\ ~reload =>
          \/ wakeAt <= goodSince + MaxSleep
          \/ \A a \in Alarms, d \in Instants : Owed(a, d)' /\ d < wakeAt => <<a, d>> \in answered
    BY <1>7 DEF MissInv, Sleeps
  <2>3. rpc = "parked" /\ ~reload => \A a \in Alarms : Dues(new, a) = {} \/ steady'[a] = Never
    BY <1>3 DEF MissInv, Sleeps
  <2> QED
    BY <1>1, <2>1, <2>2, <2>3 DEF Sleeps, Never
<1> QED
  BY <1>1, <1>2, <1>4, <1>6, <1>8, MissFrame DEF MissInv, Since

LEMMA MissSaved == MissInv /\ PutOnFlash /\ TypeInv' => MissInv'
<1> SUFFICES ASSUME MissInv, PutOnFlash, TypeInv' PROVE MissInv'
  OBVIOUS
<1>1. /\ UNCHANGED <<t, clockGood, doc, rpc, wakeAt, view, todo, pending, fired, firedSaved, answered, goodSince>>
      /\ reload' = TRUE /\ steady' = [a \in Alarms |-> IF steady[a] = Never THEN t ELSE steady[a]]
  BY DEF PutOnFlash, runner, marks, rings
<1>2. steady' \in [Alarms -> Nat] /\ KnownNoLonger /\ t \in Nat /\ \A a \in Alarms : steady[a] >= t => steady'[a] >= t
  BY <1>1, Numbers DEF KnownNoLonger, MissInv
<1>3. \A a : MostRecentDue(view, a)' = MostRecentDue(view, a)
  BY <1>1 DEF MostRecentDue, MostRecent
<1>4. rpc = "work" => \A a \in Alarms : PassOK(a)'
  BY <1>1, <1>2, <1>3 DEF MissInv, PassOK
<1>5. Sleeps' /\ Since'
  BY <1>1 DEF MissInv, Sleeps, Since
<1> QED
  BY <1>1, <1>2, <1>4, <1>5, MissFrame DEF MissInv

LEMMA MissTick == MissInv /\ Tick /\ TypeInv' => MissInv'
<1> SUFFICES ASSUME MissInv, Tick, TypeInv' PROVE MissInv'
  OBVIOUS
<1>1. /\ t' = t + 1
      /\ UNCHANGED <<clockGood, doc, reload, rpc, wakeAt, fired, firedSaved, answered, steady, goodSince>>
      /\ rpc = "down" \/ (rpc = "parked" /\ ~reload) \/ (rpc = "sleep" /\ ~reload /\ t < wakeAt)
      /\ t < MaxTime
  BY DEF Tick, docs, runner, marks, history, rings
<1>2. \A a, d : Owed(a, d)' <=> Owed(a, d)
  BY <1>1 DEF Owed
<1>3. ASSUME NEW a \in Alarms, NEW d \in Instants, Owed(a, d), d < t + 1, goodSince + MaxSleep < t + 1
      PROVE  <<a, d>> \in answered
  <2>1. d \in Nat /\ d <= t /\ goodSince + MaxSleep <= t /\ goodSince # Never
    BY <1>3, Numbers, InstantsAreNat
  <2>2. CASE rpc = "sleep" /\ ~reload /\ t < wakeAt
    <3>1. wakeAt \in Nat
      BY DEF MissInv, TypeInv, TypeOK
    <3>2. d < wakeAt /\ ~(wakeAt <= goodSince + MaxSleep)
      BY <2>1, <2>2, <3>1, Numbers
    <3> QED
      BY <1>3, <2>2, <3>2 DEF MissInv, Sleeps
  <2>3. CASE rpc = "parked" /\ ~reload
    <3>1. d \in Dues(doc, a) /\ steady[a] < d
      BY <1>3 DEF Owed
    <3>2. steady[a] = Never
      BY <2>3, <3>1 DEF MissInv, Sleeps
    <3> QED
      BY <2>1, <3>1, <3>2, Numbers
  <2>4. CASE rpc = "down"
    BY <2>1, <2>4 DEF MissInv, Since
  <2> QED
    BY <1>1, <2>2, <2>3, <2>4
<1>4. Prompt'
  BY <1>1, <1>2, <1>3 DEF Prompt
<1>5. \A a \in Alarms : Marked(a)'
  <2> SUFFICES ASSUME NEW a \in Alarms PROVE Marked(a)'
    OBVIOUS
  <2>1. t \in Nat /\ t + 1 \in Nat /\ t <= t + 1 /\ steady[a] \in Nat /\ steady[a] <= steady[a]
        /\ fired[a] \in Nat /\ firedSaved[a] \in Nat /\ Dues(doc, a) \in SUBSET Nat
    BY Numbers
  <2>2. \A x \in {fired[a], firedSaved[a]} : Covers(x, t + 1, Dues(doc, a), steady[a], answered, a)
    BY <2>1, CoversKeeps DEF MissInv, Marked
  <2> QED
    BY <1>1, <2>2 DEF Marked
<1>6. Sleeps' /\ Since'
  BY <1>1, <1>2, Numbers DEF MissInv, Sleeps, Since, TypeInv, TypeOK
<1> QED
  BY <1>1, <1>4, <1>5, <1>6 DEF MissInv

LEMMA MissRepair == MissInv /\ RepairClock /\ TypeInv' => MissInv'
<1> SUFFICES ASSUME MissInv, RepairClock, TypeInv' PROVE MissInv'
  OBVIOUS
<1>1. /\ UNCHANGED <<t, doc, reload, rpc, wakeAt, view, todo, pending, fired, firedSaved, answered, steady>>
      /\ clockGood' = TRUE /\ goodSince' = t /\ rpc # "down"
  BY DEF RepairClock, docs, runner, marks, rings
<1>2. KnownNoLonger /\ steady' \in [Alarms -> Nat] /\ t \in Nat
  BY <1>1, Numbers DEF KnownNoLonger, MissInv
<1>3. rpc = "work" => \A a \in Alarms : PassOK(a)'
  <2> SUFFICES ASSUME rpc = "work", NEW a \in Alarms PROVE PassOK(a)'
    OBVIOUS
  <2>1. PassOK(a) /\ ~(goodSince' < t)
    BY <1>1, <1>2 DEF MissInv
  <2>2. (Dues(doc, a) = Dues(view, a) \/ steady[a] >= t) /\ (a \in todo => steady[a] >= t)
    BY <2>1 DEF PassOK
  <2> QED
    BY <1>1, <2>1, <2>2 DEF PassOK
<1>4. Sleeps' /\ Since'
  BY <1>1, <1>2 DEF MissInv, Sleeps, Since, Never
<1> QED
  BY <1>1, <1>2, <1>3, <1>4, MissFrame DEF MissInv

LEMMA MissStop == \A good : MissInv /\ Stop(good) /\ TypeInv' => MissInv'
<1> SUFFICES ASSUME MissInv, NEW good, Stop(good), TypeInv' PROVE MissInv'
  OBVIOUS
<1>1. /\ UNCHANGED <<t, firedSaved, answered>> /\ fired' = firedSaved /\ rpc' = "down" /\ goodSince' = Never
      /\ doc' = docSaved
      /\ steady' = [a \in Alarms |-> IF doc # docSaved \/ steady[a] = Never THEN t ELSE steady[a]]
  BY DEF Stop, rings
<1>2. steady' \in [Alarms -> Nat] /\ KnownNoLonger
  BY <1>1, Numbers DEF KnownNoLonger, MissInv
<1>3. \A a \in Alarms : Marked(a)'
  BY <1>1, <1>2, MarksKept
<1>4. Prompt'
  BY <1>1, Numbers DEF Prompt
<1>5. Never' = Never
  BY DEF Never
<1> QED
  BY <1>1, <1>2, <1>3, <1>4, <1>5, Numbers DEF MissInv, Since, Sleeps

LEMMA MissStart == MissInv /\ Start /\ TypeInv' => MissInv'
<1> SUFFICES ASSUME MissInv, Start, TypeInv' PROVE MissInv'
  OBVIOUS
<1>1. /\ UNCHANGED <<t, clockGood, doc, fired, firedSaved, answered, steady>> /\ rpc' = "started"
      /\ goodSince' = IF clockGood THEN t ELSE Never
  BY DEF Start, docs, marks, rings
<1>2. KnownNoLonger /\ steady' \in [Alarms -> Nat] /\ goodSince' \in Nat /\ t <= goodSince' /\ t \in Nat
  BY <1>1, Numbers DEF KnownNoLonger, MissInv
<1>3. Sleeps' /\ Since'
  BY <1>1, <1>2 DEF Sleeps, Since, Never
<1> QED
  BY <1>1, <1>2, <1>3, MissFrame

LEMMA MissStep == MissInv /\ [Next]_vars => MissInv'
<1> SUFFICES ASSUME MissInv, [Next]_vars PROVE MissInv'
  OBVIOUS
<1> TypeInv'
  BY TypeStep DEF MissInv
<1>1. CASE UNCHANGED <<t, clockGood, doc, reload, rpc, wakeAt, view, todo, pending, fired, firedSaved, answered, steady,
                       goodSince>>
  <2>1. \A a : MostRecentDue(view, a)' = MostRecentDue(view, a)
    BY <1>1 DEF MostRecentDue, MostRecent
  <2>2. rpc = "work" => \A a \in Alarms : PassOK(a)'
    BY <1>1, <2>1 DEF MissInv, PassOK
  <2>3. (\A a \in Alarms : Marked(a)') /\ Sleeps' /\ Prompt' /\ Since'
    BY <1>1 DEF MissInv, Marked, Sleeps, Prompt, Owed, Since, Never
  <2> QED
    BY <1>1, <2>2, <2>3 DEF MissInv
<1>2. CASE Drive \/ PutFails \/ UNCHANGED vars
  BY <1>1, <1>2 DEF Drive, PutFails, docs, runner, marks, history, rings, vars
<1> QED
  BY <1>2, MissEvaluateClockBad, MissEvaluate, MissAcknowledge, MissFire, MissRest, MissSave, MissSaved, MissTick,
     MissRepair, MissStop, MissStart DEF Next, RunnerStep, AgentStops, PowerCut
-----------------------------------------------------------------------------
LEMMA TypeInit == Init => TypeInv
<1> SUFFICES ASSUME Init PROVE TypeInv
  OBVIOUS
<1>1. RingInv
  BY AlarmAssumption DEF Init, RingInv, Typed
<1>2. TypeOK
  <2>1. t \in 0..MaxTime /\ wakeAt \in Nat /\ doc \in Document
    BY AlarmAssumption DEF Init
  <2>2. fired \in [Alarms -> Instants \cup {0}] /\ firedSaved = fired
    BY DEF Init
  <2> QED
    BY <2>1, <2>2 DEF Init, TypeOK
<1> QED
  BY <1>1, <1>2 DEF Init, TypeInv

(* The types of the document, of the marks and of the runner's state; what *)
(* rang was marked in order to ring.                                       *)
THEOREM AlarmTypeCorrect == Spec => []TypeOK
<1>1. TypeInv => TypeOK
  BY DEF TypeInv
<1> QED
  BY <1>1, TypeInit, TypeStep, PTL DEF Spec

(* SaveIsQuiet holds of every step: acknowledgeAlarmEdits answers with the *)
(* save itself what was due when an alarm was added or moved, whatever     *)
(* saves, failed writes and repairs of the clock come before its pass.     *)
THEOREM SaveIsQuietHolds == Spec => SaveIsQuiet
<1>1. Init => QuietInv
  BY TypeInit DEF Init, QuietInv
<1>2. ASSUME QuietInv, [Next]_vars, NEW a \in Alarms, NEW d \in Instants,
             ringing' = <<a, d>>, ringing # ringing', view = doc
      PROVE  told[a] < d
  <2>1. ringing' # None
    BY <1>2, AlarmAssumption
  <2>2. PICK b \in Alarms : Fire(b)
    BY <1>2, <2>1 DEF Next, RunnerStep, EvaluateClockBad, Evaluate, Acknowledge, Drive, Rest, PutInRam, PutOnFlash,
       PutFails, Tick, RepairClock, AgentStops, PowerCut, Stop, Start, Wakes, runner, vars
  <2>3. b = a /\ d = MostRecentDue(view, a) /\ d # 0 /\ FiresNow(view, a) /\ a \in pending /\ todo = {}
    BY <1>2, <2>1, <2>2 DEF Fire, FiresNow
  <2>4. seen = doc /\ d = MostRecentDue(seen, a) /\ FiresNow(seen, a) /\ told[a] \in Nat /\ d \in Nat
        /\ ~Edited(seen, doc, a)
    BY <1>2, <2>3, InstantsAreNat, SameNotEdited DEF QuietInv
  <2>5. CASE told[a] # 0
    <3>1. Settled(a)
      BY <1>2, <2>4, <2>5 DEF QuietInv
    <3>2. d \in Dues(seen, a)
      <4>1. t \in Nat /\ seen \in Document
        BY <1>2, <2>4 DEF QuietInv, TypeInv, TypeOK, RingInv, Typed
      <4> QED
        BY <2>3, <2>4, <4>1, MostRecentFacts
    <3>3. On(seen, a)
      BY <3>2 DEF Dues
    <3> QED
      BY <2>3, <2>4, <3>1, <3>3 DEF Settled
  <2>6. CASE told[a] = 0
    BY <2>3, <2>4, <2>6
  <2> QED
    BY <2>5, <2>6
<1>3. QuietInv /\ [Next]_vars =>
        [\A a \in Alarms, d \in Instants :
           ringing' = <<a, d>> /\ ringing # ringing' /\ view = doc => told[a] < d]_vars
  BY <1>2
<1> QED
  BY <1>1, <1>3, QuietStep, PTL DEF Spec, SaveIsQuiet

(* NoMissedAlarm holds in every reachable state: the cap of maxSleep, the  *)
(* timer set for the next due instant, the kick after a save and the marks *)
(* on the flash leave no alarm that was known in time without an answer.   *)
THEOREM NoMissedAlarmHolds == Spec => []NoMissedAlarm
<1>1. Init => MissInv
  <2> SUFFICES ASSUME Init PROVE MissInv
    OBVIOUS
  <2>1. TypeInv /\ t = 0 /\ t \in Nat /\ Never \in Nat /\ doc \in Document /\ MaxSleep \in Nat
    BY TypeInit, AlarmAssumption DEF Init, Never
  <2>2. steady \in [Alarms -> Nat] /\ goodSince \in Nat /\ Since
    BY <2>1 DEF Init, Since
  <2>3. ASSUME NEW a \in Alarms PROVE Marked(a)
    <3>1. fired[a] = 0 /\ firedSaved[a] = 0 /\ Dues(doc, a) \in SUBSET (Nat \ {0})
      BY <2>1, DuesAreInstants DEF Init
    <3> QED
      BY <2>1, <3>1 DEF Marked, Covers
  <2>4. Prompt
    BY <2>1, <2>2 DEF Prompt
  <2> QED
    BY <2>1, <2>2, <2>3, <2>4 DEF Init, MissInv, Sleeps
<1>2. MissInv => NoMissedAlarm
  <2> SUFFICES ASSUME MissInv, NEW a \in Alarms, NEW d \in Dues(doc, a), steady[a] < d, d < t,
                      goodSince + MaxSleep < t, goodSince + MaxSleep <= d + Grace
               PROVE  <<a, d>> \in answered
    BY DEF NoMissedAlarm
  <2>1. d \in Instants
    BY Numbers, DuesAreInstants
  <2> QED
    BY <2>1 DEF MissInv, Prompt, Owed
<1> QED
  BY <1>1, <1>2, MissStep, PTL DEF Spec
=============================================================================
