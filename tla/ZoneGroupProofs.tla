-------------------------- MODULE ZoneGroupProofs ---------------------------
(***************************************************************************)
(* Proofs about the stored group of ZoneGroup: for any number of members,  *)
(* of requests and of failures, the permanent group is the one that was    *)
(* settled last, a document is given up on its second contradiction, and   *)
(* the zone comes to the members asked for last.                           *)
(***************************************************************************)
EXTENDS ZoneGroup, TLAPS

Docs == Groups \cup {NoGroup}

(* Who holds a copy of the document that it may write back.                *)
Forming == {"picture", "stored", "dropped", "setting"}
Removing(r) == pc[r] = "waiting" /\ ask[r].kind = "remove"
HasDoc(r) == pc[r] \in Forming \/ Removing(r)

(* The document and its copies are groups; what is set aside is permanent, *)
(* under a group that is not.                                              *)
DocInv ==
  /\ {zone, standing} \subseteq Docs
  /\ standing # NoGroup => standing.permanent /\ zone # NoGroup /\ ~zone.permanent
  /\ pc \in [Requests -> Driving \cup {"idle", "settling", "waiting", "done"}]
  /\ DOMAIN seen = Requests /\ DOMAIN ask = Requests
  /\ \A r \in Requests : pc[r] \in Forming \cup {"settling"} => ask[r].group \in Groups
  /\ \A r \in Requests : HasDoc(r) => seen[r].doc \in Docs

(* A copy nobody has written behind is the document, or the one that a     *)
(* form has replaced, with what was settled then.                          *)
Replaced(r) ==
  LET old == seen[r] IN
  /\ zone = ask[r].group
  /\ old.doc = NoGroup => old.kept = NoGroup /\ standing = NoGroup
  /\ old.doc.permanent => old.kept = old.doc
  /\ old.doc # NoGroup /\ ~old.doc.permanent /\ ~ask[r].group.permanent => standing = old.kept

Fresh(r) ==
  r \notin touched =>
    /\ pc[r] = "picture" \/ Removing(r) => seen[r].doc = zone
    /\ pc[r] = "nothing" => zone = NoGroup
    /\ pc[r] \in {"stored", "dropped", "setting"} => Replaced(r)

FreshLook == look /\ Look \notin touched => zone # NoGroup /\ ~zone.permanent

KeptInv ==
  /\ DocInv
  /\ ~stale /\ ~swapped =>
       Saved = kept /\ (\A r \in Requests : Fresh(r)) /\ FreshLook

(* What a write of the store leaves in it.                                 *)
StoreOK ==
  /\ {zone, standing} \subseteq Docs
  /\ standing # NoGroup => standing.permanent /\ zone # NoGroup /\ ~zone.permanent

LEMMA NoGroupFacts ==
  NoGroup \notin Groups /\ ~NoGroup.permanent /\ \A g \in Docs : g # NoGroup => g \in Groups
<1>1. NoGroup \notin Groups
  <2> SUFFICES ASSUME NoGroup \in Groups PROVE FALSE
    OBVIOUS
  <2>1. NoGroup.who # {}
    BY DEF Groups
  <2> QED
    BY <2>1 DEF NoGroup
<1> QED
  BY <1>1 DEF NoGroup, Docs

LEMMA SetFacts ==
  ASSUME StoreOK, NEW h, NEW g \in Groups, Set(h, g)
  PROVE  /\ StoreOK' /\ zone' = g /\ touched' = touched \cup (Copies \ {h})
         /\ Saved' = IF g.permanent THEN g ELSE Saved
         /\ ~g.permanent => standing' = Saved
         /\ g.permanent => standing' = NoGroup
<1> USE NoGroupFacts
<1>1. g \in Docs /\ g # NoGroup
  BY DEF Docs
<1>2. zone' = g /\ standing' = SetAside(g) /\ touched' = touched \cup (Copies \ {h})
  BY DEF Set, Writes
<1>3. CASE g.permanent
  BY <1>1, <1>2, <1>3 DEF SetAside, StoreOK, Saved, Docs
<1>4. CASE ~g.permanent
  BY <1>1, <1>2, <1>4 DEF SetAside, StoreOK, Saved, Docs
<1> QED
  BY <1>3, <1>4

LEMMA ClearFacts ==
  ASSUME StoreOK, NEW h, Clear(h)
  PROVE  /\ StoreOK' /\ zone' = standing /\ touched' = touched \cup (Copies \ {h})
         /\ Saved' = standing
         /\ ~zone.permanent => Saved' = Saved
BY NoGroupFacts DEF Clear, Writes, StoreOK, Saved, Docs

LEMMA ForgetFacts ==
  ASSUME StoreOK, NEW h, ForgetBoth(h)
  PROVE  StoreOK' /\ Saved' = NoGroup /\ zone' = NoGroup /\ touched' = touched \cup (Copies \ {h})
BY NoGroupFacts DEF ForgetBoth, Writes, StoreOK, Saved, Docs

(* The steps that write neither the store nor a copy of it.                *)
LEMMA StepsElsewhere ==
  ASSUME PlayStarts \/ PlayStops \/ KickForms \/ KickSets \/ HoldLooks \/ HoldSets \/
         TickRejoins \/ TickReforms \/ TickSets \/ FirmwareDissolves \/ NoteBoxZoneState \/ Reconcile \/ UNCHANGED vars
  PROVE  UNCHANGED <<store, pc, ask, seen, look, touched, kept, stale, swapped>>
BY DEF PlayStarts, PlayStops, KickForms, KickSets, HoldLooks, HoldSets, TickRejoins, TickReforms, TickSets, FirmwareDissolves, NoteBoxZoneState, Reconcile,
       Begins, Rests, Goes, store, request, player, history, vars

(* The document without one of its members.                                *)
LEMMA RestFacts ==
  ASSUME NEW doc \in Docs, NEW m
  PROVE  LET rest == [doc EXCEPT !.who = @ \ {m}] IN
         /\ rest.who = doc.who \ {m} /\ rest.permanent = doc.permanent
         /\ rest.who # {} => rest \in Groups
<1>1. doc \in [who : SUBSET Members, permanent : BOOLEAN]
  <2>1. CASE doc \in Groups
    BY <2>1 DEF Groups
  <2>2. CASE doc = NoGroup
    BY <2>2 DEF NoGroup
  <2> QED
    BY <2>1, <2>2 DEF Docs
<1> QED
  BY <1>1 DEF Groups

LEMMA DocStep == DocInv /\ [Next]_vars => DocInv'
<1> SUFFICES ASSUME DocInv, [Next]_vars PROVE DocInv'
  OBVIOUS
<1> StoreOK
  BY DEF DocInv, StoreOK
<1> USE NoGroupFacts, SetFacts, ClearFacts, ForgetFacts
<1> USE DEF DocInv, StoreOK, HasDoc, Forming, Driving, Removing, Docs, Step, Answers, store, request
<1>1. ASSUME NEW r \in Requests, NEW a \in Asks, Arrives(r, a) PROVE DocInv'
  BY <1>1 DEF Arrives, Asks, NoGroup
<1>2. ASSUME NEW r \in Requests, NEW a \in Asks, Define(r, a) PROVE DocInv'
  BY <1>2 DEF Define, Asks
<1>3. ASSUME NEW r \in Requests, NEW a \in Asks, Purge(r, a) PROVE DocInv'
  BY <1>3 DEF Purge
<1>4. ASSUME NEW r \in Requests, Cancelled(r) PROVE DocInv'
  BY <1>4 DEF Cancelled
<1>5. ASSUME NEW r \in Requests, Superseded(r) PROVE DocInv'
  BY <1>5 DEF Superseded
<1>6. ASSUME NEW r \in Requests, LeaderSilent(r) PROVE DocInv'
  BY <1>6 DEF LeaderSilent
<1>7. ASSUME NEW r \in Requests, FormBegins(r) PROVE DocInv'
  BY <1>7 DEF FormBegins
<1>8. ASSUME NEW r \in Requests, FormPersists(r) PROVE DocInv'
  BY <1>8 DEF FormPersists, Persists
<1>9. ASSUME NEW r \in Requests, FormDefers(r) PROVE DocInv'
  BY <1>9 DEF FormDefers, Persists
<1>10. ASSUME NEW r \in Requests, WakeFails(r) PROVE DocInv'
  BY <1>10 DEF WakeFails, RestoresDocument
<1>11. ASSUME NEW r \in Requests, FormDrops(r) PROVE DocInv'
  BY <1>11 DEF FormDrops
<1>12. ASSUME NEW r \in Requests, FormAdds(r) PROVE DocInv'
  BY <1>12 DEF FormAdds
<1>13. ASSUME NEW r \in Requests, FormStartsOver(r) PROVE DocInv'
  BY <1>13 DEF FormStartsOver
<1>14. ASSUME NEW r \in Requests, FormSets(r) PROVE DocInv'
  BY <1>14 DEF FormSets
<1>15. ASSUME NEW r \in Requests, SetZoneFails(r) PROVE DocInv'
  BY <1>15 DEF SetZoneFails, RestoresDocument
<1>16. ASSUME NEW r \in Requests, FormRestores(r) PROVE DocInv'
  BY <1>16 DEF FormRestores
<1>17. ASSUME NEW r \in Requests, DissolveBegins(r) PROVE DocInv'
  BY <1>17 DEF DissolveBegins
<1>18. ASSUME NEW r \in Requests, DissolveNothing(r) PROVE DocInv'
  BY <1>18 DEF DissolveNothing
<1>19. ASSUME NEW r \in Requests, DissolveDrives(r) PROVE DocInv'
  BY <1>19 DEF DissolveDrives
<1>20. ASSUME NEW r \in Requests, DissolveStores(r) PROVE DocInv'
  BY <1>20 DEF DissolveStores
<1>21. ASSUME NEW r \in Requests, RemoveMember(r) PROVE DocInv'
  <2> DEFINE rest == [seen[r].doc EXCEPT !.who = @ \ {ask[r].member}]
  <2>1. rest.who # {} => rest \in Groups
    BY <1>21, RestFacts DEF RemoveMember
  <2> QED
    BY <1>21, <2>1 DEF RemoveMember
<1>22. ASSUME WakeLooks PROVE DocInv'
  BY <1>22 DEF WakeLooks
<1>23. ASSUME WakeNotes PROVE DocInv'
  BY <1>23 DEF WakeNotes
<1>24. ASSUME Restart PROVE DocInv'
  BY <1>24 DEF Restart, Rests
<1>25. CASE UNCHANGED <<store, pc, ask, seen, look, touched, kept, stale, swapped>>
  BY <1>25
<1> QED
  BY <1>1, <1>2, <1>3, <1>4, <1>5, <1>6, <1>7, <1>8, <1>9, <1>10, <1>11, <1>12, <1>13, <1>14, <1>15, <1>16, <1>17, <1>18, <1>19, <1>20, <1>21, <1>22, <1>23, <1>24, <1>25,
     StepsElsewhere DEF Next, Comes, FormStep, DissolveStep

(* Nothing of q changes with a step of another.                            *)
Same(q) == pc'[q] = pc[q] /\ seen'[q] = seen[q] /\ ask'[q] = ask[q]

LEMMA OthersKeep ==
  ASSUME NEW h, NEW q \in Requests, Fresh(q), Same(q),
         \/ UNCHANGED <<zone, standing, touched>>
         \/ q # h /\ touched' = touched \cup (Copies \ {h})
  PROVE  Fresh(q)'
<1>1. CASE UNCHANGED <<zone, standing, touched>>
  BY <1>1 DEF Fresh, Same, Removing, Replaced
<1>2. CASE q # h /\ touched' = touched \cup (Copies \ {h})
  BY <1>2 DEF Fresh, Same, Removing, Copies, Driving
<1> QED
  BY <1>1, <1>2

(* A step of r that writes nothing, and one that writes the store.         *)
LEMMA QuietStep ==
  ASSUME KeptInv, DocInv', NEW r \in Requests,
         UNCHANGED <<zone, standing, kept, look, touched, stale, swapped>>,
         \A q \in Requests \ {r} : Same(q),
         KeptInv /\ ~stale /\ ~swapped => Fresh(r)'
  PROVE  KeptInv'
<1>1. ASSUME ~stale, ~swapped PROVE \A q \in Requests : Fresh(q)'
  <2>1. \A q \in Requests \ {r} : Fresh(q)'
    BY <1>1, OthersKeep DEF KeptInv
  <2> QED
    BY <1>1, <2>1
<1>2. ASSUME ~stale, ~swapped PROVE FreshLook' /\ Saved' = kept'
  BY <1>2 DEF KeptInv, FreshLook, Saved
<1> QED
  BY <1>1, <1>2 DEF KeptInv

LEMMA WritingStep ==
  ASSUME KeptInv, DocInv', NEW r \in Requests,
         touched' = touched \cup (Copies \ {r}), UNCHANGED look,
         \A q \in Requests \ {r} : Same(q),
         ~stale' /\ ~swapped' => ~stale /\ ~swapped /\ Fresh(r)' /\ Saved' = kept'
  PROVE  KeptInv'
<1>1. ASSUME ~stale', ~swapped' PROVE \A q \in Requests : Fresh(q)'
  <2>1. \A q \in Requests \ {r} : Fresh(q)'
    BY <1>1, OthersKeep DEF KeptInv
  <2> QED
    BY <1>1, <2>1
<1>2. FreshLook'
  <2>1. Look # r
    BY ZoneAssumption
  <2> QED
    BY <2>1 DEF FreshLook, Copies
<1> QED
  BY <1>1, <1>2 DEF KeptInv

LEMMA QuietActions ==
  ASSUME KeptInv, DocInv', NEW r \in Requests,
         \/ \E a \in Asks : Arrives(r, a)
         \/ Cancelled(r) \/ Superseded(r) \/ LeaderSilent(r) \/ FormBegins(r) \/ FormDrops(r)
         \/ FormAdds(r) \/ FormStartsOver(r) \/ FormSets(r) \/ FormRestores(r) \/ DissolveBegins(r)
         \/ DissolveDrives(r)
  PROVE  KeptInv'
<1> USE NoGroupFacts DEF KeptInv, DocInv, Step, Answers, store, request, history, Same, Fresh, Removing, Replaced
<1>1. ASSUME NEW a \in Asks, Arrives(r, a) PROVE KeptInv'
  BY <1>1, QuietStep DEF Arrives
<1>2. ASSUME Cancelled(r) PROVE KeptInv'
  BY <1>2, QuietStep DEF Cancelled
<1>3. ASSUME Superseded(r) PROVE KeptInv'
  BY <1>3, QuietStep DEF Superseded
<1>4. ASSUME LeaderSilent(r) PROVE KeptInv'
  BY <1>4, QuietStep DEF LeaderSilent
<1>5. ASSUME FormBegins(r) PROVE KeptInv'
  BY <1>5, QuietStep DEF FormBegins
<1>6. ASSUME FormDrops(r) PROVE KeptInv'
  BY <1>6, QuietStep DEF FormDrops
<1>7. ASSUME FormAdds(r) PROVE KeptInv'
  BY <1>7, QuietStep DEF FormAdds
<1>8. ASSUME FormStartsOver(r) PROVE KeptInv'
  BY <1>8, QuietStep DEF FormStartsOver
<1>9. ASSUME FormSets(r) PROVE KeptInv'
  BY <1>9, QuietStep DEF FormSets
<1>10. ASSUME FormRestores(r) PROVE KeptInv'
  BY <1>10, QuietStep DEF FormRestores
<1>11. ASSUME DissolveBegins(r) PROVE KeptInv'
  BY <1>11, QuietStep DEF DissolveBegins
<1>12. ASSUME DissolveDrives(r) PROVE KeptInv'
  BY <1>12, QuietStep DEF DissolveDrives
<1> QED
  BY <1>1, <1>2, <1>3, <1>4, <1>5, <1>6, <1>7, <1>8, <1>9, <1>10, <1>11, <1>12

(* A form that failed: the document it replaced is put back.               *)
LEMMA RestoresKeep ==
  ASSUME KeptInv, DocInv', NEW r \in Requests, pc[r] \in {"stored", "setting"},
         RestoresDocument(r), UNCHANGED <<seen, ask, look>>
  PROVE  KeptInv'
<1> USE NoGroupFacts
<1> DEFINE old == seen[r]
<1>1. StoreOK /\ old.doc \in Docs
  BY DEF KeptInv, DocInv, StoreOK, HasDoc, Forming
<1>2. /\ touched' = touched \cup (Copies \ {r})
      /\ old.doc = NoGroup => Saved' = standing
      /\ old.doc # NoGroup => Saved' = IF old.doc.permanent THEN old.doc ELSE Saved
  BY <1>1, SetFacts, ClearFacts DEF RestoresDocument
<1>3. pc'[r] = "restoring" /\ \A q \in Requests \ {r} : Same(q)
  BY DEF RestoresDocument, Step, Same, KeptInv, DocInv
<1>4. Fresh(r)'
  BY <1>3 DEF Fresh, Removing
<1>5. ASSUME ~stale', ~swapped' PROVE ~stale /\ ~swapped /\ Saved' = kept'
  <2>1. ~stale /\ ~swapped /\ r \notin touched /\ kept' = old.kept
    BY <1>5 DEF RestoresDocument, WritesBack
  <2>2. Replaced(r) /\ Saved = kept
    BY <2>1 DEF KeptInv, Fresh
  <2>3. CASE old.doc = NoGroup
    BY <1>2, <2>1, <2>2, <2>3 DEF Replaced
  <2>4. CASE old.doc.permanent
    BY <1>2, <2>1, <2>2, <2>4 DEF Replaced
  <2>5. CASE old.doc # NoGroup /\ ~old.doc.permanent
    <3>1. ~ask[r].group.permanent
      BY <1>5, <2>5 DEF RestoresDocument
    <3>2. standing = old.kept /\ zone = ask[r].group
      BY <2>2, <2>5, <3>1 DEF Replaced
    <3> QED
      BY <1>2, <2>1, <2>5, <3>1, <3>2 DEF Saved
  <2> QED
    BY <2>3, <2>4, <2>5
<1> QED
  BY <1>2, <1>3, <1>4, <1>5, WritingStep

LEMMA WritingActions ==
  ASSUME KeptInv, DocInv', NEW r \in Requests,
         \/ \E a \in Asks : Define(r, a) \/ Purge(r, a)
         \/ FormPersists(r) \/ FormDefers(r) \/ WakeFails(r) \/ SetZoneFails(r)
         \/ DissolveNothing(r) \/ DissolveStores(r) \/ RemoveMember(r)
  PROVE  KeptInv'
<1> StoreOK
  BY DEF KeptInv, DocInv, StoreOK
<1> USE NoGroupFacts, SetFacts, ClearFacts, ForgetFacts
<1> USE DEF KeptInv, DocInv, Step, Answers, Same, Fresh, Removing, Replaced, WritesBack, Forming, HasDoc, history
<1>1. ASSUME NEW a \in Asks, Define(r, a) PROVE KeptInv'
  BY <1>1, WritingStep DEF Define, Asks
<1>2. ASSUME NEW a \in Asks, Purge(r, a) PROVE KeptInv'
  BY <1>2, WritingStep DEF Purge
<1>3. ASSUME FormPersists(r) PROVE KeptInv'
  <2> DEFINE g == ask[r].group
  <2>1. pc[r] = "picture" /\ g \in Groups /\ Set(r, g)
    BY <1>3 DEF FormPersists, Persists
  <2>2. /\ pc'[r] = "stored" /\ ask'[r] = ask[r]
        /\ seen'[r].doc = seen[r].doc /\ seen'[r].kept = kept
        /\ \A q \in Requests \ {r} : Same(q)
        /\ UNCHANGED <<look, stale, swapped>> /\ kept' = IF g.permanent THEN g ELSE kept
    BY <1>3 DEF FormPersists, Persists
  <2>3. ASSUME ~stale, ~swapped, r \notin touched PROVE Replaced(r)'
    <3>1. seen[r].doc = zone /\ Saved = kept
      BY <2>1, <2>3
    <3>2. zone' = g /\ (~g.permanent => standing' = kept) /\ (g.permanent => standing' = NoGroup)
      BY <2>1, <3>1
    <3>3. zone = NoGroup => kept = NoGroup
      BY <3>1 DEF StoreOK, Saved
    <3>4. zone.permanent => kept = zone
      BY <3>1 DEF Saved
    <3> QED
      BY <2>2, <3>1, <3>2, <3>3, <3>4
  <2>4. ~stale /\ ~swapped => Saved' = kept'
    BY <2>1, <2>2
  <2>5. ~stale /\ ~swapped => Fresh(r)'
    BY <2>1, <2>2, <2>3
  <2> QED
    BY <2>1, <2>2, <2>4, <2>5, WritingStep
<1>4. ASSUME FormDefers(r) PROVE KeptInv'
  BY <1>4, WritingStep DEF FormDefers, Persists
<1>5. ASSUME WakeFails(r) PROVE KeptInv'
  BY <1>5, RestoresKeep DEF WakeFails
<1>6. ASSUME SetZoneFails(r) PROVE KeptInv'
  BY <1>6, RestoresKeep DEF SetZoneFails
<1>7. ASSUME DissolveNothing(r) PROVE KeptInv'
  BY <1>7, WritingStep DEF DissolveNothing
<1>8. ASSUME DissolveStores(r) PROVE KeptInv'
  BY <1>8, WritingStep, QuietStep DEF DissolveStores, store
<1>9. ASSUME RemoveMember(r) PROVE KeptInv'
  <2> DEFINE doc == seen[r].doc
  <2> DEFINE rest == [doc EXCEPT !.who = @ \ {ask[r].member}]
  <2>1. doc \in Docs /\ Removing(r)
    BY <1>9 DEF RemoveMember
  <2>2. rest.permanent = doc.permanent /\ (rest.who # {} => rest \in Groups)
    BY <2>1, RestFacts
  <2>3. /\ (rest.who = {} /\ Clear(r)) \/ (rest.who # {} /\ Set(r, rest))
        /\ kept' = IF ~doc.permanent THEN kept ELSE IF rest.who = {} THEN NoGroup ELSE rest
    BY <1>9, Zenon DEF RemoveMember
  <2>8. stale' = (stale \/ r \in touched) /\ UNCHANGED <<look, swapped>>
    BY <1>9 DEF RemoveMember
  <2>4. pc'[r] = "done" /\ \A q \in Requests \ {r} : Same(q)
    BY <1>9 DEF RemoveMember
  <2> HIDE DEF rest
  <2>5. touched' = touched \cup (Copies \ {r})
    BY <2>2, <2>3
  <2>6. Fresh(r)'
    BY <2>4
  <2>7. ASSUME ~stale', ~swapped' PROVE ~stale /\ ~swapped /\ Saved' = kept'
    <3>1. ~stale /\ ~swapped /\ r \notin touched
      BY <2>7, <2>8
    <3>2. doc = zone /\ Saved = kept
      BY <2>1, <3>1
    <3>3. CASE rest.who = {}
      <4>1. Saved' = standing /\ (~zone.permanent => Saved' = Saved)
        BY <2>3, <3>3
      <4>2. zone.permanent => standing = NoGroup
        BY DEF StoreOK
      <4> QED
        BY <2>3, <3>1, <3>2, <3>3, <4>1, <4>2
    <3>4. CASE rest.who # {}
      <4>1. Saved' = IF rest.permanent THEN rest ELSE Saved
        BY <2>2, <2>3, <3>4
      <4> QED
        BY <2>2, <2>3, <3>1, <3>2, <3>4, <4>1
    <3> QED
      BY <3>3, <3>4
  <2> QED
    BY <2>3, <2>4, <2>5, <2>6, <2>7, <2>8, WritingStep
<1> QED
  BY <1>1, <1>2, <1>3, <1>4, <1>5, <1>6, <1>7, <1>8, <1>9

LEMMA KeptStep == KeptInv /\ [Next]_vars => KeptInv'
<1> SUFFICES ASSUME KeptInv, [Next]_vars PROVE KeptInv'
  OBVIOUS
<1>1. DocInv'
  BY DocStep DEF KeptInv
<1>2. CASE WakeLooks
  <2>1. UNCHANGED <<zone, standing, pc, ask, seen, kept, stale, swapped>> /\ touched' \in {touched, touched \ {Look}}
    BY <1>2 DEF WakeLooks, store, request
  <2>2. FreshLook \/ ~look' => FreshLook'
    BY <1>2, <2>1 DEF WakeLooks, FreshLook
  <2>3. \A q \in Requests : Fresh(q) => Fresh(q)'
    BY <2>1, ZoneAssumption DEF Fresh, Removing, Replaced
  <2> QED
    BY <1>1, <2>1, <2>2, <2>3 DEF KeptInv, Saved
<1>3. CASE WakeNotes
  <2>1. UNCHANGED <<pc, ask, seen, kept, swapped>> /\ ~look'
    BY <1>3 DEF WakeNotes, request
  <2>2. CASE Clear(Look) /\ WritesBack(Look)
    <3>1. StoreOK /\ look
      BY <1>3 DEF KeptInv, DocInv, StoreOK, WakeNotes
    <3>2. touched' = touched \cup (Copies \ {Look}) /\ (~zone.permanent => Saved' = Saved)
      BY <2>2, <3>1, ClearFacts
    <3>3. \A q \in Requests : Fresh(q) => Fresh(q)'
      BY <2>1, <3>2, OthersKeep, ZoneAssumption DEF Same
    <3>4. ASSUME ~stale', ~swapped' PROVE ~stale /\ ~swapped /\ ~zone.permanent
      BY <2>1, <2>2, <3>1, <3>4 DEF WritesBack, KeptInv, FreshLook
    <3> QED
      BY <1>1, <2>1, <3>2, <3>3, <3>4 DEF KeptInv, FreshLook
  <2>3. CASE touched' = touched \ {Look} /\ UNCHANGED <<store, stale>>
    <3>1. \A q \in Requests : Fresh(q) => Fresh(q)'
      BY <2>1, <2>3, ZoneAssumption DEF Fresh, Removing, Replaced, store
    <3> QED
      BY <1>1, <2>1, <2>3, <3>1 DEF KeptInv, FreshLook, Saved, store
  <2> QED
    BY <1>3, <2>2, <2>3 DEF WakeNotes
<1>4. CASE Restart
  BY <1>1, <1>4 DEF Restart, KeptInv, Fresh, FreshLook, Saved, Removing, store
<1>5. CASE UNCHANGED <<store, pc, ask, seen, look, touched, kept, stale, swapped>>
  BY <1>1, <1>5 DEF KeptInv, Fresh, FreshLook, Saved, Removing, Replaced, store
<1> QED
  BY <1>1, <1>2, <1>3, <1>4, <1>5, QuietActions, WritingActions, StepsElsewhere
     DEF Next, Comes, FormStep, DissolveStep

(* SavedIsAsked holds in every reachable state: Set, Clear and Forget of   *)
(* zones.go keep the permanent group the user settled last, through forms  *)
(* that fail, restarts and requests in any order.                          *)
THEOREM SavedIsAskedHolds == Spec => []SavedIsAsked
<1>1. Init => KeptInv
  BY NoGroupFacts DEF Init, KeptInv, DocInv, Docs, Fresh, FreshLook, HasDoc, Removing, Forming, Saved
<1>2. KeptInv => SavedIsAsked
  BY DEF KeptInv, SavedIsAsked
<1> QED
  BY <1>1, <1>2, KeptStep, PTL DEF Spec
-----------------------------------------------------------------------------
(* What TwoLooks needs: the doubt is never smaller than the document it is *)
(* about, and equals it only after a contradiction of that document.       *)
DoubtOK ==
  ~stale /\ zone # NoGroup /\ ~zone.permanent /\ doubt # None =>
    zone.who \subseteq doubt /\ (doubt = zone.who => contradicted)

FreshRemove(r) ==
  Removing(r) => /\ ask[r].member \in seen[r].doc.who
                 /\ r \notin touched => seen[r].doc = zone

LookInv == DocInv /\ FreshLook /\ DoubtOK /\ \A r \in Requests : FreshRemove(r)

LEMMA RemovesKeep ==
  ASSUME NEW h, NEW q \in Requests, FreshRemove(q), Same(q),
         \/ UNCHANGED zone /\ touched \subseteq touched'
         \/ UNCHANGED zone /\ touched' = touched \ {h} /\ q # h
         \/ touched' = touched \cup (Copies \ {h}) /\ q # h
  PROVE  FreshRemove(q)'
BY DEF FreshRemove, Same, Removing, Copies

LEMMA LookQuiet ==
  ASSUME LookInv, DocInv', NEW r \in Requests,
         UNCHANGED <<zone, doubt, contradicted, look, touched, stale>>,
         \A q \in Requests \ {r} : Same(q),
         FreshRemove(r)'
  PROVE  LookInv'
<1>1. \A q \in Requests : FreshRemove(q)'
  BY RemovesKeep DEF LookInv
<1> QED
  BY <1>1 DEF LookInv, FreshLook, DoubtOK

LEMMA LookWriting ==
  ASSUME LookInv, DocInv', NEW r \in Requests,
         touched' = touched \cup (Copies \ {r}), UNCHANGED look,
         \A q \in Requests \ {r} : Same(q),
         ~Removing(r)', DoubtOK'
  PROVE  LookInv'
<1>1. \A q \in Requests : FreshRemove(q)'
  <2>1. \A q \in Requests \ {r} : FreshRemove(q)'
    BY RemovesKeep DEF LookInv
  <2> QED
    BY <2>1 DEF FreshRemove
<1>2. FreshLook'
  <2>1. Look # r
    BY ZoneAssumption
  <2> QED
    BY <2>1 DEF FreshLook, Copies
<1> QED
  BY <1>1, <1>2 DEF LookInv

LEMMA LookQuietActions ==
  ASSUME LookInv, DocInv', NEW r \in Requests,
         \/ \E a \in Asks : Arrives(r, a)
         \/ Cancelled(r) \/ Superseded(r) \/ LeaderSilent(r) \/ FormBegins(r) \/ FormDrops(r)
         \/ FormAdds(r) \/ FormStartsOver(r) \/ FormSets(r) \/ FormRestores(r) \/ DissolveBegins(r)
         \/ DissolveDrives(r)
  PROVE  LookInv'
<1> USE NoGroupFacts DEF LookInv, DocInv, Step, Answers, store, request, history, Same, FreshRemove, Removing
<1>1. ASSUME NEW a \in Asks, Arrives(r, a) PROVE LookInv'
  BY <1>1, LookQuiet DEF Arrives
<1>2. ASSUME Cancelled(r) PROVE LookInv'
  BY <1>2, LookQuiet DEF Cancelled
<1>3. ASSUME Superseded(r) PROVE LookInv'
  BY <1>3, LookQuiet DEF Superseded
<1>4. ASSUME LeaderSilent(r) PROVE LookInv'
  BY <1>4, LookQuiet DEF LeaderSilent
<1>5. ASSUME FormBegins(r) PROVE LookInv'
  BY <1>5, LookQuiet DEF FormBegins
<1>6. ASSUME FormDrops(r) PROVE LookInv'
  BY <1>6, LookQuiet DEF FormDrops
<1>7. ASSUME FormAdds(r) PROVE LookInv'
  BY <1>7, LookQuiet DEF FormAdds
<1>8. ASSUME FormStartsOver(r) PROVE LookInv'
  BY <1>8, LookQuiet DEF FormStartsOver
<1>9. ASSUME FormSets(r) PROVE LookInv'
  BY <1>9, LookQuiet DEF FormSets
<1>10. ASSUME FormRestores(r) PROVE LookInv'
  BY <1>10, LookQuiet DEF FormRestores
<1>11. ASSUME DissolveBegins(r) PROVE LookInv'
  BY <1>11, LookQuiet DEF DissolveBegins
<1>12. ASSUME DissolveDrives(r) PROVE LookInv'
  BY <1>12, LookQuiet DEF DissolveDrives
<1> QED
  BY <1>1, <1>2, <1>3, <1>4, <1>5, <1>6, <1>7, <1>8, <1>9, <1>10, <1>11, <1>12

LEMMA LookWritingActions ==
  ASSUME LookInv, DocInv', NEW r \in Requests,
         \/ \E a \in Asks : Define(r, a) \/ Purge(r, a)
         \/ FormPersists(r) \/ FormDefers(r) \/ WakeFails(r) \/ SetZoneFails(r)
         \/ DissolveNothing(r) \/ DissolveStores(r) \/ RemoveMember(r)
  PROVE  LookInv'
<1> StoreOK
  BY DEF LookInv, DocInv, StoreOK
<1> USE NoGroupFacts, SetFacts, ClearFacts, ForgetFacts
<1> USE DEF LookInv, DocInv, Step, Answers, Same, Removing, ForgetDoubt, Forming, HasDoc, history
<1>0. \A h : Clear(h) => DoubtOK'
  BY DEF DoubtOK, StoreOK
<1>1. ASSUME NEW a \in Asks, Define(r, a) PROVE LookInv'
  BY <1>0, <1>1, LookWriting DEF Define, Asks, DoubtOK
<1>2. ASSUME NEW a \in Asks, Purge(r, a) PROVE LookInv'
  BY <1>0, <1>2, LookWriting DEF Purge
<1>3. ASSUME FormPersists(r) PROVE LookInv'
  BY <1>0, <1>3, LookWriting DEF FormPersists, Persists, DoubtOK
<1>4. ASSUME FormDefers(r) PROVE LookInv'
  BY <1>0, <1>4, LookWriting DEF FormDefers, Persists, DoubtOK
<1>5. ASSUME WakeFails(r) PROVE LookInv'
  BY <1>0, <1>5, LookWriting DEF WakeFails, RestoresDocument, DoubtOK
<1>6. ASSUME SetZoneFails(r) PROVE LookInv'
  BY <1>0, <1>6, LookWriting DEF SetZoneFails, RestoresDocument, DoubtOK
<1>7. ASSUME DissolveNothing(r) PROVE LookInv'
  BY <1>0, <1>7, LookWriting DEF DissolveNothing
<1>8. ASSUME DissolveStores(r) PROVE LookInv'
  <2>1. pc'[r] = "done" /\ ~Removing(r)' /\ UNCHANGED <<doubt, look, stale>>
        /\ \A q \in Requests \ {r} : Same(q)
    BY <1>8 DEF DissolveStores
  <2>2. CASE ForgetBoth(r)
    <3>1. touched' = touched \cup (Copies \ {r}) /\ zone' = NoGroup
      BY <2>2
    <3> QED
      BY <2>1, <3>1, LookWriting DEF DoubtOK
  <2>3. CASE Clear(r)
    <3>1. touched' = touched \cup (Copies \ {r}) /\ DoubtOK'
      BY <1>0, <1>8, <2>3 DEF DissolveStores
    <3> QED
      BY <2>1, <3>1, LookWriting
  <2>4. CASE zone.permanent /\ UNCHANGED <<store, touched>>
    <3>1. \A q \in Requests : FreshRemove(q)'
      BY <2>1, <2>4, RemovesKeep DEF FreshRemove, store
    <3> QED
      BY <2>1, <2>4, <3>1 DEF FreshLook, DoubtOK, store
  <2> QED
    BY <1>8, <2>2, <2>3, <2>4 DEF DissolveStores
<1>9. ASSUME RemoveMember(r) PROVE LookInv'
  <2> DEFINE doc == seen[r].doc
  <2> DEFINE rest == [doc EXCEPT !.who = @ \ {ask[r].member}]
  <2>1. doc \in Docs /\ Removing(r)
    BY <1>9 DEF RemoveMember
  <2>2. /\ rest.permanent = doc.permanent /\ rest.who = doc.who \ {ask[r].member}
        /\ rest.who # {} => rest \in Groups
    BY <2>1, RestFacts
  <2>3. (rest.who = {} /\ Clear(r)) \/ (rest.who # {} /\ Set(r, rest))
    BY <1>9, Zenon DEF RemoveMember
  <2>4. stale' = (stale \/ r \in touched) /\ UNCHANGED <<look, doubt>>
    BY <1>9 DEF RemoveMember, WritesBack
  <2>5. pc'[r] = "done" /\ \A q \in Requests \ {r} : Same(q)
    BY <1>9 DEF RemoveMember
  <2> HIDE DEF rest
  <2>6. touched' = touched \cup (Copies \ {r})
    BY <2>2, <2>3
  <2>7. ASSUME Set(r, rest), rest.who # {} PROVE DoubtOK'
    <3>1. zone' = rest
      BY <2>2, <2>7
    <3>2. ASSUME ~stale', ~rest.permanent, doubt # None
          PROVE  rest.who \subseteq doubt /\ doubt # rest.who
      <4>1. doc = zone /\ ask[r].member \in zone.who /\ ~stale
        BY <2>1, <2>4, <3>2 DEF FreshRemove
      <4>2. zone # NoGroup /\ ~zone.permanent
        BY <2>2, <3>2, <4>1 DEF NoGroup
      <4>3. zone.who \subseteq doubt
        BY <3>2, <4>1, <4>2 DEF DoubtOK
      <4> QED
        BY <2>2, <4>1, <4>3
    <3> QED
      BY <2>4, <3>1, <3>2 DEF DoubtOK
  <2> QED
    BY <1>0, <2>3, <2>4, <2>5, <2>6, <2>7, LookWriting
<1> QED
  BY <1>1, <1>2, <1>3, <1>4, <1>5, <1>6, <1>7, <1>8, <1>9

LEMMA DoubtElsewhere ==
  ASSUME PlayStarts \/ PlayStops \/ Reconcile \/ FirmwareDissolves \/ UNCHANGED vars
  PROVE  UNCHANGED <<zone, doubt, contradicted, pc, ask, seen, look, touched, stale>>
BY DEF PlayStarts, PlayStops, KickForms, KickSets, HoldLooks, HoldSets, TickRejoins, TickReforms,
       TickSets, FirmwareDissolves, Reconcile, Begins, Rests, Goes, store, request, player, history, vars

LEMMA LookStep == LookInv /\ [Next]_vars => LookInv'
<1> SUFFICES ASSUME LookInv, [Next]_vars PROVE LookInv'
  OBVIOUS
<1>1. DocInv'
  BY DocStep DEF LookInv
<1> USE NoGroupFacts
<1>2. CASE WakeLooks
  <2>1. /\ UNCHANGED <<zone, pc, ask, seen, stale>> /\ touched' \in {touched, touched \ {Look}}
        /\ UNCHANGED <<doubt, contradicted>> \/ doubt' = None
    BY <1>2 DEF WakeLooks, store, request, ForgetDoubt
  <2>2. FreshLook'
    BY <1>2, <2>1 DEF WakeLooks, LookInv, FreshLook
  <2>3. \A q \in Requests : FreshRemove(q)'
    BY <2>1, ZoneAssumption DEF LookInv, FreshRemove, Removing
  <2>4. DoubtOK'
    BY <2>1 DEF LookInv, DoubtOK
  <2> QED
    BY <1>1, <2>2, <2>3, <2>4 DEF LookInv
<1>3. CASE WakeNotes
  <2>1. UNCHANGED <<pc, ask, seen>> /\ ~look' /\ StoreOK
    BY <1>3 DEF WakeNotes, request, LookInv, DocInv, StoreOK
  <2>2. CASE Clear(Look) /\ ForgetDoubt
    <3>1. touched' = touched \cup (Copies \ {Look}) /\ doubt' = None
      BY <2>1, <2>2, ClearFacts DEF ForgetDoubt
    <3>2. \A q \in Requests : FreshRemove(q)'
      BY <2>1, <3>1, RemovesKeep, ZoneAssumption DEF Same, LookInv
    <3> QED
      BY <1>1, <2>1, <3>1, <3>2 DEF LookInv, FreshLook, DoubtOK
  <2>3. CASE /\ IF zone = NoGroup THEN UNCHANGED <<doubt, contradicted>> ELSE NoteDoubt
             /\ touched' = touched \ {Look} /\ UNCHANGED <<store, stale>>
    <3>1. \A q \in Requests : FreshRemove(q)'
      BY <2>1, <2>3, ZoneAssumption DEF LookInv, FreshRemove, Removing, store
    <3>2. DoubtOK'
      BY <2>3 DEF LookInv, DoubtOK, NoteDoubt, store
    <3> QED
      BY <1>1, <2>1, <3>1, <3>2 DEF LookInv, FreshLook
  <2> QED
    BY <1>3, <2>2, <2>3 DEF WakeNotes
<1>4. CASE NoteBoxZoneState
  BY <1>1, <1>4 DEF NoteBoxZoneState, NoteDoubt, ForgetDoubt, LookInv, FreshLook, DoubtOK, FreshRemove, Removing,
                    store, request
<1>5. CASE Restart
  BY <1>1, <1>5 DEF Restart, LookInv, FreshLook, DoubtOK, FreshRemove, Removing, store
<1>6. CASE UNCHANGED <<zone, doubt, contradicted, pc, ask, seen, look, touched, stale>>
  BY <1>1, <1>6 DEF LookInv, FreshLook, DoubtOK, FreshRemove, Removing
<1> QED
  BY <1>1, <1>2, <1>3, <1>4, <1>5, <1>6, LookQuietActions, LookWritingActions, DoubtElsewhere
     DEF Next, Comes, FormStep, DissolveStep

(* Only boxInZone ends a look that it has begun, and a restart does.       *)
LEMMA LookEnds ==
  ASSUME [Next]_vars, look, ~look' PROVE WakeNotes \/ Restart
<1>1. ASSUME NEW r \in Requests, Comes(r) \/ Cancelled(r) \/ FormStep(r) \/ DissolveStep(r)
      PROVE  UNCHANGED look
  BY <1>1 DEF Comes, Arrives, Define, Purge, Cancelled, FormStep, Superseded, LeaderSilent, FormBegins,
     FormPersists, FormDefers, WakeFails, SetZoneFails, FormDrops, FormAdds, FormStartsOver, FormSets,
     FormRestores, DissolveStep, DissolveBegins, DissolveNothing, DissolveDrives, DissolveStores, RemoveMember
<1>2. NoteBoxZoneState => UNCHANGED look
  BY DEF NoteBoxZoneState
<1>3. ~WakeLooks
  BY DEF WakeLooks
<1> QED
  BY <1>1, <1>2, <1>3, DoubtElsewhere DEF Next

(* TwoLooks holds of every step: zoneDocDoubt lets boxInZone give a stored *)
(* group up only when it was contradicted before.                          *)
THEOREM TwoLooksHolds == Spec => TwoLooks
<1>1. Init => LookInv
  BY NoGroupFacts DEF Init, LookInv, DocInv, Docs, FreshLook, DoubtOK, FreshRemove, HasDoc, Removing, Forming
<1>2. LookInv /\ [Next]_vars => (look /\ ~look' /\ zone' # zone => contradicted \/ stale')
  <2> SUFFICES ASSUME LookInv, [Next]_vars, look, ~look', zone' # zone PROVE contradicted \/ stale'
    OBVIOUS
  <2>1. ~Restart
    BY DEF Restart, store
  <2>2. Already /\ WritesBack(Look)
    BY <2>1, LookEnds DEF WakeNotes, store
  <2>3. CASE Look \in touched \/ stale
    BY <2>2, <2>3 DEF WritesBack
  <2>4. CASE Look \notin touched /\ ~stale
    <3>1. zone # NoGroup /\ ~zone.permanent /\ zone \in Groups /\ doubt = zone.who
      BY <2>2, <2>4, NoGroupFacts DEF LookInv, FreshLook, DocInv, Already
    <3>2. doubt # None
      BY <3>1, ZoneAssumption DEF Groups
    <3> QED
      BY <2>4, <3>1, <3>2 DEF LookInv, DoubtOK
  <2> QED
    BY <2>3, <2>4
<1> QED
  BY <1>1, <1>2, LookStep, PTL DEF Spec, TwoLooks
-----------------------------------------------------------------------------
(* What a request carries from one step to the next.                       *)
Carried(r) ==
  /\ pc[r] \in {"settling", "picture", "stored", "dropped", "setting", "restoring"} =>
       ask[r] \in [kind : {"form"}, group : Groups]
  /\ pc[r] \in {"nothing", "driving", "storing"} =>
       ask[r] \in [kind : {"dissolve", "forget"}, group : {NoGroup}]
  /\ pc[r] = "waiting" =>
       ask[r] \in [kind : {"dissolve", "forget"}, group : {NoGroup}] \cup [kind : {"remove"}, member : Members]
  /\ pc[r] \in {"idle", "done"} => mine[r] = 0
  /\ pc[r] \in {"picture", "stored", "dropped", "setting", "restoring"} => seen[r].live \subseteq Members
  /\ pc[r] \in {"stored", "dropped", "setting"} => seen[r].kept \in Docs
  /\ pc[r] = "dropped" => seen[r].add \subseteq Members

(* TypeOK in parts: the flags, the turns, the groups and what is carried.  *)
Flags == {playing, dissolved, kick, look, contradicted, stale, swapped, overtaken} \subseteq BOOLEAN

Turns ==
  /\ seq \in Nat /\ mine \in [Requests -> Nat] /\ \A r \in Requests : mine[r] <= seq
  /\ serial \in Requests \cup {None}
  /\ pc \in [Requests -> Driving \cup {"idle", "settling", "waiting", "done"}]
  /\ \A r \in Requests : pc[r] \in Driving <=> serial = r

Sets ==
  /\ live \subseteq Members /\ event \in {"joined", "gone", None}
  /\ doubt \in {None} \cup SUBSET Members /\ last \in {None} \cup SUBSET Members
  /\ rpc \in {"idle", "forming", "rejoining", "holding"} /\ joiners \subseteq Members
  /\ touched \subseteq Holders /\ kept \in Docs

Carries == ask \in [Requests -> Asks \cup {None}] /\ \A r \in Requests : Carried(r)

TypeInv == DocInv /\ Flags /\ Turns /\ Sets /\ Carries

LEMMA WhoFacts == \A g \in Docs : g.who \subseteq Members
BY DEF Docs, Groups, NoGroup

LEMMA FlagsStep == TypeInv /\ [Next]_vars => Flags' /\ Turns'
<1> SUFFICES ASSUME TypeInv, [Next]_vars PROVE Flags' /\ Turns'
  OBVIOUS
<1> DocInv' /\ StoreOK
  BY DocStep DEF TypeInv, DocInv, StoreOK
<1> USE NoGroupFacts, SetFacts, ClearFacts, ForgetFacts, ZoneAssumption
<1> USE DEF TypeInv, Flags, Turns, Sets, Carries, DocInv, HasDoc, Carried, Forming, Driving, Removing, Docs, Holders,
        Copies, Step, Answers, Unsettles, Newest, Goes, ForgetDoubt, WritesBack, store, firmware, request, player, history
<1>1. ASSUME NEW r \in Requests, NEW a \in Asks, Arrives(r, a) PROVE Flags' /\ Turns'
  <2>1. Flags'
    BY <1>1 DEF Arrives
  <2>2. Turns'
    BY <1>1 DEF Arrives, Asks, NoGroup
  <2> QED
    BY <2>1, <2>2
<1>2. ASSUME NEW r \in Requests, NEW a \in Asks, Define(r, a) PROVE Flags' /\ Turns'
  BY <1>2 DEF Define, Asks
<1>3. ASSUME NEW r \in Requests, NEW a \in Asks, Purge(r, a) PROVE Flags' /\ Turns'
  BY <1>3 DEF Purge
<1>4. ASSUME NEW r \in Requests, Cancelled(r) PROVE Flags' /\ Turns'
  BY <1>4 DEF Cancelled
<1>5. ASSUME NEW r \in Requests, Superseded(r) PROVE Flags' /\ Turns'
  BY <1>5 DEF Superseded
<1>6. ASSUME NEW r \in Requests, LeaderSilent(r) PROVE Flags' /\ Turns'
  BY <1>6 DEF LeaderSilent
<1>7. ASSUME NEW r \in Requests, FormBegins(r) PROVE Flags' /\ Turns'
  BY <1>7 DEF FormBegins
<1>8. ASSUME NEW r \in Requests, FormPersists(r) PROVE Flags' /\ Turns'
  BY <1>8 DEF FormPersists, Persists
<1>9. ASSUME NEW r \in Requests, FormDefers(r) PROVE Flags' /\ Turns'
  <2>1. Flags'
    BY <1>9 DEF FormDefers, Persists
  <2>2. Turns'
    BY <1>9 DEF FormDefers, Persists
  <2> QED
    BY <2>1, <2>2
<1>10. ASSUME NEW r \in Requests, WakeFails(r) PROVE Flags' /\ Turns'
  BY <1>10 DEF WakeFails, RestoresDocument
<1>11. ASSUME NEW r \in Requests, FormDrops(r) PROVE Flags' /\ Turns'
  BY <1>11 DEF FormDrops
<1>12. ASSUME NEW r \in Requests, FormAdds(r) PROVE Flags' /\ Turns'
  BY <1>12 DEF FormAdds
<1>13. ASSUME NEW r \in Requests, FormStartsOver(r) PROVE Flags' /\ Turns'
  BY <1>13 DEF FormStartsOver
<1>14. ASSUME NEW r \in Requests, FormSets(r) PROVE Flags' /\ Turns'
  BY <1>14 DEF FormSets
<1>15. ASSUME NEW r \in Requests, SetZoneFails(r) PROVE Flags' /\ Turns'
  BY <1>15 DEF SetZoneFails, RestoresDocument
<1>16. ASSUME NEW r \in Requests, FormRestores(r) PROVE Flags' /\ Turns'
  BY <1>16 DEF FormRestores
<1>17. ASSUME NEW r \in Requests, DissolveBegins(r) PROVE Flags' /\ Turns'
  BY <1>17 DEF DissolveBegins
<1>18. ASSUME NEW r \in Requests, DissolveNothing(r) PROVE Flags' /\ Turns'
  <2>1. Flags'
    BY <1>18 DEF DissolveNothing
  <2>2. Turns'
    BY <1>18 DEF DissolveNothing
  <2> QED
    BY <2>1, <2>2
<1>19. ASSUME NEW r \in Requests, DissolveDrives(r) PROVE Flags' /\ Turns'
  BY <1>19 DEF DissolveDrives
<1>20. ASSUME NEW r \in Requests, DissolveStores(r) PROVE Flags' /\ Turns'
  BY <1>20 DEF DissolveStores
<1>21. ASSUME NEW r \in Requests, RemoveMember(r) PROVE Flags' /\ Turns'
  <2>1. Flags'
    BY <1>21 DEF RemoveMember
  <2>2. Turns'
    BY <1>21 DEF RemoveMember
  <2> QED
    BY <2>1, <2>2
<1>22. ASSUME PlayStarts PROVE Flags' /\ Turns'
  BY <1>22 DEF PlayStarts
<1>23. ASSUME PlayStops PROVE Flags' /\ Turns'
  BY <1>23 DEF PlayStops
<1>24. ASSUME KickForms PROVE Flags' /\ Turns'
  BY <1>24 DEF KickForms, Begins
<1>25. ASSUME KickSets PROVE Flags' /\ Turns'
  BY <1>25 DEF KickSets, Rests
<1>26. ASSUME HoldLooks PROVE Flags' /\ Turns'
  BY <1>26 DEF HoldLooks, Rests
<1>27. ASSUME HoldSets PROVE Flags' /\ Turns'
  BY <1>27 DEF HoldSets, Rests
<1>28. ASSUME TickRejoins PROVE Flags' /\ Turns'
  BY <1>28 DEF TickRejoins, Begins
<1>29. ASSUME TickReforms PROVE Flags' /\ Turns'
  BY <1>29 DEF TickReforms, Begins
<1>30. ASSUME TickSets PROVE Flags' /\ Turns'
  BY <1>30 DEF TickSets, Rests
<1>31. ASSUME FirmwareDissolves PROVE Flags' /\ Turns'
  BY <1>31 DEF FirmwareDissolves
<1>32. ASSUME NoteBoxZoneState PROVE Flags' /\ Turns'
  BY <1>32 DEF NoteBoxZoneState, NoteDoubt
<1>33. ASSUME WakeLooks PROVE Flags' /\ Turns'
  BY <1>33 DEF WakeLooks
<1>34. ASSUME WakeNotes PROVE Flags' /\ Turns'
  BY <1>34 DEF WakeNotes, NoteDoubt
<1>35. ASSUME Restart PROVE Flags' /\ Turns'
  <2>1. Flags'
    BY <1>35 DEF Restart, Rests
  <2>2. Turns'
    BY <1>35 DEF Restart, Rests
  <2> QED
    BY <2>1, <2>2
<1>36. CASE UNCHANGED vars
  BY <1>36 DEF vars, firmware, player
<1> QED
  BY <1>1, <1>2, <1>3, <1>4, <1>5, <1>6, <1>7, <1>8, <1>9, <1>10, <1>11, <1>12, <1>13, <1>14, <1>15, <1>16, <1>17, <1>18,
     <1>19, <1>20, <1>21, <1>22, <1>23, <1>24, <1>25, <1>26, <1>27, <1>28, <1>29, <1>30, <1>31, <1>32, <1>33, <1>34, <1>35, <1>36
     DEF Next, Comes, FormStep, DissolveStep, Reconcile

LEMMA SetsStep == TypeInv /\ [Next]_vars => Sets' /\ Carries'
<1> SUFFICES ASSUME TypeInv, [Next]_vars PROVE Sets' /\ Carries'
  OBVIOUS
<1> DocInv' /\ StoreOK
  BY DocStep DEF TypeInv, DocInv, StoreOK
<1> USE NoGroupFacts, SetFacts, ClearFacts, ForgetFacts, ZoneAssumption, WhoFacts
<1> USE DEF TypeInv, Flags, Turns, Sets, Carries, DocInv, HasDoc, Carried, Forming, Driving, Removing, Docs, Holders,
        Copies, Step, Answers, Unsettles, Newest, Goes, ForgetDoubt, WritesBack, store, firmware, request, player, history
<1>1. ASSUME NEW r \in Requests, NEW a \in Asks, Arrives(r, a) PROVE Sets' /\ Carries'
  <2>1. a.group \in Docs \/ a.kind = "remove"
    BY <1>1 DEF Arrives, Asks
  <2>2. Sets'
    BY <1>1, <2>1 DEF Arrives
  <2>3. ask' \in [Requests -> Asks \cup {None}]
    BY <1>1 DEF Arrives
  <2>4. Carried(r)'
    BY <1>1 DEF Arrives, Asks, NoGroup
  <2>5. \A q \in Requests \ {r} : Carried(q)'
    BY <1>1 DEF Arrives
  <2> QED
    BY <2>2, <2>3, <2>4, <2>5
<1>2. ASSUME NEW r \in Requests, NEW a \in Asks, Define(r, a) PROVE Sets' /\ Carries'
  BY <1>2 DEF Define, Asks
<1>3. ASSUME NEW r \in Requests, NEW a \in Asks, Purge(r, a) PROVE Sets' /\ Carries'
  BY <1>3 DEF Purge
<1>4. ASSUME NEW r \in Requests, Cancelled(r) PROVE Sets' /\ Carries'
  BY <1>4 DEF Cancelled
<1>5. ASSUME NEW r \in Requests, Superseded(r) PROVE Sets' /\ Carries'
  BY <1>5 DEF Superseded
<1>6. ASSUME NEW r \in Requests, LeaderSilent(r) PROVE Sets' /\ Carries'
  BY <1>6 DEF LeaderSilent
<1>7. ASSUME NEW r \in Requests, FormBegins(r) PROVE Sets' /\ Carries'
  <2>1. Sets'
    BY <1>7 DEF FormBegins
  <2>2. Carries'
    BY <1>7 DEF FormBegins
  <2> QED
    BY <2>1, <2>2
<1>8. ASSUME NEW r \in Requests, FormPersists(r) PROVE Sets' /\ Carries'
  BY <1>8 DEF FormPersists, Persists
<1>9. ASSUME NEW r \in Requests, FormDefers(r) PROVE Sets' /\ Carries'
  BY <1>9 DEF FormDefers, Persists
<1>10. ASSUME NEW r \in Requests, WakeFails(r) PROVE Sets' /\ Carries'
  BY <1>10 DEF WakeFails, RestoresDocument
<1>11. ASSUME NEW r \in Requests, FormDrops(r) PROVE Sets' /\ Carries'
  <2>1. Sets'
    BY <1>11 DEF FormDrops
  <2>2. Carries'
    BY <1>11 DEF FormDrops
  <2> QED
    BY <2>1, <2>2
<1>12. ASSUME NEW r \in Requests, FormAdds(r) PROVE Sets' /\ Carries'
  BY <1>12 DEF FormAdds
<1>13. ASSUME NEW r \in Requests, FormStartsOver(r) PROVE Sets' /\ Carries'
  BY <1>13 DEF FormStartsOver
<1>14. ASSUME NEW r \in Requests, FormSets(r) PROVE Sets' /\ Carries'
  <2>1. ask[r].group.who \subseteq Members
    BY <1>14 DEF FormSets
  <2> QED
    BY <1>14, <2>1 DEF FormSets
<1>15. ASSUME NEW r \in Requests, SetZoneFails(r) PROVE Sets' /\ Carries'
  BY <1>15 DEF SetZoneFails, RestoresDocument
<1>16. ASSUME NEW r \in Requests, FormRestores(r) PROVE Sets' /\ Carries'
  BY <1>16 DEF FormRestores
<1>17. ASSUME NEW r \in Requests, DissolveBegins(r) PROVE Sets' /\ Carries'
  <2>1. Sets'
    BY <1>17 DEF DissolveBegins
  <2>2. ask[r] \in [kind : {"dissolve", "forget"}, group : {NoGroup}]
    BY <1>17 DEF DissolveBegins, Asks
  <2>3. Carries'
    BY <1>17, <2>2 DEF DissolveBegins
  <2> QED
    BY <2>1, <2>3
<1>18. ASSUME NEW r \in Requests, DissolveNothing(r) PROVE Sets' /\ Carries'
  BY <1>18 DEF DissolveNothing
<1>19. ASSUME NEW r \in Requests, DissolveDrives(r) PROVE Sets' /\ Carries'
  BY <1>19 DEF DissolveDrives
<1>20. ASSUME NEW r \in Requests, DissolveStores(r) PROVE Sets' /\ Carries'
  BY <1>20 DEF DissolveStores
<1>21. ASSUME NEW r \in Requests, RemoveMember(r) PROVE Sets' /\ Carries'
  <2> DEFINE rest == [seen[r].doc EXCEPT !.who = @ \ {ask[r].member}]
  <2>1. rest.who # {} => rest \in Groups
    BY <1>21, RestFacts DEF RemoveMember
  <2>2. Sets'
    BY <1>21, <2>1 DEF RemoveMember
  <2>3. Carries'
    BY <1>21 DEF RemoveMember
  <2> QED
    BY <2>2, <2>3
<1>22. ASSUME PlayStarts PROVE Sets' /\ Carries'
  BY <1>22 DEF PlayStarts
<1>23. ASSUME PlayStops PROVE Sets' /\ Carries'
  BY <1>23 DEF PlayStops
<1>24. ASSUME KickForms PROVE Sets' /\ Carries'
  <2>1. Sets'
    BY <1>24 DEF KickForms, Begins
  <2>2. Carries'
    BY <1>24 DEF KickForms, Begins
  <2> QED
    BY <2>1, <2>2
<1>25. ASSUME KickSets PROVE Sets' /\ Carries'
  BY <1>25 DEF KickSets, Rests
<1>26. ASSUME HoldLooks PROVE Sets' /\ Carries'
  BY <1>26 DEF HoldLooks, Rests
<1>27. ASSUME HoldSets PROVE Sets' /\ Carries'
  BY <1>27 DEF HoldSets, Rests
<1>28. ASSUME TickRejoins PROVE Sets' /\ Carries'
  <2>1. Sets'
    BY <1>28 DEF TickRejoins, Begins
  <2>2. Carries'
    BY <1>28 DEF TickRejoins, Begins
  <2> QED
    BY <2>1, <2>2
<1>29. ASSUME TickReforms PROVE Sets' /\ Carries'
  <2>1. Sets'
    BY <1>29 DEF TickReforms, Begins
  <2>2. Carries'
    BY <1>29 DEF TickReforms, Begins
  <2> QED
    BY <2>1, <2>2
<1>30. ASSUME TickSets PROVE Sets' /\ Carries'
  BY <1>30 DEF TickSets, Rests
<1>31. ASSUME FirmwareDissolves PROVE Sets' /\ Carries'
  BY <1>31 DEF FirmwareDissolves
<1>32. ASSUME NoteBoxZoneState PROVE Sets' /\ Carries'
  <2>1. Sets'
    BY <1>32 DEF NoteBoxZoneState, NoteDoubt
  <2>2. Carries'
    BY <1>32 DEF NoteBoxZoneState, NoteDoubt
  <2> QED
    BY <2>1, <2>2
<1>33. ASSUME WakeLooks PROVE Sets' /\ Carries'
  BY <1>33 DEF WakeLooks
<1>34. ASSUME WakeNotes PROVE Sets' /\ Carries'
  <2>1. Sets'
    BY <1>34 DEF WakeNotes, NoteDoubt
  <2>2. Carries'
    BY <1>34 DEF WakeNotes, NoteDoubt
  <2> QED
    BY <2>1, <2>2
<1>35. ASSUME Restart PROVE Sets' /\ Carries'
  BY <1>35 DEF Restart, Rests
<1>36. CASE UNCHANGED vars
  BY <1>36 DEF vars, firmware, player
<1> QED
  BY <1>1, <1>2, <1>3, <1>4, <1>5, <1>6, <1>7, <1>8, <1>9, <1>10, <1>11, <1>12, <1>13, <1>14, <1>15, <1>16, <1>17, <1>18,
     <1>19, <1>20, <1>21, <1>22, <1>23, <1>24, <1>25, <1>26, <1>27, <1>28, <1>29, <1>30, <1>31, <1>32, <1>33, <1>34, <1>35, <1>36
     DEF Next, Comes, FormStep, DissolveStep, Reconcile

LEMMA TypeStep == TypeInv /\ [Next]_vars => TypeInv'
BY DocStep, FlagsStep, SetsStep DEF TypeInv
-----------------------------------------------------------------------------
Dissolving(r) == pc[r] = "waiting" /\ ask[r].kind # "remove"

(* The newest request is on its way to the members it asks for; once it    *)
(* has begun no dissolve is waiting that it did not overtake.              *)
OnItsWay(n) ==
  /\ last = ask[n].group.who /\ (pc[n] = "waiting" => ask[n].kind # "remove")
  /\ pc[n] \in Forming /\ ~overtaken => \A q \in Requests \ {n} : ~Dissolving(q)
  /\ pc[n] = "dropped" => live \cup seen[n].add = last
  /\ pc[n] \in {"nothing", "storing"} => live = {}

(* It is answered: what is left to run asks for the same, or is a dissolve *)
(* it overtook, which only takes members out.                              *)
Arrived ==
  /\ live \subseteq last /\ (~overtaken => live = last)
  /\ \A q \in Requests : /\ ~overtaken /\ (Dissolving(q) \/ pc[q] \in Driving) => last = {}
                         /\ pc[q] \notin Forming \cup {"restoring"}

WinInv ==
  /\ TypeInv
  /\ rpc # "idle" => last = None
  /\ \A q, r \in Requests : mine[q] = mine[r] /\ mine[r] # 0 => q = r
  /\ last # None =>
       /\ seq > 0
       /\ \A n \in Requests : mine[n] = seq => OnItsWay(n)
       /\ (\A n \in Requests : mine[n] # seq) => Arrived

LEMMA DissolvesAsk ==
  ASSUME NEW r \in Requests, Carried(r), pc[r] \in {"nothing", "driving", "storing"}
  PROVE  ask[r].group.who = {}
BY DEF Carried, NoGroup

LEMMA WinStep == WinInv /\ [Next]_vars => WinInv'
<1> SUFFICES ASSUME WinInv, [Next]_vars PROVE WinInv'
  OBVIOUS
<1> TypeInv'
  BY TypeStep DEF WinInv
<1> USE NoGroupFacts, ZoneAssumption
<1> USE DEF WinInv, OnItsWay, Arrived, Dissolving, TypeInv, Turns, Carries, Carried, Forming, Driving, Step, Answers,
        Unsettles, Newest, Goes, store, firmware, request, player, history
<1>1. ASSUME NEW r \in Requests, NEW a \in Asks, Arrives(r, a) PROVE WinInv'
  BY <1>1 DEF Arrives, Asks, NoGroup
<1>2. ASSUME NEW r \in Requests, NEW a \in Asks, Define(r, a) PROVE WinInv'
  BY <1>2 DEF Define, Asks
<1>3. ASSUME NEW r \in Requests, NEW a \in Asks, Purge(r, a) PROVE WinInv'
  BY <1>3 DEF Purge
<1>4. ASSUME NEW r \in Requests, Cancelled(r) PROVE WinInv'
  BY <1>4 DEF Cancelled
<1>5. ASSUME NEW r \in Requests, Superseded(r) PROVE WinInv'
  BY <1>5 DEF Superseded
<1>6. ASSUME NEW r \in Requests, LeaderSilent(r) PROVE WinInv'
  BY <1>6 DEF LeaderSilent
<1>7. ASSUME NEW r \in Requests, FormBegins(r) PROVE WinInv'
  <2>1. CASE ~Overtakes(r)
    BY <1>7, <2>1 DEF FormBegins, Overtakes
  <2>2. CASE Overtakes(r)
    <3>1. overtaken' /\ last' = last /\ mine' = mine /\ seq' = seq /\ rpc' = rpc /\ mine[r] = seq
      BY <1>7, <2>2 DEF FormBegins
    <3>2. last # None => OnItsWay(r)'
      BY <1>7, <3>1 DEF FormBegins
    <3> QED
      BY <3>1, <3>2
  <2> QED
    BY <2>1, <2>2
<1>8. ASSUME NEW r \in Requests, FormPersists(r) PROVE WinInv'
  BY <1>8 DEF FormPersists, Persists
<1>9. ASSUME NEW r \in Requests, FormDefers(r) PROVE WinInv'
  BY <1>9 DEF FormDefers, Persists
<1>10. ASSUME NEW r \in Requests, WakeFails(r) PROVE WinInv'
  BY <1>10 DEF WakeFails, RestoresDocument
<1>11. ASSUME NEW r \in Requests, FormDrops(r) PROVE WinInv'
  <2>1. pc[r] \in Driving /\ \A q \in Requests \ {r} : pc[q] \notin Driving
    BY <1>11 DEF FormDrops
  <2>2. CASE last' # None /\ mine[r] = seq
    <3>0. last' = last /\ last = ask[r].group.who /\ seen'[r].add = ask[r].group.who \ live
      BY <1>11, <2>2 DEF FormDrops, DocInv
    <3>1. last' = last /\ last = ask[r].group.who /\ live' = live \cap last /\ seen'[r].add = last \ live
      BY <1>11, <2>2, <3>0 DEF FormDrops
    <3>2. OnItsWay(r)'
      BY <1>11, <2>2, <3>1 DEF FormDrops
    <3> QED
      BY <1>11, <2>2, <3>2 DEF FormDrops
  <2>3. CASE last' # None /\ mine[r] # seq
    BY <1>11, <2>1, <2>3 DEF FormDrops
  <2>4. CASE last' = None
    BY <1>11, <2>4 DEF FormDrops
  <2> QED
    BY <2>2, <2>3, <2>4
<1>12. ASSUME NEW r \in Requests, FormAdds(r) PROVE WinInv'
  <2>1. pc[r] \in Driving /\ \A q \in Requests \ {r} : pc[q] \notin Driving
    BY <1>12 DEF FormAdds
  <2>2. CASE last' # None /\ mine[r] = seq
    <3>1. last' = last /\ OnItsWay(r) /\ seq > 0 /\ seq' = seq /\ mine' = [mine EXCEPT ![r] = 0]
      BY <1>12, <2>2 DEF FormAdds
    <3>2. \A q \in Requests : mine'[q] # seq'
      BY <2>2, <3>1
    <3>3. live' = last /\ overtaken' = overtaken /\ (~overtaken => \A q \in Requests \ {r} : ~Dissolving(q))
      <4>1. /\ pc[r] = "dropped" /\ live \cup seen[r].add = last /\ overtaken' = overtaken
            /\ ~overtaken => \A q \in Requests \ {r} : ~Dissolving(q)
        BY <1>12, <3>1 DEF FormAdds
      <4>2. live' = live \cup seen[r].add
        BY <1>12 DEF FormAdds
      <4> QED
        BY <3>1, <4>1, <4>2
    <3>3a. pc'[r] = "done" /\ \A q \in Requests \ {r} : pc'[q] = pc[q] /\ ask'[q] = ask[q]
      BY <1>12 DEF FormAdds
    <3>4. Arrived'
      BY <2>1, <3>1, <3>3, <3>3a
    <3>5. \A q, p \in Requests : mine'[q] = mine'[p] /\ mine'[p] # 0 => q = p
      BY <3>1
    <3>6. rpc' = rpc
      BY <1>12 DEF FormAdds
    <3> QED
      BY <3>1, <3>2, <3>4, <3>5, <3>6
  <2>3. CASE last' # None /\ mine[r] # seq
    BY <1>12, <2>1, <2>3 DEF FormAdds
  <2>4. CASE last' = None
    BY <1>12, <2>4 DEF FormAdds
  <2> QED
    BY <2>2, <2>3, <2>4
<1>13. ASSUME NEW r \in Requests, FormStartsOver(r) PROVE WinInv'
  BY <1>13 DEF FormStartsOver
<1>14. ASSUME NEW r \in Requests, FormSets(r) PROVE WinInv'
  BY <1>14 DEF FormSets
<1>15. ASSUME NEW r \in Requests, SetZoneFails(r) PROVE WinInv'
  BY <1>15 DEF SetZoneFails, RestoresDocument
<1>16. ASSUME NEW r \in Requests, FormRestores(r) PROVE WinInv'
  BY <1>16 DEF FormRestores
<1>17. ASSUME NEW r \in Requests, DissolveBegins(r) PROVE WinInv'
  BY <1>17 DEF DissolveBegins
<1>18. ASSUME NEW r \in Requests, DissolveNothing(r) PROVE WinInv'
  <2>1. pc[r] \in Driving /\ \A q \in Requests \ {r} : pc[q] \notin Driving
    BY <1>18 DEF DissolveNothing
  <2>2. CASE last' # None /\ mine[r] = seq
    <3>1. last' = last /\ OnItsWay(r) /\ seq > 0 /\ seq' = seq /\ mine' = [mine EXCEPT ![r] = 0]
      BY <1>18, <2>2 DEF DissolveNothing
    <3>2. \A q \in Requests : mine'[q] # seq'
      BY <2>2, <3>1
    <3>2a. ask[r].group.who = {}
      BY <1>18, DissolvesAsk DEF DissolveNothing
    <3>3. live' = last /\ last = {}
      BY <1>18, <3>1, <3>2a DEF DissolveNothing
    <3>3a. pc'[r] = "done" /\ \A q \in Requests \ {r} : pc'[q] = pc[q] /\ ask'[q] = ask[q]
      BY <1>18 DEF DissolveNothing
    <3>4. Arrived'
      BY <2>1, <3>1, <3>3, <3>3a
    <3>5. \A q, p \in Requests : mine'[q] = mine'[p] /\ mine'[p] # 0 => q = p
      BY <3>1
    <3>6. rpc' = rpc
      BY <1>18 DEF DissolveNothing
    <3> QED
      BY <3>1, <3>2, <3>4, <3>5, <3>6
  <2>3. CASE last' # None /\ mine[r] # seq
    BY <1>18, <2>1, <2>3 DEF DissolveNothing
  <2>4. CASE last' = None
    BY <1>18, <2>4 DEF DissolveNothing
  <2> QED
    BY <2>2, <2>3, <2>4
<1>19. ASSUME NEW r \in Requests, DissolveDrives(r) PROVE WinInv'
  <2>1. pc[r] \in Driving /\ \A q \in Requests \ {r} : pc[q] \notin Driving
    BY <1>19 DEF DissolveDrives
  <2>2. CASE last' # None /\ mine[r] = seq
    BY <1>19, <2>1, <2>2 DEF DissolveDrives
  <2>3. CASE last' # None /\ mine[r] # seq
    <3>1. CASE \A n \in Requests : mine[n] # seq
      <4>1. live \subseteq last /\ live' \subseteq live /\ last' = last /\ overtaken' = overtaken
        BY <1>19, <2>1, <2>3, <3>1 DEF DissolveDrives
      <4>2. ~overtaken => last = {} /\ live = {}
        BY <1>19, <2>1, <2>3, <3>1 DEF DissolveDrives
      <4>3. \A q \in Requests : pc'[q] \notin Forming \cup {"restoring"}
        BY <1>19, <2>1, <2>3, <3>1 DEF DissolveDrives
      <4>4. live' \subseteq last' /\ (~overtaken' => live' = last' /\ last' = {})
        <5>1. live' \subseteq last'
          BY <4>1
        <5>2. ASSUME ~overtaken' PROVE live' = {} /\ last' = {}
          <6>1. ~overtaken
            BY <4>1, <5>2, Zenon
          <6> QED
            BY <4>1, <4>2, <6>1
        <5> QED
          BY <5>1, <5>2, Zenon
      <4>5. mine' = mine /\ seq' = seq /\ rpc' = rpc
        BY <1>19 DEF DissolveDrives
      <4> QED
        BY <2>3, <3>1, <4>1, <4>3, <4>4, <4>5
    <3>2. CASE \E n \in Requests : mine[n] = seq
      BY <1>19, <2>1, <2>3, <3>2 DEF DissolveDrives
    <3> QED
      BY <1>19, <2>3, <3>1, <3>2 DEF DissolveDrives
  <2>4. CASE last' = None
    BY <1>19, <2>4 DEF DissolveDrives
  <2> QED
    BY <2>2, <2>3, <2>4
<1>20. ASSUME NEW r \in Requests, DissolveStores(r) PROVE WinInv'
  <2>1. pc[r] \in Driving /\ \A q \in Requests \ {r} : pc[q] \notin Driving
    BY <1>20 DEF DissolveStores
  <2>2. CASE last' # None /\ mine[r] = seq
    <3>1. last' = last /\ OnItsWay(r) /\ seq > 0 /\ seq' = seq /\ mine' = [mine EXCEPT ![r] = 0]
      BY <1>20, <2>2 DEF DissolveStores
    <3>2. \A q \in Requests : mine'[q] # seq'
      BY <2>2, <3>1
    <3>2a. ask[r].group.who = {}
      BY <1>20, DissolvesAsk DEF DissolveStores
    <3>3. live' = last /\ last = {}
      BY <1>20, <3>1, <3>2a DEF DissolveStores
    <3>3a. pc'[r] = "done" /\ \A q \in Requests \ {r} : pc'[q] = pc[q] /\ ask'[q] = ask[q]
      BY <1>20 DEF DissolveStores
    <3>4. Arrived'
      BY <2>1, <3>1, <3>3, <3>3a
    <3>5. \A q, p \in Requests : mine'[q] = mine'[p] /\ mine'[p] # 0 => q = p
      BY <3>1
    <3>6. rpc' = rpc
      BY <1>20 DEF DissolveStores
    <3> QED
      BY <3>1, <3>2, <3>4, <3>5, <3>6
  <2>3. CASE last' # None /\ mine[r] # seq
    BY <1>20, <2>1, <2>3 DEF DissolveStores
  <2>4. CASE last' = None
    BY <1>20, <2>4 DEF DissolveStores
  <2> QED
    BY <2>2, <2>3, <2>4
<1>21. ASSUME NEW r \in Requests, RemoveMember(r) PROVE WinInv'
  BY <1>21 DEF RemoveMember
<1>22. ASSUME PlayStarts PROVE WinInv'
  BY <1>22 DEF PlayStarts
<1>23. ASSUME PlayStops PROVE WinInv'
  BY <1>23 DEF PlayStops
<1>24. ASSUME KickForms PROVE WinInv'
  BY <1>24 DEF KickForms, Begins
<1>25. ASSUME KickSets PROVE WinInv'
  BY <1>25 DEF KickSets, Rests
<1>26. ASSUME HoldLooks PROVE WinInv'
  BY <1>26 DEF HoldLooks, Rests
<1>27. ASSUME HoldSets PROVE WinInv'
  BY <1>27 DEF HoldSets, Rests
<1>28. ASSUME TickRejoins PROVE WinInv'
  BY <1>28 DEF TickRejoins, Begins
<1>29. ASSUME TickReforms PROVE WinInv'
  BY <1>29 DEF TickReforms, Begins
<1>30. ASSUME TickSets PROVE WinInv'
  BY <1>30 DEF TickSets, Rests
<1>31. ASSUME FirmwareDissolves PROVE WinInv'
  BY <1>31 DEF FirmwareDissolves
<1>32. ASSUME NoteBoxZoneState PROVE WinInv'
  BY <1>32 DEF NoteBoxZoneState, NoteDoubt
<1>33. ASSUME WakeLooks PROVE WinInv'
  BY <1>33 DEF WakeLooks
<1>34. ASSUME WakeNotes PROVE WinInv'
  BY <1>34 DEF WakeNotes, NoteDoubt
<1>35. ASSUME Restart PROVE WinInv'
  BY <1>35 DEF Restart, Rests
<1>36. CASE UNCHANGED vars
  BY <1>36 DEF vars, firmware, player
<1> QED
  BY <1>1, <1>2, <1>3, <1>4, <1>5, <1>6, <1>7, <1>8, <1>9, <1>10, <1>11, <1>12, <1>13, <1>14, <1>15, <1>16, <1>17, <1>18,
     <1>19, <1>20, <1>21, <1>22, <1>23, <1>24, <1>25, <1>26, <1>27, <1>28, <1>29, <1>30, <1>31, <1>32, <1>33, <1>34, <1>35, <1>36
     DEF Next, Comes, FormStep, DissolveStep, Reconcile

LEMMA WinInit == Init => WinInv
<1> SUFFICES ASSUME Init PROVE WinInv
  OBVIOUS
<1> USE NoGroupFacts, WhoFacts, ZoneAssumption
<1>1. DocInv
  BY DEF Init, DocInv, Docs, HasDoc, Removing, Forming
<1>2. Flags
  BY DEF Init, Flags
<1>6. Turns
  BY DEF Init, Turns, Driving
<1>3. zone \in Docs /\ standing \in Docs
  BY DEF Init, Docs
<1>4. Sets
  BY <1>3 DEF Init, Sets, Saved
<1>5. Carries
  BY DEF Init, Carries, Carried
<1> QED
  BY <1>1, <1>2, <1>6, <1>4, <1>5 DEF Init, WinInv, TypeInv

(* The types of the store, the zone, the requests and the reconcile loop;  *)
(* only the request whose turn it is drives the zone.                      *)
THEOREM ZoneTypeCorrect == Spec => []TypeOK
<1>1. TypeInv => TypeOK
  BY DEF TypeInv, TypeOK, DocInv, Docs, Flags, Turns, Sets, Carries
<1>2. WinInv => TypeInv
  BY DEF WinInv
<1> QED
  BY <1>1, <1>2, WinInit, TypeStep, PTL DEF Spec

(* NewestWins holds in every reachable state: zoneFormSeq and              *)
(* zoneFormSerial bring the zone to the members asked for last, and a      *)
(* dissolve that the newest form overtook leaves none but them.            *)
THEOREM NewestWinsHolds == Spec => []NewestWins
<1>1. WinInv => NewestWins
  <2> SUFFICES ASSUME WinInv, \A r \in Requests : pc[r] \in {"idle", "done"}, last # None
               PROVE  IF overtaken THEN live \subseteq last ELSE live = last
    BY DEF NewestWins
  <2>1. \A r \in Requests : mine[r] = 0
    BY DEF WinInv, TypeInv, Carries, Carried
  <2>2. seq # 0
    BY DEF WinInv, TypeInv, Turns
  <2>3. \A r \in Requests : mine[r] # seq
    BY <2>1, <2>2
  <2> QED
    BY <2>3 DEF WinInv, Arrived
<1> QED
  BY <1>1, WinInit, WinStep, PTL DEF Spec
=============================================================================
