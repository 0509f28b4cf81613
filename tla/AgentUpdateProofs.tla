------------------------- MODULE AgentUpdateProofs --------------------------
(***************************************************************************)
(* Proofs about AgentUpdate, for any number of uploads, installs, retries  *)
(* and power cuts.                                                         *)
(***************************************************************************)
EXTENDS AgentUpdate, TLAPS

LEMMA Distinct ==
  /\ None \notin Agents /\ None # Factory /\ None # "old" /\ None # "new"
  /\ Factory \notin Agents
  /\ Self \in Agents /\ Self # JobEngine /\ Self # AppEngine /\ Self \notin AppUploads
  /\ Self \in Writers /\ JobEngine \in Writers /\ AppEngine \in Writers
  /\ AppEngine # JobEngine /\ JobEngine \notin Agents /\ AppEngine \notin Agents
  /\ Agents \subseteq Writers /\ Engines = {AppEngine, JobEngine} /\ Engines \subseteq Writers /\ Agents \subseteq Files /\ Factory \in Files
BY UpdateAssumption DEF Agents, Engines, Writers, Files

(* Every action keeps the types.                                           *)
LEMMA TypeStep == TypeOK /\ [Next]_vars => TypeOK'
<1> SUFFICES ASSUME TypeOK, [Next]_vars PROVE TypeOK'
  OBVIOUS
<1> USE Distinct DEF TypeOK, Goes, Streaming, Dropping, flash, files, counts, history
<1>1. ASSUME NEW w \in Writers, MarksDrop(w) PROVE TypeOK'
  BY <1>1 DEF MarksDrop
<1>2. ASSUME NEW w \in Writers, Drops(w) PROVE TypeOK'
  BY <1>2 DEF Drops
<1>3. ASSUME NEW u \in Agents, AgentBegins(u) PROVE TypeOK'
  BY <1>3 DEF AgentBegins
<1>4. ASSUME NEW u \in Agents, AgentAborts(u) PROVE TypeOK'
  BY <1>4 DEF AgentAborts
<1>5. ASSUME NEW u \in Agents, AgentReceived(u) PROVE TypeOK'
  BY <1>5 DEF AgentReceived
<1>6. ASSUME NEW u \in Agents, AgentVerified(u) PROVE TypeOK'
  BY <1>6 DEF AgentVerified
<1>7. ASSUME NEW u \in Agents, AgentNotVerified(u) PROVE TypeOK'
  BY <1>7 DEF AgentNotVerified
<1>8. ASSUME Boot PROVE TypeOK'
  BY <1>8 DEF Boot, Release
<1>9. ASSUME EngineBegins(AppEngine) PROVE TypeOK'
  BY <1>9 DEF EngineBegins
<1>10. ASSUME EngineBegins(JobEngine) PROVE TypeOK'
  BY <1>10 DEF EngineBegins, Finding
<1>11. ASSUME AppEngineDelivered PROVE TypeOK'
  BY <1>11 DEF AppEngineDelivered, ClearsMarker
<1>12. ASSUME JobEngineDelivered PROVE TypeOK'
  BY <1>12 DEF JobEngineDelivered, ClearsMarker, Ends
<1>13. ASSUME AppEngineAborts PROVE TypeOK'
  BY <1>13 DEF AppEngineAborts
<1>14. ASSUME JobEngineAborts PROVE TypeOK'
  <2>1. PICK lost \in BOOLEAN : Failed(lost)
    BY <1>14 DEF JobEngineAborts
  <2>2. {again', fault', pending'} \subseteq BOOLEAN
    BY <2>1 DEF Failed
  <2>3. job' \in {job, "none"} /\ (pending' => pending /\ (job = "resume" => job' = job))
    BY <2>1 DEF Failed
  <2> QED
    BY <1>14, <2>2, <2>3 DEF JobEngineAborts
<1>15. ASSUME PostInstall PROVE TypeOK'
  BY <1>15 DEF PostInstall
<1>16. ASSUME PostEngine PROVE TypeOK'
  BY <1>16 DEF PostEngine
<1>17. ASSUME JobRetries PROVE TypeOK'
  BY <1>17 DEF JobRetries
<1>18. ASSUME JobFails PROVE TypeOK'
  BY <1>18 DEF JobFails
<1>19. ASSUME JobSucceeds PROVE TypeOK'
  BY <1>19 DEF JobSucceeds
<1>20. ASSUME JobFindsEngine PROVE TypeOK'
  BY <1>20 DEF JobFindsEngine, Finding, Ends
<1>21. ASSUME JobRefused PROVE TypeOK'
  <2>1. {again', fault', pending'} \subseteq BOOLEAN
    BY <1>21 DEF JobRefused, Failed
  <2>2. job' \in {job, "none"} /\ (pending' => pending /\ (job = "resume" => job' = job))
    BY <1>21 DEF JobRefused, Failed
  <2> QED
    BY <1>21, <2>1, <2>2 DEF JobRefused, Finding
<1>22. ASSUME TriesAgain PROVE TypeOK'
  BY <1>22 DEF TriesAgain
<1>23. ASSUME NEW e \in Engines, EngineRenamed(e) PROVE TypeOK'
  BY <1>23 DEF EngineRenamed, Wanted, Engines
<1>24. CASE UNCHANGED vars
  BY <1>24 DEF vars
<1> QED
  BY <1>1, <1>2, <1>3, <1>4, <1>5, <1>6, <1>7, <1>8, <1>9, <1>10, <1>11, <1>12, <1>13, <1>14, <1>15, <1>16, <1>17, <1>18, <1>19, <1>20, <1>21, <1>22, <1>23, <1>24 DEF Next, JobStep, AgentStep, AgentRestarts, PowerCut

(* What DroppedIsTold needs: whoever is between the marker and the deletion *)
(* has left the marker, and began with an engine there if it left it first; *)
(* an engine whose marker is about to be cleared is there.                 *)
DropInv ==
  /\ TypeOK
  /\ running = None => wpc[JobEngine] \notin Streaming
  /\ ~clash => \A e \in Engines : wpc[e] = "stamping" => engine # None
  /\ ~clash =>
       /\ engine = None => marker
       /\ \A w \in Writers : /\ wpc[w] \in Dropping => marker
                             /\ wpc[w] = "dropping" => engine # None

LEMMA DropStep == DropInv /\ [Next]_vars => DropInv'
<1> SUFFICES ASSUME DropInv, [Next]_vars PROVE DropInv'
  OBVIOUS
<1> TypeOK'
  BY TypeStep DEF DropInv
<1> USE Distinct DEF DropInv, TypeOK, Goes, Streaming, Dropping, flash, files, counts, history
<1>1. ASSUME NEW w \in Writers, MarksDrop(w) PROVE DropInv'
  BY <1>1 DEF MarksDrop
<1>2. ASSUME NEW w \in Writers, Drops(w) PROVE DropInv'
  BY <1>2 DEF Drops, Meets
<1>3. ASSUME NEW u \in Agents, AgentBegins(u) PROVE DropInv'
  BY <1>3 DEF AgentBegins
<1>4. ASSUME NEW u \in Agents, AgentAborts(u) PROVE DropInv'
  BY <1>4 DEF AgentAborts
<1>5. ASSUME NEW u \in Agents, AgentReceived(u) PROVE DropInv'
  BY <1>5 DEF AgentReceived
<1>6. ASSUME NEW u \in Agents, AgentVerified(u) PROVE DropInv'
  BY <1>6 DEF AgentVerified
<1>7. ASSUME NEW u \in Agents, AgentNotVerified(u) PROVE DropInv'
  BY <1>7 DEF AgentNotVerified
<1>8. ASSUME Boot PROVE DropInv'
  BY <1>8 DEF Boot, Release
<1>9. ASSUME EngineBegins(AppEngine) PROVE DropInv'
  BY <1>9 DEF EngineBegins
<1>10. ASSUME EngineBegins(JobEngine) PROVE DropInv'
  BY <1>10 DEF EngineBegins, Finding
<1>11. ASSUME AppEngineDelivered PROVE DropInv'
  BY <1>11 DEF AppEngineDelivered, ClearsMarker
<1>12. ASSUME JobEngineDelivered PROVE DropInv'
  BY <1>12 DEF JobEngineDelivered, ClearsMarker, Ends
<1>13. ASSUME AppEngineAborts PROVE DropInv'
  BY <1>13 DEF AppEngineAborts
<1>14. ASSUME JobEngineAborts PROVE DropInv'
  BY <1>14 DEF JobEngineAborts, Failed
<1>15. ASSUME PostInstall PROVE DropInv'
  BY <1>15 DEF PostInstall
<1>16. ASSUME PostEngine PROVE DropInv'
  BY <1>16 DEF PostEngine
<1>17. ASSUME JobRetries PROVE DropInv'
  BY <1>17 DEF JobRetries
<1>18. ASSUME JobFails PROVE DropInv'
  BY <1>18 DEF JobFails
<1>19. ASSUME JobSucceeds PROVE DropInv'
  BY <1>19 DEF JobSucceeds
<1>20. ASSUME JobFindsEngine PROVE DropInv'
  BY <1>20 DEF JobFindsEngine, Finding, Ends
<1>21. ASSUME JobRefused PROVE DropInv'
  BY <1>21 DEF JobRefused, Finding, Failed
<1>22. ASSUME TriesAgain PROVE DropInv'
  BY <1>22 DEF TriesAgain
<1>23. ASSUME NEW e \in Engines, EngineRenamed(e) PROVE DropInv'
  BY <1>23 DEF EngineRenamed, Wanted, Engines
<1>24. CASE UNCHANGED vars
  BY <1>24 DEF vars
<1> QED
  BY <1>1, <1>2, <1>3, <1>4, <1>5, <1>6, <1>7, <1>8, <1>9, <1>10, <1>11, <1>12, <1>13, <1>14, <1>15, <1>16, <1>17, <1>18, <1>19, <1>20, <1>21, <1>22, <1>23, <1>24 DEF Next, JobStep, AgentStep, AgentRestarts, PowerCut

(* What InstalledIsWhole needs while one agent at a time is uploaded: the  *)
(* temporary name is the upload's, the name is its file once it was        *)
(* renamed, and no upload that is still to begin has been installed.       *)
WholeInv ==
  /\ TypeOK
  /\ job = "agent" => running = "old"
  /\ ~crowded =>
       /\ dst \in whole
       /\ \A u, v \in Agents : Active(u) /\ Active(v) => u = v
       /\ \A u \in Agents : /\ wpc[u] \in Streaming => tmp = u
                            /\ wpc[u] \in {"verify", "restart"} => dst = u
       /\ \A u \in AppUploads : wpc[u] = "idle" => dst # u
       /\ running = "old" /\ dst = Self => wpc[Self] \in {"verify", "restart"}

(* A step that leaves the files alone, and every upload at its step or     *)
(* still streaming, keeps WholeInv.                                        *)
LEMMA WholeUntouched ==
  ASSUME WholeInv, TypeOK', UNCHANGED <<dst, tmp, whole, running, crowded>>,
         job' = "agent" => job = "agent",
         \A u \in Agents : wpc'[u] = wpc[u] \/ {wpc[u], wpc'[u]} \subseteq Streaming
  PROVE  WholeInv'
<1> USE Distinct
<1>1. \A u \in Agents : /\ Active(u)' <=> Active(u)
                        /\ wpc'[u] \in Streaming <=> wpc[u] \in Streaming
                        /\ wpc'[u] \in {"verify", "restart"} <=> wpc[u] \in {"verify", "restart"}
                        /\ wpc'[u] = "idle" <=> wpc[u] = "idle"
  <2> SUFFICES ASSUME NEW u \in Agents PROVE
        /\ Active(u)' <=> Active(u)
        /\ wpc'[u] \in Streaming <=> wpc[u] \in Streaming
        /\ wpc'[u] \in {"verify", "restart"} <=> wpc[u] \in {"verify", "restart"}
        /\ wpc'[u] = "idle" <=> wpc[u] = "idle"
    OBVIOUS
  <2>1. CASE wpc'[u] = wpc[u]
    BY <2>1 DEF Active
  <2>2. CASE {wpc[u], wpc'[u]} \subseteq Streaming
    BY <2>2 DEF Active, Streaming, Dropping
  <2> QED
    BY <2>1, <2>2
<1>2. AppUploads \subseteq Agents
  BY DEF Agents
<1>3. ASSUME ~crowded
      PROVE  /\ dst' \in whole'
             /\ \A u, v \in Agents : Active(u)' /\ Active(v)' => u = v
             /\ \A u \in Agents : /\ wpc'[u] \in Streaming => tmp' = u
                                  /\ wpc'[u] \in {"verify", "restart"} => dst' = u
             /\ \A u \in AppUploads : wpc'[u] = "idle" => dst' # u
             /\ running' = "old" /\ dst' = Self => wpc'[Self] \in {"verify", "restart"}
  BY <1>1, <1>2, <1>3 DEF WholeInv
<1> QED
  BY <1>3 DEF WholeInv, Streaming, Dropping

LEMMA WholeStep == WholeInv /\ [Next]_vars => WholeInv'
<1> SUFFICES ASSUME WholeInv, [Next]_vars PROVE WholeInv'
  OBVIOUS
<1> TypeOK'
  BY TypeStep DEF WholeInv
<1> USE Distinct DEF WholeInv, TypeOK, Active, Goes, Streaming, Dropping, flash, files, counts, history
<1>1. ASSUME NEW w \in Writers, MarksDrop(w) PROVE WholeInv'
  BY <1>1 DEF MarksDrop
<1>2. ASSUME NEW w \in Writers, Drops(w) PROVE WholeInv'
  <2>1. \A u \in Agents : wpc'[u] = wpc[u] \/ {wpc[u], wpc'[u]} \subseteq Streaming
    BY <1>2 DEF Drops
  <2>2. job' = "agent" => job = "agent"
    BY <1>2 DEF Drops
  <2> QED
    BY <1>2, <2>1, <2>2, WholeUntouched DEF Drops
<1>3. ASSUME NEW u \in Agents, AgentBegins(u) PROVE WholeInv'
  <2>1. wpc' = [wpc EXCEPT ![u] = "writing"] /\ UNCHANGED <<dst, running, job>>
    BY <1>3 DEF AgentBegins
  <2>2. ~crowded' => ~crowded /\ \A v \in Agents : v # u => ~Active(v)
    BY <1>3 DEF AgentBegins
  <2>3. ~crowded => dst # u
    BY <1>3 DEF AgentBegins
  <2>4. ~crowded' => dst' \in whole'
    BY <1>3, <2>2, <2>3 DEF AgentBegins
  <2>5. ASSUME ~crowded', NEW v \in Agents, v # u
        PROVE  wpc'[v] \notin Streaming \cup {"verify", "restart"} /\ wpc'[v] = wpc[v]
    BY <2>1, <2>2, <2>5
  <2>6. wpc'[u] = "writing" /\ tmp' = u
    BY <1>3, <2>1 DEF AgentBegins
  <2>7. ~crowded' => (running' = "old" /\ dst' = Self => wpc'[Self] \in {"verify", "restart"})
    BY <2>1, <2>2, <2>3
  <2>8. ~crowded' => \A v \in AppUploads : wpc'[v] = "idle" => dst' # v
    BY <2>1, <2>2
  <2> QED
    BY <2>1, <2>4, <2>5, <2>6, <2>7, <2>8
<1>4. ASSUME NEW u \in Agents, AgentAborts(u) PROVE WholeInv'
  BY <1>4 DEF AgentAborts
<1>5. ASSUME NEW u \in Agents, AgentReceived(u) PROVE WholeInv'
  BY <1>5 DEF AgentReceived
<1>6. ASSUME NEW u \in Agents, AgentVerified(u) PROVE WholeInv'
  BY <1>6 DEF AgentVerified
<1>7. ASSUME NEW u \in Agents, AgentNotVerified(u) PROVE WholeInv'
  BY <1>7 DEF AgentNotVerified
<1>8. ASSUME Boot PROVE WholeInv'
  <2>1. UNCHANGED <<dst, tmp, whole, crowded>> /\ job' # "agent"
    BY <1>8 DEF Boot
  <2>2. \A v \in Writers : wpc'[v] \in {"idle", "done"} /\ (wpc'[v] = "idle" => v \in {Self, JobEngine} \/ wpc[v] = "idle")
    BY <1>8 DEF Boot
  <2>3. dst \in whole /\ dst = Self => running' = "new"
    BY <1>8 DEF Boot, Release
  <2>4. AppUploads \subseteq Agents
    BY DEF Agents
  <2> QED
    BY <2>1, <2>2, <2>3, <2>4
<1>9. ASSUME EngineBegins(AppEngine) PROVE WholeInv'
  BY <1>9 DEF EngineBegins
<1>10. ASSUME EngineBegins(JobEngine) PROVE WholeInv'
  BY <1>10 DEF EngineBegins, Finding
<1>11. ASSUME AppEngineDelivered PROVE WholeInv'
  BY <1>11 DEF AppEngineDelivered, ClearsMarker
<1>12. ASSUME JobEngineDelivered PROVE WholeInv'
  <2>1. \A u \in Agents : wpc'[u] = wpc[u] \/ {wpc[u], wpc'[u]} \subseteq Streaming
    BY <1>12 DEF JobEngineDelivered, ClearsMarker
  <2>2. job' = "agent" => job = "agent"
    BY <1>12 DEF JobEngineDelivered, ClearsMarker, Ends
  <2> QED
    BY <1>12, <2>1, <2>2, WholeUntouched DEF JobEngineDelivered, ClearsMarker
<1>13. ASSUME AppEngineAborts PROVE WholeInv'
  BY <1>13 DEF AppEngineAborts
<1>14. ASSUME JobEngineAborts PROVE WholeInv'
  <2>1. \A u \in Agents : wpc'[u] = wpc[u] \/ {wpc[u], wpc'[u]} \subseteq Streaming
    BY <1>14 DEF JobEngineAborts
  <2>2. job' = "agent" => job = "agent"
    BY <1>14 DEF JobEngineAborts, Failed
  <2> QED
    BY <1>14, <2>1, <2>2, WholeUntouched DEF JobEngineAborts
<1>15. ASSUME PostInstall PROVE WholeInv'
  BY <1>15 DEF PostInstall
<1>16. ASSUME PostEngine PROVE WholeInv'
  BY <1>16 DEF PostEngine
<1>17. ASSUME JobRetries PROVE WholeInv'
  BY <1>17 DEF JobRetries
<1>18. ASSUME JobFails PROVE WholeInv'
  BY <1>18 DEF JobFails
<1>19. ASSUME JobSucceeds PROVE WholeInv'
  BY <1>19 DEF JobSucceeds
<1>20. ASSUME JobFindsEngine PROVE WholeInv'
  BY <1>20 DEF JobFindsEngine, Finding, Ends
<1>21. ASSUME JobRefused PROVE WholeInv'
  BY <1>21 DEF JobRefused, Finding, Failed
<1>22. ASSUME TriesAgain PROVE WholeInv'
  BY <1>22 DEF TriesAgain
<1>23. ASSUME NEW e \in Engines, EngineRenamed(e) PROVE WholeInv'
  BY <1>23 DEF EngineRenamed, Wanted, Engines
<1>24. CASE UNCHANGED vars
  BY <1>24 DEF vars
<1> QED
  BY <1>1, <1>2, <1>3, <1>4, <1>5, <1>6, <1>7, <1>8, <1>9, <1>10, <1>11, <1>12, <1>13, <1>14, <1>15, <1>16, <1>17, <1>18, <1>19, <1>20, <1>21, <1>22, <1>23, <1>24 DEF Next, JobStep, AgentStep, AgentRestarts, PowerCut

(* TypeOK holds in every reachable state.                                  *)
THEOREM TypeCorrect == Spec => []TypeOK
<1>1. Init => TypeOK
  BY Distinct DEF Init, TypeOK, Streaming, Dropping
<1> QED
  BY <1>1, TypeStep, PTL DEF Spec

(* DroppedIsTold holds in every reachable state: reclaimSpotifyEngine      *)
(* leaves its marker before it deletes, at every power cut, as long as no  *)
(* deletion overlaps another, or the end of a delivery (clash), for there  *)
(* the code does lose the marker.                                          *)
THEOREM DroppedIsToldHolds == Spec => []DroppedIsTold
<1>1. Init => DropInv
  BY Distinct DEF Init, DropInv, TypeOK, Streaming, Dropping
<1>2. DropInv => DroppedIsTold
  BY DEF DropInv, DroppedIsTold
<1> QED
  BY <1>1, <1>2, DropStep, PTL DEF Spec

(* InstalledIsWhole holds in every reachable state: one upload at a time   *)
(* never leaves a torn agent under the name that is started.               *)
THEOREM InstalledIsWholeHolds == Spec => []InstalledIsWhole
<1>1. Init => WholeInv
  BY Distinct DEF Init, WholeInv, TypeOK, Active, Streaming, Dropping, Agents
<1>2. WholeInv => InstalledIsWhole
  BY DEF WholeInv, InstalledIsWhole
<1> QED
  BY <1>1, <1>2, WholeStep, PTL DEF Spec
=============================================================================
