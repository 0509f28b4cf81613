---------------------------- MODULE AgentUpdate -----------------------------
(***************************************************************************)
(* Updating the agent on the speaker: the upload that streams a new binary *)
(* to the flash (agentupload.go, ota_receive.go, the flash helpers of      *)
(* agent_admin.go), the self-update that downloads one and the record that *)
(* lets it resume after the restart (selfupdate.go,                        *)
(* selfupdate_netretry.go), and the Spotify engine, which is deleted when  *)
(* the flash is tight and has to come back.                                *)
(*                                                                         *)
(* Files are inodes with a name or none: every upload of an agent writes a *)
(* file of its own through the one temporary name, and the rename installs *)
(* whatever has that name by then.  Nothing but a flag tells one upload of *)
(* another.  Whether the flash is tight is left open: any writer may or    *)
(* may not have to delete the engine.  The tier that swaps the binary in   *)
(* from RAM after the agent is gone is not modelled.                       *)
(***************************************************************************)
EXTENDS Naturals

CONSTANTS
  AppUploads,      \* agent uploads of the desktop app, each used once
  Self,            \* the agent upload of the self-update
  AppEngine,       \* an engine delivery of the app, used once
  JobEngine,       \* the engine delivery of ensureEngine
  Factory,         \* the file the speaker was running
  None,
  MaxInstalls, MaxRetries, MaxCuts   \* bounds

Agents == AppUploads \cup {Self}
Engines == {AppEngine, JobEngine}
Writers == Agents \cup Engines
Files == Agents \cup {Factory}

ASSUME UpdateAssumption ==
  /\ None \notin Files \cup {"old", "new"} /\ Factory \notin Writers /\ Self \notin AppUploads
  /\ Agents \cap Engines = {} /\ AppEngine # JobEngine
  /\ {MaxInstalls, MaxRetries, MaxCuts} \subseteq Nat

VARIABLES
  dst, tmp,        \* the files named streborn and streborn.new
  whole,           \* files that are complete
  running,         \* the release that runs: "old", "new", or None if torn
  engine,          \* the engine on the flash: its release, or None
  marker,          \* engine-dropped-for-update
  pending,         \* selfupdate-pending.json
  inFlight,        \* updateInFlight
  wpc,             \* each writer's next step
  job, had,        \* what holds selfUpd.busy; the engine when it started
  again,           \* restoreEngineWhenOnline is running
  installs, retries, cuts,   \* counted against the bounds
  crowded,         \* history: two uploads of an agent at once
  clash,           \* history: two deletions of the engine overlapped, or
                   \* one met the clearing of the marker
  fault            \* history: the engine's return failed, not by the network

flash == <<dst, tmp, whole, engine, marker, pending>>
files == <<dst, tmp, whole>>
counts == <<installs, retries, cuts>>
history == <<crowded, clash, fault>>
vars == <<flash, running, inFlight, wpc, job, had, again, counts, history>>

Dropping == {"dropping", "redropping"}
Streaming == {"writing", "filling"} \cup Dropping

TypeOK ==
  /\ dst \in Files /\ tmp \in Agents \cup {None} /\ whole \subseteq Files
  /\ running \in {"old", "new", None} /\ {engine, had} \subseteq {"old", "new", None}
  /\ {marker, pending, inFlight, again, crowded, clash, fault} \subseteq BOOLEAN
  /\ wpc \in [Writers -> Streaming \cup
               {"idle", "verify", "restart", "stamping", "failed", "done"}]
  /\ job \in {"none", "agent", "restore", "again", "resume", "fetch"}
  /\ job # "agent" => wpc[Self] \notin Streaming \cup {"verify"}
  /\ job \in {"none", "agent"} => wpc[JobEngine] \notin Streaming \cup {"stamping"}
  /\ pending => job \in {"agent", "resume"} \/ wpc[Self] = "restart" \/ running = None

Active(w) == wpc[w] \in Streaming \cup {"verify", "restart"}
Goes(w, step) == wpc' = [wpc EXCEPT ![w] = step]
Release(f) == IF f = Factory THEN "old" ELSE "new"
-----------------------------------------------------------------------------
Init ==
  /\ dst = Factory /\ tmp = None /\ whole = {Factory} /\ running = "old"
  /\ engine = "old" /\ marker = FALSE /\ pending = FALSE /\ inFlight = FALSE
  /\ wpc = [w \in Writers |-> "idle"]
  /\ job = "none" /\ had = None /\ again = FALSE
  /\ installs = 0 /\ retries = 0 /\ cuts = 0
  /\ crowded = FALSE /\ clash = FALSE /\ fault = FALSE

(* Any writer that finds the flash tight deletes the engine: an agent as   *)
(* its body arrives (engineReclaimGate), an engine before it is written    *)
(* (reclaimEngineForWrite).  reclaimSpotifyEngine: the marker goes first,  *)
(* and is taken back if there was nothing to delete.                       *)
MarksDrop(w) ==
  /\ wpc[w] = "writing"
  /\ marker' = TRUE
  /\ Goes(w, IF marker THEN "redropping" ELSE "dropping")
  /\ UNCHANGED <<files, running, engine, pending, inFlight, job, had, again, counts, history>>

(* A deletion meets another, or an engine that has its name while its      *)
(* marker has yet to be cleared.                                           *)
Meets(w) == \E v \in Writers \ {w} : wpc[v] \in Dropping \cup {"stamping"}

(* Mutant of Drops: an earlier drop is not remembered.                     *)
DropsTakeBack(w) ==
  /\ wpc[w] \in Dropping
  /\ engine' = None
  /\ marker' = IF engine = None THEN FALSE ELSE marker
  /\ clash' = (clash \/ Meets(w))
  /\ Goes(w, "filling")
  /\ UNCHANGED <<files, running, pending, inFlight, job, had, again, counts, crowded, fault>>

Drops(w) ==
  /\ wpc[w] \in Dropping
  /\ engine' = None
  /\ marker' = IF engine = None /\ wpc[w] = "dropping" THEN FALSE ELSE marker
  /\ clash' = (clash \/ Meets(w))
  /\ Goes(w, "filling")
  /\ UNCHANGED <<files, running, pending, inFlight, job, had, again, counts, crowded, fault>>
-----------------------------------------------------------------------------
(* installAgentUpload.                                                     *)

(* The flag is set; a stale temporary file loses its name.                 *)
AgentBegins(u) ==
  /\ running # None
  /\ \/ u \in AppUploads /\ wpc[u] = "idle"
     \/ u = Self /\ job = "agent" /\ wpc[u] = "idle"
  /\ inFlight' = TRUE
  /\ tmp' = u /\ whole' = whole \ {u}
  /\ Goes(u, "writing")
  /\ crowded' = (crowded \/ \E v \in Agents \ {u} : Active(v))
  /\ UNCHANGED <<dst, running, engine, marker, pending, job, had, again, counts, clash, fault>>

(* The link breaks, the body is too short or does not match, or the flash  *)
(* is full: the temporary name goes, whosoever it is.                      *)
AgentAborts(u) ==
  /\ wpc[u] \in {"writing", "filling"}
  /\ tmp' = None /\ inFlight' = FALSE
  /\ Goes(u, "failed")
  /\ UNCHANGED <<dst, whole, running, engine, marker, pending, job, had, again, counts, history>>

(* Mutant of AgentReceived: renamed before the body is complete.           *)
AgentRenamedEarly(u) ==
  /\ wpc[u] \in {"writing", "filling"} /\ tmp # None
  /\ dst' = tmp /\ tmp' = None
  /\ Goes(u, "verify")
  /\ UNCHANGED <<whole, running, engine, marker, pending, inFlight, job, had, again, counts,
                 history>>

(* The last byte, the sync and the rename of what has the name.            *)
AgentReceived(u) ==
  /\ wpc[u] \in {"writing", "filling"}
  /\ whole' = whole \cup {u} /\ tmp' = None
  /\ \/ tmp # None /\ dst' = tmp /\ Goes(u, "verify") /\ UNCHANGED inFlight
     \/ tmp = None /\ Goes(u, "failed") /\ inFlight' = FALSE /\ UNCHANGED dst
  /\ UNCHANGED <<running, engine, marker, pending, job, had, again, counts, history>>

(* verifyBinaryOnFlash: the hash of the file, against that of the body.    *)
AgentVerified(u) ==
  /\ wpc[u] = "verify" /\ dst \in whole /\ Release(dst) = Release(u)
  /\ Goes(u, "restart")
  /\ UNCHANGED <<flash, running, inFlight, job, had, again, counts, history>>

AgentNotVerified(u) ==
  /\ wpc[u] = "verify" /\ ~(dst \in whole /\ Release(dst) = Release(u))
  /\ inFlight' = FALSE
  /\ Goes(u, "failed")
  /\ UNCHANGED <<flash, running, job, had, again, counts, history>>

(* The agent starts from what is on the flash, and resumeSelfUpdate looks  *)
(* at the record.                                                          *)
(* Mutant of Boot: the record of an update that did not take is kept.      *)
BootKeepsRecord ==
  /\ running' = IF dst \in whole THEN Release(dst) ELSE None
  /\ inFlight' = FALSE /\ again' = FALSE /\ had' = None
  /\ wpc' = [w \in Writers |-> IF w \in {Self, JobEngine} \/ wpc[w] = "idle" THEN "idle" ELSE "done"]
  /\ job' = IF pending /\ running' = "new" THEN "resume" ELSE "none"
  /\ UNCHANGED <<files, engine, marker, pending, installs, retries, history>>

Boot ==
  /\ running' = IF dst \in whole THEN Release(dst) ELSE None
  /\ inFlight' = FALSE /\ again' = FALSE /\ had' = None
  /\ wpc' = [w \in Writers |-> IF w \in {Self, JobEngine} \/ wpc[w] = "idle" THEN "idle" ELSE "done"]
  /\ job' = IF pending /\ running' = "new" THEN "resume" ELSE "none"
  /\ pending' = (pending /\ running' # "old")
  /\ UNCHANGED <<files, engine, marker, installs, retries, history>>

(* The answer is sent, and finishAgentOTA restarts the agent or the box.   *)
AgentRestarts(u) ==
  /\ wpc[u] = "restart"
  /\ Boot
  /\ UNCHANGED cuts

PowerCut ==
  /\ running # None /\ cuts < MaxCuts
  /\ cuts' = cuts + 1
  /\ Boot
-----------------------------------------------------------------------------
(* installEngineUpload: refused while the flag is set, which is looked at  *)
(* before the body arrives.                                                *)

(* The engine ensureEngine is asked for: that of the release it belongs to. *)
Wanted == IF job \in {"restore", "again"} THEN "new" ELSE running

Finding == job \in {"restore", "again", "resume", "fetch"} /\ wpc[JobEngine] = "idle"

EngineBegins(e) ==
  /\ running # None /\ ~inFlight
  /\ \/ e = AppEngine /\ wpc[e] = "idle"
     \/ e = JobEngine /\ Finding /\ engine # Wanted
  /\ Goes(e, "writing")
  /\ UNCHANGED <<flash, running, inFlight, job, had, again, counts, history>>

(* The rename (streamELFUpload).  The hash is written and the flash synced *)
(* before the marker is cleared: until then the engine is there and the    *)
(* marker of its deletion may be, too.                                     *)
EngineRenamed(e) ==
  /\ wpc[e] \in {"writing", "filling"}
  /\ engine' \in (IF e = JobEngine THEN {Wanted} ELSE {"old", "new"})
  /\ Goes(e, "stamping")
  /\ UNCHANGED <<files, running, marker, pending, inFlight, job, had, again, counts, history>>

(* clearEngineDroppedMarker, whoever's marker it is by now.                *)
ClearsMarker(e) ==
  /\ wpc[e] = "stamping"
  /\ marker' = FALSE
  /\ clash' = (clash \/ \E v \in Writers : wpc[v] \in Dropping)

AppEngineDelivered ==
  /\ ClearsMarker(AppEngine)
  /\ Goes(AppEngine, "done")
  /\ UNCHANGED <<files, engine, running, pending, inFlight, job, had, again, counts, crowded,
                 fault>>

Ends ==
  /\ job' = "none" /\ pending' = (pending /\ job # "resume")
  /\ again' = (again /\ job # "again")

JobEngineDelivered ==
  /\ ClearsMarker(JobEngine)
  /\ Goes(JobEngine, "idle")
  /\ Ends
  /\ UNCHANGED <<files, engine, running, inFlight, had, counts, crowded, fault>>

AppEngineAborts ==
  /\ wpc[AppEngine] \in {"writing", "filling"}
  /\ Goes(AppEngine, "done")
  /\ UNCHANGED <<flash, running, inFlight, job, had, again, counts, history>>

(* ensureEngine returns an error; lost when it is not the network's: the   *)
(* flash is full, an update is in flight, the download does not match.     *)
(* restoreEngineWhenOnline follows a restore the network spoiled, and      *)
(* tries again itself; a resumed update has tries of its own, and gives up *)
(* after them.                                                             *)
Failed(lost) ==
  \/ /\ job = "resume"
     /\ fault' = (fault \/ lost)
     /\ UNCHANGED again
     /\ \/ UNCHANGED <<job, pending>>
        \/ job' = "none" /\ pending' = FALSE
  \/ /\ job # "resume"
     /\ job' = "none" /\ UNCHANGED pending
     /\ fault' = (fault \/ lost)
     /\ again' = ((job = "restore" /\ ~lost) \/ (again /\ ~(job = "again" /\ lost)))

JobEngineAborts ==
  /\ wpc[JobEngine] \in {"writing", "filling"}
  /\ Goes(JobEngine, "idle")
  /\ \E lost \in BOOLEAN : Failed(lost)
  /\ UNCHANGED <<files, engine, marker, running, inFlight, had, counts, crowded, clash>>
-----------------------------------------------------------------------------
(* The jobs that hold selfUpd.busy.                                        *)

(* POST /api/agent/self-update: "install" and "engine".  (Two uploads at   *)
(* once can clear the flag while the agent has yet to restart; another     *)
(* install in that gap is left out.)                                       *)
PostInstall ==
  /\ running = "old" /\ ~inFlight /\ job = "none" /\ wpc[Self] # "restart"
  /\ installs < MaxInstalls /\ installs' = installs + 1
  /\ job' = "agent" /\ pending' = TRUE /\ had' = engine /\ retries' = 0
  /\ wpc' = [wpc EXCEPT ![Self] = "idle"]
  /\ UNCHANGED <<files, engine, marker, running, inFlight, again, cuts, history>>

PostEngine ==
  /\ running # None /\ ~inFlight /\ job = "none" /\ engine # running
  /\ installs < MaxInstalls /\ installs' = installs + 1
  /\ job' = "fetch"
  /\ UNCHANGED <<flash, running, inFlight, wpc, had, again, retries, cuts, history>>

JobRetries ==
  /\ job = "agent" /\ wpc[Self] = "failed"
  /\ retries < MaxRetries /\ retries' = retries + 1
  /\ Goes(Self, "idle")
  /\ UNCHANGED <<flash, running, inFlight, job, had, again, installs, cuts, history>>

(* Mutant of JobFails: the engine is not looked at.                        *)
JobFailsEngineAside ==
  /\ job = "agent" /\ wpc[Self] = "failed"
  /\ pending' = FALSE
  /\ job' = "none"
  /\ UNCHANGED <<files, engine, marker, running, inFlight, wpc, had, again, counts, history>>

(* The update failed for good: an engine that it had, and has no longer,   *)
(* is put back.                                                            *)
JobFails ==
  /\ job = "agent" /\ wpc[Self] = "failed"
  /\ pending' = FALSE
  /\ job' = IF had # None /\ engine = None THEN "restore" ELSE "none"
  /\ UNCHANGED <<files, engine, marker, running, inFlight, wpc, had, again, counts, history>>

JobSucceeds ==
  /\ job = "agent" /\ wpc[Self] = "restart"
  /\ job' = "none"
  /\ UNCHANGED <<flash, running, inFlight, wpc, had, again, counts, history>>

(* ensureEngine finds the engine there, or an update in flight.            *)
JobFindsEngine ==
  /\ Finding /\ engine = Wanted
  /\ Ends
  /\ UNCHANGED <<files, engine, marker, running, inFlight, wpc, had, counts, history>>

JobRefused ==
  /\ Finding /\ engine # Wanted /\ inFlight
  /\ Failed(TRUE)
  /\ UNCHANGED <<files, engine, marker, running, inFlight, wpc, had, counts, crowded, clash>>

(* restoreEngineWhenOnline: any engine will do; else it claims the job.    *)
TriesAgain ==
  /\ again /\ job = "none"
  /\ \/ engine # None /\ again' = FALSE /\ UNCHANGED job
     \/ engine = None /\ job' = "again" /\ UNCHANGED again
  /\ UNCHANGED <<flash, running, inFlight, wpc, had, counts, history>>

JobStep ==
  \/ JobRetries \/ JobFails \/ JobSucceeds \/ JobFindsEngine \/ JobRefused \/ TriesAgain
  \/ EngineBegins(JobEngine) \/ JobEngineDelivered

AgentStep(u) ==
  AgentAborts(u) \/ AgentReceived(u) \/ AgentVerified(u) \/ AgentNotVerified(u) \/ AgentRestarts(u)

Next ==
  \/ \E w \in Writers : MarksDrop(w) \/ Drops(w)
  \/ \E u \in Agents : AgentBegins(u) \/ AgentStep(u)
  \/ \E e \in Engines : EngineRenamed(e)
  \/ EngineBegins(AppEngine) \/ AppEngineDelivered \/ AppEngineAborts \/ JobEngineAborts
  \/ PostInstall \/ PostEngine \/ JobStep \/ PowerCut

(* A process that can go on does; the network is back before the engine's  *)
(* return is given up (engineRestoreWaitFor).                              *)
Fairness ==
  /\ WF_vars(JobStep)
  /\ WF_vars(AgentBegins(Self)) /\ WF_vars(AgentStep(Self))
  /\ \A w \in Writers : WF_vars(Drops(w))
  /\ SF_vars(EngineRenamed(JobEngine))

Spec == Init /\ [][Next]_vars /\ Fairness
-----------------------------------------------------------------------------
(* The name the agent is started from always belongs to a complete file,   *)
(* through broken links, full flash and power cuts, as long as one agent   *)
(* at a time is uploaded (receiveAgentBinary, "atomically").               *)
InstalledIsWhole == ~crowded => dst \in whole

(* An engine that was deleted is known to have been deleted, also after a  *)
(* power cut between the two steps (reclaimSpotifyEngine).  Not so once a  *)
(* deletion overlapped another one, or the end of a delivery, which clears *)
(* the marker although the engine it delivered may be gone again.          *)
DroppedIsTold == ~clash /\ engine = None => marker

(* The same without the exceptions: the marker tells an engine that was    *)
(* deleted from one never installed (agent_admin.go, engineDroppedMarker-  *)
(* Path).  False: a delivery renames its engine, an agent upload leaves    *)
(* the marker and deletes that engine, the delivery clears the marker.     *)
AlwaysTold == engine = None => marker

(* A self-update that fails and has cost the speaker its engine puts one   *)
(* back, whatever the network does for a while, unless the power goes or   *)
(* another update gets in the way.  Any failure that is not the network's  *)
(* (fault) is excused, not only those nothing can be done about.           *)
EngineComesBack ==
  (job = "agent" /\ wpc[Self] = "failed" /\ had # None /\ engine = None)
    ~> (engine # None \/ running # "old" \/ cuts > 0 \/ fault \/ crowded)

(* The same without the exceptions of InstalledIsWhole: receiveAgentBinary *)
(* is documented to write the binary atomically.                           *)
AlwaysWhole == dst \in whole
=============================================================================
