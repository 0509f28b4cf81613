---------------------------- MODULE DurableFile ----------------------------
(***************************************************************************)
(* What internal/atomicfile promises its callers, with no file system in   *)
(* sight: one file, whose content is at every instant one complete version *)
(* (or Absent, while it was never written), seen twice: "current" is what  *)
(* a reader gets now, "saved" is what a reader would get if the speaker    *)
(* cut its power now and booted again.                                     *)
(***************************************************************************)
CONSTANTS Data,    \* the versions a caller may write
          Absent   \* "there is no such file"

VARIABLES current, saved

durableVars == <<current, saved>>

Version == Data \cup {Absent}

DurableInit == current = Absent /\ saved = Absent

(* A WriteFile call replaces the whole content at once.                    *)
Replace(d) ==
  /\ current' = d
  /\ UNCHANGED saved

(* The version readers see becomes the one a power cut leaves behind.      *)
Persist ==
  /\ saved' = current
  /\ UNCHANGED current

(* The power goes and the speaker boots: readers see the saved version.    *)
PowerLoss ==
  /\ current' = saved
  /\ UNCHANGED saved

DurableNext == (\E d \in Data : Replace(d)) \/ Persist \/ PowerLoss

DurableSpec == DurableInit /\ [][DurableNext]_durableVars
=============================================================================
