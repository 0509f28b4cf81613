----------------------------- MODULE MCZoneGroup ----------------------------
(***************************************************************************)
(* Instances of ZoneGroup for TLC.                                         *)
(***************************************************************************)
EXTENDS ZoneGroup, TLC

CONSTANTS r1, r2, m1, m2

Symmetric == Permutations(Requests) \cup Permutations(Members)

(* A permanent group that is there from the start has every member.        *)
MCInit ==
  /\ Init
  /\ standing.who \in {{}, Members}
  /\ zone.permanent => zone.who = Members
MCSpec == MCInit /\ [][Next]_vars
=============================================================================
