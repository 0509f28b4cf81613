--------------------------- MODULE MCRecentStore ---------------------------
(* Small histories for RecentStore: card k1 played from two sources and     *)
(* with two tracks, card k2 from one; two goroutines that flush.           *)
EXTENDS RecentStore

CONSTANTS k1, k2, radio, spotify, t1, t2, f1, f2

Play(k, s, t) == [key |-> k, source |-> s, track |-> t]

BothCards ==
  {Play(k1, radio, t1), Play(k1, radio, t2), Play(k1, spotify, t1), Play(k2, radio, t1)}
=============================================================================
