---------------------------- MODULE MCWlanGuard -----------------------------
(***************************************************************************)
(* Instances of WlanGuard for TLC: two networks, one of them the speaker's *)
(* home, and requests that may be told apart by nothing but their name.    *)
(***************************************************************************)
EXTENDS WlanGuard, TLC

CONSTANTS home, guest, r1, r2

AnyRequest == Permutations(Requests)
=============================================================================
