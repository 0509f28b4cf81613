--------------------------- MODULE MCPresetStore ---------------------------
(* Small speakers for PresetStore: two keys, a library track a whose       *)
(* server is at one of two addresses, and a station b; a, or a and b, are  *)
(* on keys to begin with.                                                  *)
EXTENDS PresetStore, TLC

CONSTANTS a, b, a1, a2, b1, r1, r2

(* Requests are alike; every property is an invariant.                     *)
RequestSymmetry == Permutations(Requests)

Plays == a1 :> a @@ a2 :> a @@ b1 :> b
P(x) == [stream |-> x, name |-> "given"]

OneOrTwo == {[s \in Slots |-> IF s = 1 THEN P(a1) ELSE NoPreset],
             [s \in Slots |-> IF s = 1 THEN P(a1) ELSE IF s = 2 THEN P(b1) ELSE NoPreset]}
OnlyOne == {[s \in Slots |-> IF s = 1 THEN P(a1) ELSE NoPreset]}
=============================================================================
