---------------------------- MODULE MCAtomicFile ----------------------------
(* Two goroutines and two versions; three inodes let the target, its        *)
(* predecessor still referenced from flash and a temp file coexist.         *)
EXTENDS AtomicFile, TLC

CONSTANTS w1, w2, d1, d2, i1, i2, i3

MCWriter == {w1, w2}
MCData == {d1, d2}
MCInode == {i1, i2, i3}
MCSymmetry == Permutations(MCWriter) \cup Permutations(MCData) \cup Permutations(MCInode)
=============================================================================
