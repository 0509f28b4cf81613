-------------------------- MODULE MCQueuePlayback --------------------------
(* QueuePlayback with the kinds of request each run's requests may be.      *)
EXTENDS QueuePlayback, TLC

CONSTANTS r1, r2, r3

AnyStart == [r \in Requests |-> {"folder", "station", "next", "prev"}]
AnyKind == [r \in Requests |-> Kinds]
FolderThenSkip == (r1 :> {"folder"}) @@ (r2 :> {"next"})
FolderThenAny == (r1 :> {"folder"}) @@ (r2 :> {"next", "prev", "station"})
FolderThenStop == (r1 :> {"folder"}) @@ (r2 :> {"stop"})
FolderThenStation == (r1 :> {"folder"}) @@ (r2 :> {"station"})
FolderStationFolder == (r1 :> {"folder"}) @@ (r2 :> {"station"}) @@ (r3 :> {"folder"})
TwoFolders == [r \in Requests |-> {"folder"}]

RequestSymmetry == Permutations(Requests)

FourGens == 1..4
FiveGens == 1..5
=============================================================================
