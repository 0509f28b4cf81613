----------------------------- MODULE PlayQueue -----------------------------
(***************************************************************************)
(* internal/webui/queue.go: the play queue of a music folder.  A queue has *)
(* n tracks, named by their index; "order" is the permutation they play in *)
(* and "pos" the place in it (counted from 1, the code counts from 0).     *)
(* Every operation runs under the queue's mutex, so each is one action.    *)
(*                                                                         *)
(* A start (startQueueLocked) loads the queue, wakes the speaker, which    *)
(* takes seconds, and puts the queue back if something cleared it          *)
(* meanwhile.  Advances and skips hold boxCmdMu as the start does, so they *)
(* wait for it; the mode toggles and a clear do not.                       *)
(***************************************************************************)
EXTENDS Naturals

CONSTANT MaxTracks   \* bound: the longest folder

ASSUME MaxTracksAssumption == MaxTracks \in Nat \ {0}

VARIABLES
  n,         \* number of tracks, 0 for a cleared queue
  order,     \* order[k] is the track played k-th
  pos,       \* place of the current track in order
  repeat,    \* "off", "all", "one"
  shuffle,
  active,
  starting,  \* a start is between its load and its first push
  loaded,    \* the start's local copy of the queue it loaded (save)
  heard,     \* history: tracks that were current since the lap began
  skipped,   \* history: tracks the lap never meant to play (before the chosen one)
  untouched  \* history: the lap runs on its own, nobody skipped or toggled

queueVars == <<n, order, pos, repeat, shuffle, active>>
historyVars == <<heard, skipped, untouched>>
vars == <<queueVars, starting, loaded, historyVars>>

RepeatMode == {"off", "all", "one"}

PermutationOf(f, m) ==
  /\ f \in [1..m -> 1..m]
  /\ \A i, j \in 1..m : f[i] = f[j] => i = j
  /\ \A t \in 1..m : \E i \in 1..m : f[i] = t

Current == order[pos]
State == [n |-> n, order |-> order, pos |-> pos, repeat |-> repeat, shuffle |-> shuffle]
-----------------------------------------------------------------------------
(* Mutant: a shuffled order that does not keep the chosen track in front.   *)
BuildOrderAnyFirst(m, keepFirst, shuffled) ==
  IF shuffled THEN {f \in [1..m -> 1..m] : PermutationOf(f, m)} ELSE {[i \in 1..m |-> i]}

(* buildOrder: the source order, or a random order with keepFirst in front. *)
BuildOrder(m, keepFirst, shuffled) ==
  IF shuffled
    THEN {f \in [1..m -> 1..m] : PermutationOf(f, m) /\ f[1] = keepFirst}
    ELSE {[i \in 1..m |-> i]}

(* A shuffled wrap reshuffles behind the lap's first track, then moves that *)
(* track to the end of the new lap.                                         *)
Rotated(f, m) == [i \in 1..m |-> IF i < m THEN f[i + 1] ELSE f[1]]
NextLap == IF shuffle THEN {Rotated(f, n) : f \in BuildOrder(n, order[1], TRUE)} ELSE {order}

(* Mutant: the wrap's first track named before the reshuffle chose it.      *)
PeekAhead ==
  CASE ~active -> 0
    [] active /\ repeat = "one" -> Current
    [] active /\ repeat # "one" /\ pos < n -> order[pos + 1]
    [] active /\ repeat # "one" /\ pos = n /\ repeat = "all" -> order[1]
    [] OTHER -> 0

(* peekNatural: the track a natural end would play next, 0 for "not known". *)
Peek ==
  CASE ~active -> 0
    [] active /\ repeat = "one" -> Current
    [] active /\ repeat # "one" /\ pos < n -> order[pos + 1]
    [] active /\ repeat # "one" /\ pos = n /\ repeat = "all" /\ ~shuffle -> order[1]
    [] OTHER -> 0

Init ==
  /\ n = 0 /\ order = <<>> /\ pos = 0
  /\ repeat = "off" /\ shuffle = FALSE /\ active = FALSE
  /\ starting = FALSE
  /\ loaded = State
  /\ heard = {} /\ skipped = {} /\ untouched = TRUE

(* The tracks a start may begin on: the chosen one (s in 1..m); a random    *)
(* one when none was chosen (s = 0) and shuffle is on; else the first.      *)
FirstTracks(m, s, shuffled) ==
  IF s \in 1..m THEN {s} ELSE IF s = 0 /\ shuffled THEN 1..m ELSE {1}

(* load, then save: startQueueLocked up to the wake.                        *)
Load(m, s, shuffled, mode) ==
  /\ ~starting
  /\ \E first \in FirstTracks(m, s, shuffled) :
       /\ order' \in BuildOrder(m, first, shuffled)
       /\ pos' = IF shuffled THEN 1 ELSE first
       /\ heard' = {first}
       /\ skipped' = IF shuffled THEN {} ELSE 1..(first - 1)
  /\ n' = m /\ repeat' = mode /\ shuffle' = shuffled /\ active' = TRUE
  /\ starting' = TRUE
  /\ loaded' = State'
  /\ untouched' = TRUE

(* After the wake: a queue that something ended meanwhile is restored.      *)
FinishStart ==
  /\ starting
  /\ starting' = FALSE
  /\ IF active
       THEN UNCHANGED <<queueVars, historyVars>>
       ELSE /\ n' = loaded.n /\ order' = loaded.order /\ pos' = loaded.pos
            /\ repeat' = loaded.repeat /\ shuffle' = loaded.shuffle
            /\ active' = TRUE
            /\ heard' = {Current'}
            /\ skipped' = IF shuffle' THEN {} ELSE 1..(pos' - 1)
            /\ untouched' = TRUE
  /\ UNCHANGED loaded

(* stepForwardLocked.                                                       *)
Forward(wrap) ==
  \/ /\ pos < n
     /\ pos' = pos + 1
     /\ UNCHANGED <<order, active, skipped>>
     /\ heard' = heard \cup {Current'}
  \/ /\ pos = n /\ wrap
     /\ order' \in NextLap
     /\ pos' = 1
     /\ heard' = {Current'}
     /\ skipped' = {}
     /\ UNCHANGED active
  \/ /\ pos = n /\ ~wrap
     /\ active' = FALSE
     /\ UNCHANGED <<order, pos, heard, skipped>>

(* advanceNatural: the current track ended on its own.                      *)
NaturalEnd ==
  /\ active /\ ~starting
  /\ IF repeat = "one"
       THEN UNCHANGED <<order, pos, active, historyVars>>
       ELSE /\ Forward(repeat = "all")
            /\ untouched' = (untouched \/ (pos = n /\ active'))
  /\ UNCHANGED <<n, repeat, shuffle, starting, loaded>>

(* next: a skip leaves repeat-one.                                          *)
SkipNext ==
  /\ active /\ ~starting
  /\ Forward(repeat = "all")
  /\ untouched' = FALSE
  /\ UNCHANGED <<n, repeat, shuffle, starting, loaded>>

(* prev: stays on the first track unless the list repeats.                  *)
SkipPrev ==
  /\ active /\ ~starting
  /\ pos' = IF pos > 1 THEN pos - 1 ELSE IF repeat = "all" THEN n ELSE 1
  /\ untouched' = FALSE
  /\ UNCHANGED <<n, order, repeat, shuffle, active, starting, loaded, skipped>>
  /\ heard' = (heard \ {Current}) \cup {Current'}

(* Mutant: shuffle off leaves the shuffled order standing.                  *)
SetShuffleKeepsOrder(on) ==
  /\ shuffle # on
  /\ shuffle' = on
  /\ IF n = 0 \/ ~on
       THEN UNCHANGED <<order, pos>>
       ELSE order' \in BuildOrder(n, IF active THEN Current ELSE 1, on) /\ pos' = 1
  /\ untouched' = FALSE
  /\ UNCHANGED <<n, repeat, active, starting, loaded, heard, skipped>>

(* setShuffle keeps the current track and rebuilds the order around it.     *)
SetShuffle(on) ==
  /\ shuffle # on
  /\ shuffle' = on
  /\ IF n = 0
       THEN UNCHANGED <<order, pos>>
       ELSE LET cur == IF active THEN Current ELSE 1
            IN  /\ order' \in BuildOrder(n, cur, on)
                /\ pos' = IF on THEN 1 ELSE cur
  /\ untouched' = FALSE
  /\ UNCHANGED <<n, repeat, active, starting, loaded, heard, skipped>>

SetRepeat(mode) ==
  /\ repeat' = mode
  /\ UNCHANGED <<n, order, pos, shuffle, active, starting, loaded, historyVars>>

(* clear (stopQueue); repeat and shuffle keep their value.                  *)
Clear ==
  /\ n' = 0 /\ order' = <<>> /\ pos' = 0 /\ active' = FALSE
  /\ heard' = {} /\ skipped' = {} /\ untouched' = TRUE
  /\ UNCHANGED <<repeat, shuffle, starting, loaded>>

Next ==
  \/ \E m \in 1..MaxTracks : \E s \in 0..(m + 1), sh \in BOOLEAN, r \in RepeatMode : Load(m, s, sh, r)
  \/ FinishStart
  \/ NaturalEnd \/ SkipNext \/ SkipPrev
  \/ \E on \in BOOLEAN : SetShuffle(on)
  \/ \E r \in RepeatMode : SetRepeat(r)
  \/ Clear

Spec == Init /\ [][Next]_vars
-----------------------------------------------------------------------------
TypeOK ==
  /\ n \in 0..MaxTracks
  /\ order \in [1..n -> 1..n]
  /\ pos \in 0..n
  /\ repeat \in RepeatMode
  /\ shuffle \in BOOLEAN /\ active \in BOOLEAN
  /\ starting \in BOOLEAN /\ untouched \in BOOLEAN
  /\ heard \subseteq 1..n /\ skipped \subseteq 1..n

(* "order is a permutation of item indices ... pos indexes into order" (the *)
(* playQueue comment): through every load, skip, wrap, reshuffle, restore   *)
(* and toggle the order plays each track exactly once, and a queue with     *)
(* tracks has a current one.                                                *)
WellFormed ==
  /\ PermutationOf(order, n)
  /\ n > 0 => pos \in 1..n
  /\ active => n > 0

(* The length looked up ahead of time (prearmNextLength) is the length of   *)
(* the track the queue really plays next: whenever peekNatural names one,   *)
(* the natural end that follows lands on it.                                *)
PeekIsNext == [][NaturalEnd /\ Peek # 0 => Current' = Peek /\ active']_vars

(* Left alone, a folder plays every track once: a natural end never returns *)
(* to a track of the same lap, and the list only ends or starts over when   *)
(* every track it meant to play was heard.                                  *)
LapPlaysEachOnce ==
  [][NaturalEnd /\ untouched /\ repeat # "one" =>
       IF pos' > pos THEN Current' \notin heard
                     ELSE heard \cup skipped = 1..n]_vars

(* Toggling shuffle never interrupts the music: the track that plays is     *)
(* still the queue's current one afterwards ("keeping the current track     *)
(* playing", setShuffle).                                                   *)
ToggleKeepsTrack == [][\A on \in BOOLEAN : SetShuffle(on) /\ active => Current' = Current]_vars

(* The inductive invariant behind WellFormed and LapPlaysEachOnce.  A start *)
(* keeps a well-formed copy; without shuffle the order is the source order; *)
(* a lap nobody touched has heard exactly the places from where it began to *)
(* where it is, and skipped those before.                                   *)
SourceOrder(f, m) == \A i \in 1..m : f[i] = i

LoadedOK == starting =>
  /\ loaded.n \in 1..MaxTracks
  /\ PermutationOf(loaded.order, loaded.n)
  /\ loaded.pos \in 1..loaded.n
  /\ loaded.repeat \in RepeatMode /\ loaded.shuffle \in BOOLEAN
  /\ IF loaded.shuffle THEN loaded.pos = 1 ELSE SourceOrder(loaded.order, loaded.n)

InOrder == ~shuffle => SourceOrder(order, n)

Span(f, a, b) == {f[k] : k \in a..b}

LapInv == untouched /\ n > 0 =>
  \E f \in 1..pos : heard = Span(order, f, pos) /\ skipped = Span(order, 1, f - 1)

QueueInv == TypeOK /\ WellFormed /\ LoadedOK /\ InOrder /\ LapInv

(* "The not-yet-played remainder is reshuffled (on) or restored to source   *)
(* order (off)" (setShuffle): a track that already played in this lap does  *)
(* not come up again because shuffle was toggled.                           *)
UpNext == Span(order, pos + 1, n)
ToggleKeepsPlayed ==
  [][\A on \in BOOLEAN : SetShuffle(on) /\ active => UpNext' \cap heard = {}]_vars
=============================================================================
