-------------------------- MODULE PlayQueueProofs --------------------------
(* Proofs about PlayQueue, for folders of any length.                       *)
EXTENDS PlayQueue, TLAPS

(* Whatever shuffle decides, buildOrder returns a permutation, with the     *)
(* wanted track in front when it shuffles and in place when it does not.    *)
LEMMA BuildOrderPermutes ==
  ASSUME NEW m \in Nat, NEW keepFirst, NEW shuffled \in BOOLEAN,
         NEW f \in BuildOrder(m, keepFirst, shuffled)
  PROVE  /\ PermutationOf(f, m)
         /\ shuffled => f[1] = keepFirst
         /\ ~shuffled => SourceOrder(f, m)
BY DEF BuildOrder, PermutationOf, SourceOrder

(* Moving the first track behind the last keeps a permutation one.          *)
LEMMA RotatedPermutes ==
  ASSUME NEW m \in Nat \ {0}, NEW f, PermutationOf(f, m)
  PROVE  PermutationOf(Rotated(f, m), m)
<1> DEFINE g == Rotated(f, m)
           succ(i) == IF i < m THEN i + 1 ELSE 1
<1>0. /\ \A i \in 1..m : succ(i) \in 1..m
      /\ \A i, j \in 1..m : succ(i) = succ(j) => i = j
  OBVIOUS
<1>1. g = [i \in 1..m |-> f[succ(i)]]
  BY DEF Rotated
<1>2. \A i \in 1..m : g[i] = f[succ(i)]
  BY <1>1
<1> HIDE DEF g, succ
<1>3. /\ g \in [1..m -> 1..m]
      /\ \A i, j \in 1..m : g[i] = g[j] => i = j
  <2>1. f \in [1..m -> 1..m] /\ \A i, j \in 1..m : f[i] = f[j] => i = j
    BY DEF PermutationOf
  <2>2. \A i \in 1..m : f[succ(i)] \in 1..m
    BY <1>0, <2>1
  <2> QED
    BY <1>0, <1>1, <1>2, <2>1, <2>2
<1>4. ASSUME NEW t \in 1..m PROVE \E i \in 1..m : g[i] = t
  <2>1. PICK k \in 1..m : f[k] = t
    BY DEF PermutationOf
  <2>2. CASE k = 1
    BY <1>2, <2>1, <2>2 DEF succ
  <2>3. CASE k > 1
    BY <1>2, <2>1, <2>3 DEF succ
  <2> QED
    BY <2>2, <2>3
<1> QED
  BY <1>3, <1>4 DEF PermutationOf, g

(* The order of the lap after a wrap.                                       *)
LEMMA NextLapPermutes ==
  ASSUME QueueInv, n > 0, NEW f \in NextLap
  PROVE  PermutationOf(f, n) /\ (~shuffle => SourceOrder(f, n))
<1>1. n \in Nat \ {0}
  BY MaxTracksAssumption DEF QueueInv, TypeOK
<1>2. CASE shuffle
  <2>1. PICK g \in BuildOrder(n, order[1], TRUE) : f = Rotated(g, n)
    BY <1>2 DEF NextLap
  <2> QED
    BY <1>1, <1>2, <2>1, BuildOrderPermutes, RotatedPermutes
<1>3. CASE ~shuffle
  BY <1>3 DEF NextLap, QueueInv, WellFormed, InOrder
<1> QED
  BY <1>2, <1>3 DEF QueueInv, TypeOK
-----------------------------------------------------------------------------
(* The tracks between two places of an order: none, one, one more.          *)
LEMMA SpanNone == \A f : Span(f, 1, 0) = {}
BY DEF Span

LEMMA SpanOne == \A f : \A a \in Nat : Span(f, a, a) = {f[a]}
BY DEF Span

LEMMA SpanExtend ==
  \A f : \A a, b \in Nat : a <= b + 1 => Span(f, a, b + 1) = Span(f, a, b) \cup {f[b + 1]}
BY DEF Span

LEMMA SpanSource ==
  ASSUME NEW f, NEW m \in Nat, SourceOrder(f, m), NEW b \in Nat, b <= m
  PROVE  Span(f, 1, b) = 1..b
BY DEF Span, SourceOrder

(* A permutation does not return to a place it passed, and its two parts    *)
(* before and from any place make up the whole list.                        *)
LEMMA SpanFresh ==
  ASSUME NEW m \in Nat, NEW f, PermutationOf(f, m), NEW b \in 1..m, b < m, NEW a \in 1..b
  PROVE  f[b + 1] \notin Span(f, a, b)
<1>1. \A k \in a..b : k \in 1..m /\ b + 1 \in 1..m /\ k # b + 1
  OBVIOUS
<1>2. \A i, j \in 1..m : f[i] = f[j] => i = j
  BY DEF PermutationOf
<1> QED
  BY <1>1, <1>2 DEF Span

LEMMA SpanCovers ==
  ASSUME NEW m \in Nat, NEW f, PermutationOf(f, m), NEW a \in 1..m
  PROVE  Span(f, a, m) \cup Span(f, 1, a - 1) = 1..m
<1>1. \A k \in 1..m : f[k] \in 1..m
  BY DEF PermutationOf
<1>2. \A k \in 1..m : k \in a..m \/ k \in 1..(a - 1)
  OBVIOUS
<1>3. \A k : k \in a..m \/ k \in 1..(a - 1) => k \in 1..m
  OBVIOUS
<1>4. \A t \in 1..m : \E k \in 1..m : f[k] = t
  BY DEF PermutationOf
<1> QED
  BY <1>1, <1>2, <1>3, <1>4 DEF Span

(* An empty queue is well formed.                                           *)
LEMMA EmptyOrder == PermutationOf(<<>>, 0)
BY DEF PermutationOf

(* No queue is loaded yet: the invariant holds.                             *)
LEMMA QueueInvInit == Init => QueueInv
<1> SUFFICES ASSUME Init PROVE QueueInv
  OBVIOUS
<1>1. WellFormed
  BY EmptyOrder DEF Init, WellFormed
<1>2. order \in [1..n -> 1..n]
  BY <1>1 DEF WellFormed, PermutationOf
<1>3. TypeOK
  <2>1. n \in 0..MaxTracks /\ pos \in 0..n
    BY MaxTracksAssumption DEF Init
  <2>2. repeat \in RepeatMode /\ heard \subseteq 1..n /\ skipped \subseteq 1..n
    BY DEF Init, RepeatMode
  <2>3. shuffle \in BOOLEAN /\ active \in BOOLEAN /\ starting \in BOOLEAN /\ untouched \in BOOLEAN
    BY DEF Init
  <2> QED
    BY <1>2, <2>1, <2>2, <2>3 DEF TypeOK
<1>4. LoadedOK
  BY DEF Init, LoadedOK
<1>5. InOrder
  BY DEF Init, InOrder, SourceOrder
<1>6. LapInv
  BY DEF Init, LapInv
<1> QED
  BY <1>1, <1>3, <1>4, <1>5, <1>6 DEF QueueInv

(* A load positions the queue on a track of its own, whatever start index   *)
(* the caller passed.                                                       *)
LEMMA LoadStep ==
  ASSUME QueueInv, NEW m \in 1..MaxTracks, NEW s \in 0..(m + 1),
         NEW sh \in BOOLEAN, NEW r \in RepeatMode, Load(m, s, sh, r)
  PROVE  QueueInv'
<1>1. PICK first \in FirstTracks(m, s, sh) :
        /\ order' \in BuildOrder(m, first, sh)
        /\ pos' = IF sh THEN 1 ELSE first
        /\ heard' = {first}
        /\ skipped' = IF sh THEN {} ELSE 1..(first - 1)
  BY DEF Load
<1>2. /\ n' = m /\ repeat' = r /\ shuffle' = sh /\ active' = TRUE /\ starting' = TRUE
      /\ loaded' = State' /\ untouched' = TRUE
  BY DEF Load
<1>3. m \in Nat \ {0} /\ m <= MaxTracks /\ first \in 1..m
  BY MaxTracksAssumption DEF FirstTracks
<1>4. PermutationOf(order', m) /\ (sh => order'[1] = first) /\ (~sh => SourceOrder(order', m))
  BY <1>1, <1>3, BuildOrderPermutes
<1>5. pos' \in 1..m
  BY <1>1, <1>3
<1>6. WellFormed' /\ InOrder'
  BY <1>2, <1>3, <1>4, <1>5 DEF WellFormed, InOrder
<1>7. TypeOK'
  <2>1. order' \in [1..m -> 1..m]
    BY <1>4 DEF PermutationOf
  <2>2. n' \in 0..MaxTracks /\ pos' \in 0..n'
    BY <1>2, <1>3, <1>5
  <2>3. heard' \subseteq 1..m /\ skipped' \subseteq 1..m
    BY <1>1, <1>3
  <2>4. shuffle' \in BOOLEAN /\ active' \in BOOLEAN /\ starting' \in BOOLEAN /\ untouched' \in BOOLEAN
    BY <1>2
  <2> QED
    BY <1>2, <2>1, <2>2, <2>3, <2>4 DEF TypeOK
<1>8. LoadedOK'
  BY <1>1, <1>2, <1>3, <1>4, <1>5 DEF LoadedOK, State
<1>9. LapInv'
  <2>1. CASE sh
    <3>1. /\ pos' = 1 /\ heard' = Span(order', 1, pos') /\ skipped' = Span(order', 1, 1 - 1)
      BY <1>1, <1>4, <2>1, SpanOne, SpanNone
    <3> QED
      BY <3>1 DEF LapInv
  <2>2. CASE ~sh
    <3>1. /\ pos' = first /\ heard' = Span(order', first, pos')
          /\ skipped' = Span(order', 1, first - 1)
      BY <1>1, <1>3, <1>4, <2>2, SpanOne, SpanSource DEF SourceOrder
    <3> QED
      BY <1>3, <3>1 DEF LapInv
  <2> QED
    BY <2>1, <2>2
<1> QED
  BY <1>6, <1>7, <1>8, <1>9 DEF QueueInv

(* A start that found its queue gone puts a well-formed one back.           *)
LEMMA FinishStartStep ==
  ASSUME QueueInv, FinishStart
  PROVE  QueueInv'
<1>1. CASE active
  <2>1. /\ UNCHANGED <<n, order, pos, repeat, shuffle, active, heard, skipped, untouched>>
       /\ starting' = FALSE
    BY <1>1 DEF FinishStart, queueVars, historyVars
  <2>2. TypeOK' /\ LoadedOK'
    BY <2>1 DEF QueueInv, TypeOK, LoadedOK
  <2>3. WellFormed' /\ InOrder' /\ LapInv'
    BY <2>1 DEF QueueInv, WellFormed, InOrder, LapInv
  <2> QED
    BY <2>2, <2>3 DEF QueueInv
<1>2. CASE ~active
  <2>1. /\ n' = loaded.n /\ order' = loaded.order /\ pos' = loaded.pos
        /\ repeat' = loaded.repeat /\ shuffle' = loaded.shuffle /\ active' = TRUE
        /\ heard' = {order'[pos']} /\ skipped' = IF shuffle' THEN {} ELSE 1..(pos' - 1)
        /\ starting' = FALSE /\ untouched' = TRUE
    BY <1>2 DEF FinishStart, Current
  <2>2. /\ n' \in 1..MaxTracks /\ PermutationOf(order', n') /\ pos' \in 1..n'
        /\ repeat' \in RepeatMode /\ shuffle' \in BOOLEAN
        /\ IF shuffle' THEN pos' = 1 ELSE SourceOrder(order', n')
    BY <2>1 DEF FinishStart, QueueInv, LoadedOK
  <2>3. WellFormed' /\ InOrder'
    BY <2>2, MaxTracksAssumption DEF WellFormed, InOrder
  <2>4. LoadedOK'
    BY <2>1 DEF LoadedOK
  <2>5. order' \in [1..n' -> 1..n']
    BY <2>2 DEF PermutationOf
  <2>6. heard' \subseteq 1..n' /\ skipped' \subseteq 1..n'
    BY <2>1, <2>2, <2>5, MaxTracksAssumption
  <2>7. TypeOK'
    <3>1. n' \in 0..MaxTracks /\ pos' \in 0..n'
      BY <2>2, MaxTracksAssumption
    <3> QED
      BY <2>1, <2>2, <2>5, <2>6, <3>1 DEF TypeOK
  <2>8. LapInv'
    <3>1. pos' \in Nat \ {0} /\ heard' = Span(order', pos', pos')
      BY <2>1, <2>2, SpanOne, MaxTracksAssumption
    <3>2. CASE shuffle'
      <4>1. pos' = 1 /\ heard' = Span(order', 1, pos') /\ skipped' = Span(order', 1, 1 - 1)
        BY <2>1, <2>2, <3>1, <3>2, SpanNone
      <4> QED
        BY <4>1 DEF LapInv
    <3>3. CASE ~shuffle'
      <4>1. skipped' = Span(order', 1, pos' - 1)
        BY <2>1, <2>2, <3>3, SpanSource, MaxTracksAssumption
      <4> QED
        BY <2>2, <3>1, <4>1, MaxTracksAssumption DEF LapInv
    <3> QED
      BY <3>2, <3>3
  <2> QED
    BY <2>3, <2>4, <2>7, <2>8 DEF QueueInv
<1> QED
  BY <1>1, <1>2

(* Moving forward, wrapped or not, stays inside a well-formed order.        *)
LEMMA ForwardStep ==
  ASSUME QueueInv, active, NEW wrap, Forward(wrap)
  PROVE  /\ PermutationOf(order', n) /\ (~shuffle => SourceOrder(order', n))
         /\ n > 0 /\ pos' \in 1..n /\ active' \in BOOLEAN
         /\ heard' \subseteq 1..n /\ skipped' \subseteq 1..n
<1>1. /\ n \in Nat \ {0} /\ pos \in 1..n /\ PermutationOf(order, n)
      /\ (~shuffle => SourceOrder(order, n)) /\ heard \subseteq 1..n /\ skipped \subseteq 1..n
  BY MaxTracksAssumption DEF QueueInv, TypeOK, WellFormed, InOrder
<1>2. CASE pos < n /\ pos' = pos + 1 /\ heard' = heard \cup {Current'}
           /\ UNCHANGED <<order, active, skipped>>
  <2>1. pos' \in 1..n
    BY <1>1, <1>2
  <2>2. Current' \in 1..n
    BY <1>1, <1>2, <2>1 DEF Current, PermutationOf
  <2>3. active' \in BOOLEAN /\ heard' \subseteq 1..n /\ skipped' \subseteq 1..n
    BY <1>1, <1>2, <2>2 DEF QueueInv, TypeOK
  <2>4. PermutationOf(order', n) /\ (~shuffle => SourceOrder(order', n))
    BY <1>1, <1>2
  <2> QED
    BY <1>1, <2>1, <2>3, <2>4
<1>3. CASE pos = n /\ wrap /\ order' \in NextLap /\ pos' = 1 /\ heard' = {Current'}
           /\ skipped' = {} /\ UNCHANGED active
  <2>1. PermutationOf(order', n) /\ (~shuffle => SourceOrder(order', n))
    BY <1>1, <1>3, NextLapPermutes
  <2>2. Current' \in 1..n
    BY <1>1, <1>3, <2>1 DEF Current, PermutationOf
  <2>3. active' \in BOOLEAN /\ heard' \subseteq 1..n /\ skipped' \subseteq 1..n
    BY <1>1, <1>3, <2>2 DEF QueueInv, TypeOK
  <2> QED
    BY <1>1, <1>3, <2>1, <2>3
<1>4. CASE pos = n /\ ~wrap /\ active' = FALSE /\ UNCHANGED <<order, pos, heard, skipped>>
  <2>1. active' \in BOOLEAN /\ pos' \in 1..n
    BY <1>1, <1>4
  <2>2. heard' \subseteq 1..n /\ skipped' \subseteq 1..n
    BY <1>1, <1>4
  <2>3. PermutationOf(order', n) /\ (~shuffle => SourceOrder(order', n))
    BY <1>1, <1>4
  <2> QED
    BY <1>1, <2>1, <2>2, <2>3
<1> QED
  BY <1>2, <1>3, <1>4 DEF Forward

(* Where a forward step lands: one place on, or past the end of the list.   *)
LEMMA ForwardLands ==
  ASSUME NEW wrap, Forward(wrap), n \in Nat \ {0}, pos \in 1..n
  PROVE  /\ pos < n => pos' = pos + 1 /\ order' = order /\ active' = active
         /\ pos = n => ~(pos' > pos)
         /\ pos = n /\ wrap => pos' = 1 /\ order' \in NextLap /\ active' = active
<1>1. CASE pos < n /\ pos' = pos + 1 /\ UNCHANGED <<order, active, skipped>>
  BY <1>1
<1>2. CASE pos = n /\ wrap /\ order' \in NextLap /\ pos' = 1 /\ UNCHANGED active
  BY <1>2
<1>3. CASE pos = n /\ ~wrap /\ UNCHANGED pos
  BY <1>3
<1> QED
  BY <1>1, <1>2, <1>3 DEF Forward

(* A track that ended on its own moves the queue on, and an untouched lap   *)
(* has heard one place more.                                                *)
LEMMA NaturalEndStep ==
  ASSUME QueueInv, NaturalEnd
  PROVE  QueueInv'
<1>1. /\ UNCHANGED <<n, repeat, shuffle, starting, loaded>> /\ active /\ starting = FALSE
  BY DEF NaturalEnd, QueueInv, TypeOK
<1>2. /\ n \in Nat \ {0} /\ pos \in 1..n
  BY <1>1, MaxTracksAssumption DEF QueueInv, TypeOK, WellFormed
<1>3. LoadedOK'
  BY <1>1 DEF LoadedOK
<1>4. CASE repeat = "one"
  <2>1. UNCHANGED <<order, pos, active, heard, skipped, untouched>>
    BY <1>4 DEF NaturalEnd, historyVars
  <2>2. TypeOK'
    BY <1>1, <2>1 DEF QueueInv, TypeOK
  <2>3. WellFormed' /\ InOrder' /\ LapInv'
    BY <1>1, <2>1 DEF QueueInv, WellFormed, InOrder, LapInv
  <2> QED
    BY <1>3, <2>2, <2>3 DEF QueueInv
<1>5. CASE repeat # "one"
  <2>1. Forward(repeat = "all") /\ untouched' = (untouched \/ (pos = n /\ active'))
    BY <1>5 DEF NaturalEnd
  <2>2. /\ PermutationOf(order', n) /\ (~shuffle => SourceOrder(order', n))
        /\ n > 0 /\ pos' \in 1..n /\ active' \in BOOLEAN
        /\ heard' \subseteq 1..n /\ skipped' \subseteq 1..n
    BY <1>1, <2>1, ForwardStep
  <2>3. TypeOK'
    <3>1. order' \in [1..n -> 1..n]
      BY <2>2 DEF PermutationOf
    <3>2. pos' \in 0..n
      BY <1>2, <2>2
    <3>3. untouched' \in BOOLEAN
      BY <2>1
    <3> QED
      BY <1>1, <2>2, <3>1, <3>2, <3>3 DEF QueueInv, TypeOK
  <2>4. WellFormed' /\ InOrder'
    BY <1>1, <2>2 DEF WellFormed, InOrder
  <2>5. LapInv'
    <3> SUFFICES ASSUME untouched' PROVE LapInv'
      BY DEF LapInv
    <3>1. CASE pos < n /\ pos' = pos + 1 /\ heard' = heard \cup {Current'}
               /\ UNCHANGED <<order, active, skipped>>
      <4>0. pos # n
        BY <1>2, <3>1
      <4>1. untouched
        BY <2>1, <4>0
      <4>2. PICK f \in 1..pos : heard = Span(order, f, pos) /\ skipped = Span(order, 1, f - 1)
        BY <1>2, <4>1 DEF QueueInv, LapInv
      <4>3. heard' = Span(order', f, pos')
        BY <1>2, <3>1, <4>2, SpanExtend DEF Current
      <4> QED
        BY <1>2, <3>1, <4>2, <4>3 DEF LapInv
    <3>2. CASE pos = n /\ pos' = 1 /\ heard' = {Current'} /\ skipped' = {}
      <4>1. heard' = Span(order', 1, pos') /\ skipped' = Span(order', 1, 1 - 1)
        BY <3>2, SpanOne, SpanNone DEF Current
      <4> QED
        BY <3>2, <4>1 DEF LapInv
    <3>3. CASE pos = n /\ active' = FALSE /\ UNCHANGED <<order, pos, heard, skipped>>
      <4>1. untouched
        BY <2>1, <3>3
      <4> QED
        BY <1>1, <3>3, <4>1 DEF QueueInv, LapInv
    <3> QED
      BY <2>1, <3>1, <3>2, <3>3 DEF Forward
  <2> QED
    BY <1>3, <2>3, <2>4, <2>5 DEF QueueInv
<1> QED
  BY <1>4, <1>5

(* A manual skip, forward or back.                                          *)
LEMMA SkipStep ==
  ASSUME QueueInv, SkipNext \/ SkipPrev
  PROVE  QueueInv'
<1>1. /\ UNCHANGED <<n, repeat, shuffle, starting, loaded>> /\ active /\ untouched' = FALSE
  BY DEF SkipNext, SkipPrev
<1>2. /\ n \in Nat \ {0} /\ pos \in 1..n /\ PermutationOf(order, n)
      /\ (~shuffle => SourceOrder(order, n)) /\ heard \subseteq 1..n /\ skipped \subseteq 1..n
  BY <1>1, MaxTracksAssumption DEF QueueInv, TypeOK, WellFormed, InOrder
<1>3. /\ PermutationOf(order', n) /\ (~shuffle => SourceOrder(order', n))
      /\ pos' \in 1..n /\ active' \in BOOLEAN
      /\ heard' \subseteq 1..n /\ skipped' \subseteq 1..n
  <2>1. CASE SkipNext
    BY <1>1, <2>1, ForwardStep DEF SkipNext
  <2>2. CASE SkipPrev
    <3>1. order' = order /\ active' = active /\ skipped' = skipped
      BY <2>2 DEF SkipPrev
    <3>2. pos' \in 1..n
      BY <1>2, <2>2 DEF SkipPrev
    <3>3. heard' \subseteq 1..n
      <4>1. heard' = (heard \ {order[pos]}) \cup {order'[pos']}
        BY <2>2 DEF SkipPrev, Current
      <4>2. order'[pos'] \in 1..n
        BY <1>2, <3>1, <3>2 DEF PermutationOf
      <4> QED
        BY <1>2, <4>1, <4>2
    <3>4. active' \in BOOLEAN
      BY <3>1 DEF QueueInv, TypeOK
    <3> QED
      BY <1>2, <3>1, <3>2, <3>3, <3>4
  <2> QED
    BY <2>1, <2>2
<1>4. TypeOK'
  <2>1. order' \in [1..n -> 1..n]
    BY <1>3 DEF PermutationOf
  <2>2. pos' \in 0..n
    BY <1>2, <1>3
  <2> QED
    BY <1>1, <1>3, <2>1, <2>2 DEF QueueInv, TypeOK
<1>5. WellFormed' /\ InOrder'
  BY <1>1, <1>2, <1>3 DEF WellFormed, InOrder
<1>6. LoadedOK' /\ LapInv'
  BY <1>1 DEF QueueInv, LoadedOK, LapInv
<1> QED
  BY <1>4, <1>5, <1>6 DEF QueueInv

(* A shuffle toggle rebuilds the order around the current track.            *)
LEMMA SetShuffleStep ==
  ASSUME QueueInv, NEW on \in BOOLEAN, SetShuffle(on)
  PROVE  QueueInv' /\ (active => Current' = Current)
<1>1. /\ UNCHANGED <<n, repeat, active, starting, loaded, heard, skipped>>
      /\ shuffle' = on /\ untouched' = FALSE
  BY DEF SetShuffle
<1>2. n \in Nat /\ (active => n > 0)
  BY MaxTracksAssumption DEF QueueInv, TypeOK, WellFormed
<1>3. LoadedOK' /\ LapInv'
  BY <1>1 DEF QueueInv, LoadedOK, LapInv
<1>4. CASE n = 0
  <2>1. order' = order /\ pos' = pos
    BY <1>4 DEF SetShuffle
  <2>2. WellFormed' /\ InOrder'
    BY <1>1, <1>4, <2>1 DEF QueueInv, WellFormed, InOrder, SourceOrder
  <2>3. TypeOK'
    BY <1>1, <2>1 DEF QueueInv, TypeOK
  <2> QED
    BY <1>2, <1>3, <1>4, <2>2, <2>3 DEF QueueInv
<1>5. CASE n # 0
  <2> DEFINE cur == IF active THEN Current ELSE 1
  <2>1. order' \in BuildOrder(n, cur, on) /\ pos' = IF on THEN 1 ELSE cur
    BY <1>5 DEF SetShuffle
  <2>2. cur \in 1..n
    BY <1>2, <1>5 DEF QueueInv, WellFormed, PermutationOf, Current
  <2>3. PermutationOf(order', n) /\ (on => order'[1] = cur) /\ (~on => SourceOrder(order', n))
    BY <1>2, <2>1, BuildOrderPermutes
  <2>4. pos' \in 1..n /\ order'[pos'] = cur
    BY <1>2, <1>5, <2>1, <2>2, <2>3 DEF SourceOrder
  <2> HIDE DEF cur
  <2>5. WellFormed' /\ InOrder'
    BY <1>1, <1>2, <1>5, <2>3, <2>4 DEF WellFormed, InOrder
  <2>6. TypeOK'
    <3>1. order' \in [1..n -> 1..n]
      BY <2>3 DEF PermutationOf
    <3>2. pos' \in 0..n
      BY <1>2, <2>4
    <3> QED
      BY <1>1, <3>1, <3>2 DEF QueueInv, TypeOK
  <2>7. active => Current' = Current
    BY <2>4 DEF Current, cur
  <2> QED
    BY <1>3, <2>5, <2>6, <2>7 DEF QueueInv
<1> QED
  BY <1>4, <1>5

(* Setting the repeat mode and clearing.                                    *)
LEMMA SetRepeatStep ==
  ASSUME QueueInv, NEW r \in RepeatMode, SetRepeat(r)
  PROVE  QueueInv'
<1>1. /\ UNCHANGED <<n, order, pos, shuffle, active, starting, loaded, heard, skipped, untouched>>
      /\ repeat' = r
  BY DEF SetRepeat, historyVars
<1>2. TypeOK' /\ LoadedOK'
  BY <1>1 DEF QueueInv, TypeOK, LoadedOK
<1>3. WellFormed' /\ InOrder' /\ LapInv'
  BY <1>1 DEF QueueInv, WellFormed, InOrder, LapInv
<1> QED
  BY <1>2, <1>3 DEF QueueInv

LEMMA ClearStep ==
  ASSUME QueueInv, Clear
  PROVE  QueueInv'
<1>1. /\ n' = 0 /\ order' = <<>> /\ pos' = 0 /\ active' = FALSE
      /\ heard' = {} /\ skipped' = {} /\ untouched' = TRUE
      /\ UNCHANGED <<repeat, shuffle, starting, loaded>>
  BY DEF Clear
<1>2. WellFormed'
  BY <1>1, EmptyOrder DEF WellFormed
<1>3. TypeOK'
  <2>1. order' \in [1..n' -> 1..n'] /\ n' \in 0..MaxTracks /\ pos' \in 0..n'
    BY <1>1, <1>2, MaxTracksAssumption DEF WellFormed, PermutationOf
  <2> QED
    BY <1>1, <2>1 DEF QueueInv, TypeOK
<1>4. LoadedOK' /\ InOrder' /\ LapInv'
  BY <1>1 DEF QueueInv, LoadedOK, InOrder, LapInv, SourceOrder
<1> QED
  BY <1>2, <1>3, <1>4 DEF QueueInv
-----------------------------------------------------------------------------
(* The invariant is inductive.                                              *)
LEMMA QueueInvStep == QueueInv /\ [Next]_vars => QueueInv'
<1> SUFFICES ASSUME QueueInv, [Next]_vars PROVE QueueInv'
  OBVIOUS
<1>1. CASE UNCHANGED vars
  <2>1. UNCHANGED <<n, order, pos, repeat, shuffle, active, starting, loaded, heard, skipped, untouched>>
    BY <1>1 DEF vars, queueVars, historyVars
  <2>2. TypeOK' /\ LoadedOK'
    BY <2>1 DEF QueueInv, TypeOK, LoadedOK
  <2>3. WellFormed' /\ InOrder' /\ LapInv'
    BY <2>1 DEF QueueInv, WellFormed, InOrder, LapInv
  <2> QED
    BY <2>2, <2>3 DEF QueueInv
<1> QED
  BY <1>1, LoadStep, FinishStartStep, NaturalEndStep, SkipStep, SetShuffleStep, SetRepeatStep,
     ClearStep DEF Next

(* Folders of every length keep a well-formed order, through every          *)
(* operation.                                                               *)
THEOREM QueueInvariant == Spec => []QueueInv
BY QueueInvInit, QueueInvStep, PTL DEF Spec

THEOREM WellFormedHolds == Spec => []WellFormed
<1>1. QueueInv => WellFormed
  BY DEF QueueInv
<1> QED
  BY QueueInvariant, <1>1, PTL

(* The track peekNatural names is the one the next natural end plays.       *)
THEOREM PeekIsNextHolds == Spec => PeekIsNext
<1>1. QueueInv => (NaturalEnd /\ Peek # 0 => Current' = Peek /\ active')
  <2> SUFFICES ASSUME QueueInv, NaturalEnd, Peek # 0 PROVE Current' = Peek /\ active'
    OBVIOUS
  <2>1. active /\ n \in Nat \ {0} /\ pos \in 1..n
    BY MaxTracksAssumption DEF NaturalEnd, QueueInv, TypeOK, WellFormed
  <2>2. CASE repeat = "one"
    BY <2>1, <2>2 DEF NaturalEnd, Peek, Current
  <2>3. CASE repeat # "one" /\ pos < n
    <3>0. Forward(repeat = "all")
      BY <2>3 DEF NaturalEnd
    <3>1. pos' = pos + 1 /\ order' = order /\ active' = active
      BY <2>1, <2>3, <3>0, ForwardLands
    <3> QED
      BY <2>1, <2>3, <3>1 DEF Peek, Current
  <2>4. CASE repeat = "all" /\ pos = n /\ ~shuffle
    <3>0. Forward(TRUE)
      BY <2>4 DEF NaturalEnd
    <3>1. pos' = 1 /\ order' = order /\ active' = active
      BY <2>1, <2>4, <3>0, ForwardLands DEF NextLap
    <3> QED
      BY <2>1, <2>4, <3>1 DEF Peek, Current
  <2> QED
    BY <2>1, <2>2, <2>3, <2>4 DEF Peek
<1> QED
  BY QueueInvariant, <1>1, PTL DEF PeekIsNext

(* An untouched lap plays every track it meant to play, none of them twice. *)
THEOREM LapPlaysEachOnceHolds == Spec => LapPlaysEachOnce
<1>1. QueueInv => (NaturalEnd /\ untouched /\ repeat # "one" =>
                     IF pos' > pos THEN Current' \notin heard ELSE heard \cup skipped = 1..n)
  <2> SUFFICES ASSUME QueueInv, NaturalEnd, untouched, repeat # "one"
               PROVE  IF pos' > pos THEN Current' \notin heard ELSE heard \cup skipped = 1..n
    OBVIOUS
  <2>0. Forward(repeat = "all")
    BY DEF NaturalEnd
  <2>1. active /\ n \in Nat \ {0} /\ pos \in 1..n /\ PermutationOf(order, n)
    BY MaxTracksAssumption DEF NaturalEnd, QueueInv, TypeOK, WellFormed
  <2>2. PICK f \in 1..pos : heard = Span(order, f, pos) /\ skipped = Span(order, 1, f - 1)
    BY <2>1 DEF QueueInv, LapInv
  <2>3. CASE pos < n
    <3>1. pos' = pos + 1 /\ order' = order
      BY <2>0, <2>1, <2>3, ForwardLands
    <3>2. order[pos + 1] \notin Span(order, f, pos)
      BY <2>1, <2>2, <2>3, SpanFresh
    <3> QED
      BY <2>1, <2>2, <3>1, <3>2 DEF Current
  <2>4. CASE pos = n
    <3>1. ~(pos' > pos)
      BY <2>0, <2>1, <2>4, ForwardLands
    <3>2. Span(order, f, n) \cup Span(order, 1, f - 1) = 1..n
      BY <2>1, <2>2, <2>4, SpanCovers
    <3> QED
      BY <2>2, <2>4, <3>1, <3>2
  <2> QED
    BY <2>1, <2>3, <2>4
<1> QED
  BY QueueInvariant, <1>1, PTL DEF LapPlaysEachOnce

(* Toggling shuffle keeps the current track.                                *)
THEOREM ToggleKeepsTrackHolds == Spec => ToggleKeepsTrack
<1>1. QueueInv => \A on \in BOOLEAN : SetShuffle(on) /\ active => Current' = Current
  BY SetShuffleStep
<1> QED
  BY QueueInvariant, <1>1, PTL DEF ToggleKeepsTrack
=============================================================================
