----------------------------- MODULE BridgeParts ----------------------------
(***************************************************************************)
(* What axi_async_bridge is made of, for every counter width, tail depth,  *)
(* burst length and slave: the stale sinks discard exactly the orphaned    *)
(* completions, the W tracker mirrors the slave and its filler is exact.   *)
(* Then the constant-level lemmas on the queues the bridge is modelled by: *)
(* the proofs of the bridge cite them so that no step of it has to reason  *)
(* about a sequence and about the bridge at once.                          *)
(***************************************************************************)
EXTENDS Integers, StaleSink, WPad, TLAPS

\* A leaf is Zenon's unless it names the SMT solver.
USE ZenonT(30)

-----------------------------------------------------------------------------
(* The sink *)

\* The counters n and d are right about the o bursts of before the last reset
\* and the g since.  The counts must not wrap, so the bound on the bursts in
\* flight (the slave's acceptance limit) is part of it.
SinkAt(n, d, o, g) == /\ n = o + g /\ d = o
                      /\ n \in 0 .. (SinkMod - 1) /\ d \in 0 .. (SinkMod - 1)
                      /\ o \in Nat /\ g \in Nat /\ o + g <= SlaveCap

\* One edge: a reset event e, a burst forwarded f, a burst completed c.
SinkMove(n, d, o, g, n2, d2, o2, g2, e, f, c) ==
  /\ e \in BOOLEAN /\ f \in BOOLEAN /\ c \in BOOLEAN
  /\ (f => o + g < SlaveCap) /\ (c => o + g > 0)
  /\ n2 = (n + One(f) + SinkMod - One(c)) % SinkMod
  /\ d2 = IF e THEN n2 ELSE d - One(c /\ d # 0)
  /\ o2 = IF e THEN (o - One(c /\ o > 0)) + (g + One(f) - One(c /\ o = 0)) ELSE o - One(c /\ o > 0)
  /\ g2 = IF e THEN 0 ELSE g + One(f) - One(c /\ o = 0)

\* Every edge keeps the counters right.
LEMMA SinkMoves ==
  ASSUME NEW n, NEW d, NEW o, NEW g, NEW n2, NEW d2, NEW o2, NEW g2, NEW e, NEW f, NEW c,
         SinkAt(n, d, o, g), SinkMove(n, d, o, g, n2, d2, o2, g2, e, f, c)
  PROVE  SinkAt(n2, d2, o2, g2)
<1> DEFINE x == o + g + One(f) - One(c)
<1> USE SinkAssumption
<1>1. x \in Nat /\ x < SinkMod /\ x <= SlaveCap /\ n + One(f) + SinkMod - One(c) = x + SinkMod
  BY SMTT(60) DEF SinkAt, SinkMove, One
<1>2. (x + SinkMod) % SinkMod = x
  BY <1>1, SMTT(60)
<1>3. n2 = x
  BY <1>1, <1>2, SMTT(60) DEF SinkMove
<1>4. d2 = o2 /\ o2 + g2 = x /\ o2 \in Nat /\ g2 \in Nat
  BY <1>3, SMTT(60) DEF SinkAt, SinkMove, One
<1> HIDE DEF x
<1> QED BY <1>1, <1>3, <1>4, SMTT(60) DEF SinkAt

\* The counters of the write sink are right.
SinkInv == SinkAt(outstanding, debt, old, fresh)

\* Each edge, and m_rst, keep the invariant of the sink.
LEMMA SinkStep == SinkInv /\ [SinkNext]_sinkVars => SinkInv'
<1> SUFFICES ASSUME SinkInv, [SinkNext]_sinkVars PROVE SinkInv'
  BY SMTT(60)
<1>1. CASE \E e, f, c \in BOOLEAN : SinkClock(e, f, c)
  <2> PICK e \in BOOLEAN, f \in BOOLEAN, c \in BOOLEAN : SinkClock(e, f, c)
    BY <1>1, SMTT(60)
  <2>1. SinkMove(outstanding, debt, old, fresh, outstanding', debt', old', fresh', e, f, c)
    BY SMTT(60) DEF SinkClock, SinkEdge, FlightEdge, outstanding_next_c, sinking, InFlight, SinkMove
  <2> QED BY <2>1, SinkMoves, SMTT(60) DEF SinkInv
<1>2. CASE SinkReset
  BY <1>2, SinkAssumption, SMTT(60) DEF SinkReset, SinkInv, SinkAt
<1>3. CASE UNCHANGED sinkVars
  BY <1>3, SMTT(60) DEF sinkVars, SinkInv
<1> QED BY <1>1, <1>2, <1>3, SMTT(60) DEF SinkNext

\* However forwards, completions and resets interleave, the debt of
\* axi_bridge_stale_sink is the number of orphaned bursts still in flight.
THEOREM SinksExactlyTheStale == SinkSpec => []DebtExact
<1>1. SinkInit => SinkInv
  BY SinkAssumption, SMTT(60) DEF SinkInit, SinkInv, SinkAt
<1>2. SinkInv => DebtExact
  BY SMTT(60) DEF SinkInv, SinkAt, DebtExact
<1> QED BY <1>1, <1>2, SinkStep, PTL DEF SinkSpec

-----------------------------------------------------------------------------
(* The pad *)

\* The tracker: neither exactness survives a step without the other and the
\* types.
PadInv == PadTypeOK /\ TrackExact /\ PadExact

\* Dropping the oldest burst.
LEMMA TailFacts ==
  ASSUME NEW S, NEW s \in Seq(S), s # <<>>
  PROVE  /\ Tail(s) \in Seq(S) /\ Len(Tail(s)) = Len(s) - 1
         /\ Head(s) = s[1] /\ Head(s) \in S
         /\ Len(s) \in Nat \ {0}
  BY SMTT(60)

\* Queueing a burst behind others, and behind none.
LEMMA AppendFacts ==
  ASSUME NEW S, NEW s \in Seq(S), NEW x \in S
  PROVE  /\ Append(s, x) \in Seq(S) /\ Append(s, x) # <<>>
         /\ Len(Append(s, x)) = Len(s) + 1
         /\ s # <<>> => Head(Append(s, x)) = Head(s)
         /\ s = <<>> => Head(Append(s, x)) = x
  BY SMTT(60)

\* Dropping and queueing commute.
LEMMA AppendTail ==
  ASSUME NEW S, NEW s \in Seq(S), NEW x \in S
  PROVE  /\ s # <<>> => Tail(Append(s, x)) = Append(Tail(s), x)
         /\ s = <<>> => Tail(Append(s, x)) = <<>>
  BY SMTT(60)

\* Feeding one beat to the oldest burst leaves the others alone.
LEMMA FeedFacts ==
  ASSUME NEW S, NEW s \in Seq(S), s # <<>>, NEW y \in S
  PROVE  LET t == [s EXCEPT ![1] = y]
         IN /\ t \in Seq(S) /\ t # <<>> /\ Len(t) = Len(s)
            /\ Head(t) = y /\ Tail(t) = Tail(s)
  BY SMTT(60)

\* What the tracker and the slave know of the bursts, without the filler.
Mirror == /\ head_valid <=> owed # <<>>
          /\ head_valid => head_beats = Head(owed) /\ tail = Tail(owed)
          /\ ~head_valid => tail = <<>>
          /\ head_is_last <=> head_valid /\ head_beats = 1
          /\ Len(tail) <= TAIL_DEPTH
          /\ head_beats \in 0 .. MaxBeats /\ head_valid \in BOOLEAN
          /\ head_is_last \in BOOLEAN
          /\ tail \in Seq(Beats) /\ owed \in Seq(Beats)

\* After an edge that leaves a burst in the head register, the mirror is these
\* facts; after one that leaves none, those of MirrorIdle.
LEMMA MirrorBusy ==
  ASSUME head_valid' = TRUE, head_is_last' = (head_beats' = 1),
         owed' \in Seq(Beats), owed' # <<>>,
         head_beats' = Head(owed'), tail' = Tail(owed'),
         Len(tail') <= TAIL_DEPTH
  PROVE  Mirror'
<1>0. head_beats' \in Beats /\ tail' \in Seq(Beats)
  BY TailFacts, SMTT(60)
<1>1. head_beats' \in 0 .. MaxBeats /\ tail' \in Seq(Beats)
  BY <1>0, PadAssumption, SMTT(60) DEF Beats
<1>2. head_valid' /\ head_valid' \in BOOLEAN /\ head_is_last' \in BOOLEAN
  BY SMTT(60)
<1>3. head_is_last' <=> head_valid' /\ head_beats' = 1
  BY <1>2, ZenonT(60)
<1> QED BY <1>1, <1>2, <1>3, ZenonT(60) DEF Mirror

\* An empty tracker mirrors a slave that owes nothing.
LEMMA MirrorIdle ==
  ASSUME head_valid' = FALSE, head_is_last' = FALSE, owed' = <<>>, tail' = <<>>,
         head_beats' = 0
  PROVE  Mirror'
<1>1. /\ head_beats' \in 0 .. MaxBeats /\ Len(tail') <= TAIL_DEPTH
      /\ tail' \in Seq(Beats) /\ owed' \in Seq(Beats)
  BY PadAssumption, SMTT(60)
<1> QED BY <1>1, ZenonT(60) DEF Mirror

\* A beat offered to the slave is one it waits for, and the tracker's last
\* beat of a burst is the slave's.
LEMMA SameBeat ==
  ASSUME PadInv, NEW e \in BOOLEAN, NEW a \in BOOLEAN, NEW n \in Beats,
         NEW w \in BOOLEAN, PadClock(e, a, n, w)
  PROVE  /\ w => head_valid /\ owed # <<>>
         /\ burst_done(w) <=> w /\ owed[1] = 1
<1>1. w => owed # <<>>
  BY SMTT(60) DEF PadClock
<1>2. w => head_valid
  BY <1>1, SMTT(60) DEF PadInv, TrackExact
<1>3. w => Head(owed) = owed[1]
  BY <1>1, TailFacts, SMTT(60) DEF PadInv, PadTypeOK
<1> QED BY <1>1, <1>2, <1>3, SMTT(60) DEF PadInv, TrackExact, burst_done

\* One edge keeps the mirror: a retired burst, a beat of a burst, no beat, each
\* with and without an AW forwarded at the same edge.
LEMMA MirrorStep ==
  ASSUME PadInv, NEW e \in BOOLEAN, NEW a \in BOOLEAN, NEW n \in Beats,
         NEW w \in BOOLEAN, PadClock(e, a, n, w)
  PROVE  Mirror'
<1> USE PadAssumption
<1>0. Mirror /\ (a => Len(tail) < TAIL_DEPTH) /\ (tail # <<>> => head_valid)
  BY SMTT(60) DEF PadInv, PadTypeOK, TrackExact, Mirror, PadClock, aw_block
<1>1. HeadEdge(a, n, w) /\ TailEdge(a, n, w) /\ OwedEdge(e, a, n, w)
  BY SMTT(60) DEF PadClock, PadEdge
<1>2. (w => head_valid /\ owed # <<>>) /\ (burst_done(w) <=> w /\ owed[1] = 1)
  BY SameBeat, SMTT(60)
<1>n. n \in 1 .. MaxBeats
  BY SMTT(60) DEF Beats
<1>3. CASE burst_done(w)
  <2>1. tail = Tail(owed) /\ owed # <<>> /\ owed' = IF a THEN Append(tail, n) ELSE tail
    BY <1>0, <1>1, <1>2, <1>3, ZenonT(60) DEF Mirror, OwedEdge
  <2>2. CASE tail # <<>>
    <3>1. /\ head_beats' = Head(tail) /\ head_is_last' = (Head(tail) = 1)
          /\ head_valid' = TRUE
          /\ tail' = IF a THEN Append(Tail(tail), n) ELSE Tail(tail)
      BY <1>1, <1>3, <2>2, SMTT(60) DEF HeadEdge, TailEdge, head_free_now
    <3>2. Head(tail) \in Beats /\ Tail(tail) \in Seq(Beats) /\ Len(Tail(tail)) = Len(tail) - 1
      BY <1>0, <2>2, TailFacts, SMTT(60) DEF Mirror
    <3>3. Len(tail') <= TAIL_DEPTH
      BY <1>0, <3>1, <3>2, AppendFacts, SMTT(60) DEF Mirror
    <3>4. /\ owed' \in Seq(Beats) /\ owed' # <<>>
          /\ head_beats' = Head(owed') /\ tail' = Tail(owed')
      <4>1. tail \in Seq(Beats)
        BY <1>0, SMTT(60) DEF Mirror
      <4>2. CASE a
        <5>1. /\ Append(tail, n) \in Seq(Beats) /\ Append(tail, n) # <<>>
              /\ Head(Append(tail, n)) = Head(tail)
          BY <2>2, <4>1, AppendFacts, SMTT(60)
        <5>2. Tail(Append(tail, n)) = Append(Tail(tail), n)
          BY <2>2, <4>1, AppendTail, SMTT(60)
        <5> QED BY <2>1, <3>1, <4>2, <5>1, <5>2, ZenonT(60)
      <4>3. CASE ~a
        BY <2>1, <2>2, <3>1, <4>1, <4>3, SMTT(60)
      <4> QED BY <4>2, <4>3, SMTT(60)
    <3>5. head_is_last' = (head_beats' = 1)
      BY <3>1, SMTT(60)
    <3> QED BY <3>1, <3>3, <3>4, <3>5, MirrorBusy, ZenonT(60)
  <2>3. CASE tail = <<>> /\ a
    <3>1. /\ head_beats' = n /\ head_is_last' = (n = 1) /\ head_valid' = TRUE
          /\ tail' = <<>> /\ owed' = Append(<<>>, n)
      BY <1>1, <1>3, <2>1, <2>3, ZenonT(60) DEF HeadEdge, TailEdge, head_free_now
    <3>2. /\ owed' \in Seq(Beats) /\ owed' # <<>> /\ Head(owed') = n
          /\ Tail(owed') = <<>> /\ Len(tail') <= TAIL_DEPTH
      BY <3>1, SMTT(60)
    <3> QED BY <3>1, <3>2, MirrorBusy, SMTT(60)
  <2>4. CASE tail = <<>> /\ ~a
    <3>1. /\ head_beats' = 0 /\ head_is_last' = FALSE /\ head_valid' = FALSE
          /\ tail' = <<>> /\ owed' = <<>>
      BY <1>1, <1>3, <2>1, <2>4, SMTT(60) DEF HeadEdge, TailEdge, head_free_now
    <3> QED BY <3>1, MirrorIdle, ZenonT(60)
  <2> QED BY <2>2, <2>3, <2>4, SMTT(60)
<1>4. CASE w /\ ~burst_done(w)
  <2>1. /\ head_valid /\ owed # <<>> /\ owed[1] # 1 /\ head_beats = Head(owed)
        /\ Head(owed) = owed[1] /\ owed[1] \in Beats /\ tail = Tail(owed)
    <3>1. /\ head_valid /\ owed # <<>> /\ owed[1] # 1
      BY <1>2, <1>4, ZenonT(60)
    <3>2. /\ head_beats = Head(owed) /\ tail = Tail(owed) /\ owed \in Seq(Beats)
      BY <1>0, <3>1, ZenonT(60) DEF Mirror
    <3>3. Head(owed) = owed[1] /\ owed[1] \in Beats
      BY <3>1, <3>2, TailFacts, SMTT(60)
    <3> QED BY <3>1, <3>2, <3>3, SMTT(60)
  <2> DEFINE fed == [owed EXCEPT ![1] = owed[1] - 1]
  <2>2. owed[1] - 1 \in Beats
    BY <2>1, SMTT(60) DEF Beats
  <2>3. /\ fed \in Seq(Beats) /\ fed # <<>> /\ Head(fed) = owed[1] - 1
        /\ Tail(fed) = tail
    BY <1>0, <2>1, <2>2, FeedFacts, SMTT(60) DEF Mirror
  <2>4. owed' = IF a THEN Append(fed, n) ELSE fed
    BY <1>1, <1>4, <2>1, SMTT(60) DEF OwedEdge
  <2>5. /\ head_beats' = head_beats - 1 /\ head_is_last' = (head_beats = 2)
        /\ head_valid' = TRUE /\ tail' = IF a THEN Append(tail, n) ELSE tail
    BY <1>1, <1>4, <2>1, SMTT(60) DEF HeadEdge, TailEdge, head_free_now
  <2> HIDE DEF fed
  <2>6. Len(tail') <= TAIL_DEPTH
    BY <1>0, <2>5, AppendFacts, SMTT(60) DEF Mirror
  <2>7. /\ owed' \in Seq(Beats) /\ owed' # <<>>
        /\ Head(owed') = owed[1] - 1 /\ tail' = Tail(owed')
    <3>1. CASE a
      BY <2>3, <2>4, <2>5, <3>1, AppendFacts, AppendTail, SMTT(60)
    <3>2. CASE ~a
      BY <2>3, <2>4, <2>5, <3>2, SMTT(60)
    <3> QED BY <3>1, <3>2, SMTT(60)
  <2>8. (head_beats = 2) = (head_beats' = 1)
    BY <2>1, <2>5, SMTT(60) DEF Beats
  <2> QED BY <2>1, <2>5, <2>6, <2>7, <2>8, MirrorBusy, SMTT(60)
<1>5. CASE ~w
  <2>1. owed' = IF a THEN Append(owed, n) ELSE owed
    BY <1>1, <1>5, SMTT(60) DEF OwedEdge
  <2>2. ~burst_done(w)
    BY <1>5, SMTT(60) DEF burst_done
  <2>3. CASE ~a
    <3>1. UNCHANGED <<head_beats, head_is_last, head_valid, tail, owed>>
      BY <1>1, <1>5, <2>1, <2>2, <2>3, SMTT(60) DEF HeadEdge, TailEdge
    <3> QED BY <1>0, <3>1, ZenonT(60) DEF Mirror
  <2>4. CASE a /\ head_valid
    <3>1. /\ UNCHANGED <<head_beats, head_is_last, head_valid>>
          /\ tail' = Append(tail, n) /\ owed' = Append(owed, n)
      BY <1>1, <1>5, <2>1, <2>2, <2>4, SMTT(60) DEF HeadEdge, TailEdge, head_free_now
    <3>2. Len(tail') <= TAIL_DEPTH
      BY <1>0, <2>4, <3>1, AppendFacts, SMTT(60) DEF Mirror
    <3>3. /\ owed' \in Seq(Beats) /\ owed' # <<>>
          /\ head_beats' = Head(owed') /\ tail' = Tail(owed')
      BY <1>0, <2>4, <3>1, AppendFacts, AppendTail, SMTT(60) DEF Mirror
    <3>4. head_valid' = TRUE /\ head_is_last' = (head_beats' = 1)
      BY <1>0, <2>4, <3>1, ZenonT(60) DEF Mirror
    <3> QED BY <3>2, <3>3, <3>4, MirrorBusy, SMTT(60)
  <2>5. CASE a /\ ~head_valid
    <3>1. /\ head_beats' = n /\ head_is_last' = (n = 1) /\ head_valid' = TRUE
          /\ tail' = tail /\ tail = <<>> /\ owed = <<>> /\ owed' = Append(owed, n)
      BY <1>0, <1>1, <1>5, <2>1, <2>2, <2>5, SMTT(60) DEF HeadEdge, TailEdge, head_free_now, Mirror
    <3>2. /\ owed' \in Seq(Beats) /\ owed' # <<>> /\ Head(owed') = n
          /\ Tail(owed') = <<>> /\ Len(tail') <= TAIL_DEPTH
      BY <3>1, SMTT(60)
    <3> QED BY <3>1, <3>2, MirrorBusy, SMTT(60)
  <2> QED BY <2>3, <2>4, <2>5, SMTT(60)
<1> QED BY <1>3, <1>4, <1>5, SMTT(60)

\* One edge keeps the count of abandoned bursts.
LEMMA FillerStep ==
  ASSUME PadInv, NEW e \in BOOLEAN, NEW a \in BOOLEAN, NEW n \in Beats,
         NEW w \in BOOLEAN, PadClock(e, a, n, w)
  PROVE  PadExact' /\ pad_left' \in Nat /\ left' \in Nat /\ pad_r' \in BOOLEAN
<1>0. /\ pad_left = left /\ (pad_r <=> left # 0) /\ left <= Len(owed) /\ left \in Nat
      /\ owed \in Seq(Beats)
  BY SMTT(60) DEF PadInv, PadTypeOK, PadExact
<1>1. FillerEdge(e, a, w) /\ OwedEdge(e, a, n, w)
  BY SMTT(60) DEF PadClock, PadEdge
<1>2. (w => head_valid /\ owed # <<>>) /\ (burst_done(w) <=> w /\ owed[1] = 1)
  BY SameBeat, SMTT(60)
<1>3. Len(owed') = Len(tail') + (IF head_valid' THEN 1 ELSE 0) /\ Len(owed') \in Nat
  BY MirrorStep, TailFacts, SMTT(60) DEF Mirror
<1>4. CASE e
  <2>1. left' = Len(owed')
    BY <1>1, <1>4, SMTT(60) DEF OwedEdge
  <2>2. pad_left' = Len(tail') + (IF head_valid' THEN 1 ELSE 0) /\ pad_r' = (pad_left' # 0)
    BY <1>1, <1>4, SMTT(60) DEF FillerEdge
  <2>3. pad_left' = left' /\ left' \in Nat /\ left' <= Len(owed')
    BY <1>3, <2>1, <2>2, SMTT(60)
  <2> QED BY <2>2, <2>3, ZenonT(60) DEF PadExact
<1>5. CASE ~e
  <2> DEFINE fed == IF w /\ owed[1] = 1 THEN Tail(owed)
                    ELSE IF w THEN [owed EXCEPT ![1] = @ - 1] ELSE owed
  <2>0. w => Len(owed) \in Nat \ {0} /\ Len(Tail(owed)) = Len(owed) - 1
    BY <1>0, <1>2, TailFacts, SMTT(60)
  <2>f. w /\ owed[1] # 1 => LET t == [owed EXCEPT ![1] = owed[1] - 1]
                            IN t \in Seq(Beats) /\ Len(t) = Len(owed)
    <3> SUFFICES ASSUME w, owed[1] # 1
                 PROVE  LET t == [owed EXCEPT ![1] = owed[1] - 1]
                        IN t \in Seq(Beats) /\ Len(t) = Len(owed)
      BY SMTT(60)
    <3>1. owed # <<>> /\ owed[1] \in Beats
      BY <1>0, <1>2, TailFacts, SMTT(60)
    <3>2. owed[1] - 1 \in Beats
      BY <3>1, PadAssumption, SMTT(60) DEF Beats
    <3> QED BY <1>0, <3>1, <3>2, FeedFacts, SMTT(60)
  <2>1. /\ burst_done(w) => Len(fed) = Len(owed) - 1
        /\ ~burst_done(w) => Len(fed) = Len(owed)
    <3>1. CASE burst_done(w)
      BY <1>2, <2>0, <3>1, SMTT(60)
    <3>2. CASE w /\ ~burst_done(w)
      BY <1>2, <2>f, <3>2, ZenonT(60)
    <3>3. CASE ~w
      BY <1>2, <3>3, SMTT(60)
    <3> QED BY <3>1, <3>2, <3>3, SMTT(60)
  <2>2. Len(owed') >= Len(fed)
    <3>1. owed' = IF a THEN Append(fed, n) ELSE fed
      BY <1>1, SMTT(60) DEF OwedEdge
    <3>2. fed \in Seq(Beats)
      BY <1>0, <1>2, <2>f, TailFacts, SMTT(60)
    <3> HIDE DEF fed
    <3> QED BY <3>1, <3>2, AppendFacts, SMTT(60)
  <2>3. left' = IF burst_done(w) /\ left > 0 THEN left - 1 ELSE left
    BY <1>1, <1>2, <1>5, SMTT(60) DEF OwedEdge
  <2>4. /\ pad_left' = IF pad_r /\ burst_done(w) THEN pad_left - 1 ELSE pad_left
        /\ pad_r' = (pad_left' # 0)
    BY <1>1, <1>5, SMTT(60) DEF FillerEdge
  <2>5. pad_left' = left' /\ left' \in Nat
    BY <1>0, <2>3, <2>4, SMTT(60)
  <2>6. Len(owed) \in Nat /\ Len(fed) \in Nat /\ left' <= Len(fed)
    <3>1. Len(owed) \in Nat
      BY <1>0, SMTT(60)
    <3> HIDE DEF fed
    <3>2. CASE burst_done(w)
      BY <1>0, <1>2, <2>0, <2>1, <2>3, <3>1, <3>2, SMTT(60)
    <3>3. CASE ~burst_done(w)
      BY <1>0, <2>1, <2>3, <3>1, <3>3, SMTT(60)
    <3> QED BY <3>2, <3>3, SMTT(60)
  <2>7. left' <= Len(owed')
    BY <1>3, <2>2, <2>5, <2>6, SMTT(60)
  <2> QED BY <2>4, <2>5, <2>7, ZenonT(60) DEF PadExact
<1> QED BY <1>4, <1>5, SMTT(60)

\* Every edge of the tracker, and m_rst, keep its invariant.
LEMMA PadStep == PadInv /\ [PadNext]_padVars => PadInv'
<1> SUFFICES ASSUME PadInv, [PadNext]_padVars PROVE PadInv'
  BY SMTT(60)
<1>1. CASE \E e, a, w \in BOOLEAN, n \in Beats : PadClock(e, a, n, w)
  <2>1. PICK e \in BOOLEAN, a \in BOOLEAN, w \in BOOLEAN, n \in Beats : PadClock(e, a, n, w)
    BY <1>1, SMTT(60)
  <2>2. Mirror'
    BY <2>1, MirrorStep, SMTT(60)
  <2>3. PadExact' /\ pad_left' \in Nat /\ left' \in Nat /\ pad_r' \in BOOLEAN
    BY <2>1, FillerStep, SMTT(60)
  <2> QED BY <2>2, <2>3, ZenonT(60) DEF PadInv, PadTypeOK, TrackExact, Mirror
<1>2. CASE PadReset
  <2>1. Mirror'
    BY <1>2, MirrorIdle, ZenonT(60) DEF PadReset
  <2>2. /\ pad_left' = 0 /\ left' = 0 /\ pad_r' = FALSE /\ owed' = <<>>
        /\ 0 \in Nat /\ left' <= Len(owed')
    BY <1>2, SMTT(60) DEF PadReset
  <2> QED BY <2>1, <2>2, ZenonT(60) DEF PadInv, PadTypeOK, TrackExact, PadExact, Mirror
<1>3. CASE UNCHANGED padVars
  BY <1>3, SMTT(60) DEF padVars, PadInv, PadTypeOK, TrackExact, PadExact
<1> QED BY <1>1, <1>2, <1>3, SMTT(60) DEF PadNext

\* After m_rst nothing is tracked and nothing is owed.
LEMMA PadStart == PadInit => PadInv
<1> SUFFICES ASSUME PadInit PROVE PadInv
  BY SMTT(60)
<1>1. /\ head_beats \in 0 .. MaxBeats /\ tail \in Seq(Beats) /\ owed \in Seq(Beats)
      /\ Len(tail) <= TAIL_DEPTH /\ left <= Len(owed) /\ 0 \in Nat
  BY PadAssumption, SMTT(60) DEF PadInit, PadRegsInit
<1> QED
  BY <1>1, ZenonT(60) DEF PadInit, PadRegsInit, PadInv, PadTypeOK, TrackExact, PadExact

\* Whatever bursts are forwarded, fed and abandoned, axi_bridge_w_pad knows
\* what the slave waits for and never overruns its ring.
THEOREM TrackerMirrorsSlave == PadSpec => []TrackExact
<1>1. PadInit => PadInv
  BY PadStart, SMTT(60)
<1>2. PadInv => TrackExact
  BY SMTT(60) DEF PadInv
<1> QED BY <1>1, <1>2, PadStep, PTL DEF PadSpec

\* Filler goes to the bursts a reset abandoned, and to all of them.
THEOREM FillerIsExact == PadSpec => []PadExact
<1>1. PadInit => PadInv
  BY PadStart, SMTT(60)
<1>2. PadInv => PadExact
  BY SMTT(60) DEF PadInv
<1> QED BY <1>1, <1>2, PadStep, PTL DEF PadSpec

\* A sequence has a length, and its elements are of its set.
LEMMA Lengths ==
  ASSUME NEW S, NEW s \in Seq(S)
  PROVE  /\ Len(s) \in Nat /\ (s = <<>> <=> Len(s) = 0)
         /\ \A i \in 1 .. Len(s) : s[i] \in S
  BY SMTT(60)

\* A W beat: its burst, its number in the burst, wlast.
WBeats == [id : Nat, no : Nat, last : BOOLEAN]

\* What the master has queued, and what the slave has answered.
QueuedAs(p, s, base) == /\ p \in {"thaw", "run"} => \A i \in 1 .. Len(s) : s[i] >= base
                        /\ p = "near" => \A i \in 1 .. Len(s) : s[i] < base

\* Outside the reset window, every queued answer is to a burst of this life.
AnswersAs(p, s, base) == p # "near" => \A i \in 1 .. Len(s) : s[i] >= base

\* The stale bursts come first.
Below(ids, base) == \A i \in 1 .. Len(ids) : ids[i] < base

\* The first o bursts are stale, the others not.
Sorted(ids, base, o) == \A i \in 1 .. Len(ids) : ids[i] < base <=> i <= o

\* Until the channel runs again every burst at the slave is stale.
StaleAs(p, ids, base, o) == /\ p # "run" => Below(ids, base)
                            /\ p = "run" => Sorted(ids, base, o)

\* Beat no of burst id comes right after beat e.
Follows(e, id, no) == IF e.last THEN id = e.id + 1 /\ no = 1 ELSE id = e.id /\ no = e.no + 1

\* s becomes t: its head is taken or not, e is put at its end or not.
Shift(s, t, take, put, e) ==
  /\ Len(t) = Len(s) - One(take) + One(put)
  /\ \A i \in 1 .. Len(t) : t[i] = IF i <= Len(s) - One(take) THEN s[i + One(take)] ELSE e

\* What taking the head leaves.
Rest(s, take) == IF take THEN Tail(s) ELSE s

\* The sequence that Shift describes.
Shifted(s, take, put, e) == IF put THEN Append(Rest(s, take), e) ELSE Rest(s, take)

\* Shifted is such a sequence.
LEMMA ShiftSeq ==
  ASSUME NEW S, NEW s \in Seq(S), NEW take \in BOOLEAN, NEW put \in BOOLEAN,
         take => s # <<>>, NEW e, put => e \in S
  PROVE  Shifted(s, take, put, e) \in Seq(S) /\ Shift(s, Shifted(s, take, put, e), take, put, e)
  <1> DEFINE u == Rest(s, take)
             t == Shifted(s, take, put, e)
  <1>0. u = (IF take THEN Tail(s) ELSE s) /\ t = IF put THEN Append(u, e) ELSE u
    BY DEF Rest, Shifted
  <1> HIDE DEF u, t
  <1>1. ASSUME take PROVE t \in Seq(S) /\ Shift(s, t, take, put, e)
    <2>1. u \in Seq(S) /\ Len(u) = Len(s) - 1 /\ \A i \in 1 .. Len(u) : u[i] = s[i + 1]
      BY <1>0, <1>1, SMTT(60)
    <2>2. CASE put
      <3>1. t = Append(u, e) /\ e \in S
        BY <1>0, <2>2
      <3>2. /\ t \in Seq(S) /\ Len(t) = Len(u) + 1
            /\ \A i \in 1 .. Len(t) : t[i] = IF i <= Len(u) THEN u[i] ELSE e
        BY <2>1, <3>1, SMTT(60)
      <3>3. One(take) = 1 /\ One(put) = 1
        BY <1>1, <2>2 DEF One
      <3>4. Len(s) \in Nat
        BY SMTT(60)
      <3>5. Len(t) = Len(s) - One(take) + One(put)
        BY <2>1, <3>2, <3>3, <3>4, SMTT(60)
      <3>6. ASSUME NEW i \in 1 .. Len(t)
            PROVE  t[i] = IF i <= Len(s) - One(take) THEN s[i + One(take)] ELSE e
        BY <2>1, <3>2, <3>3, <3>4, SMTT(60)
      <3> QED BY <3>2, <3>5, <3>6 DEF Shift
    <2>3. CASE ~put
      BY <1>0, <1>1, <2>1, <2>3, SMTT(60) DEF Shift, One
    <2> QED BY <2>2, <2>3
  <1>2. ASSUME ~take PROVE t \in Seq(S) /\ Shift(s, t, take, put, e)
    <2>1. u = s
      BY <1>0, <1>2
    <2>2. CASE put
      BY <1>0, <1>2, <2>1, <2>2, SMTT(60) DEF Shift, One
    <2>3. CASE ~put
      BY <1>0, <1>2, <2>1, <2>3, SMTT(60) DEF Shift, One
    <2> QED BY <2>2, <2>3
  <1>3. t \in Seq(S) /\ Shift(s, t, take, put, e)
    BY <1>1, <1>2
  <1> QED BY <1>3 DEF t

\* Bursts in flight, counted as FlightEdge does.
Flown(o, n, o2, n2, ev, put, take) ==
  /\ o2 = IF ev THEN o - One(take /\ o > 0) + (n + One(put) - One(take /\ o = 0))
          ELSE o - One(take /\ o > 0)
  /\ n2 = IF ev THEN 0 ELSE n + One(put) - One(take /\ o = 0)

\* How many bursts are in flight after an edge.
FlownTo(o, n, o2, n2, ev, put, take) ==
  /\ o2 \in Nat /\ n2 \in Nat
  /\ o2 + n2 = o + n - One(take) + One(put)
  /\ ev => n2 = 0
  /\ n = 0 /\ ~put => n2 = 0
  /\ ~ev => n2 <= n + One(put)

\* The bursts in flight move as their queue does.
LEMMA FlownCount ==
  ASSUME NEW o \in Nat, NEW n \in Nat, NEW o2, NEW n2, NEW ev \in BOOLEAN, NEW put \in BOOLEAN,
         NEW take \in BOOLEAN, take => o + n > 0, Flown(o, n, o2, n2, ev, put, take)
  PROVE  FlownTo(o, n, o2, n2, ev, put, take)
  <1>1. /\ o2 \in Nat /\ n2 \in Nat /\ o2 + n2 = o + n - One(take) + One(put)
        /\ ev => n2 = 0
        /\ n = 0 /\ ~put => n2 = 0
        /\ ~ev => n2 <= n + One(put)
    BY SMTT(60) DEF Flown, One
  <1> QED BY <1>1 DEF FlownTo

\* A queue of stale bursts stays one.
LEMMA BelowShift ==
  ASSUME NEW s \in Seq(Nat), NEW t, NEW base \in Nat, NEW take \in BOOLEAN, take => s # <<>>,
         NEW put \in BOOLEAN, NEW e, Shift(s, t, take, put, e),
         Below(s, base), put => e < base
  PROVE  Below(t, base)
  BY SMTT(60) DEF Below, Shift, One

\* Bursts leave from the stale end and enter at the other.
LEMMA SortedShift ==
  ASSUME NEW s \in Seq(Nat), NEW t, NEW base \in Nat, NEW take \in BOOLEAN, take => s # <<>>,
         NEW put \in BOOLEAN, NEW e, Shift(s, t, take, put, e),
         NEW o \in Nat, o <= Len(s), Sorted(s, base, o), put => e \in Nat /\ e >= base
  PROVE  Sorted(t, base, o - One(take /\ o > 0))
  BY SMTT(60) DEF Sorted, Shift, One

\* When all are stale, the stale ones come first.
LEMMA BelowSorted ==
  ASSUME NEW s \in Seq(Nat), NEW base, Below(s, base), NEW o \in Nat, o = Len(s)
  PROVE  Sorted(s, base, o)
  BY SMTT(60) DEF Sorted, Below

\* The phases of a channel of the bridge around a reset of the master.
Phase == {"run", "near", "frozen", "thaw"}

\* What an edge of the memory clock does to a phase.
Moved(p, p2) == p2 = p \/ (p = "near" /\ p2 = "frozen") \/ (p = "thaw" /\ p2 = "run")

\* The stale bursts stay in front over an edge, whatever the phase.
LEMMA StaleStep ==
  ASSUME NEW p \in Phase, NEW p2, Moved(p, p2),
         NEW s \in Seq(Nat), NEW t \in Seq(Nat), NEW base \in Nat, NEW take \in BOOLEAN,
         take => s # <<>>, NEW put \in BOOLEAN, NEW e, Shift(s, t, take, put, e),
         NEW o \in Nat, NEW n \in Nat, o + n = Len(s), NEW o2, NEW n2, NEW ev \in BOOLEAN,
         Flown(o, n, o2, n2, ev, put, take),
         StaleAs(p, s, base, o),
         put => /\ e \in Nat /\ p \in {"run", "near"}
                /\ (p = "run" => e >= base) /\ (p = "near" => e < base),
         ev => p \in {"frozen", "thaw"}, p = "thaw" => n = 0 \/ ev
  PROVE  StaleAs(p2, t, base, o2)
  <1>a. (p # "run" => Below(s, base)) /\ (p = "run" => Sorted(s, base, o))
    BY DEF StaleAs
  <1>0. take => o + n > 0
    BY SMTT(60)
  <1>1. /\ o2 \in Nat /\ n2 \in Nat /\ o2 + n2 = o + n - One(take) + One(put)
        /\ ev => n2 = 0
        /\ n = 0 /\ ~put => n2 = 0
    <2>1. FlownTo(o, n, o2, n2, ev, put, take)
      BY <1>0, FlownCount
    <2> QED BY <2>1 DEF FlownTo
  <1>2. Len(t) = Len(s) - One(take) + One(put)
    BY DEF Shift
  <1>3. CASE p # "run"
    <2>1. Below(t, base)
      BY <1>a, <1>3, BelowShift, SMTT(60)
    <2>2. ASSUME p2 = "run" PROVE Sorted(t, base, o2)
      <3>1. n2 = 0
        BY <1>1, <1>3, <2>2 DEF Moved
      <3>2. o2 = Len(t)
        BY <1>1, <1>2, <3>1, SMTT(60) DEF One
      <3> QED BY <1>1, <2>1, <3>2, BelowSorted
    <2> QED BY <2>1, <2>2 DEF StaleAs
  <1>4. CASE p = "run"
    <2>1. p2 = "run" /\ ~ev
      BY <1>4 DEF Moved
    <2>2. o2 = o - One(take /\ o > 0)
      BY <2>1 DEF Flown
    <2>3. o <= Len(s)
      BY SMTT(60)
    <2>4. Sorted(t, base, o2)
      BY <1>a, <1>4, <2>1, <2>2, <2>3, SortedShift
    <2> QED BY <2>1, <2>4 DEF StaleAs
  <1> QED BY <1>3, <1>4

\* The youngest bursts carry consecutive numbers.
LEMMA RunShift ==
  ASSUME NEW s \in Seq(Nat), NEW t \in Seq(Nat), NEW take \in BOOLEAN, NEW put \in BOOLEAN,
         take => s # <<>>, NEW e, put => e \in Nat, Shift(s, t, take, put, e),
         NEW n \in Nat, n <= Len(s), NEW m \in Nat, m <= Len(t), m <= n + One(put),
         \A j \in 0 .. n - 1 : s[Len(s) - j] = s[Len(s)] - j,
         put /\ n > 0 => e = s[Len(s)] + 1
  PROVE  /\ \A j \in 0 .. m - 1 : t[Len(t) - j] = t[Len(t)] - j
         /\ put => t[Len(t)] = e
         /\ ~put /\ m > 0 => t[Len(t)] = s[Len(s)]
  <1>1. Len(s) \in Nat /\ Len(t) \in Nat /\ \A i \in 1 .. Len(s) : s[i] \in Nat
    BY SMTT(60)
  <1>2. Len(t) = Len(s) - One(take) + One(put)
        /\ \A i \in 1 .. Len(t) : t[i] = IF i <= Len(s) - One(take) THEN s[i + One(take)] ELSE e
    BY DEF Shift
  <1>3. CASE put
    <2>1. t[Len(t)] = e /\ Len(t) = Len(s) - One(take) + 1
      BY <1>1, <1>2, <1>3, SMTT(60) DEF One
    <2>2. ASSUME NEW j \in 0 .. m - 1 PROVE t[Len(t) - j] = t[Len(t)] - j
      <3>1. CASE j = 0
        BY <1>1, <1>3, <2>1, <3>1, SMTT(60)
      <3>2. CASE j > 0
        <4>1. /\ j - 1 \in 0 .. n - 1 /\ n > 0
              /\ Len(t) - j \in 1 .. Len(t)
              /\ Len(t) - j <= Len(s) - One(take)
              /\ Len(t) - j + One(take) = Len(s) - (j - 1)
          BY <1>1, <1>2, <1>3, <2>1, <3>2, SMTT(60) DEF One
        <4>2. t[Len(t) - j] = s[Len(s) - (j - 1)]
          BY <1>2, <4>1
        <4>3. s[Len(s) - (j - 1)] = s[Len(s)] - (j - 1)
          BY <4>1
        <4>4. e = s[Len(s)] + 1 /\ s[Len(s)] \in Nat
          BY <1>1, <1>3, <4>1, SMTT(60)
        <4>5. \A a \in Nat : a - (j - 1) = (a + 1) - j
          BY SMTT(60)
        <4> QED BY <2>1, <4>2, <4>3, <4>4, <4>5
      <3> QED BY <3>1, <3>2, SMTT(60)
    <2> QED BY <1>3, <2>1, <2>2
  <1>4. CASE ~put
    <2>1. m <= n /\ Len(t) = Len(s) - One(take)
      BY <1>1, <1>2, <1>4, SMTT(60) DEF One
    <2>2. ASSUME NEW j \in 0 .. m - 1 PROVE t[Len(t) - j] = s[Len(s)] - j
      <3>1. /\ j \in 0 .. n - 1 /\ Len(t) - j \in 1 .. Len(t)
            /\ Len(t) - j <= Len(s) - One(take)
            /\ Len(t) - j + One(take) = Len(s) - j
        BY <1>1, <1>2, <2>1, SMTT(60) DEF One
      <3> QED BY <1>2, <3>1
    <2>3. m > 0 => t[Len(t)] = s[Len(s)]
      <3> SUFFICES ASSUME m > 0 PROVE t[Len(t)] = s[Len(s)]
        OBVIOUS
      <3>1. 0 \in 0 .. m - 1 /\ Len(t) - 0 = Len(t) /\ Len(s) \in 1 .. Len(s)
        BY <1>1, <2>1, SMTT(60) DEF One
      <3>2. s[Len(s)] - 0 = s[Len(s)]
        BY <1>1, <3>1, SMTT(60)
      <3>3. t[Len(t) - 0] = s[Len(s)] - 0
        BY <2>2, <3>1
      <3> QED BY <3>1, <3>2, <3>3
    <2> QED BY <1>4, <2>2, <2>3, SMTT(60)
  <1> QED BY <1>3, <1>4

\* What the slave waits for: a beat for the first burst, a burst at the end.
Feed(o, o2, w, put, n) ==
  LET ends == w /\ o[1] = 1
  IN /\ Len(o2) = Len(o) - One(ends) + One(put)
     /\ \A k \in 1 .. Len(o2) :
          o2[k] = IF k > Len(o) - One(ends) THEN n
                  ELSE IF w /\ ~ends /\ k = 1 THEN o[1] - 1 ELSE o[k + One(ends)]

\* What the slave is owed after an edge, beat by beat.
LEMMA OwedAfter ==
  ASSUME owed \in Seq(Beats), NEW ev \in BOOLEAN, NEW fwd \in BOOLEAN, NEW w \in BOOLEAN,
         NEW n, fwd => n \in Beats, w => owed # <<>>, OwedEdge(ev, fwd, n, w)
  PROVE  /\ Feed(owed, owed', w, fwd, n)
         /\ left' = IF ev THEN Len(owed')
                    ELSE IF w /\ owed[1] = 1 /\ left > 0 THEN left - 1 ELSE left
  <1> DEFINE ends == w /\ owed[1] = 1
             fed == IF ends THEN Tail(owed)
                    ELSE IF w THEN [owed EXCEPT ![1] = owed[1] - 1] ELSE owed
  <1>1. owed' = IF fwd THEN Append(fed, n) ELSE fed
    BY DEF OwedEdge
  <1>2. left' = IF ev THEN Len(owed') ELSE IF ends /\ left > 0 THEN left - 1 ELSE left
    BY DEF OwedEdge
  <1>3. /\ fed \in Seq(Beats) /\ Len(fed) = Len(owed) - One(ends)
        /\ \A k \in 1 .. Len(fed) :
             fed[k] = IF w /\ ~ends /\ k = 1 THEN owed[1] - 1 ELSE owed[k + One(ends)]
    <2>1. CASE ends
      BY <2>1, SMTT(60) DEF One
    <2>2. CASE w /\ ~ends
      <3>1. owed[1] \in Beats /\ owed[1] # 1
        BY <2>2, SMTT(60)
      <3>2. owed[1] - 1 \in Beats
        BY <3>1, PadAssumption, SMTT(60) DEF Beats
      <3>3. fed = [owed EXCEPT ![1] = owed[1] - 1]
        BY <2>2
      <3> HIDE DEF fed
      <3>4. fed \in Seq(Beats) /\ Len(fed) = Len(owed)
        BY <2>2, <3>2, <3>3, SMTT(60)
      <3>5. \A k \in 1 .. Len(fed) : fed[k] = IF k = 1 THEN owed[1] - 1 ELSE owed[k]
        BY <2>2, <3>2, <3>3, <3>4, SMTT(60)
      <3> QED BY <2>2, <3>4, <3>5, SMTT(60) DEF One
    <2>3. CASE ~w
      BY <2>3, SMTT(60) DEF One
    <2> QED BY <2>1, <2>2, <2>3
  <1> HIDE DEF fed
  <1>4. CASE fwd
    <2>1. /\ Len(owed') = Len(fed) + 1
          /\ \A k \in 1 .. Len(owed') : owed'[k] = IF k <= Len(fed) THEN fed[k] ELSE n
      BY <1>1, <1>3, <1>4, SMTT(60)
    <2>2. Len(fed) \in Nat /\ Len(owed) - One(ends) = Len(fed) /\ One(fwd) = 1
      BY <1>3, <1>4, SMTT(60) DEF One
    <2> HIDE DEF ends
    <2>3. ASSUME NEW k \in 1 .. Len(owed')
          PROVE  owed'[k] = IF k > Len(owed) - One(ends) THEN n
                            ELSE IF w /\ ~ends /\ k = 1 THEN owed[1] - 1
                            ELSE owed[k + One(ends)]
      BY <1>3, <2>1, <2>2, SMTT(60)
    <2> QED BY <1>2, <2>1, <2>2, <2>3 DEF Feed, ends
  <1>5. CASE ~fwd
    <2>1. owed' = fed
      BY <1>1, <1>5
    <2>2. Len(fed) \in Nat /\ Len(owed) - One(ends) = Len(fed) /\ One(fwd) = 0
      BY <1>3, <1>5, SMTT(60) DEF One
    <2> HIDE DEF ends
    <2>3. ASSUME NEW k \in 1 .. Len(owed')
          PROVE  owed'[k] = IF k > Len(owed) - One(ends) THEN n
                            ELSE IF w /\ ~ends /\ k = 1 THEN owed[1] - 1
                            ELSE owed[k + One(ends)]
      BY <1>3, <2>1, <2>2, SMTT(60)
    <2>4. Len(owed') = Len(owed) - One(ends) + One(fwd)
      BY <2>1, <2>2, SMTT(60)
    <2> QED BY <1>2, <2>3, <2>4 DEF Feed, ends
  <1> QED BY <1>4, <1>5

\* One is the indicator of its argument.
LEMMA OneBit ==
  ASSUME NEW b \in BOOLEAN
  PROVE  One(b) \in 0 .. 1 /\ (b => One(b) = 1) /\ (~b => One(b) = 0)
  BY SMTT(60) DEF One

\* The arithmetic of a beat that ends a burst or not.
LEMMA FeedCount ==
  ASSUME NEW a \in Nat, NEW a2 \in Nat, NEW l \in Nat, NEW l2 \in Nat, NEW x \in 0 .. 1,
         NEW y \in 0 .. 1, a2 = a - x + y, l <= a, x = 1 => a > 0,
         x = 1 /\ l > 0 => l2 = l - 1, x = 0 \/ l = 0 => l2 = l
  PROVE  /\ x = 0 \/ l > 0 => a2 - l2 = a - l + y /\ l2 + 1 + x = l + 1
         /\ (x = 0 \/ l > 0) /\ a > l => /\ l2 + 1 \in 1 .. a2 /\ ~(l2 + 1 > a - x)
                                         /\ a2 > l2
         /\ \A k \in l2 + 2 .. a2 : ~(k > a - x) =>
              k + x \in l + 2 .. a /\ a > l /\ a2 > l2 /\ a - (k + x) = a2 - k - y
  BY SMTT(60)

\* What a W beat and an AW do to the bursts the slave waits for: l of them are
\* abandoned, last is the one forwarded last, e the one forwarded now.
Fedding(o, o2, w, put, n, l, l2, B, last, last2, e) ==
  /\ w => o # <<>>
  /\ Feed(o, o2, w, put, n)
  /\ l <= Len(o)
  /\ l2 = IF w /\ o[1] = 1 /\ l > 0 THEN l - 1 ELSE l
  /\ \A k \in l + 2 .. Len(o) : o[k] = B[last - (Len(o) - k)]
  /\ put => n = B[e] /\ last2 = e
  /\ put /\ Len(o) > l => e = last + 1
  /\ ~put /\ Len(o2) > l2 => last2 = last

\* The bursts behind the one being fed keep their full length.
LEMMA FeedLater ==
  ASSUME NEW o \in Seq(Beats), NEW o2 \in Seq(Beats), NEW w \in BOOLEAN, NEW put \in BOOLEAN,
         NEW n, NEW l \in Nat, NEW l2 \in Nat, NEW B, NEW last \in Nat, NEW last2 \in Nat, NEW e,
         Fedding(o, o2, w, put, n, l, l2, B, last, last2, e)
  PROVE  \A k \in l2 + 2 .. Len(o2) : o2[k] = B[last2 - (Len(o2) - k)]
  <1> DEFINE ends == w /\ o[1] = 1
  <1>1. Len(o) \in Nat /\ Len(o2) \in Nat /\ (w => Len(o) > 0)
    <2>1. w => o # <<>>
      BY DEF Fedding
    <2> QED BY <2>1, SMTT(60)
  <1>2. Len(o2) = Len(o) - One(ends) + One(put)
    BY DEF Fedding, Feed
  <1>3. \A k \in 1 .. Len(o2) :
             o2[k] = IF k > Len(o) - One(ends) THEN n
                     ELSE IF w /\ ~ends /\ k = 1 THEN o[1] - 1 ELSE o[k + One(ends)]
    BY DEF Fedding, Feed
  <1>4. l2 = (IF ends /\ l > 0 THEN l - 1 ELSE l) /\ l <= Len(o)
    BY DEF Fedding
  <1>5. ends \in BOOLEAN /\ (ends => Len(o) > 0)
    BY <1>1
  <1>a. /\ One(ends) \in 0 .. 1 /\ One(put) \in 0 .. 1
        /\ One(ends) = 1 => Len(o) > 0
        /\ One(ends) = 1 /\ l > 0 => l2 = l - 1
        /\ One(ends) = 0 \/ l = 0 => l2 = l
    <2>1. 0 # 1 /\ ~(0 > 0)
      BY SMTT(60)
    <2>2. One(ends) \in 0 .. 1 /\ One(put) \in 0 .. 1
      BY <1>5, OneBit
    <2>3. (ends => One(ends) = 1) /\ (~ends => One(ends) = 0)
      BY DEF One
    <2> QED BY <1>4, <1>5, <2>1, <2>2, <2>3
  <1> HIDE DEF ends
  <1> SUFFICES ASSUME NEW k \in l2 + 2 .. Len(o2)
               PROVE  o2[k] = B[last2 - (Len(o2) - k)]
    OBVIOUS
  <1>6. k \in 1 .. Len(o2) /\ k # 1 /\ k \in Nat
    BY <1>1, SMTT(60)
  <1>7. CASE k > Len(o) - One(ends)
    <2>1. o2[k] = n
      BY <1>3, <1>6, <1>7
    <2>2. put /\ k = Len(o2)
      BY <1>1, <1>2, <1>5, <1>6, <1>7, SMTT(60) DEF One
    <2>3. last2 - (Len(o2) - k) = last2
      BY <1>1, <2>2, SMTT(60)
    <2>4. n = B[e] /\ last2 = e
      BY <2>2 DEF Fedding
    <2> QED BY <2>1, <2>3, <2>4
  <1>8. CASE ~(k > Len(o) - One(ends))
    <2>1. o2[k] = o[k + One(ends)]
      BY <1>3, <1>6, <1>8
    <2>2. /\ k + One(ends) \in l + 2 .. Len(o) /\ Len(o) > l /\ Len(o2) > l2
          /\ Len(o) - (k + One(ends)) = Len(o2) - k - One(put)
      BY <1>1, <1>2, <1>4, <1>a, <1>8, FeedCount, SMTT(60)
    <2>3. o[k + One(ends)] = B[last - (Len(o) - (k + One(ends)))]
      BY <2>2 DEF Fedding
    <2>4. (put => last2 = last + 1) /\ (~put => last2 = last)
      BY <2>2 DEF Fedding
    <2>5. last2 - (Len(o2) - k) = last - (Len(o) - (k + One(ends)))
      <3>1. Len(o2) - k \in Int /\ Len(o) - (k + One(ends)) \in Int
        BY <1>1, <1>6, SMTT(60) DEF One
      <3> QED BY <2>2, <2>4, <3>1, SMTT(60) DEF One
    <2> QED BY <2>1, <2>3, <2>5
  <1> QED BY <1>7, <1>8

\* What the next W beat of the master and its next AW have to do with them: the
\* beat is number N of burst G, the AW is F.
Paired(o, l, B, last, G, N, F, alive) ==
  /\ Len(o) = l /\ alive => G = F /\ N = 1
  /\ Len(o) > l => G = last + 1 - (Len(o) - l) /\ o[l + 1] = B[G] - N + 1

\* An empty queue nothing enters stays empty.
LEMMA EmptyShift ==
  ASSUME NEW S, NEW t \in Seq(S), NEW s, s = <<>>, NEW x, x = 0, NEW y, y = 0,
         Len(t) = Len(s) - x + y
  PROVE  t = <<>>
  BY SMTT(60)

\* Every element of t was in s or is the new one.
From(s, t, put, e) ==
  \A i \in 1 .. Len(t) : (\E j \in 1 .. Len(s) : t[i] = s[j]) \/ (put /\ t[i] = e)

\* A shift brings in nothing but the new element.
LEMMA ShiftFrom ==
  ASSUME NEW S, NEW s \in Seq(S), NEW t \in Seq(S), NEW take \in BOOLEAN,
         take => s # <<>>, NEW put \in BOOLEAN, NEW e, Shift(s, t, take, put, e)
  PROVE  From(s, t, put, e)
  <1>1. Len(s) \in Nat /\ (take => Len(s) > 0) /\ Len(t) \in Nat
    BY SMTT(60)
  <1>2. /\ Len(t) = Len(s) - One(take) + One(put)
        /\ \A i \in 1 .. Len(t) : t[i] = IF i <= Len(s) - One(take) THEN s[i + One(take)] ELSE e
    BY DEF Shift
  <1>3. ASSUME NEW i \in 1 .. Len(t)
        PROVE  (\E j \in 1 .. Len(s) : t[i] = s[j]) \/ (put /\ t[i] = e)
    <2>1. CASE i <= Len(s) - One(take)
      <3>1. i + One(take) \in 1 .. Len(s)
        BY <1>1, <2>1, SMTT(60) DEF One
      <3> QED BY <1>2, <2>1, <3>1
    <2>2. CASE ~(i <= Len(s) - One(take))
      <3>1. put
        BY <1>1, <1>2, <2>2, SMTT(60) DEF One
      <3> QED BY <1>2, <2>2, <3>1
    <2> QED BY <2>1, <2>2
  <1> QED BY <1>3 DEF From

\* A queue of the master's that only loses its head keeps to its side of base.
LEMMA QueuedCycle ==
  ASSUME NEW s \in Seq(Nat), NEW t \in Seq(Nat), NEW take \in BOOLEAN, take => s # <<>>,
         NEW p \in Phase, NEW p2, Moved(p, p2), NEW base \in Nat, NEW e,
         p = "near" /\ p2 = "frozen" => t = <<>>,
         ~(p = "near" /\ p2 = "frozen") => Shift(s, t, take, FALSE, e),
         QueuedAs(p, s, base)
  PROVE  QueuedAs(p2, t, base)
  <1>1. CASE p = "near" /\ p2 = "frozen"
    BY <1>1 DEF QueuedAs
  <1>2. CASE ~(p = "near" /\ p2 = "frozen")
    <2>1. Shift(s, t, take, FALSE, e)
      BY <1>2
    <2>2. From(s, t, FALSE, e)
      BY <2>1, ShiftFrom
    <2>3. \A i \in 1 .. Len(t) : \E j \in 1 .. Len(s) : t[i] = s[j]
      BY <2>2 DEF From
    <2>4. p2 \in {"thaw", "run"} => p \in {"thaw", "run"}
      BY DEF Moved
    <2>5. p2 = "near" => p = "near"
      BY DEF Moved
    <2> QED BY <2>3, <2>4, <2>5 DEF QueuedAs
  <1> QED BY <1>1, <1>2

\* Answers of this life stay the only ones queued.
LEMMA AnswersCycle ==
  ASSUME NEW s \in Seq(Nat), NEW t \in Seq(Nat), NEW p \in Phase, NEW p2, Moved(p, p2),
         NEW base \in Nat, NEW put \in BOOLEAN, NEW e, p2 \in {"frozen", "thaw"} => t = <<>>,
         p # "near" => Shift(s, t, FALSE, put, e), p # "run" /\ p # "near" => s = <<>> /\ ~put,
         put /\ p = "run" => e >= base,
         AnswersAs(p, s, base)
  PROVE  AnswersAs(p2, t, base)
  <1> SUFFICES ASSUME p2 # "near" PROVE \A i \in 1 .. Len(t) : t[i] >= base
    BY DEF AnswersAs
  <1>1. CASE p2 \in {"frozen", "thaw"}
    <2>1. t = <<>>
      BY <1>1
    <2> QED BY <2>1, SMTT(60)
  <1>2. CASE p2 \notin {"frozen", "thaw"}
    <2>1. p = "run" \/ p = "thaw"
      BY <1>2 DEF Moved, Phase
    <2>2. Shift(s, t, FALSE, put, e)
      BY <2>1
    <2>3. From(s, t, put, e)
      BY <2>2, ShiftFrom
    <2>4. put => e >= base
      BY <2>1
    <2> QED BY <2>1, <2>3, <2>4 DEF From, AnswersAs
  <1> QED BY <1>1, <1>2

\* An edge of a request channel.
QueuedStep(p, p2, s, t, take, e, base) ==
  /\ s \in Seq(Nat) /\ t \in Seq(Nat) /\ base \in Nat
  /\ take \in BOOLEAN /\ (take => s # <<>>)
  /\ p \in Phase /\ Moved(p, p2)
  /\ p = "near" /\ p2 = "frozen" => t = <<>>
  /\ ~(p = "near" /\ p2 = "frozen") => Shift(s, t, take, FALSE, e)
  /\ QueuedAs(p, s, base)

\* Requests of a life stay apart from those of the next.
LEMMA QueuedMoves ==
  ASSUME NEW p, NEW p2, NEW s, NEW t, NEW take, NEW e, NEW base,
         QueuedStep(p, p2, s, t, take, e, base)
  PROVE  QueuedAs(p2, t, base)
  BY QueuedCycle DEF QueuedStep

\* An edge of an answer channel.
AnswersStep(p, p2, s, t, put, e, base) ==
  /\ s \in Seq(Nat) /\ t \in Seq(Nat) /\ base \in Nat /\ put \in BOOLEAN
  /\ p \in Phase /\ Moved(p, p2)
  /\ p2 \in {"frozen", "thaw"} => t = <<>>
  /\ p # "near" => Shift(s, t, FALSE, put, e)
  /\ p # "run" /\ p # "near" => s = <<>> /\ ~put
  /\ put /\ p = "run" => e >= base
  /\ AnswersAs(p, s, base)

\* AnswersCycle over such an edge.
LEMMA AnswersMove ==
  ASSUME NEW p, NEW p2, NEW s, NEW t, NEW put, NEW e, NEW base,
         AnswersStep(p, p2, s, t, put, e, base)
  PROVE  AnswersAs(p2, t, base)
  BY AnswersCycle DEF AnswersStep

\* An edge of the bursts at the slave.
FlightsStep(p, p2, s, t, take, put, e, base, o, n, o2, n2, ev) ==
  /\ p \in Phase /\ Moved(p, p2)
  /\ s \in Seq(Nat) /\ t \in Seq(Nat) /\ base \in Nat
  /\ take \in BOOLEAN /\ (take => s # <<>>) /\ put \in BOOLEAN /\ ev \in BOOLEAN
  /\ Shift(s, t, take, put, e)
  /\ o \in Nat /\ n \in Nat /\ o + n = Len(s)
  /\ Flown(o, n, o2, n2, ev, put, take)
  /\ StaleAs(p, s, base, o)
  /\ put => /\ e \in Nat /\ p \in {"run", "near"}
            /\ (p = "run" => e >= base) /\ (p = "near" => e < base)
  /\ ev => p \in {"frozen", "thaw"}
  /\ p = "thaw" => n = 0 \/ ev

\* StaleStep over such an edge.
LEMMA StaleMoves ==
  ASSUME NEW p, NEW p2, NEW s, NEW t, NEW take, NEW put, NEW e, NEW base, NEW o, NEW n,
         NEW o2, NEW n2, NEW ev, FlightsStep(p, p2, s, t, take, put, e, base, o, n, o2, n2, ev)
  PROVE  StaleAs(p2, t, base, o2)
  BY StaleStep, SMTT(60) DEF FlightsStep

\* The oldest queued burst, or the next to be issued.
HeadOr(s, aw) == IF s # <<>> THEN s[1] ELSE aw

\* The queued beats are consecutive, up to the next the master sends.
WOrderAs(s, B, rst, w, no) ==
  /\ \A i \in 1 .. Len(s) : /\ s[i].id \in 1 .. Len(B)
                            /\ s[i].no \in 1 .. B[s[i].id]
                            /\ s[i].last <=> s[i].no = B[s[i].id]
  /\ \A i \in 1 .. Len(s) - 1 : Follows(s[i], s[i + 1].id, s[i + 1].no)
  /\ ~rst /\ s # <<>> => Follows(s[Len(s)], w, no)

\* A queue nothing leaves or enters is the same queue.
LEMMA Unshifted ==
  ASSUME NEW S, NEW s \in Seq(S), NEW t \in Seq(S), NEW take, ~take, NEW e,
         Shift(s, t, take, FALSE, e)
  PROVE  t = s
  <1>1. Len(t) = Len(s) /\ \A i \in 1 .. Len(t) : t[i] = s[i]
    BY SMTT(60) DEF Shift, One
  <1> QED BY <1>1, SMTT(60)

\* The youngest of a queue of bursts.
LastOf(s) == IF s = <<>> THEN 0 ELSE s[Len(s)]

\* It is the last element, where there is one.
LEMMA LastOfSeq ==
  ASSUME NEW s \in Seq(Nat)
  PROVE  /\ LastOf(s) \in Nat /\ (s # <<>> => LastOf(s) = s[Len(s)])
         /\ Len(s) \in Nat /\ (Len(s) > 0 <=> s # <<>>)
  <1>1. /\ Len(s) \in Nat /\ (Len(s) > 0 <=> s # <<>>) /\ 0 \in Nat
        /\ s # <<>> => s[Len(s)] \in Nat
    BY SMTT(60)
  <1> QED BY <1>1 DEF LastOf

\* An edge of a queue whose n youngest are consecutive.
RunStep(s, t, take, put, e, n, m) ==
  /\ s \in Seq(Nat) /\ t \in Seq(Nat) /\ take \in BOOLEAN /\ put \in BOOLEAN
  /\ take => s # <<>>
  /\ put => e \in Nat
  /\ Shift(s, t, take, put, e)
  /\ n \in Nat /\ n <= Len(s) /\ m \in Nat /\ m <= Len(t) /\ m <= n + One(put)
  /\ \A j \in 0 .. n - 1 : s[Len(s) - j] = s[Len(s)] - j
  /\ put /\ n > 0 => e = s[Len(s)] + 1

\* Then its m youngest are.
RunKept(s, t, put, e, m) ==
  /\ \A j \in 0 .. m - 1 : t[Len(t) - j] = t[Len(t)] - j
  /\ put => t[Len(t)] = e
  /\ ~put /\ m > 0 => t[Len(t)] = s[Len(s)]

\* RunShift over such an edge.
LEMMA RunMoves ==
  ASSUME NEW s, NEW t, NEW take, NEW put, NEW e, NEW n, NEW m,
         RunStep(s, t, take, put, e, n, m)
  PROVE  RunKept(s, t, put, e, m)
  <1>1. /\ s \in Seq(Nat) /\ t \in Seq(Nat) /\ take \in BOOLEAN /\ put \in BOOLEAN
        /\ take => s # <<>>
        /\ put => e \in Nat
        /\ Shift(s, t, take, put, e)
        /\ n \in Nat /\ n <= Len(s) /\ m \in Nat /\ m <= Len(t) /\ m <= n + One(put)
        /\ \A j \in 0 .. n - 1 : s[Len(s) - j] = s[Len(s)] - j
        /\ put /\ n > 0 => e = s[Len(s)] + 1
    BY DEF RunStep
  <1>2. /\ \A j \in 0 .. m - 1 : t[Len(t) - j] = t[Len(t)] - j
        /\ put => t[Len(t)] = e
        /\ ~put /\ m > 0 => t[Len(t)] = s[Len(s)]
    BY <1>1, RunShift, SMTT(60)
  <1> QED BY <1>2 DEF RunKept

\* The types Fedding leaves open.
FeedTypes(o, o2, w, put, l, l2, last, last2) ==
  /\ o \in Seq(Beats) /\ o2 \in Seq(Beats) /\ w \in BOOLEAN /\ put \in BOOLEAN
  /\ l \in Nat /\ l2 \in Nat /\ last \in Nat /\ last2 \in Nat

\* Bursts nobody has fed yet are owed in full.
LaterOwed(o, l, B, last) == \A k \in l + 2 .. Len(o) : o[k] = B[last - (Len(o) - k)]

\* They stay so over an edge.
LEMMA LaterMoves ==
  ASSUME NEW o, NEW o2, NEW w, NEW put, NEW n, NEW l, NEW l2, NEW B, NEW last, NEW last2, NEW e,
         FeedTypes(o, o2, w, put, l, l2, last, last2),
         Fedding(o, o2, w, put, n, l, l2, B, last, last2, e)
  PROVE  LaterOwed(o2, l2, B, last2)
  <1>1. /\ o \in Seq(Beats) /\ o2 \in Seq(Beats) /\ w \in BOOLEAN /\ put \in BOOLEAN
        /\ l \in Nat /\ l2 \in Nat /\ last \in Nat /\ last2 \in Nat
    BY DEF FeedTypes
  <1>2. \A k \in l2 + 2 .. Len(o2) : o2[k] = B[last2 - (Len(o2) - k)]
    BY <1>1, FeedLater, SMTT(60)
  <1> QED BY <1>2 DEF LaterOwed

\* The last beat of a burst is taken.
PairLast(o, o2, put, n, B, last, last2, e, G, F, alive2, F2) ==
  /\ o \in Seq(Beats) /\ o2 \in Seq(Beats) /\ put \in BOOLEAN /\ alive2 \in BOOLEAN
  /\ last \in Nat /\ last2 \in Nat /\ e \in Nat /\ G \in Nat /\ F \in Nat
  /\ o # <<>> /\ o[1] = 1
  /\ Fedding(o, o2, TRUE, put, n, 0, 0, B, last, last2, e)
  /\ G = last + 1 - Len(o)
  /\ alive2 => F = last + 1 /\ F2 = F + One(put)

\* A beat that is not its burst's last is taken.
PairNext(o, o2, put, n, B, last, last2, e, G, N, alive2) ==
  /\ o \in Seq(Beats) /\ o2 \in Seq(Beats) /\ put \in BOOLEAN /\ alive2 \in BOOLEAN
  /\ last \in Nat /\ last2 \in Nat /\ e \in Nat /\ G \in Nat /\ N \in Nat
  /\ o # <<>> /\ o[1] # 1
  /\ Fedding(o, o2, TRUE, put, n, 0, 0, B, last, last2, e)
  /\ G = last + 1 - Len(o)
  /\ B[G] \in Nat /\ o[1] = B[G] - N + 1

\* No beat of the master is taken.
PairKeep(o, o2, w, put, n, l, l2, B, last, last2, e, G, N, F, F2, alive, alive2) ==
  /\ o \in Seq(Beats) /\ o2 \in Seq(Beats) /\ w \in BOOLEAN /\ put \in BOOLEAN
  /\ l \in Nat /\ l2 \in Nat /\ last \in Nat /\ last2 \in Nat /\ e \in Nat
  /\ G \in Nat /\ N \in Nat /\ F \in Nat /\ alive \in BOOLEAN /\ alive2 \in BOOLEAN
  /\ Fedding(o, o2, w, put, n, l, l2, B, last, last2, e)
  /\ w => l > 0
  /\ Paired(o, l, B, last, G, N, F, alive)
  /\ alive2 => alive /\ F2 = F + One(put)
  /\ put => alive /\ e = F

\* After the last beat the next beat is of the next burst.
LEMMA PairedMovesLast ==
  ASSUME NEW o, NEW o2, NEW put, NEW n, NEW B, NEW last, NEW last2, NEW e, NEW G, NEW F, NEW alive2, NEW F2,
         PairLast(o, o2, put, n, B, last, last2, e, G, F, alive2, F2)
  PROVE  Paired(o2, 0, B, last2, G + 1, 1, F2, alive2)
  <1>h. /\ o \in Seq(Beats) /\ o2 \in Seq(Beats) /\ put \in BOOLEAN /\ alive2 \in BOOLEAN
        /\ last \in Nat /\ last2 \in Nat /\ e \in Nat /\ G \in Nat /\ F \in Nat
        /\ o # <<>> /\ o[1] = 1
        /\ Fedding(o, o2, TRUE, put, n, 0, 0, B, last, last2, e)
        /\ G = last + 1 - Len(o)
        /\ alive2 => F = last + 1 /\ F2 = F + One(put)
    BY DEF PairLast
  <1> USE <1>h
  <1>1. /\ Len(o) \in Nat /\ Len(o2) \in Nat /\ Len(o) > 0
        /\ \A k \in 1 .. Len(o2) : o2[k] \in Nat
    BY PadAssumption, SMTT(60) DEF Beats
  <1>2. Len(o2) = Len(o) - 1 + One(put)
    BY DEF Fedding, Feed, One
  <1>3. \A k \in 1 .. Len(o2) : o2[k] = IF k > Len(o) - 1 THEN n ELSE o[k + 1]
    BY DEF Fedding, Feed, One
  <1>4. Len(o2) > 0 => (put => last2 = last + 1) /\ (~put => last2 = last)
    <2>1. Len(o) > 0
      BY <1>1
    <2> QED BY <2>1 DEF Fedding
  <1>5. CASE Len(o2) = 0
    <2>1. ~put /\ Len(o) = 1
      BY <1>1, <1>2, <1>5, SMTT(60) DEF One
    <2>2. alive2 => F2 = G + 1
      BY <2>1, SMTT(60) DEF One
    <2>3. ~(Len(o2) > 0)
      BY <1>5, SMTT(60)
    <2> QED BY <2>2, <2>3 DEF Paired
  <1>6. CASE Len(o2) > 0
    <2>1. G + 1 = last2 + 1 - (Len(o2) - 0)
      BY <1>1, <1>2, <1>4, <1>6, SMTT(60) DEF One
    <2>2. 1 \in 1 .. Len(o2)
      BY <1>1, <1>6, SMTT(60)
    <2>3. o2[1] = B[G + 1]
      <3>1. CASE Len(o) = 1
        <4>1. put /\ 1 > Len(o) - 1
          BY <1>1, <1>2, <1>6, <3>1, SMTT(60) DEF One
        <4>2. o2[1] = n /\ n = B[e] /\ e = last + 1
          BY <1>1, <1>3, <2>2, <4>1 DEF Fedding
        <4>3. e = G + 1
          BY <3>1, <4>2, SMTT(60)
        <4> QED BY <4>2, <4>3
      <3>2. CASE Len(o) > 1
        <4>1. ~(1 > Len(o) - 1) /\ 1 + 1 = 2 /\ 2 \in 0 + 2 .. Len(o) /\ last - (Len(o) - 2) = G + 1
          BY <1>1, <3>2, SMTT(60)
        <4>2. o2[1] = o[2]
          BY <1>3, <2>2, <4>1
        <4>3. o[2] = B[last - (Len(o) - 2)]
          BY <4>1 DEF Fedding
        <4>4. B[last - (Len(o) - 2)] = B[G + 1]
          BY <4>1
        <4> QED BY <4>2, <4>3, <4>4
      <3>a. \A x \in Nat : x > 0 => x = 1 \/ x > 1
        BY SMTT(60)
      <3>3. Len(o) = 1 \/ Len(o) > 1
        BY <1>1, <3>a
      <3> QED BY <3>1, <3>2, <3>3
    <2>4. o2[1] \in Nat
      BY <1>1, <2>2
    <2>5. o2[0 + 1] = B[G + 1] - 1 + 1
      BY <2>3, <2>4, SMTT(60)
    <2>6. ~(Len(o2) = 0)
      BY <1>6, SMTT(60)
    <2> QED BY <2>1, <2>5, <2>6 DEF Paired
  <1> QED BY <1>1, <1>5, <1>6, SMTT(60)

\* After another beat the same burst is owed one less.
LEMMA PairedMovesNext ==
  ASSUME NEW o, NEW o2, NEW put, NEW n, NEW B, NEW last, NEW last2, NEW e, NEW G, NEW N, NEW alive2, NEW F2,
         PairNext(o, o2, put, n, B, last, last2, e, G, N, alive2)
  PROVE  Paired(o2, 0, B, last2, G, N + 1, F2, alive2)
  <1>h. /\ o \in Seq(Beats) /\ o2 \in Seq(Beats) /\ put \in BOOLEAN /\ alive2 \in BOOLEAN
        /\ last \in Nat /\ last2 \in Nat /\ e \in Nat /\ G \in Nat /\ N \in Nat
        /\ o # <<>> /\ o[1] # 1
        /\ Fedding(o, o2, TRUE, put, n, 0, 0, B, last, last2, e)
        /\ G = last + 1 - Len(o)
        /\ B[G] \in Nat /\ o[1] = B[G] - N + 1
    BY DEF PairNext
  <1> USE <1>h
  <1>1. Len(o) \in Nat /\ Len(o2) \in Nat /\ Len(o) > 0
    BY SMTT(60)
  <1>2. Len(o2) = Len(o) - 0 + One(put)
    BY DEF Fedding, Feed, One
  <1>3. \A k \in 1 .. Len(o2) : o2[k] = IF k > Len(o) - 0 THEN n
                                        ELSE IF k = 1 THEN o[1] - 1 ELSE o[k + 0]
    BY DEF Fedding, Feed, One
  <1>4. Len(o2) > 0 /\ 1 \in 1 .. Len(o2) /\ ~(1 > Len(o) - 0)
    BY <1>1, <1>2, SMTT(60) DEF One
  <1>5. o2[1] = o[1] - 1
    BY <1>3, <1>4
  <1>6. (put => last2 = last + 1) /\ (~put => last2 = last)
    BY <1>1, <1>4 DEF Fedding
  <1>7. G = last2 + 1 - (Len(o2) - 0) /\ o2[0 + 1] = B[G] - (N + 1) + 1 /\ ~(Len(o2) = 0)
    BY <1>1, <1>2, <1>4, <1>5, <1>6, SMTT(60) DEF One
  <1> QED BY <1>7 DEF Paired

\* Without a beat the pairing stands, even as a burst is forwarded or padded.
LEMMA PairedMovesKept ==
  ASSUME NEW o, NEW o2, NEW w, NEW put, NEW n, NEW l, NEW l2, NEW B, NEW last, NEW last2, NEW e, NEW G, NEW N, NEW F, NEW F2, NEW alive, NEW alive2,
         PairKeep(o, o2, w, put, n, l, l2, B, last, last2, e, G, N, F, F2, alive, alive2)
  PROVE  Paired(o2, l2, B, last2, G, N, F2, alive2)
  <1>h. /\ o \in Seq(Beats) /\ o2 \in Seq(Beats) /\ w \in BOOLEAN /\ put \in BOOLEAN
        /\ l \in Nat /\ l2 \in Nat /\ last \in Nat /\ last2 \in Nat /\ e \in Nat
        /\ G \in Nat /\ N \in Nat /\ F \in Nat /\ alive \in BOOLEAN /\ alive2 \in BOOLEAN
        /\ Fedding(o, o2, w, put, n, l, l2, B, last, last2, e)
        /\ w => l > 0
        /\ Paired(o, l, B, last, G, N, F, alive)
        /\ alive2 => alive /\ F2 = F + One(put)
        /\ put => alive /\ e = F
    BY DEF PairKeep
  <1> USE <1>h
  <1> DEFINE ends == w /\ o[1] = 1
  <1>1. Len(o) \in Nat /\ Len(o2) \in Nat /\ (w => Len(o) > 0)
        /\ \A k \in 1 .. Len(o2) : o2[k] \in Nat
    <2>1. w => o # <<>>
      BY DEF Fedding
    <2> QED BY <2>1, PadAssumption, SMTT(60) DEF Beats
  <1>2. Len(o2) = Len(o) - One(ends) + One(put)
    BY DEF Fedding, Feed
  <1>3. \A k \in 1 .. Len(o2) :
             o2[k] = IF k > Len(o) - One(ends) THEN n
                     ELSE IF w /\ ~ends /\ k = 1 THEN o[1] - 1 ELSE o[k + One(ends)]
    BY DEF Fedding, Feed
  <1>4. l2 = (IF ends /\ l > 0 THEN l - 1 ELSE l) /\ l <= Len(o)
    BY DEF Fedding
  <1>5. ends \in BOOLEAN /\ (ends => Len(o) > 0) /\ (ends => l > 0)
    BY <1>1
  <1>a. /\ One(ends) \in 0 .. 1 /\ One(put) \in 0 .. 1
        /\ One(ends) = 1 => Len(o) > 0
        /\ One(ends) = 1 /\ l > 0 => l2 = l - 1
        /\ One(ends) = 0 \/ l = 0 => l2 = l
        /\ One(ends) = 0 \/ l > 0
    <2>1. 0 # 1 /\ ~(0 > 0)
      BY SMTT(60)
    <2>2. One(ends) \in 0 .. 1 /\ One(put) \in 0 .. 1
      BY <1>5, OneBit
    <2>3. (ends => One(ends) = 1) /\ (~ends => One(ends) = 0)
      BY DEF One
    <2> QED BY <1>4, <1>5, <2>1, <2>2, <2>3
  <1> HIDE DEF ends
  <1>6. /\ Len(o2) - l2 = Len(o) - l + One(put) /\ l2 + 1 + One(ends) = l + 1
        /\ Len(o) > l => /\ l2 + 1 \in 1 .. Len(o2) /\ ~(l2 + 1 > Len(o) - One(ends))
                         /\ Len(o2) > l2
    BY <1>1, <1>2, <1>4, <1>a, FeedCount, SMTT(60)
  <1>7. CASE Len(o) = l
    <2>1. alive => G = F /\ N = 1
      BY <1>7 DEF Paired
    <2>2. CASE put
      <3>1. Len(o2) - l2 = 1 /\ l2 + 1 = Len(o2) /\ Len(o2) > l2 /\ ~(Len(o2) = l2)
        BY <1>1, <1>6, <1>7, <2>2, SMTT(60) DEF One
      <3>2. Len(o2) > Len(o) - One(ends) /\ Len(o2) \in 1 .. Len(o2)
        BY <1>1, <1>2, <2>2, <3>1, SMTT(60) DEF One
      <3>3. o2[Len(o2)] = n /\ o2[Len(o2)] \in Nat
        BY <1>1, <1>3, <3>2
      <3>4. n = B[e] /\ last2 = e /\ G = e /\ N = 1
        BY <2>1, <2>2 DEF Fedding
      <3>5. B[G] = o2[Len(o2)]
        BY <3>3, <3>4
      <3>6. o2[l2 + 1] = B[G] - N + 1
        BY <3>1, <3>3, <3>4, <3>5, SMTT(60)
      <3>7. G = last2 + 1 - (Len(o2) - l2)
        BY <3>1, <3>4, SMTT(60)
      <3> QED BY <3>1, <3>6, <3>7 DEF Paired
    <2>3. CASE ~put
      <3>1. Len(o2) = l2 /\ ~(Len(o2) > l2)
        BY <1>1, <1>6, <1>7, <2>3, SMTT(60) DEF One
      <3>2. alive2 => G = F2 /\ N = 1
        BY <2>1, <2>3, SMTT(60) DEF One
      <3> QED BY <3>1, <3>2 DEF Paired
    <2> QED BY <2>2, <2>3
  <1>8. CASE Len(o) > l
    <2>1. G = last + 1 - (Len(o) - l) /\ o[l + 1] = B[G] - N + 1
      BY <1>8 DEF Paired
    <2>2. (put => last2 = last + 1) /\ (~put => last2 = last) /\ Len(o2) > l2
      BY <1>6, <1>8 DEF Fedding
    <2>3. G = last2 + 1 - (Len(o2) - l2)
      BY <1>1, <1>6, <2>1, <2>2, SMTT(60) DEF One
    <2>4. ~(w /\ ~ends /\ l2 + 1 = 1)
      BY <1>4, SMTT(60) DEF One
    <2>5. o2[l2 + 1] = o[l + 1]
      <3>1. o2[l2 + 1] = o[l2 + 1 + One(ends)]
        BY <1>3, <1>6, <1>8, <2>4
      <3> QED BY <1>6, <3>1
    <2>6. ~(Len(o2) = l2)
      BY <1>1, <2>2, SMTT(60)
    <2> QED BY <2>1, <2>3, <2>5, <2>6 DEF Paired
  <1> QED BY <1>1, <1>4, <1>7, <1>8, SMTT(60)
=============================================================================
