-------------------------------- MODULE WPad --------------------------------
(***************************************************************************)
(* rtl/soc/axi_bridge_w_pad.v: the lengths of the write bursts the slave   *)
(* has accepted an AW for and still waits for W beats of, and the filler   *)
(* beats that complete the ones a reset of the upstream side abandoned.    *)
(* The tail ring (tail_mem, tail_wp, tail_rp, tail_cnt) is the sequence    *)
(* tail.  Ghosts: owed, the beats the slave itself still waits for, burst  *)
(* by burst, and left, how many of those bursts a reset has abandoned.     *)
(***************************************************************************)
EXTENDS Naturals, Sequences

CONSTANTS TAIL_DEPTH, MaxBeats

ASSUME PadAssumption == TAIL_DEPTH \in Nat \ {0} /\ MaxBeats \in Nat \ {0}

VARIABLES head_beats, head_valid, head_is_last, tail, pad_left, pad_r, owed, left

padVars == <<head_beats, head_valid, head_is_last, tail, pad_left, pad_r, owed, left>>

Beats == 1 .. MaxBeats

PadRegsInit == /\ head_beats = 0 /\ head_valid = FALSE /\ head_is_last = FALSE
               /\ tail = <<>>
               /\ pad_left = 0 /\ pad_r = FALSE

PadInit == PadRegsInit /\ owed = <<>> /\ left = 0

track_valid == head_valid
aw_block == Len(tail) = TAIL_DEPTH
pad_active == pad_r
pad_wlast == head_is_last

burst_done(w_fire) == w_fire /\ head_valid /\ head_is_last
head_free_now(w_fire) == IF burst_done(w_fire) THEN tail = <<>> ELSE ~head_valid

HeadEdge(aw_fwd, beats, w_fire) ==
  LET Load(n) == head_beats' = n /\ head_is_last' = (n = 1) /\ head_valid' = TRUE
  IN IF burst_done(w_fire)
     THEN IF tail # <<>> THEN Load(Head(tail))
          ELSE IF aw_fwd THEN Load(beats)
          ELSE head_beats' = 0 /\ head_is_last' = FALSE /\ head_valid' = FALSE
     ELSE IF w_fire /\ head_valid
     THEN /\ head_beats' = head_beats - 1
          /\ head_is_last' = (head_beats = 2)
          /\ UNCHANGED head_valid
     ELSE IF aw_fwd /\ head_free_now(w_fire) THEN Load(beats)
     ELSE UNCHANGED <<head_beats, head_is_last, head_valid>>

\* Fault: an AW forwarded as the last tracked burst retires goes to the tail.
TailEdgeLate(aw_fwd, beats, w_fire) ==
  LET popped == IF burst_done(w_fire) /\ tail # <<>> THEN Tail(tail) ELSE tail
  IN tail' = IF aw_fwd /\ head_valid THEN Append(popped, beats) ELSE popped

TailEdge(aw_fwd, beats, w_fire) ==
  LET popped == IF burst_done(w_fire) /\ tail # <<>> THEN Tail(tail) ELSE tail
  IN tail' = IF aw_fwd /\ ~head_free_now(w_fire) THEN Append(popped, beats)
             ELSE popped

\* Fault: the occupancy before the edge is what a reset event abandons.
FillerEdgeStale(reset_event, aw_fwd, w_fire) ==
  /\ pad_left' = IF reset_event
                 THEN Len(tail) + (IF head_valid THEN 1 ELSE 0)
                 ELSE IF pad_r /\ burst_done(w_fire) THEN pad_left - 1
                 ELSE pad_left
  /\ pad_r' = (pad_left' # 0)

\* occ_next, pad_left_next.
FillerEdge(reset_event, aw_fwd, w_fire) ==
  /\ pad_left' = IF reset_event
                 THEN Len(tail') + (IF head_valid' THEN 1 ELSE 0)
                 ELSE IF pad_r /\ burst_done(w_fire) THEN pad_left - 1
                 ELSE pad_left
  /\ pad_r' = (pad_left' # 0)

\* posedge m_clk outside m_rst.
PadEdge(reset_event, aw_fwd, beats, w_fire) ==
  /\ HeadEdge(aw_fwd, beats, w_fire)
  /\ TailEdge(aw_fwd, beats, w_fire)
  /\ FillerEdge(reset_event, aw_fwd, w_fire)

\* What the same edge does at the slave: a beat goes to the oldest burst, an
\* accepted AW queues its own.
OwedEdge(reset_event, aw_fwd, beats, w_fire) ==
  LET ends == w_fire /\ owed[1] = 1
      fed == IF ends THEN Tail(owed)
             ELSE IF w_fire THEN [owed EXCEPT ![1] = @ - 1]
             ELSE owed
      now == IF aw_fwd THEN Append(fed, beats) ELSE fed
  IN /\ owed' = now
     /\ left' = IF reset_event THEN Len(now)
                ELSE IF ends /\ left > 0 THEN left - 1
                ELSE left

PadReset == /\ head_beats' = 0 /\ head_valid' = FALSE /\ head_is_last' = FALSE
            /\ tail' = <<>> /\ pad_left' = 0 /\ pad_r' = FALSE
            /\ owed' = <<>> /\ left' = 0

\* The bridge forwards no AW while aw_block, and offers W only when a burst
\* is tracked or filler is due; the slave takes beats only for AWs it has.
PadClock(reset_event, aw_fwd, beats, w_fire) ==
  /\ aw_fwd => ~aw_block
  /\ w_fire => (track_valid \/ pad_active) /\ owed # <<>>
  /\ PadEdge(reset_event, aw_fwd, beats, w_fire)
  /\ OwedEdge(reset_event, aw_fwd, beats, w_fire)

PadNext == \/ \E e, a, w \in BOOLEAN, n \in Beats : PadClock(e, a, n, w)
           \/ PadReset

PadSpec == PadInit /\ [][PadNext]_padVars

-----------------------------------------------------------------------------
(* Properties *)

PadTypeOK == /\ head_beats \in 0 .. MaxBeats /\ head_valid \in BOOLEAN
             /\ head_is_last \in BOOLEAN
             /\ tail \in Seq(Beats) /\ owed \in Seq(Beats)
             /\ pad_left \in Nat /\ left \in Nat /\ pad_r \in BOOLEAN

\* The tracker knows, beat for beat, what the slave is waiting for: the head
\* register is the burst being fed, its last-beat flag is true exactly on its
\* last beat, the tail is every burst behind it, and the ring never overruns.
TrackExact == /\ head_valid <=> owed # <<>>
              /\ head_valid => head_beats = Head(owed) /\ tail = Tail(owed)
              /\ ~head_valid => tail = <<>>
              /\ head_is_last <=> head_valid /\ head_beats = 1
              /\ Len(tail) <= TAIL_DEPTH

\* Filler is due for exactly the bursts a reset abandoned that the slave has
\* not had completed, and while it is due the slave has such a burst open.
PadExact == /\ pad_left = left
            /\ pad_r <=> left # 0
            /\ left <= Len(owed)
=============================================================================
