------------------------------ MODULE AxiBridge ------------------------------
(***************************************************************************)
(* rtl/soc/axi_async_bridge.v: five channel FIFOs between an upstream      *)
(* master (s_clk) and a downstream slave (m_clk), and what keeps the slave *)
(* and the restarted master apart when only the s side is reset: the reset *)
(* event crossed by pulse_cdc, the recovery event taken once every FIFO's  *)
(* m side is frozen, the W filler tracker and the two stale sinks.         *)
(*                                                                         *)
(* A channel FIFO is a queue with the phase of its coupled reset (AsyncFifo*)
(* models the mechanism): "near" the s side alone is in reset, "frozen"    *)
(* both are, "thaw" the s side has left it and the m side has not.  Each   *)
(* FIFO has synchronizers of its own, so each moves at an edge of its own. *)
(* A transaction is its number; numbers below base were issued before the  *)
(* last reset of the master, which has forgotten them.  A W beat is the    *)
(* transaction's number, its own number in the burst and WLAST.            *)
(***************************************************************************)
EXTENDS WPad, StaleSink

CONSTANTS Depth,         \* entries of a channel FIFO
          Scenarios,     \* [beats: beats of write i, reads: beats of read i,
                         \*  resets: how many resets there are]
          None

ASSUME BridgeAssumption ==
  /\ Depth \in Nat /\ None \notin Nat
  /\ \A c \in Scenarios : /\ c.beats \in Seq(Beats) /\ c.reads \in Seq(Nat \ {0})
                          /\ c.resets \in Nat

VARIABLES r_outstanding, r_debt, r_old, r_fresh,   \* u_r_stale_sink
          scn, ph, q,
          sRst, pend,               \* s_rst, s_reset_pending_m
          src_toggle, dst_sync,     \* u_srst_pulse_cdc
          stage,                    \* aw_stage_data, None when not valid
          writes, reads,            \* what the slave has in flight, in order
          mst                       \* the master

RSink == INSTANCE StaleSink WITH outstanding <- r_outstanding, debt <- r_debt,
                                 old <- r_old, fresh <- r_fresh

rSinkVars == <<r_outstanding, r_debt, r_old, r_fresh>>
mVars == <<padVars, sinkVars, rSinkVars, pend, stage, writes, reads>>
vars == <<mVars, dst_sync, scn, ph, q, sRst, src_toggle, mst>>

Chan == {"aw", "w", "b", "ar", "r"}

\* FIFOs that move on their own.  Those of a direction without traffic matter
\* only as one more that is frozen or not, so they move as one.
Lanes == IF scn.beats = <<>> THEN {{"aw", "w", "b"}, {"ar"}, {"r"}}
                             ELSE {{"aw"}, {"w"}, {"b"}, {"ar", "r"}}

MEngaged(f) == ph[f] \in {"frozen", "thaw"}
SOpen(f) == ~sRst /\ ph[f] \in {"run", "thaw"}
Room(f) == Len(q[f]) < Depth
Push(f, e) == q' = [q EXCEPT ![f] = Append(@, e)]

Init == /\ PadInit /\ SinkInit /\ RSink!SinkInit
        /\ scn \in Scenarios
        /\ ph = [f \in Chan |-> "run"] /\ q = [f \in Chan |-> <<>>]
        /\ sRst = FALSE /\ pend = FALSE /\ src_toggle = 0 /\ dst_sync = 0
        /\ stage = None /\ writes = <<>> /\ reads = <<>>
        /\ mst = [aw |-> 1, w |-> 1, sent |-> 0, ar |-> 1, base |-> 1, resets |-> 0]

-----------------------------------------------------------------------------
(* s_clk: the master and its side of the FIFOs *)

sUnchanged == UNCHANGED <<mVars, scn, sRst, src_toggle, dst_sync>>

SendAw == /\ mst.aw <= Len(scn.beats) /\ SOpen("aw") /\ Room("aw")
          /\ Push("aw", mst.aw)
          /\ mst' = [mst EXCEPT !.aw = @ + 1]
          /\ sUnchanged /\ UNCHANGED ph

\* Beats follow the order of the AWs; data may run one burst ahead of its AW.
SendW == /\ mst.w <= mst.aw /\ mst.w <= Len(scn.beats) /\ SOpen("w") /\ Room("w")
         /\ LET last == mst.sent + 1 = scn.beats[mst.w]
            IN /\ Push("w", [id |-> mst.w, no |-> mst.sent + 1, last |-> last])
               /\ mst' = IF last THEN [mst EXCEPT !.w = @ + 1, !.sent = 0]
                         ELSE [mst EXCEPT !.sent = @ + 1]
         /\ sUnchanged /\ UNCHANGED ph

SendAr == /\ mst.ar <= Len(scn.reads) /\ SOpen("ar") /\ Room("ar")
          /\ Push("ar", mst.ar)
          /\ mst' = [mst EXCEPT !.ar = @ + 1]
          /\ sUnchanged /\ UNCHANGED ph

TakeResponse(f) == /\ SOpen(f) /\ q[f] # <<>>
                   /\ q' = [q EXCEPT ![f] = Tail(@)]
                   /\ sUnchanged /\ UNCHANGED <<ph, mst>>

\* The first number no transaction of the master has used.
Unused == LET w == IF mst.sent > 0 THEN mst.w + 1 ELSE mst.w
              top(x, y) == IF x > y THEN x ELSE y
          IN top(top(mst.aw, w), mst.ar)

Restarted == [aw |-> Unused, w |-> Unused, sent |-> 0, ar |-> Unused,
              base |-> Unused, resets |-> mst.resets + 1]

Crossing == src_toggle # dst_sync

\* s_rst rises: the s side of every FIFO is in reset at once and the toggle of
\* pulse_cdc flips.  Resets are further apart than the crossing takes, as
\* pulse_cdc asks of its source.
SReset == /\ ~sRst /\ ~Crossing /\ mst.resets < scn.resets
          /\ sRst' = TRUE /\ src_toggle' = 1 - src_toggle
          /\ ph' = [f \in Chan |-> IF MEngaged(f) THEN "frozen" ELSE "near"]
          /\ q' = [f \in Chan |-> IF MEngaged(f) THEN <<>> ELSE q[f]]
          /\ mst' = Restarted
          /\ UNCHANGED <<mVars, scn, dst_sync>>

\* A reset is held until it has crossed.
SResetEnds == /\ sRst /\ ~Crossing /\ \A f \in Chan : ph[f] = "frozen"
              /\ sRst' = FALSE
              /\ UNCHANGED <<mVars, scn, src_toggle, dst_sync, ph, q, mst>>

SThaw(lane) == /\ ~sRst /\ \A f \in lane : ph[f] = "frozen"
               /\ ph' = [f \in Chan |-> IF f \in lane THEN "thaw" ELSE ph[f]]
               /\ sUnchanged /\ UNCHANGED <<q, mst>>

-----------------------------------------------------------------------------
(* m_clk: one posedge of the bridge and of the slave behind it *)

\* Fault: the snapshot is taken when the event arrives, frozen or not.
recovery_at_once == pend
s_reset_recovery_event_m == pend /\ \A f \in Chan : MEngaged(f)

m_awvalid_i == stage # None /\ ~aw_block /\ ~MEngaged("aw")
m_wvalid_i == q["w"] # <<>> /\ ~MEngaged("w") /\ track_valid
\* Fault: no filler beats are offered.
m_wvalid_real_only == m_wvalid_i
m_wvalid == pad_active \/ m_wvalid_i
b_full == MEngaged("b") \/ ~Room("b")
r_full == MEngaged("r") \/ ~Room("r")

\* The slave: it takes W beats for AWs it has accepted and answers in order.
Fed == writes[Len(writes) - Len(owed) + 1]
m_bvalid == Len(writes) > Len(owed)
m_rvalid == reads # <<>>

\* What may happen at the next edge, each if its handshake is complete:
\* "pop" the AW FIFO shows its head, the rest are the five channels.
Offers ==
  {o \in {"pop", "aw", "w", "b", "ar", "r"} :
     CASE o = "pop" -> q["aw"] # <<>> /\ ~MEngaged("aw")
       [] o = "aw" -> m_awvalid_i /\ Len(writes) < SlaveCap
       [] o = "w" -> m_wvalid /\ owed # <<>>
       [] o = "b" -> m_bvalid /\ (sinking \/ ~b_full)
       [] o = "ar" -> q["ar"] # <<>> /\ ~MEngaged("ar") /\ Len(reads) < SlaveCap
       [] o = "r" -> m_rvalid /\ (RSink!sinking \/ ~r_full)}

\* Fault: the stage keeps the AW it holds through the freeze.
StageEdgeKept(pop, fwd) ==
  stage' = IF pop THEN Head(q["aw"]) ELSE IF fwd THEN None ELSE stage

StageEdge(pop, fwd) ==
  stage' = IF MEngaged("aw") THEN None
           ELSE IF pop THEN Head(q["aw"])
           ELSE IF fwd THEN None ELSE stage

\* The slave's bursts in flight after the edge.
SlaveEdge(fwd, b, ar, r) ==
  LET answered == IF b THEN Tail(writes) ELSE writes
      fedR == IF ~r THEN reads
              ELSE IF Head(reads).left = 1 THEN Tail(reads)
              ELSE [reads EXCEPT ![1].left = @ - 1]
  IN /\ writes' = IF fwd THEN Append(answered, stage) ELSE answered
     /\ reads' = IF ar THEN Append(fedR, [id |-> Head(q["ar"]),
                                          left |-> scn.reads[Head(q["ar"])]])
                 ELSE fedR

\* The queues after the edge: pops and pushes, then a FIFO whose m side has
\* just entered reset is empty.
QueueEdge(pop, w, b, ar, r, freezing) ==
  LET moved == [q EXCEPT !["aw"] = IF pop THEN Tail(@) ELSE @,
                         !["w"] = IF w /\ ~pad_active THEN Tail(@) ELSE @,
                         !["b"] = IF b /\ ~sinking THEN Append(@, Head(writes)) ELSE @,
                         !["ar"] = IF ar THEN Tail(@) ELSE @,
                         !["r"] = IF r /\ ~RSink!sinking
                                  THEN Append(@, Head(reads).id) ELSE @]
  IN q' = [f \in Chan |-> IF f \in freezing THEN <<>> ELSE moved[f]]

MEdge(go, moving, arrives) ==
  LET fwd == "aw" \in go
      pop == "pop" \in go /\ (stage = None \/ fwd)
      w == "w" \in go
      b == "b" \in go
      ar == "ar" \in go
      r == "r" \in go
      ev == s_reset_recovery_event_m
      beats == IF fwd THEN scn.beats[stage] ELSE 1
  IN /\ PadEdge(ev, fwd, beats, w) /\ OwedEdge(ev, fwd, beats, w)
     /\ SinkEdge(ev, fwd, b) /\ FlightEdge(ev, fwd, b)
     /\ RSink!SinkEdge(ev, ar, r /\ Head(reads).left = 1)
     /\ RSink!FlightEdge(ev, ar, r /\ Head(reads).left = 1)
     /\ StageEdge(pop, fwd)
     /\ SlaveEdge(fwd, b, ar, r)
     /\ QueueEdge(pop, w, b, ar, r, {f \in moving : ph[f] = "near"})
     /\ ph' = [f \in Chan |-> IF f \notin moving THEN ph[f]
                              ELSE IF ph[f] = "near" THEN "frozen" ELSE "run"]
     /\ pend' = IF arrives THEN TRUE ELSE IF ev THEN FALSE ELSE pend
     /\ dst_sync' = IF arrives THEN src_toggle ELSE dst_sync
     /\ UNCHANGED <<scn, sRst, src_toggle, mst>>

Moving == {lane \in Lanes : \A f \in lane : ph[f] \in {"near", "thaw"}}

MTick == \E go \in SUBSET Offers, moving \in SUBSET Moving :
           \E arrives \in {FALSE, Crossing} : MEdge(go, UNION moving, arrives)

\* s_rst and m_rst together: a full restart of both sides and of the slave.
\* m_rst clears pulse_cdc's destination flops, nothing clears its toggle.
FullReset == /\ mst.resets < scn.resets
             /\ PadReset /\ SinkReset /\ RSink!SinkReset
             /\ ph' = [f \in Chan |-> "run"] /\ q' = [f \in Chan |-> <<>>]
             /\ sRst' = FALSE /\ pend' = FALSE
             /\ src_toggle' = (IF sRst THEN src_toggle ELSE 1 - src_toggle)
             /\ dst_sync' = 0
             /\ stage' = None /\ writes' = <<>> /\ reads' = <<>>
             /\ mst' = Restarted
             /\ UNCHANGED scn

Next == \/ SendAw \/ SendW \/ SendAr
        \/ \E f \in {"b", "r"} : TakeResponse(f)
        \/ SReset \/ SResetEnds
        \/ \E lane \in Lanes : SThaw(lane)
        \/ MTick
        \/ FullReset

Spec == Init /\ [][Next]_vars

\* m_clk runs, a slave that can take or answer does, synchronizers settle, and
\* s_clk's side sends the data of its bursts, takes its responses and ends its
\* resets.
LiveSpec == /\ Spec
            /\ WF_vars(MEdge(Offers, UNION Moving, Crossing))
            /\ WF_vars(SendW)
            /\ WF_vars(SResetEnds)
            /\ WF_vars(\E lane \in Lanes : SThaw(lane))
            /\ WF_vars(\E f \in {"b", "r"} : TakeResponse(f))

-----------------------------------------------------------------------------
(* Properties *)

\* No response to a transaction of before the reset reaches the restarted
\* master, and no other response is discarded: while a sink is at work the
\* slave's next completion is one the master has forgotten (b_fifo and r_fifo
\* wr_en, gated by the sinks).
ExactlyStaleSunk ==
  /\ \A f \in {"b", "r"} : SOpen(f) => \A i \in 1 .. Len(q[f]) : q[f][i] >= mst.base
  /\ sinking => writes # <<>> /\ Head(writes) < mst.base
  /\ RSink!sinking => reads # <<>> /\ Head(reads).id < mst.base

\* The W beat at the head of the FIFO belongs to the burst the slave is being
\* fed, with WLAST on that burst's last beat: a reset between a burst's beats
\* never shifts the pairing of later AWs and Ws.
PairingKept ==
  m_wvalid_i /\ ~pad_active =>
    Head(q["w"]).id = Fed /\ (Head(q["w"]).last <=> owed[1] = 1)

\* A burst of the restarted master is never completed with filler, and filler
\* carries WLAST exactly on the last beat the slave waits for.
FillerOnlyForAbandoned ==
  pad_active => owed # <<>> /\ Fed < mst.base /\ (pad_wlast <=> owed[1] = 1)

\* Every transaction forwarded to the slave is answered, abandoned or not: no
\* burst waits for ever for beats a reset has taken away, and no response
\* waits for ever behind a FIFO that stays frozen.
SlaveDrains == []<>(writes = <<>> /\ reads = <<>>)
=============================================================================
