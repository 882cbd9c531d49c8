------------------------------ MODULE StaleSink ------------------------------
(***************************************************************************)
(* rtl/soc/axi_bridge_stale_sink.v: after a reset of the upstream side the *)
(* bridge owes the slave's port one discarded completion for every burst   *)
(* the slave had already accepted.  The two counters are the module's; old *)
(* and fresh are ghosts, the bursts in flight that were forwarded before   *)
(* and after the last reset event.  The slave completes bursts in the      *)
(* order it accepted them (axi_ddr4_mig_bridge's wq_ and rq_ queues), so   *)
(* the old ones always come first.                                         *)
(***************************************************************************)
EXTENDS Naturals

CONSTANTS SinkMod,     \* 2 ^ OUTSTANDING_W, what the counters wrap at
          SlaveCap     \* bursts the slave accepts before it holds ready low

ASSUME SinkAssumption == SinkMod \in Nat /\ SlaveCap \in Nat /\ SlaveCap < SinkMod

VARIABLES outstanding, debt, old, fresh

sinkVars == <<outstanding, debt, old, fresh>>

One(b) == IF b THEN 1 ELSE 0

sinking == debt # 0
InFlight == old + fresh

SinkInit == outstanding = 0 /\ debt = 0 /\ old = 0 /\ fresh = 0

outstanding_next_c(fwd, complete) ==
  (outstanding + One(fwd) + SinkMod - One(complete)) % SinkMod

\* Fault: the snapshot adds to the debt of an earlier reset still draining.
SinkEdgeAccumulates(reset_event, fwd, complete) ==
  /\ outstanding' = outstanding_next_c(fwd, complete)
  /\ debt' = (debt + One(reset_event) * outstanding + SinkMod
              - One(complete /\ sinking)) % SinkMod

\* posedge m_clk outside m_rst.
SinkEdge(reset_event, fwd, complete) ==
  /\ outstanding' = outstanding_next_c(fwd, complete)
  /\ debt' = IF reset_event THEN outstanding_next_c(fwd, complete)
             ELSE debt - One(complete /\ sinking)

\* What the same edge does to the bursts in flight.
FlightEdge(reset_event, fwd, complete) ==
  LET o == old - One(complete /\ old > 0)
      f == fresh + One(fwd) - One(complete /\ old = 0)
  IN /\ old' = IF reset_event THEN o + f ELSE o
     /\ fresh' = IF reset_event THEN 0 ELSE f

\* m_rst resets the slave as well: nothing stays in flight.
SinkReset == outstanding' = 0 /\ debt' = 0 /\ old' = 0 /\ fresh' = 0

SinkClock(reset_event, fwd, complete) ==
  /\ fwd => InFlight < SlaveCap
  /\ complete => InFlight > 0
  /\ SinkEdge(reset_event, fwd, complete)
  /\ FlightEdge(reset_event, fwd, complete)

SinkNext == \/ \E e, f, c \in BOOLEAN : SinkClock(e, f, c)
            \/ SinkReset

SinkSpec == SinkInit /\ [][SinkNext]_sinkVars

-----------------------------------------------------------------------------
(* Properties *)

SinkTypeOK == /\ outstanding \in 0 .. (SinkMod - 1) /\ debt \in 0 .. (SinkMod - 1)
              /\ old \in Nat /\ fresh \in Nat

\* The debt is the number of bursts in flight from before the last reset,
\* whatever forwards and completions share the edge with a reset event and
\* however many resets come before the first debt is repaid: exactly the
\* stale completions are discarded (sinking), none more and none fewer.
DebtExact == outstanding = old + fresh /\ debt = old
=============================================================================
