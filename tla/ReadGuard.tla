------------------------------ MODULE ReadGuard ------------------------------
(***************************************************************************)
(* src/rtl/soc/ifetch_window_guard.v between one of the core's read ports  *)
(* and the L2's, one step per clock.  Reads inside the window are passed   *)
(* on; the others the guard answers itself, with as many DECERR beats,     *)
(* once nothing passed on is still to come.  The core and the L2 are       *)
(* external; a behaviour starts in rst, which the core does not share.     *)
(* The fault registers are left out.                                       *)
(***************************************************************************)
EXTENDS Naturals, Sequences, FiniteSets

CONSTANTS
    CountMod,       \* 2^OUT_CNT_W
    ReadCap,        \* reads the L2 has accepted and not finished, at most
    None,
    Scenarios       \* the reads the core makes, in order

VARIABLES
    gscn,   \* the scenario
    gd,     \* the guard's registers, and its rst
    up,     \* the core: reads sent, and beats each has had
    dn      \* the L2: the beats it still owes each read, the read it shows

vars == <<gscn, gd, up, dn>>

ReadGuardParams == ReadCap \in 1 .. CountMod - 1

Read(n) == gscn.reads[n]
Reads == 1 .. Len(gscn.reads)
NextAr == up.ar + 1
in_window == Read(NextAr).inside

-----------------------------------------------------------------------------
(* The wires of a cycle.                                                   *)
g_busy == gd.gstate # "G_IDLE"
g_emit == gd.gstate = "G_EMIT"
m_rvalid == dn.show # None
m_rlast == dn.owed[dn.show] = 1

(* Fault: only a beat on the bus counts as an open burst.                  *)
m_burst_open_beat == m_rvalid
m_burst_open == gd.m_out_cnt # 0

m_ar_hs(in) == in.arvalid /\ in_window /\ ~g_busy /\ in.arready

(* Fault: arready is not held low in reset.                                *)
s_ar_hs_in_reset(in) == in.arvalid /\ ~g_busy /\ (in_window => in.arready)
s_ar_hs(in) ==
    in.arvalid /\ ~gd.rst /\ ~g_busy /\ (in_window => in.arready)
g_accept(in) == ~gd.rst /\ in.arvalid /\ ~in_window /\ ~g_busy
m_r_hs(in) == m_rvalid /\ ~g_emit /\ in.rready
m_rlast_hs(in) == m_r_hs(in) /\ m_rlast

s_rvalid == g_emit \/ m_rvalid
s_r == IF g_emit THEN gd.g_rd ELSE dn.show
s_rlast == IF g_emit THEN gd.g_beat = gd.g_len ELSE m_rlast

-----------------------------------------------------------------------------
(* The registers after the edge.                                           *)
Outstanding(in) ==
    IF m_ar_hs(in) /\ ~m_rlast_hs(in) THEN (gd.m_out_cnt + 1) % CountMod
    ELSE IF m_rlast_hs(in) /\ ~m_ar_hs(in)
         THEN (gd.m_out_cnt + CountMod - 1) % CountMod
    ELSE gd.m_out_cnt

Quiet == ~m_burst_open /\ ~m_rvalid
Clocked(in) ==
    CASE g_accept(in) ->
           [gd EXCEPT !.g_rd = NextAr, !.g_len = Read(NextAr).len, !.g_beat = 0,
                      !.gstate = IF Quiet THEN "G_EMIT" ELSE "G_PEND"]
      [] gd.gstate = "G_PEND" /\ Quiet -> [gd EXCEPT !.gstate = "G_EMIT"]
      [] g_emit /\ in.rready ->
           IF gd.g_beat = gd.g_len THEN [gd EXCEPT !.gstate = "G_IDLE"]
                                   ELSE [gd EXCEPT !.g_beat = @ + 1]
      [] OTHER -> gd
InReset == [rst |-> TRUE, gstate |-> "G_IDLE", g_rd |-> 0, g_len |-> 0,
            g_beat |-> 0, m_out_cnt |-> 0]
GuardEdge(in) ==
    gd' = IF gd.rst THEN [InReset EXCEPT !.rst = in.rst]
          ELSE [Clocked(in) EXCEPT !.m_out_cnt = Outstanding(in)]

-----------------------------------------------------------------------------
(* The core counts the beats it is given.                                  *)
CoreEdge(in) ==
    up' = [ar |-> IF s_ar_hs(in) THEN NextAr ELSE up.ar,
           had |-> IF s_rvalid /\ in.rready THEN [up.had EXCEPT ![s_r] = @ + 1]
                   ELSE up.had]

(* The L2: answers beat by beat, in any order across ids and in order      *)
(* within one, and keeps a beat up until it is taken.  It accepts nothing  *)
(* in its own reset, which is the guard's.                                 *)
Due(d) == {n \in Reads : d.owed[n] > 0 /\
             \A m \in 1 .. n - 1 : d.owed[m] > 0 => Read(m).id # Read(n).id}
L2Edge(in) ==
    LET took == IF m_r_hs(in) THEN [dn.owed EXCEPT ![dn.show] = @ - 1] ELSE dn.owed
        d == [owed |-> IF m_ar_hs(in) THEN [took EXCEPT ![NextAr] = Read(NextAr).len + 1]
                       ELSE took,
              show |-> IF m_r_hs(in) THEN None ELSE dn.show]
    IN  \/ dn' = d
        \/ d.show = None /\ \E n \in Due(d) : dn' = [d EXCEPT !.show = n]

-----------------------------------------------------------------------------
Init ==
    /\ gscn \in Scenarios
    /\ gd = InReset
    /\ up = [ar |-> 0, had |-> [n \in Reads |-> 0]]
    /\ dn = [owed |-> [n \in Reads |-> 0], show |-> None]

Pending == {n \in Reads : dn.owed[n] > 0}
Wires == [arvalid : BOOLEAN, arready : BOOLEAN, rready : BOOLEAN, rst : BOOLEAN]
Inputs == {in \in Wires : /\ in.arvalid => up.ar < Len(gscn.reads)
                          /\ in.arready => ~gd.rst /\ Cardinality(Pending) < ReadCap
                          /\ in.rst => gd.rst}

Tick(in) == GuardEdge(in) /\ CoreEdge(in) /\ L2Edge(in) /\ UNCHANGED gscn

Next == \E in \in Inputs : Tick(in)

-----------------------------------------------------------------------------
(* ifetch_window_guard: the counter is what the L2 owes; a beat shown to   *)
(* the core belongs to the oldest unfinished read of its id, and is marked *)
(* last if it is that read's last; the guard's burst neither splits nor    *)
(* overtakes one passed on; and every accepted read is owed all its beats. *)
ReadsInOrder ==
    LET Unfinished == {n \in 1 .. up.ar : up.had[n] <= Read(n).len}
    IN  /\ gd.m_out_cnt = Cardinality(Pending)
        /\ s_rvalid =>
             /\ s_r \in Unfinished
             /\ \A m \in Unfinished : Read(m).id = Read(s_r).id => s_r <= m
             /\ s_rlast <=> up.had[s_r] = Read(s_r).len
        /\ g_emit => Pending = {}
        /\ \A n \in Unfinished :
             Read(n).len + 1 - up.had[n] =
                 IF Read(n).inside THEN dn.owed[n]
                 ELSE IF g_busy /\ gd.g_rd = n THEN gd.g_len + 1 - gd.g_beat ELSE 0
=============================================================================
