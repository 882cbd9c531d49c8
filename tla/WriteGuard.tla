----------------------------- MODULE WriteGuard -----------------------------
(***************************************************************************)
(* src/rtl/soc/dh_write_window_guard.v between the core's write port and   *)
(* the L2's, one step per clock.  Writes to RAM are forwarded, others are  *)
(* answered by the guard itself.  When the core is reset (`abandon') the   *)
(* guard finishes what it has forwarded with filler and swallows the       *)
(* answers.  The core and the L2 are external; the guard's rst is the      *)
(* L2's too, and precedes every behaviour.  The fault counters, and        *)
(* whether a local answer is OKAY (ROM) or DECERR, are left out.           *)
(***************************************************************************)
EXTENDS Naturals, Sequences, FiniteSets

CONSTANTS
    Ring,           \* entries of wf_len_q
    LedgerMod,      \* 2^CW, the modulus of the two ledgers
    DoorCap,        \* bursts the L2 has accepted and not answered, at most
    None,
    Scenarios       \* the writes of successive cores, and how many resets

VARIABLES
    gscn,   \* the scenario
    gd,     \* the guard's registers, and the level of `abandon'
    up,     \* the core: AWs sent, bursts sent, beats of the next, answers
    dn      \* the L2: open bursts, finished ones, the B it shows

vars == <<gscn, gd, up, dn>>

WriteGuardParams ==
    Ring \in Nat \ {0} /\ Ring < LedgerMod /\ DoorCap \in 1 .. LedgerMod - 1

Write(n) == gscn.writes[n]
NextAw == up.aw + 1
NextW == up.w + 1
in_ram == Write(NextAw).ram

-----------------------------------------------------------------------------
(* The wires of a cycle.                                                   *)
l_busy == gd.l.st # "L_IDLE"
l_drain == gd.l.st = "L_DRAIN"
l_resp == gd.l.st = "L_RESP"
fwd_quiet == gd.b_owed = 0 /\ gd.w_owed = 0

(* Fault: upstream opens again as soon as the reset level is gone.         *)
quiesce_level == gd.abandon
quiesce == gd.abandon \/ gd.pad_q

wf_full == gd.w_owed >= Ring
wf_live == gd.w_owed # 0
wf_last_c == gd.wf_beat = gd.wf_len_q[gd.wf_rp]

m_aw_hs(in) ==
    in.awvalid /\ in_ram /\ ~l_busy /\ ~wf_full /\ ~quiesce /\ in.awready
local_start(in) == in.awvalid /\ ~in_ram /\ ~l_busy /\ fwd_quiet /\ ~quiesce
m_w_hs(in) == wf_live /\ ~l_drain /\ (quiesce \/ in.wvalid) /\ in.wready
m_wl_hs(in) == m_w_hs(in) /\ wf_last_c
s_w_hs(in) == in.wvalid /\ ~quiesce /\ (l_drain \/ (wf_live /\ in.wready))
s_bvalid == ~quiesce /\ (l_resp \/ dn.b # None)
m_b_hs(in) == dn.b # None /\ ~l_resp /\ (quiesce \/ in.bready)

-----------------------------------------------------------------------------
(* The registers after the edge.                                           *)
Ledger(n, plus, minus) ==
    IF plus /\ ~minus THEN (n + 1) % LedgerMod
    ELSE IF minus /\ ~plus THEN (n + LedgerMod - 1) % LedgerMod ELSE n

LocalBurst(in) ==
    CASE local_start(in) ->
           [st |-> "L_DRAIN", wr |-> NextAw, len |-> Write(NextAw).len, beat |-> 0]
      [] l_drain /\ (in.wvalid \/ quiesce) ->
           IF gd.l.beat = gd.l.len THEN [gd.l EXCEPT !.st = "L_RESP"]
                                   ELSE [gd.l EXCEPT !.beat = @ + 1]
      [] l_resp /\ (in.bready \/ quiesce) -> [gd.l EXCEPT !.st = "L_IDLE"]
      [] OTHER -> gd.l

GuardEdge(in) ==
    gd' = [abandon |-> in.abandon,
           pad_q |-> gd.abandon \/ (gd.pad_q /\ ~(fwd_quiet /\ ~l_busy)),
           b_owed |-> Ledger(gd.b_owed, m_aw_hs(in), m_b_hs(in)),
           w_owed |-> Ledger(gd.w_owed, m_aw_hs(in), m_wl_hs(in)),
           wf_len_q |-> IF m_aw_hs(in)
                        THEN [gd.wf_len_q EXCEPT ![gd.wf_wp] = Write(NextAw).len]
                        ELSE gd.wf_len_q,
           wf_wp |-> IF m_aw_hs(in) THEN (gd.wf_wp + 1) % Ring ELSE gd.wf_wp,
           wf_rp |-> IF m_wl_hs(in) THEN (gd.wf_rp + 1) % Ring ELSE gd.wf_rp,
           wf_beat |-> IF m_wl_hs(in) THEN 0
                       ELSE IF m_w_hs(in) THEN gd.wf_beat + 1 ELSE gd.wf_beat,
           l |-> LocalBurst(in)]

-----------------------------------------------------------------------------
(* The core: its data follow its AWs in order.  A reset makes it forget    *)
(* what it has sent, and the next core goes on with the next write.        *)
Offered == IF l_resp THEN gd.l.wr ELSE dn.b

CoreEdge(in) ==
    LET sent == IF m_aw_hs(in) \/ local_start(in) THEN NextAw ELSE up.aw
        ends == s_w_hs(in) /\ up.beat = Write(NextW).len
    IN  up' = IF in.abandon
              THEN [up EXCEPT !.aw = sent, !.w = sent, !.beat = 0, !.dead = sent,
                              !.resets = IF gd.abandon THEN @ ELSE @ + 1]
              ELSE [up EXCEPT
                      !.aw = sent,
                      !.w = IF ends THEN NextW ELSE @,
                      !.beat = IF ends THEN 0 ELSE IF s_w_hs(in) THEN @ + 1 ELSE @,
                      !.ans = IF s_bvalid /\ in.bready THEN @ \union {Offered} ELSE @]

(* The L2: takes the beats of its oldest open burst, answers finished      *)
(* bursts in any order across ids and in order within one, and keeps a B   *)
(* up until it is taken.                                                   *)
Held(d) == {d.open[i].wr : i \in 1 .. Len(d.open)} \union d.done
Answerable(d) ==
    {n \in d.done : \A m \in Held(d) : Write(m).id = Write(n).id => n <= m}

L2Edge(in) ==
    LET wrote == IF m_w_hs(in) THEN [dn.open EXCEPT ![1].got = @ + 1] ELSE dn.open
        kept == IF m_wl_hs(in) THEN Tail(wrote) ELSE wrote
        d == [open |-> IF m_aw_hs(in) THEN Append(kept, [wr |-> NextAw, got |-> 0])
                                      ELSE kept,
              done |-> IF m_wl_hs(in) THEN dn.done \union {dn.open[1].wr} ELSE dn.done,
              b |-> IF m_b_hs(in) THEN None ELSE dn.b]
    IN  \/ dn' = d
        \/ /\ d.b = None
           /\ \E n \in Answerable(d) : dn' = [d EXCEPT !.b = n, !.done = @ \ {n}]
-----------------------------------------------------------------------------
Init ==
    /\ gscn \in Scenarios
    /\ \E level \in BOOLEAN :
         gd = [abandon |-> level, pad_q |-> FALSE, b_owed |-> 0, w_owed |-> 0,
               wf_len_q |-> [i \in 0 .. Ring - 1 |-> 0], wf_wp |-> 0, wf_rp |-> 0,
               wf_beat |-> 0, l |-> [st |-> "L_IDLE", wr |-> 0, len |-> 0, beat |-> 0]]
    /\ up = [aw |-> 0, w |-> 0, beat |-> 0, ans |-> {}, dead |-> 0, resets |-> 0]
    /\ dn = [open |-> <<>>, done |-> {}, b |-> None]

Wires == [awvalid : BOOLEAN, wvalid : BOOLEAN, bready : BOOLEAN,
          awready : BOOLEAN, wready : BOOLEAN, abandon : BOOLEAN]

Inputs == {in \in Wires :
             /\ in.awvalid => up.aw < Len(gscn.writes)
             /\ in.wvalid => up.w < Len(gscn.writes)
             /\ in.awready => gd.b_owed < DoorCap
             /\ in.abandon => gd.abandon \/ up.resets < gscn.resets}

Tick(in) == GuardEdge(in) /\ CoreEdge(in) /\ L2Edge(in) /\ UNCHANGED gscn

Next == \E in \in Inputs : Tick(in)

-----------------------------------------------------------------------------
(* Write n is the oldest of its id that the core on the bus waits for, and *)
(* all its data are sent.                                                  *)
AwaitsB(n) ==
    /\ n \in up.dead + 1 .. up.w \ up.ans
    /\ \A m \in up.dead + 1 .. n - 1 : Write(m).id = Write(n).id => m \in up.ans

(* dh_write_window_guard: the ledgers count what the L2 owes; a beat taken *)
(* from the core goes to the write it belongs to, and filler only to the   *)
(* writes of a core that is gone; the guard's WLAST is the burst's; a B    *)
(* shown to the core answers the write it waits for, never a dead core's;  *)
(* the guard answers only when nothing forwarded is left to answer; and no *)
(* accepted write is forgotten.                                            *)
WritesInOrder ==
    LET below == Held(dn) \union ({dn.b} \ {None})
    IN  /\ gd.w_owed = Len(dn.open) /\ gd.b_owed = Cardinality(below)
        /\ \A n \in below : Write(n).ram
        /\ dn.open # <<>> =>
             LET h == dn.open[1]
             IN  /\ wf_last_c <=> h.got = Write(h.wr).len
                 /\ IF quiesce THEN h.wr <= up.dead
                               ELSE h.wr = NextW /\ h.got = up.beat
        /\ l_drain /\ ~quiesce => gd.l.wr = NextW /\ gd.l.beat = up.beat
        /\ s_bvalid => AwaitsB(Offered)
        /\ l_busy => below = {}
        /\ \A n \in up.dead + 1 .. up.aw \ up.ans : n \in below \/ (l_busy /\ gd.l.wr = n)
=============================================================================
