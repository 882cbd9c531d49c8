------------------------------- MODULE L2Port -------------------------------
(***************************************************************************)
(* The memory port of the L2 cache: the writeback sequencer of             *)
(* l2c_victim.v, the bypass ring of l2c_bypass.v, the fetches of           *)
(* l2c_mshr.v with its reset drain, and the arbiters of l2c.v that put the *)
(* three on one AXI port.  One Edge is one edge of the core clock.         *)
(*                                                                         *)
(* A ring is the sequence of its slots, oldest first, and its pointers     *)
(* count from the oldest slot.  DRAM is outside the reset: it finishes     *)
(* what it has accepted, reads and writes each in order, whenever it       *)
(* likes.  What it accepted before a reset is marked stale, a history      *)
(* mark no part of the port can see.                                       *)
(***************************************************************************)
EXTENDS Naturals, Sequences, FiniteSets, FiniteSetsExt

CONSTANTS
  VictimSlots, BypassSlots,  \* depths of the two rings
  Entries,      \* entries of the miss table
  FillBeats,    \* beats of a fill burst
  DrainFloor,   \* cycles S_DRAIN lasts at least
  WalkLen,      \* cycles of the tag-clear walk
  None,
  Scenarios     \* environments: spans of the lines evicted (pushes), bypass requests
                \* offered (reqs), whether lines are fetched (fills), resets that
                \* may come (resets)

\* What the parameters must satisfy.
PortParams == /\ VictimSlots \in Nat \ {0} /\ BypassSlots \in Nat \ {0}
              /\ FillBeats \in Nat \ {0} /\ IsFiniteSet(Entries)

VARIABLES
  scn,      \* the environment; scn.resets counts down
  v,        \* l2c_victim
  b,        \* l2c_bypass
  arb,      \* AW/W/B arbiter of l2c.v
  rd,       \* AR arbiter, slice and read route queue of l2c.v
  fl,       \* fetches of l2c_mshr and its drain
  walk,     \* cycles left of the l2c_reset walk
  dram      \* what DRAM has accepted and not answered, and the followed word

vars == <<scn, v, b, arb, rd, fl, walk, dram>>

VIC == 0
BYP == 1
RdqDepth == Cardinality(Entries) + BypassSlots
DebtMod == 2 * Cardinality(Entries)

Init ==
  /\ scn \in Scenarios
  /\ v = [st |-> "S_AW", beat |-> 0, rdbeat |-> 0, span |-> 0, out |-> 0, sink |-> 0,
          q |-> <<>>, d |-> 0]
  /\ b = [dst |-> "D_HDR", bout |-> 0, bsink |-> 0, q |-> <<>>, d |-> 0, f |-> 0,
          id |-> 0, cur |-> 0]
  /\ arb = [grant |-> VIC, lock |-> FALSE, out |-> 0]
  /\ rd = [q |-> <<>>, hold |-> None, slice |-> <<>>]
  /\ fl = [st |-> "S_SCAN", ctr |-> 0, e |-> [x \in Entries |-> "free"], hold |-> None, debt |-> 0]
  /\ walk = 0
  /\ dram = [w |-> <<>>, b |-> <<>>, r |-> <<>>, mem |-> 0]

----------------------------------------------------------------------------
\* l2c_bypass: what the ring presents.  q[d + 1] is the slot at dptr, q[f + 1]
\* the one at fptr, q[1] the one at cptr.

todo_c == b.d < Len(b.q)
out_c == b.d - b.f
\* Fault: a read may follow a write that is still in flight.
dir_any == TRUE
dir_ok_c == out_c = 0 \/ b.q[b.d + 1].wr = b.q[b.f + 1].wr
hdr_go_c == todo_c /\ b.bsink = 0 /\ dir_ok_c
by_awvalid(rst) == ~rst /\ b.dst = "D_HDR" /\ hdr_go_c /\ b.q[b.d + 1].wr
by_arvalid(rst) == ~rst /\ b.dst = "D_HDR" /\ hdr_go_c /\ ~b.q[b.d + 1].wr
by_wvalid(rst) == ~rst /\ b.dst \in {"D_W", "D_RSTW"}
by_bready(rst) == ~rst /\ (b.bsink # 0 \/ (out_c # 0 /\ b.q[b.f + 1].wr))
by_rready(rst) == ~rst /\ out_c # 0 /\ ~b.q[b.f + 1].wr
req_ready(rq) == Len(b.q) < BypassSlots /\ (b.q = <<>> \/ rq.id = b.id)
rsp_valid == b.f > 0 /\ b.q[1].need

\* l2c_victim
vw_awvalid(rst) == ~rst /\ v.st = "S_AW" /\ v.d < Len(v.q)
vw_wvalid(rst) == ~rst /\ v.st \in {"S_W", "S_RSTDRAINW"}
vw_bready(rst) == ~rst /\ v.out # 0

\* AW/W/B arbiter: bypass before writeback.
\* Fault: the grant is held for the presentation only.
locked_lock == arb.lock
owner_locked_c == arb.lock \/ arb.out # 0
aw_grant_live_c(rst) == IF owner_locked_c THEN arb.grant ELSE IF by_awvalid(rst) THEN BYP ELSE VIC
vw_present_c(rst) == vw_awvalid(rst) /\ (arb.lock \/ ~by_awvalid(rst))
m_awvalid(rst) == IF aw_grant_live_c(rst) = BYP THEN by_awvalid(rst) ELSE vw_present_c(rst)
m_wvalid(rst) == IF aw_grant_live_c(rst) = BYP THEN by_wvalid(rst) ELSE vw_wvalid(rst)
m_bready(rst) == IF aw_grant_live_c(rst) = BYP THEN by_bready(rst) ELSE vw_bready(rst)
m_wlast(rst) == \/ aw_grant_live_c(rst) = BYP
                \/ (IF v.st = "S_RSTDRAINW" THEN v.rdbeat ELSE v.beat) = v.span

\* l2c_mshr: an entry to fetch, none while draining; ready for beats of an entry
\* it has issued.  The round-robin choice is arbitrary.
Unissued == {x \in Entries : fl.e[x] = "want"}
mf_arvalid == fl.st # "S_DRAIN" /\ (fl.hold # None \/ Unissued # {})
mf_rready(x) == fl.st = "S_DRAIN" \/ fl.e[x.e] = "issued"

\* AR arbiter and read route queue.
rdq_full == Len(rd.q) = RdqDepth
ar_src_c(rst) == IF rd.hold # None THEN rd.hold ELSE IF by_arvalid(rst) THEN BYP ELSE VIC
iar_valid(rst) == ~rdq_full /\ (IF ar_src_c(rst) = BYP THEN by_arvalid(rst) ELSE mf_arvalid)
iar_ready == Len(rd.slice) < 2
ar_fire(rst) == iar_valid(rst) /\ iar_ready
\* Where a beat goes: to the source at the head of the queue, to the drain if
\* the queue is empty.
RouteOf == IF rd.q = <<>> THEN VIC ELSE Head(rd.q)
m_rready(rst, x) == IF RouteOf = BYP THEN by_rready(rst) ELSE mf_rready(x)

----------------------------------------------------------------------------
\* One edge.  i holds the reset and what the two sides offer: aw, w, ar that
\* DRAM is ready; bv, rv that it answers; push, req, al that a line leaves, a
\* bypass request comes, an entry is allocated; rsp that a bypass response is
\* taken; fr an entry the install machine frees; iss the entry fetched next.

awFire(i) == m_awvalid(i.rst) /\ i.aw
wFire(i) == m_wvalid(i.rst) /\ i.w
bFire(i) == dram.b # <<>> /\ i.bv /\ m_bready(i.rst)
rFire(i) == dram.r # <<>> /\ i.rv /\ m_rready(i.rst, Head(dram.r))
toByp(i) == aw_grant_live_c(i.rst) = BYP
arIdx(i) == IF fl.hold # None THEN fl.hold ELSE i.iss

One(p) == IF p THEN 1 ELSE 0
\* A counter with a step up and a step down on the same edge.
Count(n, up, down) == n + One(up) - One(down)

VictimReset ==
  [v EXCEPT !.st = IF v.st = "S_W" THEN "S_RSTDRAINW"
                   ELSE IF v.st = "S_AW" /\ v.out # 0 THEN "S_RSTSINKB" ELSE v.st,
            !.rdbeat = IF v.st = "S_W" THEN v.beat ELSE @,
            !.sink = IF v.st \in {"S_W", "S_AW"} THEN v.out ELSE @,
            !.q = <<>>, !.d = 0, !.beat = 0]

VictimEdge(i) ==
  LET aw == awFire(i) /\ ~toByp(i)
      wf == wFire(i) /\ ~toByp(i)
      bf == bFire(i) /\ ~toByp(i)
      lastW == v.st = "S_W" /\ wf /\ v.beat = v.span
      frees == bf /\ v.sink = 0
      q1 == IF i.push # None /\ Len(v.q) < VictimSlots THEN Append(v.q, i.push) ELSE v.q
  IN v' = IF i.rst THEN VictimReset
          ELSE [v EXCEPT
            !.q = IF frees THEN Tail(q1) ELSE q1,
            !.d = Count(@, lastW, frees),
            !.st = CASE aw -> "S_W"
                     [] lastW -> "S_AW"
                     [] v.st = "S_RSTDRAINW" /\ wf /\ v.rdbeat = v.span -> "S_RSTSINKB"
                     [] v.st = "S_RSTSINKB" /\ v.sink = 0 -> "S_AW"
                     [] OTHER -> @,
            !.span = IF aw THEN v.q[v.d + 1] ELSE @,
            !.beat = IF aw THEN 0 ELSE IF v.st = "S_W" /\ wf /\ ~lastW THEN @ + 1 ELSE @,
            !.rdbeat = IF v.st = "S_RSTDRAINW" /\ wf /\ @ # v.span THEN @ + 1 ELSE @,
            !.out = Count(@, aw, bf),
            !.sink = IF bf /\ @ # 0 THEN @ - 1 ELSE @]

\* The value of the beat DRAM sends: read when it accepted the header, or now.
ReadValue == IF Head(dram.r).val # None THEN Head(dram.r).val ELSE dram.mem

\* A slot holds whether its request is a write, whether it is answered, its id,
\* the value written or (history) the value a read is to return, and the answer.
Slot(rq) == [wr |-> rq.wr, need |-> rq.need, id |-> rq.id,
             val |-> IF rq.wr THEN 1 - (IF b.cur = None THEN 0 ELSE b.cur) ELSE b.cur,
             got |-> None]

BypassReset ==
  [b EXCEPT !.dst = IF b.dst = "D_W" THEN "D_RSTW"
                    ELSE IF b.dst = "D_HDR" /\ b.bout # 0 THEN "D_RSTB" ELSE b.dst,
            !.bsink = IF b.dst \in {"D_W", "D_HDR"} THEN b.bout ELSE @,
            !.q = <<>>, !.d = 0, !.f = 0, !.cur = None]

BypassEdge(i) ==
  LET aw == awFire(i) /\ toByp(i)
      wf == wFire(i) /\ toByp(i)
      bf == bFire(i) /\ toByp(i)
      ar == ar_fire(i.rst) /\ ar_src_c(i.rst) = BYP
      rf == rFire(i) /\ RouteOf = BYP
      acc == i.req # None
      q1 == IF acc THEN Append(b.q, Slot(i.req)) ELSE b.q
      q2 == IF rf THEN [q1 EXCEPT ![b.f + 1].got = ReadValue] ELSE q1
      gone == b.f > 0 /\ (~b.q[1].need \/ i.rsp)
  IN b' = IF i.rst THEN BypassReset
          ELSE [b EXCEPT
            !.q = IF gone THEN Tail(q2) ELSE q2,
            !.id = IF acc /\ b.q = <<>> THEN i.req.id ELSE @,
            !.cur = IF acc /\ i.req.wr THEN Slot(i.req).val ELSE @,
            !.d = Count(@, ar \/ (b.dst = "D_W" /\ wf), gone),
            !.f = Count(@, rf \/ (bf /\ b.bsink = 0), gone),
            !.dst = CASE b.dst = "D_HDR" /\ aw -> "D_W"
                      [] b.dst = "D_W" /\ wf -> "D_HDR"
                      [] b.dst = "D_RSTW" /\ wf -> "D_RSTB"
                      [] b.dst = "D_RSTB" /\ b.bsink = 0 -> "D_HDR"
                      [] OTHER -> @,
            !.bout = Count(@, aw, bf),
            !.bsink = IF bf /\ @ # 0 THEN @ - 1 ELSE @]

\* Fault: a reset keeps the grant for the victim only.
ArbResetVictim ==
  IF arb.out # 0 /\ arb.grant = VIC THEN [arb EXCEPT !.lock = FALSE]
  ELSE [grant |-> VIC, lock |-> FALSE, out |-> 0]
ArbReset ==
  IF arb.out # 0 THEN [arb EXCEPT !.lock = FALSE] ELSE [grant |-> VIC, lock |-> FALSE, out |-> 0]

ArbEdge(i) ==
  arb' = IF i.rst THEN ArbReset
         ELSE [grant |-> IF ~owner_locked_c /\ m_awvalid(FALSE) THEN aw_grant_live_c(FALSE) ELSE arb.grant,
               lock |-> ~i.aw /\ (arb.lock \/ m_awvalid(FALSE)),
               out |-> Count(arb.out, awFire(i), bFire(i))]

\* The slice takes a header and passes one on in the same cycle; a reset empties
\* it, whatever it takes on that cycle included.
ReadEdge(i) ==
  LET fire == ar_fire(i.rst)
      src == ar_src_c(i.rst)
      hdr == IF src = BYP THEN [src |-> BYP, e |-> None, left |-> 1]
             ELSE [src |-> VIC, e |-> arIdx(i), left |-> FillBeats]
      left == IF i.ar /\ rd.slice # <<>> THEN Tail(rd.slice) ELSE rd.slice
      pop == rFire(i) /\ rd.q # <<>> /\ Head(dram.r).left = 1
      q1 == IF pop THEN Tail(rd.q) ELSE rd.q
  IN rd' = IF i.rst THEN [q |-> <<>>, hold |-> None, slice |-> <<>>]
           ELSE [q |-> IF fire THEN Append(q1, src) ELSE q1,
                 hold |-> IF fire THEN None
                          ELSE IF rd.hold = None /\ iar_valid(FALSE) THEN src ELSE rd.hold,
                 slice |-> IF fire THEN Append(left, hdr) ELSE left]

\* l2c_mshr is in reset during the tag-clear walk too.  ar_debt has no reset.
\* Fault: S_DRAIN ends after its floor, whatever is owed.
DrainedByTime == fl.ctr = DrainFloor
Drained == fl.ctr = DrainFloor /\ fl.debt = 0
MshrEdge(i) ==
  LET mrst == i.rst \/ walk > 0
      ar == ar_fire(i.rst) /\ ar_src_c(i.rst) = VIC
      rf == rFire(i) /\ RouteOf = VIC
      last == rf /\ Head(dram.r).left = 1
      fills == last /\ fl.st # "S_DRAIN"
      debt == Count(fl.debt + DebtMod, ar, last) % DebtMod
  IN fl' = IF mrst
           THEN [st |-> "S_DRAIN", ctr |-> 0, e |-> [x \in Entries |-> "free"],
                 hold |-> None, debt |-> debt]
           ELSE [st |-> IF fl.st = "S_DRAIN" /\ Drained THEN "S_SCAN" ELSE fl.st,
                 ctr |-> IF fl.st = "S_DRAIN" /\ fl.ctr < DrainFloor THEN fl.ctr + 1 ELSE fl.ctr,
                 e |-> [x \in Entries |->
                          CASE x = i.al -> "want"
                            [] x = i.fr -> "free"
                            [] ar /\ x = arIdx(i) -> "issued"
                            [] fills /\ x = Head(dram.r).e -> "done"
                            [] OTHER -> fl.e[x]],
                 hold |-> IF ar THEN None
                          ELSE IF fl.hold = None /\ mf_arvalid THEN arIdx(i) ELSE fl.hold,
                 debt |-> debt]

\* Everything DRAM holds at a reset has lost its requester.
Stale(s, rst) == IF rst THEN [k \in 1 .. Len(s) |-> [s[k] EXCEPT !.stale = TRUE]] ELSE s

\* DRAM accepts a write burst, then its beats, then owes a B.  It performs a
\* write when it answers it, a read when it accepts it (i.early) or sends the beat.
DramEdge(i) ==
  LET aw == IF toByp(i)
            THEN [own |-> BYP, left |-> 0, stale |-> FALSE, val |-> b.q[b.d + 1].val]
            ELSE [own |-> VIC, left |-> v.q[v.d + 1], stale |-> FALSE, val |-> None]
      open == IF awFire(i) THEN Append(dram.w, aw) ELSE dram.w
      done == wFire(i) /\ open[1].left = 0
      filler == toByp(i) /\ b.dst = "D_RSTW"
      owed == [own |-> open[1].own, stale |-> open[1].stale,
               val |-> IF filler THEN None ELSE open[1].val]
      w == IF ~wFire(i) THEN open ELSE IF done THEN Tail(open) ELSE [open EXCEPT ![1].left = @ - 1]
      left == IF bFire(i) THEN Tail(dram.b) ELSE dram.b
      x == Head(dram.r)
      r == IF ~rFire(i) THEN dram.r
           ELSE IF x.left = 1 THEN Tail(dram.r) ELSE [dram.r EXCEPT ![1].left = @ - 1]
      hdr == Head(rd.slice)
  IN dram' = [w |-> Stale(w, i.rst),
              b |-> Stale(IF done THEN Append(left, owed) ELSE left, i.rst),
              r |-> Stale(IF i.ar
                          THEN Append(r, [src |-> hdr.src, e |-> hdr.e, left |-> hdr.left,
                                          stale |-> FALSE, val |-> IF i.early THEN dram.mem ELSE None])
                          ELSE r, i.rst),
              mem |-> IF bFire(i) /\ Head(dram.b).val # None THEN Head(dram.b).val ELSE dram.mem]

----------------------------------------------------------------------------
Offers(p) == {FALSE, p}
FreeEntries == {x \in Entries : fl.e[x] = "free"}
DoneEntries == {x \in Entries : fl.e[x] = "done"}

\* What may be offered on this edge: a ready or a valid is only chosen where it
\* makes a difference.  During a reset the requesters of the engines are silent.
Inputs(rst) ==
  [rst : {rst},
   aw : Offers(m_awvalid(rst)), w : Offers(m_wvalid(rst)), ar : Offers(rd.slice # <<>>),
   early : Offers(rd.slice # <<>> /\ Head(rd.slice).src = BYP),
   bv : Offers(dram.b # <<>>), rv : Offers(dram.r # <<>>),
   rsp : Offers(rsp_valid /\ ~rst),
   push : {None} \cup (IF ~rst /\ Len(v.q) < VictimSlots THEN scn.pushes ELSE {}),
   req : {None} \cup (IF rst THEN {} ELSE {rq \in scn.reqs : req_ready(rq)}),
   al : {None} \cup (IF ~rst /\ scn.fills /\ walk = 0 /\ FreeEntries # {}
                     THEN {Min(FreeEntries)} ELSE {}),
   fr : {None} \cup (IF ~rst /\ fl.st = "S_SCAN" THEN DoneEntries ELSE {}),
   iss : IF Unissued = {} THEN {None} ELSE Unissued]

Edge(i) ==
  /\ scn' = [scn EXCEPT !.resets = @ - One(i.rst)]
  /\ VictimEdge(i) /\ BypassEdge(i) /\ ArbEdge(i)
  /\ ReadEdge(i) /\ MshrEdge(i) /\ DramEdge(i)
  /\ walk' = IF i.rst THEN WalkLen ELSE IF walk > 0 THEN walk - 1 ELSE 0

Next == \E rst \in Offers(scn.resets > 0) : \E i \in Inputs(rst) : Edge(i)
Spec == Init /\ [][Next]_vars

\* The clock runs, and DRAM takes the fetches presented to it and answers them.
Taken(p(_)) == \E rst \in Offers(scn.resets > 0) : \E i \in Inputs(rst) : p(i) /\ Edge(i)
LiveSpec ==
  /\ Spec /\ WF_vars(Next)
  /\ WF_vars(Taken(LAMBDA i : i.ar)) /\ WF_vars(Taken(LAMBDA i : i.rv))
  /\ WF_vars(Taken(LAMBDA i : i.fr # None))

----------------------------------------------------------------------------
\* l2c.v, l2c_victim.v, l2c_bypass.v: a B is never refused.  It goes to the
\* engine whose write it completes, and frees a slot there exactly if it is not
\* a stray of before a reset.
BFreesItsOwn ==
  dram.b # <<>> =>
    LET x == Head(dram.b)
        sinks == IF aw_grant_live_c(FALSE) = BYP THEN b.bsink # 0 ELSE v.sink # 0
    IN m_bready(FALSE) /\ x.own = aw_grant_live_c(FALSE) /\ (sinks <=> x.stale)

\* AXI has no write id: a W beat belongs to the burst DRAM is waiting for, the
\* last beat is marked last, and beats without data go only to bursts that a
\* reset has abandoned.
WBelongsToBurst ==
  m_wvalid(FALSE) =>
    /\ dram.w # <<>>
    /\ LET x == Head(dram.w)
           filler == IF x.own = BYP THEN b.dst = "D_RSTW" ELSE v.st = "S_RSTDRAINW"
       IN /\ x.own = aw_grant_live_c(FALSE)
          /\ m_wlast(FALSE) <=> x.left = 0
          /\ filler <=> x.stale

\* A bypass read returns what the writes accepted before it have written, under
\* its own id; after a reset, from the first write on.
BypassInOrder ==
  rsp_valid => /\ b.q[1].id = b.id
               /\ ~b.q[1].wr /\ b.q[1].val # None => b.q[1].got = b.q[1].val

\* A beat of read data is never refused.  It goes to the request that fetched
\* it, or to the drain if a reset has taken that request away.
ReadFindsOwner ==
  dram.r # <<>> =>
    LET x == Head(dram.r)
    IN /\ m_rready(FALSE, x)
       /\ IF RouteOf = VIC /\ fl.st = "S_DRAIN" THEN x.stale ELSE ~x.stale /\ x.src = RouteOf

\* A bypass write waits only for writebacks DRAM has already accepted, however
\* many lines are being evicted: none is added to those while it waits.
WaitingTurn ==
  by_awvalid(FALSE) /\ ~arb.lock /\ aw_grant_live_c(FALSE) = VIC => arb'.out <= arb.out
BypassWaitsItsTurn == [][WaitingTurn]_vars

\* S_DRAIN ends once DRAM has answered.
DrainEnds == []<>(fl.st # "S_DRAIN")
=============================================================================
