------------------------------- MODULE L2Ctrl -------------------------------
(***************************************************************************)
(* The lookup pipeline of the L2 cache, rtl/soc/l2c_ctrl.v, in lockstep    *)
(* with the miss table (L2Mshr) and the queue of l2c_victim.v.  One Tick   *)
(* is one edge of the core clock.                                          *)
(*                                                                         *)
(* A request passes stages A (its set drives the array address), Q (the    *)
(* arrays' first output register holds its row) and S2 (it is resolved).   *)
(* The stages move together or not at all.  An array read on the edge of a *)
(* write of the same set may return the old or the new row, the tag and    *)
(* the data array independently.  Pseudo-LRU is an arbitrary choice, the   *)
(* round-robin pointers of the miss table are an arbitrary choice, DRAM    *)
(* answers when it likes.                                                  *)
(***************************************************************************)
EXTENDS L2Mshr

CONSTANTS
  Slots,      \* lines the victim buffer holds
  Scenarios   \* environments, one of which a behaviour lives in: the requests
              \* the front door may offer (ops), the ready inputs that may be low
              \* (stalls, a subset of {"ar", "hit", "mshr"}), and whether DRAM may
              \* answer a fill with an error (errs)

VARIABLES
  scn,              \* the environment, never changed
  tags, data,       \* arrays: [set -> [way -> ...]]
  mem,              \* the followed byte in DRAM
  a, q, r,          \* pipeline stages: a request or None
  ra,               \* ra_q, the array address register
  rv, tq,           \* row in the arrays' output register / at S2
  rr,               \* skew re-read: 0 idle, 1 rr_p1, 2 rr_p2
  h0, h1,           \* inst_hist: sets installed one and two cycles ago
  qStale, rStale,   \* an install has landed since the row was read
  vs,               \* victim precompute registers
  push,             \* victim_push_*: the line leaving the cache
  vbuf,             \* the victim buffer, oldest first
  hrsp,             \* hit response register
  writes            \* history: the followed byte's last acknowledged write,
                    \* then the writes accepted since, in order

ctrlVars == <<tags, data, mem, a, q, r, ra, rv, tq, rr, h0, h1, qStale, rStale,
              vs, push, vbuf, hrsp, writes>>
vars == <<scn, mshrVars, ctrlVars>>

Sets == {SetOf[l] : l \in Lines}
NoEntry == [line |-> None, v |-> {}, d |-> {}]
NoRow == [tag |-> [w \in Ways |-> NoEntry], dat |-> [w \in Ways |-> Junk]]
NoVictim == [way |-> Min(Ways), ok |-> FALSE, dirty |-> FALSE]

----------------------------------------------------------------------------
\* What a request covers, dirties and wants from the line.

Cov(rq) == CASE rq.kind = "line" -> Quads [] rq.kind = "quad" -> {rq.q} [] OTHER -> {}
Dty(rq) == IF rq.kind = "line" THEN Quads ELSE IF rq.wr THEN {rq.q} ELSE {}
Want(rq) == IF rq.kind \in {"read", "part"} THEN {rq.q} ELSE {}
Full(rq) == rq.kind = "line"
WritesByte(rq) == rq.wr /\ rq.val # None

----------------------------------------------------------------------------
\* Stage S2: lookup.  These read the request in r and its row tq.

SetR == SetOf[r.line]
TagMatch == {w \in Ways : tq.tag[w].v # {} /\ tq.tag[w].line = r.line}
WayHit == {w \in Ways : tq.tag[w].line = r.line /\ r.q \in tq.tag[w].v}
any_tm == TagMatch # {}
any_hit == WayHit # {}
\* Fault: a second miss of a line does not find the first.
lu_never == FALSE
lu_hit == LuMatch(r.line) # {}
lu_idx == Min(LuMatch(r.line))
sel_way == IF any_tm THEN Min(TagMatch) ELSE vs.way
base_vsec == IF any_tm THEN tq.tag[sel_way].v ELSE {}
base_dsec == IF any_tm THEN tq.tag[sel_way].d ELSE {}
need_evict == ~any_tm /\ vs.dirty
need_fill == Want(r) # {} /\ r.q \notin base_vsec

push_ready == Len(vbuf) < Slots
\* Fault: the victim buffer is not asked.
query_never == FALSE
victim_query_hit == \E i \in 1 .. Len(vbuf) : vbuf[i].line = r.line
\* Fault: an eviction does not wait for room in the victim buffer.
way_ok_any == any_tm \/ vs.ok
way_ok == any_tm \/ (vs.ok /\ (~need_evict \/ push_ready))
miss_ok == alloc_ready /\ way_ok /\ inst = None

skew_hazard == h0 = SetR \/ h1 = SetR \/ rStale
s2_live == r # None /\ rr = 0
rr_start == s2_live /\ ~r.illegal /\ skew_hazard
ord_now_block == IdVec(r.id) # {}
ord_merge_block == IdVec(r.id) \ (IF lu_hit THEN {lu_idx} ELSE {}) # {}
hit_rsp_block(hr) == r.need /\ hrsp # None /\ ~hr
\* Fault: a write hits a line whose fill is still being replayed.
hit_wr_free == FALSE
hit_wr_blocked == r.wr /\ lu_hit

lookup_active == s2_live /\ ~r.illegal /\ ~skew_hazard /\ ~victim_query_hit
illegal_go(hr) == s2_live /\ r.illegal /\ ~hit_rsp_block(hr) /\ ~ord_now_block
hit_go(hr) == /\ any_hit /\ ~hit_wr_blocked
              /\ ~r.wr \/ inst = None
              /\ ~hit_rsp_block(hr) /\ ~ord_now_block
merge_go == /\ ~any_hit /\ ~Full(r) /\ lu_hit
            /\ merge_ready(lu_idx) /\ ~ord_merge_block
alloc_go == /\ ~any_hit /\ ~lu_hit /\ ~Full(r)
            /\ need_fill /\ miss_ok /\ ~ord_now_block
ins_go(hr) == /\ ~any_hit /\ ~lu_hit /\ r.wr /\ ~need_fill
              /\ way_ok /\ inst = None /\ ~hit_rsp_block(hr) /\ ~ord_now_block

\* How S2 resolves on this edge; "none" is a retry.
Outcome(hr) ==
  IF ~s2_live THEN "none"
  ELSE IF r.illegal THEN IF illegal_go(hr) THEN "illegal" ELSE "none"
  ELSE IF ~lookup_active THEN "none"
  ELSE IF hit_go(hr) THEN "hit"
  ELSE IF merge_go THEN "merge"
  ELSE IF ins_go(hr) THEN "ins"
  ELSE IF alloc_go THEN "alloc"
  ELSE "none"

pipe_adv(go) == (r = None \/ go # "none") /\ rr = 0

----------------------------------------------------------------------------
\* Accept.  A request waits while A or Q holds its set, unless both are reads
\* of one line.

\* Fault: any two reads of a set overlap, whatever their lines.
OverlapsWrites(x, o) == x # None /\ SetOf[x.line] = SetOf[o.line] /\ (x.wr \/ o.wr)
Overlaps(x, o) == /\ x # None /\ SetOf[x.line] = SetOf[o.line]
                  /\ ~(x.line = o.line /\ ~x.wr /\ ~o.wr)
set_haz(o) == Overlaps(a, o) \/ Overlaps(q, o)
do_accept(o, adv) == adv /\ ~set_haz(o)

\* The request as the pipeline carries it, with what a read of it may return.
Request(o) == [line |-> o.line, q |-> o.q, wr |-> o.wr, kind |-> o.kind,
               val |-> o.val, id |-> o.id, need |-> o.need, illegal |-> o.illegal,
               ok |-> IF ReadsByte(o) THEN {writes[i] : i \in 1 .. Len(writes)} ELSE {}]

----------------------------------------------------------------------------
\* The one write port of the arrays: an install has it before S2.

line_install(go) == go = "ins" \/ (go = "hit" /\ r.wr)

TagsNext(go) ==
  IF inst # None
  THEN [tags EXCEPT ![inst.set][inst.way] =
          [line |-> inst.line, v |-> Quads, d |-> inst.dsec]]
  ELSE IF line_install(go)
  THEN [tags EXCEPT ![SetR][sel_way] =
          [line |-> r.line, v |-> base_vsec \cup Cov(r), d |-> base_dsec \cup Dty(r)]]
  ELSE IF go = "alloc" /\ ~any_tm
  THEN [tags EXCEPT ![SetR][sel_way] = [line |-> r.line, v |-> {}, d |-> {}]]
  ELSE tags

DataNext(go) ==
  IF inst # None
  THEN IF inst.strb THEN [data EXCEPT ![inst.set][inst.way] = aval] ELSE data
  ELSE IF line_install(go) /\ WritesByte(r)
  THEN [data EXCEPT ![SetR][sel_way] = r.val]
  ELSE data

\* Rows an array read of set s may return on this edge.
ReadRow(s) == [tag : {tags[s], tags'[s]}, dat : {data[s], data'[s]}]

\* l2c_victim_sel: the first invalid free way, else a free way (the pseudo-LRU
\* one if it is free).
VictimSel(row, busy) ==
  LET inv == {w \in Ways \ busy : row.tag[w].v = {}}
      ways == IF inv # {} THEN {Min(inv)}
              ELSE IF busy # Ways THEN Ways \ busy ELSE {Min(Ways)}
  IN {[way |-> w, ok |-> busy # Ways,
       dirty |-> row.tag[w].v # {} /\ row.tag[w].d # {}] : w \in ways}

----------------------------------------------------------------------------
\* Parts of the edge.  go is how S2 resolves, adv that the stages move, o
\* the request accepted or None.

\* q_stale and req_stale: an install has landed on the request's set since its
\* row was read.  A re-read resets them, each on its own edge.
onSet(x) == x # None /\ inst # None /\ inst.set = SetOf[x.line]
QStaleNext(adv) == IF adv THEN onSet(a)
                   ELSE IF rr = 2 THEN onSet(q) ELSE qStale \/ onSet(q)
\* Fault: the re-read does not reset req_stale.
RStaleSticky(adv) == IF adv THEN q # None /\ (qStale \/ onSet(q)) ELSE rStale \/ onSet(r)
RStaleNext(adv) == IF adv THEN q # None /\ (qStale \/ onSet(q))
                   ELSE IF rr = 1 THEN onSet(r) ELSE rStale \/ onSet(r)

\* a_*, q_*, req_*, ra_q, the array output registers and the sticky bits.
PipeEdge(o, adv) ==
  LET ce == adv \/ rr # 0
      reads == IF rr = 1 THEN r ELSE IF rr = 2 THEN q ELSE a  \* whose row is read
  IN /\ a' = IF adv THEN (IF o # None THEN Request(o) ELSE None) ELSE a
     /\ q' = IF adv THEN a ELSE q
     /\ r' = IF adv THEN q ELSE r
     /\ ra' = CASE rr_start -> SetR
                [] rr = 1 -> IF q # None THEN SetOf[q.line] ELSE ra
                [] rr = 2 -> IF a # None THEN SetOf[a.line] ELSE ra
                [] OTHER -> IF o # None THEN SetOf[o.line] ELSE ra
     /\ rv' \in IF ~ce THEN {rv} ELSE IF reads = None THEN {NoRow} ELSE ReadRow(ra)
     /\ tq' = IF ce THEN rv ELSE tq
     /\ rr' = IF rr_start THEN 1 ELSE IF rr = 1 THEN 2 ELSE 0
     /\ h0' = IF inst # None THEN inst.set ELSE None
     /\ h1' = h0
     /\ qStale' = QStaleNext(adv)
     /\ rStale' = RStaleNext(adv)

\* Candidate Q when the pipe moves, else the request held in S2; during a
\* re-read its row is still in the array output register.
VictimEdge(adv) ==
  vs' \in IF adv
         THEN IF q = None THEN {NoVictim} ELSE VictimSel(rv, BusyWays(SetOf[q.line]))
         ELSE VictimSel(IF rr # 0 THEN rv ELSE tq, BusyWays(SetR))

\* victim_push_* and the victim buffer; pop is the B of the oldest line.
EvictEdge(go, pop) ==
  LET left == IF pop THEN Tail(vbuf) ELSE vbuf
  IN /\ push' = IF go \in {"ins", "alloc"} /\ need_evict
                THEN [line |-> tq.tag[vs.way].line, d |-> tq.tag[vs.way].d,
                      val |-> tq.dat[vs.way]]
                ELSE IF push_ready THEN None ELSE push
     /\ vbuf' = IF push # None /\ push_ready THEN Append(left, push) ELSE left
     /\ mem' = IF pop /\ vbuf[1].line = TLine /\ TQuad \in vbuf[1].d
               THEN vbuf[1].val ELSE mem

HitRspEdge(go, hr) ==
  hrsp' = IF go \in {"illegal", "hit", "ins"} /\ r.need
          THEN Rsp(r, tq.dat[sel_way], r.illegal)
          ELSE IF hr THEN None ELSE hrsp

\* History: a response entering its register acknowledges the oldest write.
\* A write answered with an error has not happened.
AckByHit(go) == go \in {"hit", "ins"} /\ WritesByte(r)
AckByMshr == MshrLoads # None /\ WritesByte(MshrLoads)
HistoryEdge(o, go) ==
  LET byHit == IF AckByHit(go) THEN Tail(writes) ELSE writes
      acked == IF ~AckByMshr THEN byHit
               ELSE IF ms[act].err THEN <<byHit[1]>> \o Tail(Tail(byHit)) ELSE Tail(byHit)
  IN writes' = IF o # None /\ WritesByte(o) THEN Append(acked, o.val) ELSE acked

\* An entry whose AR is accepted on this edge; None when there is none to issue
\* or the port stalls.
MayBe(port, waiting) == IF waiting = {} \/ port \in scn.stalls THEN waiting \cup {None} ELSE waiting

\* One edge of clk.  hr and mr are hit_rsp_ready and mshr_rsp_ready, iss and
\* fill the entries whose AR is accepted and whose RLAST arrives, pop the B of
\* the oldest writeback, o the request accepted (one that is refused stays at
\* the door).
Tick(hr, mr) ==
  LET go == Outcome(hr)
      adv == pipe_adv(go)
      al == IF go = "alloc"
            THEN [rq |-> r, way |-> sel_way, vsec |-> base_vsec, dsec |-> base_dsec]
            ELSE None
      mg == IF go = "merge" THEN [rq |-> r, e |-> lu_idx] ELSE None
  IN /\ UNCHANGED scn
     /\ tags' = TagsNext(go) /\ data' = DataNext(go)
     /\ VictimEdge(adv)
     /\ HitRspEdge(go, hr)
     /\ \E iss \in MayBe("ar", Unissued), fill \in Issued \cup {None} :
          \E err \in {FALSE, scn.errs /\ fill # None} :
            MshrEdge(al, mg, iss, mem, fill, err, mr)
     /\ \E pop \in {FALSE, vbuf # <<>>} : EvictEdge(go, pop)
     /\ \E o \in {x \in scn.ops : do_accept(x, adv)} \cup {None} :
          PipeEdge(o, adv) /\ HistoryEdge(o, go)

Init == /\ scn \in Scenarios
        /\ MshrInit
        /\ tags = [s \in Sets |-> [w \in Ways |-> NoEntry]]
        /\ data = [s \in Sets |-> [w \in Ways |-> Junk]]
        /\ mem = 0 /\ writes = <<0>>
        /\ a = None /\ q = None /\ r = None
        /\ ra = Min(Sets) /\ rv = NoRow /\ tq = NoRow
        /\ rr = 0 /\ h0 = None /\ h1 = None /\ qStale = FALSE /\ rStale = FALSE
        /\ vs = NoVictim /\ push = None /\ vbuf = <<>> /\ hrsp = None

Next == \E hr \in {TRUE, hrsp = None \/ "hit" \notin scn.stalls},
           mr \in {TRUE, mrsp = None \/ "mshr" \notin scn.stalls} : Tick(hr, mr)

Spec == Init /\ [][Next]_vars

\* DRAM answers fills and acknowledges writebacks again and again.  Used with
\* stalls = {}: the other ports are always ready.
FillComes == Next /\ (Issued # {} => \E e \in Issued : ms'[e].fetch = "done")
BComes == /\ Next
          /\ vbuf # <<>> =>
               Len(vbuf') < Len(vbuf) + (IF push # None /\ push_ready THEN 1 ELSE 0)
LiveSpec == Spec /\ WF_vars(FillComes) /\ WF_vars(BComes)

----------------------------------------------------------------------------
\* A read returns the followed byte as of a write accepted before it, and never
\* an older one than the last write acknowledged before it was accepted.
ReadsCurrent == \A x \in {hrsp, mrsp} : x # None /\ x.val # None => x.val \in x.ok

\* A line whose dirty copy is on its way to DRAM, in the victim buffer or in
\* the register in front of it, is not being fetched from DRAM.
Leaving == {vbuf[i].line : i \in 1 .. Len(vbuf)} \cup
           (IF push = None THEN {} ELSE {push.line})
NoFetchOfLeavingLine == \A e \in Live : ms[e].line \notin Leaving

\* No two entries of the miss table claim one way, whatever the age of the
\* victim choice each allocation used.
ClaimsDisjoint ==
  \A e, f \in Live : e # f => \/ SetOf[ms[e].line] # SetOf[ms[f].line]
                             \/ ms[e].way # ms[f].way

\* A line is valid in one way at most, and has one miss entry at most.
OneCopyPerLine ==
  /\ \A s \in Sets : \A v, w \in Ways :
       v # w /\ tags[s][v].v # {} /\ tags[s][w].v # {} => tags[s][v].line # tags[s][w].line
  /\ \A e, f \in Live : e # f => ms[e].line # ms[f].line

\* With no write of the byte pending, its value is in the cache if the quadrant
\* is valid there, else with the copy leaving for DRAM, else in DRAM.
Cached == {d \in Sets \X Ways : tags[d[1]][d[2]].line = TLine /\ TQuad \in tags[d[1]][d[2]].v}
Outgoing == SelectSeq(IF push = None THEN vbuf ELSE Append(vbuf, push),
                      LAMBDA x : x.line = TLine /\ TQuad \in x.d)
ByteHasHome ==
  Len(writes) = 1 =>
    /\ \A d \in Cached : data[d[1]][d[2]] = writes[1]
    /\ Cached = {} /\ Outgoing # <<>> => Outgoing[Len(Outgoing)].val = writes[1]
    /\ Cached = {} /\ Outgoing = <<>> => mem = writes[1]

\* A line in the push register reaches the victim buffer before another
\* eviction takes the register.
PushNotLost ==
  [][push # None => push' = push \/ (vbuf' # <<>> /\ vbuf'[Len(vbuf')] = push)]_vars

\* Every miss is filled, replayed and freed, however many requests merge into
\* it while it is being replayed.
EveryMissFreed == \A e \in Entries : []<>(ms[e] = None)

\* S2 resolves again and again: re-reads after installs, full victim and miss
\* tables and same-id waits all end.
S2Resolves == []<>(r = None \/ Outcome(hrsp = None) # "none")
=============================================================================
