------------------------------ MODULE XbarWrite ------------------------------
(***************************************************************************)
(* The write half of the crossbar, src/rtl/soc/axi_xbar.v, one step per    *)
(* core_clk cycle, with the masters and slaves it joins.                   *)
(*                                                                         *)
(* Write slot 0 is shared by the CPU's data port and the boot copier (a    *)
(* plain 2:1 select, m0_wsel_q); slot 1 is the host.  Slot 3 (DMA) has     *)
(* slot 1's shape and slot 2 is tied off.  The slaves are S0 (memory),     *)
(* S1 (the I/O island, single beats only, emptied by a full reset) and S3  *)
(* (video memory behind the same DRAM, which survives a full reset).  S2,  *)
(* S4 and S5 have S1's shape without its reset tail.  The form modelled    *)
(* is the SoC's: ENABLE_WD = 0 and S3_BACKEND_SURVIVES_FLUSH = 1.          *)
(***************************************************************************)
EXTENDS Integers, Sequences, FiniteSets, SequencesExt

CONSTANTS
    Slots,          \* write slots, 0 being the shared one
    Slaves,         \* subset of {"S0", "S1", "S3"}
    BHoldMax,       \* B_HOLD_MAX, scaled
    TailLen,        \* S1_RST_TAIL_MAX, scaled
    FarLen,         \* cycles the I/O island stays in reset after the flush
    ResetLen,       \* shortest reset, in cycles
    None,           \* no write
    Scenarios       \* loads: the writes of each master, the kinds of reset and how
                    \* many, whether the host may walk away from a write

ASSUME XbarAssumption ==
    /\ Slots \subseteq {0, 1} /\ 0 \in Slots
    /\ Slaves \subseteq {"S0", "S1", "S3"}
    /\ BHoldMax \in Nat \ {0}
    /\ FarLen \in Nat /\ TailLen \in Nat /\ FarLen < TailLen
    /\ ResetLen \in Nat \ {0}

VARIABLES
    scn,    \* the traffic and resets of this behaviour
    env,    \* reset mode of the SoC, its age, resets left, far reset of S1
    m0,     \* the slot-0 select: m0_wsel_q, m0_wsel_busy, m0_abandon
    ws,     \* ws[i]: the state of write slot i
    awr,    \* mw_awready_r: slots whose AW is being accepted this cycle
    sw,     \* sw[s]: owner lock, round robin and AW register of slave s
    s3,     \* s3_flush_wbeats, or -1 when s3_flush_active is 0
    tail,   \* s1_rst_tail
    mas,    \* mas[x]: progress of master x through its writes
    slv     \* slv[s]: what slave s holds

vars == <<scn, env, m0, ws, awr, sw, s3, tail, mas, slv>>

Sides == {"cpu", "boot", "host"}
FlushDomain == {"S1", "S3"}
LiteOnly == {"S1"}

-----------------------------------------------------------------------------
(* The reset levels.  "hold" is the debugger's CPU hold, "flush" the full  *)
(* reset, "boot" the ROM copy that follows either.                         *)
cpu_held_in_reset == env.mode # "run"
slv_flush == env.mode = "flush"
m0b_master_reset == env.mode \in {"hold", "flush"}

-----------------------------------------------------------------------------
(* Masters.  Write n of master x is scn.writes[x][n], a slave and a number *)
(* of beats less one; its identity is <<x, n>>.                            *)
Write(x, n) == scn.writes[x][n]
SelSide == IF m0.sel = 1 THEN "boot" ELSE "cpu"
Side(i) == IF i = 0 THEN SelSide ELSE "host"

m0_pad_w == ws[0].st = "WS_PAD_W"
mw_awvalid(i) == mas[Side(i)].aw < mas[Side(i)].issued
NextAw(i) == <<Side(i), mas[Side(i)].aw + 1>>
HasBeat(x) == mas[x].w < mas[x].issued
mw_wvalid(i, in) == (i = 0 /\ m0_pad_w) \/ Side(i) \in in.wvalid
mw_wlast(i) ==
    IF i = 0 /\ m0_pad_w THEN ws[0].left = 1
    ELSE mas[Side(i)].beat = Write(Side(i), mas[Side(i)].w + 1).len
mw_bready(i, in) == (i = 0 /\ m0.abandon) \/ Side(i) \in in.bready
(* The writer of the beat on slot i; filler has none.                      *)
BeatOf(i) == IF i = 0 /\ m0_pad_w THEN None
             ELSE <<Side(i), mas[Side(i)].w + 1>>

-----------------------------------------------------------------------------
(* Slot outputs towards the slaves.                                        *)
NoWrite == [st |-> "WS_IDLE", slv |-> "none", wr |-> None, wdone |-> FALSE,
            left |-> 0, len |-> 0, bcnt |-> 0, hold |-> 0]
Engaged == {"WS_WAIT_SLV_AW", "WS_FWD_W", "WS_WAIT_B", "WS_PAD_W"}

ws_active(i) == ws[i].st \in Engaged
Drives(i) ==
    \/ ws[i].st \in {"WS_FWD_W", "WS_PAD_W"}
    \/ ws[i].st = "WS_WAIT_SLV_AW" /\ ~ws[i].wdone
mw_wready_raw(i, in) ==
    \/ Drives(i) /\ ws[i].slv \in in.wready
    \/ ws[i].st = "WS_DRAIN_W"
WFire(i, in) == mw_wvalid(i, in) /\ mw_wready_raw(i, in)
WLastFire(i, in) == WFire(i, in) /\ mw_wlast(i)
mw_bvalid_slv(i) ==
    /\ ws[i].st = "WS_WAIT_B"
    /\ sw[ws[i].slv].owned /\ sw[ws[i].slv].owner = i
    /\ slv[ws[i].slv].b # <<>>
mw_bvalid_loc(i) == ws[i].st = "WS_SEND_BLOCAL"

-----------------------------------------------------------------------------
(* Abort conditions.  in.late stands for "ws_wd_cnt has reached its bound".*)
OwnerGone == m0.abandon \/ (m0.sel = 1) # cpu_held_in_reset
ws_flush_abort(i) ==
    /\ ws_active(i)
    /\ \/ slv_flush /\ ws[i].slv \in FlushDomain
       \/ i = 0 /\ ws[i].slv = "S1" /\ OwnerGone
ws_b_abandon(i, in) ==
    ws[i].st = "WS_WAIT_B" /\ ws[i].hold = BHoldMax /\ in.late /\ ~slv_flush
ws_loc_abandon(i) ==
    /\ ws[i].st \in {"WS_DRAIN_W", "WS_SEND_BLOCAL"}
    /\ ws[i].hold = BHoldMax /\ ~slv_flush
ws_needs_drain(i, in) == ~(ws[i].wdone \/ WLastFire(i, in))
(* Fault: the beat that moves in the cycle of the abort is not counted.    *)
ws_wbeats_stale(i, in) == ws[i].left
ws_wbeats_next(i, in) ==
    IF WFire(i, in) /\ ws[i].left # 0 THEN ws[i].left - 1 ELSE ws[i].left

(* ws_release_slot: the slave is given up; the master is answered locally  *)
(* with SLVERR, unless slot 0's owner is gone.                             *)
(* Fault: the slot is discarded in silence whoever owns it.                *)
ReleasedSilently(i, drain) == NoWrite
Released(i, drain) ==
    IF i = 0 /\ OwnerGone THEN NoWrite
    ELSE [ws[i] EXCEPT !.st = IF drain THEN "WS_DRAIN_W" ELSE "WS_SEND_BLOCAL",
                       !.bcnt = IF drain THEN ws[i].len + 1 ELSE 0,
                       !.slv = "none", !.left = 0, !.wdone = FALSE, !.hold = 0]

-----------------------------------------------------------------------------
(* One clock edge of slot i: its next state, whether it gives its slave    *)
(* up (gave), and the S3 clean-up it arms (s3: beats, or -1 for none).     *)
Stay(i) == [ws |-> ws[i], gave |-> FALSE, turn |-> FALSE, s3 |-> -1]
To(i, st) == [Stay(i) EXCEPT !.ws.st = st, !.ws.hold = 0]
Release(i, drain) == [Stay(i) EXCEPT !.ws = Released(i, drain), !.gave = TRUE]
FlushRelease(i, drain, beats) ==
    [Release(i, drain) EXCEPT !.s3 = IF ws[i].slv = "S3" THEN beats ELSE -1]
Hold(i, waiting) ==
    [Stay(i) EXCEPT !.ws.hold =
        IF ~waiting THEN 0
        ELSE IF slv_flush \/ @ = BHoldMax THEN @ ELSE @ + 1]

AwFire(s, in) == sw[s].aw /\ s \in in.awready

WaitSlvAw(i, in) ==
    LET s == ws[i].slv
        mine == sw[s].owned /\ sw[s].owner = i
    IN  IF AwFire(s, in) /\ mine
        THEN IF s = "S3" /\ ws_flush_abort(i)
             THEN FlushRelease(i, ws_needs_drain(i, in), ws_wbeats_next(i, in))
             ELSE To(i, IF ws_needs_drain(i, in) THEN "WS_FWD_W"
                        ELSE "WS_WAIT_B")
        ELSE IF ws_flush_abort(i) THEN Release(i, ws_needs_drain(i, in))
        ELSE [Stay(i) EXCEPT !.ws.wdone = ~ws_needs_drain(i, in)]

FwdW(i, in) ==
    IF WLastFire(i, in)
    THEN IF ws_flush_abort(i) /\ ws[i].slv = "S3"
         THEN FlushRelease(i, FALSE, 0)
         ELSE To(i, "WS_WAIT_B")
    ELSE IF ws_flush_abort(i)
    THEN FlushRelease(i, TRUE, ws_wbeats_next(i, in))
    ELSE IF i = 0 /\ m0.abandon
    THEN To(i, IF ws_wbeats_next(i, in) = 0 THEN "WS_WAIT_B" ELSE "WS_PAD_W")
    ELSE Stay(i)

PadW(i, in) ==
    IF WLastFire(i, in) THEN To(i, "WS_WAIT_B")
    ELSE IF ws_flush_abort(i) THEN Release(i, FALSE)
    ELSE Stay(i)

WaitB(i, in) ==
    IF (mw_bvalid_slv(i) /\ mw_bready(i, in)) \/ ws_b_abandon(i, in)
    THEN [Stay(i) EXCEPT !.ws = NoWrite, !.gave = TRUE, !.turn = TRUE]
    ELSE IF ws_flush_abort(i) THEN FlushRelease(i, FALSE, 0)
    ELSE Hold(i, mw_bvalid_slv(i) /\ ~mw_bready(i, in))

DrainW(i, in) ==
    IF WFire(i, in)
    THEN IF ws[i].bcnt = 1 \/ mw_wlast(i) THEN To(i, "WS_SEND_BLOCAL")
         ELSE [Stay(i) EXCEPT !.ws.bcnt = @ - 1, !.ws.hold = 0]
    ELSE IF ws_loc_abandon(i)
    THEN [Stay(i) EXCEPT !.ws.st = "WS_SEND_BLOCAL"]
    ELSE Hold(i, TRUE)

SendBlocal(i, in) ==
    IF mw_bready(i, in) \/ ws_loc_abandon(i)
    THEN [Stay(i) EXCEPT !.ws = NoWrite]
    ELSE Hold(i, TRUE)

(* The beat count runs in every state in which a beat moves.               *)
SlotStep(i, in) ==
    CASE ws[i].st = "WS_WAIT_SLV_AW" -> WaitSlvAw(i, in)
      [] ws[i].st = "WS_FWD_W"       -> FwdW(i, in)
      [] ws[i].st = "WS_PAD_W"       -> PadW(i, in)
      [] ws[i].st = "WS_WAIT_B"      -> WaitB(i, in)
      [] ws[i].st = "WS_DRAIN_W"     -> DrainW(i, in)
      [] ws[i].st = "WS_SEND_BLOCAL" -> SendBlocal(i, in)
      [] OTHER                       -> Stay(i)
SlotNext(i, in) ==
    LET n == SlotStep(i, in)
    IN  IF n.ws.st \in Engaged
        THEN [n EXCEPT !.ws.left = ws_wbeats_next(i, in)] ELSE n

-----------------------------------------------------------------------------
(* AW arbitration: each slave that is free picks among the idle slots      *)
(* whose AW decodes to it, round robin; a write no slave may take is       *)
(* accepted for a local answer, one slot per cycle.                        *)
Decode(i) == Write(Side(i), mas[Side(i)].aw + 1)
Refused(i) ==
    \/ Decode(i).slv = "none"
    \/ Decode(i).slv \in LiteOnly /\ Decode(i).len # 0
    \/ Decode(i).slv \in FlushDomain /\ slv_flush
Requests(i) == ws[i].st = "WS_IDLE" /\ mw_awvalid(i)
(* Fault: S1 is granted as soon as the flush is over.                      *)
s1_tail_ignored == FALSE
s1_rst_tail_busy == tail # 0
req(s) == {i \in Slots : /\ Requests(i) /\ ~Refused(i) /\ Decode(i).slv = s
                         /\ s = "S1" => ~s1_rst_tail_busy}
rr_pick_w(s) ==
    CHOOSE i \in req(s) :
        \A j \in req(s) : (i - sw[s].rr) % 4 <= (j - sw[s].rr) % 4
(* Fault: a slave is granted again as soon as its AW register is free.     *)
GrantsUnlocked(s) == ~sw[s].aw /\ req(s) # {} /\ (s = "S3" => s3 < 0)
Grants(s) ==
    /\ ~sw[s].owned /\ ~sw[s].aw /\ req(s) # {}
    /\ s = "S3" => s3 < 0
Granted(i) == \E s \in Slaves : Grants(s) /\ rr_pick_w(s) = i
req_local(i) == Requests(i) /\ Refused(i) /\ i \notin awr
LocalWin(i) == req_local(i) /\ \A j \in Slots : req_local(j) => i <= j

Taken(i, s) ==
    [NoWrite EXCEPT !.st = "WS_WAIT_SLV_AW", !.slv = s, !.wr = NextAw(i),
                    !.len = Decode(i).len, !.left = Decode(i).len + 1]
TakenLocal(i) ==
    [NoWrite EXCEPT !.st = "WS_DRAIN_W", !.wr = NextAw(i),
                    !.len = Decode(i).len, !.bcnt = Decode(i).len + 1]

SlotEdge(in) ==
    ws' = [i \in Slots |->
             IF Granted(i) THEN Taken(i, Decode(i).slv)
             ELSE IF LocalWin(i) THEN TakenLocal(i)
             ELSE SlotNext(i, in).ws]
ReadyEdge == awr' = {i \in Slots : Granted(i) \/ LocalWin(i)}

(* The owner lock, round-robin pointer and AW register of each slave.      *)
LockEdge(in) ==
    sw' = [s \in Slaves |->
      LET gave == {i \in Slots : ws[i].slv = s /\ SlotNext(i, in).gave}
          turn == {i \in gave : SlotNext(i, in).turn}
          free == [sw[s] EXCEPT
                     !.owned = @ /\ gave = {},
                     !.rr = IF turn # {} THEN (CHOOSE i \in turn : TRUE) + 1
                            ELSE @,
                     !.aw = @ /\ gave = {} /\ ~AwFire(s, in)]
      IN  IF Grants(s)
          THEN [free EXCEPT !.owned = TRUE, !.owner = rr_pick_w(s), !.aw = TRUE]
          ELSE free]

(* The S3 clean-up: finish the accepted burst with filler, sink its B.     *)
S3Armed(in) ==
    {SlotNext(i, in).s3 : i \in {j \in Slots : SlotNext(j, in).s3 >= 0}}
S3SinksB == s3 = 0 /\ slv["S3"].b # <<>>
S3Pads(in) == s3 > 0 /\ "S3" \in in.wready
S3Edge(in) ==
    s3' = IF S3Armed(in) # {} THEN CHOOSE n \in S3Armed(in) : TRUE
          ELSE IF S3SinksB THEN -1
          ELSE IF S3Pads(in) THEN s3 - 1
          ELSE s3

-----------------------------------------------------------------------------
(* The slot-0 select: it follows cpu_held_in_reset unless a write is in    *)
(* flight, and m0_abandon remembers that the write's owner has gone.       *)
SelectEdge ==
    m0' = [sel |-> IF m0.busy THEN m0.sel
                   ELSE IF cpu_held_in_reset THEN 1 ELSE 0,
           busy |-> \/ mw_awvalid(0) /\ 0 \in awr
                    \/ m0.busy /\ ws[0].st # "WS_IDLE",
           abandon |-> /\ ws[0].st # "WS_IDLE"
                       /\ m0.abandon \/ (m0.busy /\ (OwnerGone \/ slv_flush
                                                   \/ m0b_master_reset))]

(* S1 admission stays closed for a while after the flush ends.             *)
TailEdge ==
    tail' = IF slv_flush THEN TailLen ELSE IF tail > 0 THEN tail - 1 ELSE 0

-----------------------------------------------------------------------------
(* The masters.  A reset makes a master forget every write it had issued;  *)
(* the CPU's reset is asynchronous, the copier's synchronous.  A host that *)
(* walks away stays silent until its slot is free again.                   *)
SlotOf(x) == IF x = "host" THEN 1 ELSE 0
Sees(x) == SlotOf(x) \in Slots /\ Side(SlotOf(x)) = x
BDelivered(x, in) ==
    LET i == SlotOf(x)
    IN  /\ Sees(x) /\ x \in in.bready /\ ~(i = 0 /\ m0.abandon)
        /\ mw_bvalid_slv(i) \/ mw_bvalid_loc(i)
Forget(m) == [m EXCEPT !.aw = m.issued, !.w = m.issued, !.b = m.issued,
                       !.beat = 0, !.gone = FALSE]
Advance(x, in) ==
    LET i == SlotOf(x)
        m == mas[x]
        sent == Sees(x) /\ ~(i = 0 /\ m0_pad_w) /\ WFire(i, in)
        last == sent /\ mw_wlast(i)
        One(p) == IF p THEN 1 ELSE 0
    IN  [issued |-> m.issued + One(x \in in.issue),
         aw |-> m.aw + One(Sees(x) /\ i \in awr /\ mw_awvalid(i)),
         w |-> m.w + One(last),
         beat |-> IF last THEN 0 ELSE m.beat + One(sent),
         b |-> m.b + One(BDelivered(x, in)),
         gone |-> m.gone \/ (x = "host" /\ in.walk)]
MasterEdge(in) ==
    mas' = [x \in Sides |->
              IF \/ x = "cpu" /\ in.mode # "run"
                 \/ x = "boot" /\ m0b_master_reset
                 \/ mas[x].gone /\ ws[1].st = "WS_IDLE"
              THEN Forget(Advance(x, in)) ELSE Advance(x, in)]

-----------------------------------------------------------------------------
(* The slaves: open bursts with the beats they still need, beats taken     *)
(* ahead of their AW (S1 only), finished bursts, responses on offer.       *)
(* "from" collects the writers of a burst's beats, None for filler.        *)
Beats(s, in) ==
    {[wr |-> BeatOf(i), last |-> mw_wlast(i)] :
        i \in {j \in Slots : ws[j].slv = s /\ Drives(j) /\ WFire(j, in)}}
    \union IF s = "S3" /\ S3Pads(in) THEN {[wr |-> None, last |-> s3 = 1]} ELSE {}
TakeBeat(e, beat) ==
    [e EXCEPT !.need = @ - 1, !.from = @ \union {beat.wr},
              !.odd = @ \/ beat.last # (e.need = 1)]
Pair(q) ==
    IF q.open = <<>> \/ q.early = <<>> THEN q
    ELSE LET e == TakeBeat(Head(q.open), Head(q.early))
         IN  [q EXCEPT !.early = Tail(@),
                       !.open = IF e.need = 0 THEN Tail(@)
                                ELSE <<e>> \o Tail(@),
                       !.done = IF e.need = 0 THEN Append(@, e) ELSE @]
EmptySlave == [open |-> <<>>, early |-> <<>>, done |-> <<>>, b |-> <<>>]
BTaken(s, in) ==
    \/ \E i \in Slots : /\ ws[i].slv = s /\ mw_bvalid_slv(i)
                        /\ mw_bready(i, in) \/ ws_b_abandon(i, in)
    \/ s = "S3" /\ S3SinksB
SlaveNext(s, in) ==
    LET q == slv[s]
        w == ws[sw[s].owner]
        aw == IF AwFire(s, in)
              THEN <<[wr |-> w.wr, need |-> w.len + 1, from |-> {},
                      odd |-> FALSE]>>
              ELSE <<>>
        b == IF BTaken(s, in) THEN Tail(q.b) ELSE q.b
        show == s \in in.bshow
    IN  Pair([open |-> q.open \o aw,
              early |-> q.early \o SetToSeq(Beats(s, in)),
              done |-> IF show THEN Tail(q.done) ELSE q.done,
              b |-> IF show THEN Append(b, Head(q.done)) ELSE b])
IslandInReset == slv_flush \/ env.far > 0
SlaveEdge(in) ==
    slv' = [s \in Slaves |-> IF s = "S1" /\ IslandInReset THEN EmptySlave
                             ELSE SlaveNext(s, in)]

-----------------------------------------------------------------------------
(* The environment.  A reset lasts ResetLen cycles at least; the copy      *)
(* follows every reset and hands over to the CPU when nothing of it is     *)
(* outstanding.  NoGrantRace leaves out one coincidence: m0_wsel_busy is   *)
(* set only at the AW handshake, one cycle after the grant, and a reset    *)
(* that starts between the two moves the select away from the write.       *)
Idle(m) == m.aw = m.issued /\ m.w = m.issued /\ m.b = m.issued
NextModes ==
    {env.mode}
    \union (IF env.resets > 0 THEN scn.kinds ELSE {})
    \union (IF env.mode \in {"hold", "flush"} /\ env.age = ResetLen
            THEN {"boot"} ELSE {})
    \union (IF env.mode = "boot" THEN {"run"} ELSE {})
Starts(mode) == mode \in {"hold", "flush"} /\ mode # env.mode
EnvEdge(in) ==
    /\ env.mode = "boot" /\ in.mode = "run" => Idle(mas'["boot"])
    /\ env' = [mode |-> in.mode,
               age |-> IF in.mode # env.mode THEN 0
                       ELSE IF env.age < ResetLen THEN env.age + 1
                       ELSE env.age,
               resets |-> env.resets - IF Starts(in.mode) THEN 1 ELSE 0,
               far |-> IF slv_flush THEN FarLen
                       ELSE IF env.far > 0 THEN env.far - 1 ELSE 0]
NoGrantRace(in) ==
    Starts(in.mode) =>
        /\ 0 \notin awr'
        /\ ~(ws'[0].st = "WS_IDLE" /\ mas'["boot"].aw < mas'["boot"].issued)

(* The inputs of a cycle.  A master that is still there takes its answer   *)
(* and sends its beats within the grace the crossbar allows.  A restarted  *)
(* copier first reads the SD card, far longer than a slave leaves an AW    *)
(* waiting, so an abandoned write is over before it writes again.          *)
MayIssue ==
    {x \in Sides : /\ mas[x].issued < Len(scn.writes[x])
                   /\ mas[x].issued = mas[x].aw /\ ~mas[x].gone
                   /\ x = "cpu" => env.mode = "run"
                   /\ x = "boot" => env.mode = "boot" /\ ~m0.abandon}
WantsBeat == {x \in Sides : /\ Sees(x) /\ HasBeat(x) /\ ~mas[x].gone
                            /\ \/ Drives(SlotOf(x))
                               \/ ws[SlotOf(x)].st = "WS_DRAIN_W"}
WantsB == {x \in Sides : /\ Sees(x) /\ ~mas[x].gone
                         /\ \/ mw_bvalid_slv(SlotOf(x))
                            \/ mw_bvalid_loc(SlotOf(x))}
Due(x) == ws[SlotOf(x)].hold = BHoldMax
ForcedB == IF cpu_held_in_reset THEN {"cpu"} ELSE {}
TakesW(s, awready) ==
    \/ slv[s].open # <<>>
    \/ sw[s].aw /\ s \in awready
    \/ s = "S1" /\ slv[s].early = <<>>
MayWalk ==
    /\ scn.walks /\ ~mas["host"].gone /\ mas["host"].b < mas["host"].aw
    /\ HasBeat("host") => ws[1].st = "WS_DRAIN_W"
Cover(S, T) == {U \in SUBSET S : T \subseteq U}
Edge(in) ==
    /\ SlotEdge(in) /\ ReadyEdge /\ LockEdge(in) /\ S3Edge(in)
    /\ SelectEdge /\ TailEdge /\ MasterEdge(in) /\ SlaveEdge(in)
    /\ EnvEdge(in) /\ NoGrantRace(in)
    /\ UNCHANGED scn
Next ==
    \E is \in SUBSET MayIssue,
       wv \in Cover(WantsBeat, {x \in WantsBeat : Due(x)}),
       br \in Cover(WantsB, {x \in WantsB : Due(x)}),
       ar \in SUBSET {s \in Slaves : sw[s].aw},
       bs \in SUBSET {s \in Slaves : slv[s].done # <<>>},
       mo \in NextModes,
       la \in IF \E i \in Slots : ws[i].hold = BHoldMax THEN BOOLEAN ELSE {FALSE},
       wk \in IF MayWalk THEN BOOLEAN ELSE {FALSE} :
    /\ wk => "host" \notin is \union wv \union br
    /\ \E wr \in SUBSET {s \in Slaves : TakesW(s, ar) /\
                 (\/ \E i \in Slots : Drives(i) /\ ws[i].slv = s
                  \/ s = "S3" /\ s3 > 0)} :
        Edge([issue |-> is, wvalid |-> wv, bready |-> br \union ForcedB,
              awready |-> ar, wready |-> wr, bshow |-> bs, mode |-> mo,
              late |-> la, walk |-> wk])

Init ==
    /\ scn \in Scenarios
    /\ env = [mode |-> "boot", age |-> 0, resets |-> scn.resets, far |-> 0]
    /\ m0 = [sel |-> 1, busy |-> FALSE, abandon |-> FALSE]
    /\ ws = [i \in Slots |-> NoWrite]
    /\ awr = {}
    /\ sw = [s \in Slaves |-> [owned |-> FALSE, owner |-> 0, rr |-> 0,
                              aw |-> FALSE]]
    /\ s3 = -1
    /\ tail = 0
    /\ mas = [x \in Sides |-> [issued |-> 0, aw |-> 0, w |-> 0, beat |-> 0,
                              b |-> 0, gone |-> FALSE]]
    /\ slv = [s \in Slaves |-> EmptySlave]

Spec == Init /\ [][Next]_vars

-----------------------------------------------------------------------------
Held(s) == Range(slv[s].open) \union Range(slv[s].done) \union Range(slv[s].b)
(* Its master no longer waits for write wr on the slave.                   *)
Disowned(wr) ==
    \/ mas[wr[1]].b >= wr[2] \/ mas[wr[1]].gone
    \/ \E i \in Slots : ws[i].wr = wr /\ ~ws_active(i)
Present(x) ==
    /\ ~mas[x].gone
    /\ x = "cpu" => ~cpu_held_in_reset
    /\ x = "boot" => ~m0b_master_reset

(* The beats a slave counts into a burst are the beats of that write, or   *)
(* filler for a write its master no longer waits for, and WLAST falls on   *)
(* the last one (early W, WS_PAD_W and the S3 clean-up).                   *)
BeatsMeetTheirAw ==
    \A s \in Slaves : \A e \in Held(s) :
        /\ ~e.odd
        /\ e.from \subseteq {e.wr, None}
        /\ None \in e.from => Disowned(e.wr)

(* A slot that waits for its slave waits for something the slave still     *)
(* has to do, beat for beat; and whatever a slave holds, a slot or the S3  *)
(* clean-up is there to collect it (ws_release_slot, s3_flush_active,      *)
(* s1_rst_tail).                                                           *)
SlotsMatchSlaves ==
    /\ \A i \in Slots :
         LET s == ws[i].slv
         IN  s \in Slaves /\ ~(s = "S1" /\ IslandInReset) =>
             /\ ws[i].st \in {"WS_FWD_W", "WS_PAD_W"} =>
                  \E e \in Range(slv[s].open) : e.wr = ws[i].wr
                                               /\ e.need = ws[i].left
             /\ ws[i].st = "WS_WAIT_B" =>
                  \E e \in Range(slv[s].done \o slv[s].b) : e.wr = ws[i].wr
    /\ \A s \in Slaves : \A e \in Held(s) :
         \/ \E i \in Slots : ws[i].slv = s /\ ws[i].wr = e.wr
         \/ s = "S3" /\ s3 >= 0
         \/ s = "S1" /\ IslandInReset

(* A B offered to a master that is there answers the oldest write it waits *)
(* for, and comes from that write (slot-0 select, sw_owner, m0_abandon).   *)
BMeetsItsWrite ==
    \A x \in Sides :
        LET i == SlotOf(x)
        IN  Sees(x) /\ Present(x) /\ ~(i = 0 /\ m0.abandon) =>
            /\ mw_bvalid_slv(i) \/ mw_bvalid_loc(i) =>
                 ws[i].wr = <<x, mas[x].b + 1>>
            /\ mw_bvalid_slv(i) => Head(slv[ws[i].slv].b).wr = ws[i].wr

(* A slot goes idle only when its write is answered or its master is gone  *)
(* (the silent branch of ws_release_slot, the three hold escapes).         *)
AnsweredWhenIdle ==
    \A i \in Slots :
        ws[i].st # "WS_IDLE" /\ ws'[i].st = "WS_IDLE" =>
            LET wr == ws[i].wr
            IN  mas'[wr[1]].b >= wr[2] \/ mas[wr[1]].gone
NoLostAnswer == [][AnsweredWhenIdle]_vars

(* A slave's lock is held exactly while its owner is engaged with it, and  *)
(* nobody else is (sw_owned, sw_owner).                                    *)
LockMatchesOwner ==
    \A s \in Slaves : \A i \in Slots :
        ws_active(i) /\ ws[i].slv = s <=> sw[s].owned /\ sw[s].owner = i

=============================================================================
