------------------------------ MODULE XbarRead ------------------------------
(***************************************************************************)
(* The read half of the crossbar, src/rtl/soc/axi_xbar.v, one step per     *)
(* core_clk cycle, with the masters and slaves it joins.                   *)
(*                                                                         *)
(* Slot 0 is the CPU's data port, slot 1 the host; slots 2 and 3 have slot *)
(* 1's shape.  A slave has no owner lock on this side: several slots may   *)
(* have reads in flight at one slave, which answers in any order, and the  *)
(* slot number in the RID routes each beat.  Slaves and build are those of *)
(* XbarWrite.                                                              *)
(***************************************************************************)
EXTENDS Integers, Sequences, FiniteSets, SequencesExt

CONSTANTS
    Slots,          \* read slots
    Slaves,         \* subset of {"S0", "S1", "S3"}
    BHoldMax,       \* B_HOLD_MAX, scaled
    TailLen,        \* S1_RST_TAIL_MAX, scaled
    FarLen,         \* cycles the I/O island stays in reset after the flush
    ResetLen,       \* shortest flush, in cycles
    None,           \* no read
    Scenarios       \* loads: the reads of each slot, how many flushes, the slots
                    \* whose master may walk away from a read

VARIABLES
    scn,    \* the traffic and resets of this behaviour
    env,    \* slv_flush, its age, flushes left, far reset of S1
    rs,     \* rs[i]: the state of read slot i
    arr,    \* mr_arready_r: slots whose AR is being accepted this cycle
    sr,     \* sr[s]: AR register (the slot in s_arid_r, or -1), round robin
    rq,     \* s3_rq_v: slots whose S3 burst is in quarantine
    tail,   \* s1_rst_tail
    mas,    \* mas[i]: progress of the master of slot i through its reads
    slv     \* slv[s]: bursts owed by slave s and the slot tag of its RVALID

vars == <<scn, env, rs, arr, sr, rq, tail, mas, slv>>

FlushDomain == {"S1", "S3"}
LiteOnly == {"S1"}
NoRead == [st |-> "RS_IDLE", slv |-> "none", rd |-> None, len |-> 0,
           done |-> 0, bcnt |-> 0, hold |-> 0]
slv_flush == env.flush
cpu_held_in_reset == env.flush

-----------------------------------------------------------------------------
(* Wires.  While the CPU is held its RREADY is forced high.                *)
mr_arvalid(i) == mas[i].ar < mas[i].issued
NextAr(i) == scn.reads[i][mas[i].ar + 1]
mr_rready(i, in) == i \in in.rready \/ (i = 0 /\ cpu_held_in_reset)
(* The oldest burst of tag t at slave s is the one being answered.         *)
BurstAt(s, t) == CHOOSE k \in 1..Len(slv[s].owed) :
                    /\ slv[s].owed[k].tag = t
                    /\ \A j \in 1..(k - 1) : slv[s].owed[j].tag # t
Burst(s) == slv[s].owed[BurstAt(s, slv[s].v)]
RLast(s) == Burst(s).left = 1

mr_r_here(i) == rs[i].slv \in Slaves /\ slv[rs[i].slv].v = i
mr_rvalid_slv(i) == rs[i].st = "RS_WAIT_R" /\ mr_r_here(i)
mr_rlast_slv(i) == RLast(rs[i].slv)
mr_rvalid_loc(i) == rs[i].st = "RS_SEND_RLOCAL"
s_rready(s, in) ==
    LET i == slv[s].v
    IN  /\ i \in Slots
        /\ \/ s = "S3" /\ i \in rq
           \/ /\ rs[i].slv = s
              /\ \/ rs[i].st = "RS_WAIT_R" /\ mr_rready(i, in)
                 \/ rs[i].st = "RS_DRAIN_R"

rs_active(i) == rs[i].st \in {"RS_WAIT_SLV_AR", "RS_WAIT_R"}
rs_flush_abort(i) ==
    /\ rs_active(i)
    /\ \/ slv_flush /\ rs[i].slv \in FlushDomain
       \/ i = 0 /\ rs[i].slv = "S1" /\ cpu_held_in_reset
rs_r_abandon(i) == rs[i].hold = BHoldMax /\ ~slv_flush
s1_rst_tail_busy == tail # 0

rs_release_remaining(i, in) ==
    rs[i].len + 1 - rs[i].done
        - IF mr_rvalid_slv(i) /\ mr_rready(i, in) THEN 1 ELSE 0
TailLeft(i, in) == LET n == rs_release_remaining(i, in) IN IF n = 0 THEN 1 ELSE n

-----------------------------------------------------------------------------
(* One clock edge of slot i: next state, AR register given up (clear),     *)
(* burst put in quarantine (rq), turn passed on (turn).                    *)
Stay(i) == [rs |-> rs[i], clear |-> FALSE, rq |-> FALSE, turn |-> FALSE]
ToLocal(i, n) ==
    [rs[i] EXCEPT !.st = "RS_SEND_RLOCAL", !.slv = "none", !.done = 0,
                  !.bcnt = n, !.hold = 0]
Release(i, in, clear, quarantine) ==
    [Stay(i) EXCEPT !.rs = ToLocal(i, TailLeft(i, in)), !.clear = clear,
                    !.rq = quarantine /\ rs[i].slv = "S3"]
Hold(i, waiting) ==
    [Stay(i) EXCEPT !.rs.hold =
        IF ~waiting THEN 0
        ELSE IF slv_flush \/ @ = BHoldMax THEN @ ELSE @ + 1]

ArFire(s, in) == sr[s].slot >= 0 /\ s \in in.arready

WaitSlvAr(i, in) ==
    IF ArFire(rs[i].slv, in) /\ sr[rs[i].slv].slot = i
    THEN IF rs[i].slv = "S3" /\ rs_flush_abort(i)
         THEN Release(i, in, FALSE, TRUE)
         ELSE [Stay(i) EXCEPT !.rs.st = "RS_WAIT_R"]
    ELSE IF rs_flush_abort(i) THEN Release(i, in, TRUE, FALSE)
    ELSE Stay(i)

WaitR(i, in) ==
    LET moves == mr_rvalid_slv(i) /\ mr_rready(i, in)
    IN  IF moves /\ mr_rlast_slv(i)
        THEN [Stay(i) EXCEPT !.rs = NoRead, !.turn = TRUE]
        ELSE IF rs_flush_abort(i) THEN Release(i, in, FALSE, TRUE)
        ELSE IF rs_r_abandon(i)
        THEN [Stay(i) EXCEPT !.rs.st = "RS_DRAIN_R", !.rs.done = 0,
                             !.rs.bcnt = TailLeft(i, in), !.rs.hold = 0]
        ELSE [Hold(i, mr_rvalid_slv(i) /\ ~mr_rready(i, in))
                EXCEPT !.rs.done = @ + IF moves THEN 1 ELSE 0]

DrainR(i) ==
    IF slv_flush /\ rs[i].slv \in FlushDomain
    THEN [Stay(i) EXCEPT !.rs = ToLocal(i, rs[i].bcnt),
                         !.rq = rs[i].slv = "S3"]
    ELSE IF mr_r_here(i) /\ mr_rlast_slv(i)
    THEN [Stay(i) EXCEPT !.rs = ToLocal(i, rs[i].bcnt), !.turn = TRUE]
    ELSE Stay(i)

(* Fault: the local tail is one beat, RLAST at once.                       *)
SendOneLocal(i, in) ==
    IF mr_rready(i, in) \/ rs_r_abandon(i) THEN [Stay(i) EXCEPT !.rs = NoRead]
    ELSE Hold(i, TRUE)
SendRlocal(i, in) ==
    IF mr_rready(i, in)
    THEN IF rs[i].bcnt = 1 THEN [Stay(i) EXCEPT !.rs = NoRead]
         ELSE [Hold(i, FALSE) EXCEPT !.rs.bcnt = @ - 1]
    ELSE IF rs_r_abandon(i) THEN [Stay(i) EXCEPT !.rs = NoRead]
    ELSE Hold(i, TRUE)

SlotNext(i, in) ==
    CASE rs[i].st = "RS_WAIT_SLV_AR" -> WaitSlvAr(i, in)
      [] rs[i].st = "RS_WAIT_R"      -> WaitR(i, in)
      [] rs[i].st = "RS_DRAIN_R"     -> DrainR(i)
      [] rs[i].st = "RS_SEND_RLOCAL" -> SendRlocal(i, in)
      [] OTHER                       -> Stay(i)

-----------------------------------------------------------------------------
(* AR arbitration, per slave and for local answers.                        *)
Refused(i) ==
    \/ NextAr(i).slv = "none"
    \/ NextAr(i).slv \in LiteOnly /\ NextAr(i).len # 0
    \/ NextAr(i).slv \in FlushDomain /\ slv_flush
Requests(i) == rs[i].st = "RS_IDLE" /\ mr_arvalid(i)
req_rd(s) == {i \in Slots : /\ Requests(i) /\ ~Refused(i) /\ NextAr(i).slv = s
                            /\ s = "S1" => ~s1_rst_tail_busy}
rr_pick_r(s) ==
    CHOOSE i \in req_rd(s) :
        \A j \in req_rd(s) : (i - sr[s].rr) % 4 <= (j - sr[s].rr) % 4
s3_flush_read_active == rq # {}
Grants(s) ==
    /\ req_rd(s) # {} /\ sr[s].slot < 0
    /\ s = "S3" => ~s3_flush_read_active
Granted(i) == \E s \in Slaves : Grants(s) /\ rr_pick_r(s) = i
req_rd_local(i) == Requests(i) /\ Refused(i) /\ i \notin arr
LocalWin(i) == req_rd_local(i) /\ \A j \in Slots : req_rd_local(j) => i <= j
Taken(i, st) ==
    [NoRead EXCEPT !.st = st, !.rd = <<i, mas[i].ar + 1>>, !.len = NextAr(i).len,
                   !.slv = IF st = "RS_WAIT_SLV_AR" THEN NextAr(i).slv ELSE "none",
                   !.bcnt = IF st = "RS_WAIT_SLV_AR" THEN 0 ELSE NextAr(i).len + 1]

SlotEdge(in) ==
    /\ rs' = [i \in Slots |->
                IF Granted(i) THEN Taken(i, "RS_WAIT_SLV_AR")
                ELSE IF LocalWin(i) THEN Taken(i, "RS_SEND_RLOCAL")
                ELSE SlotNext(i, in).rs]
    /\ arr' = {i \in Slots : Granted(i) \/ LocalWin(i)}
ArEdge(in) ==
    sr' = [s \in Slaves |->
      LET clears == \E i \in Slots : rs[i].slv = s /\ SlotNext(i, in).clear
          turn == {i \in Slots : rs[i].slv = s /\ SlotNext(i, in).turn}
      IN  [slot |-> IF Grants(s) THEN rr_pick_r(s)
                    ELSE IF ArFire(s, in) \/ clears THEN -1 ELSE sr[s].slot,
           rr |-> IF turn = {} THEN sr[s].rr
                  ELSE (CHOOSE i \in turn : \A j \in turn : j <= i) + 1]]
(* Fault: the first RLAST of any quarantined burst clears them all.        *)
QuarantineOnce(in) ==
    rq' = IF rq # {} /\ slv["S3"].v \in rq /\ RLast("S3") THEN {}
          ELSE rq \union {i \in Slots : SlotNext(i, in).rq}
(* A quarantined burst is retired by its own RLAST; an abort sets the bit. *)
QuarantineEdge(in) ==
    rq' = {i \in Slots :
             \/ SlotNext(i, in).rq
             \/ i \in rq /\ ~(slv["S3"].v = i /\ RLast("S3"))}
TailEdge ==
    tail' = IF slv_flush THEN TailLen ELSE IF tail > 0 THEN tail - 1 ELSE 0

-----------------------------------------------------------------------------
(* The masters.  The CPU's reset withdraws an AR that has not been granted *)
(* and takes every beat of those that have (the reset absorber in front of *)
(* the core); a host that walks away stays silent until its slot is free.  *)
One(p) == IF p THEN 1 ELSE 0
Advance(i, in) ==
    LET m == mas[i]
        beat == (mr_rvalid_slv(i) \/ mr_rvalid_loc(i)) /\ mr_rready(i, in)
        last == beat /\ IF mr_rvalid_loc(i) THEN rs[i].bcnt = 1
                        ELSE mr_rlast_slv(i)
    IN  [issued |-> m.issued + One(i \in in.issue),
         ar |-> m.ar + One(i \in arr /\ mr_arvalid(i)),
         r |-> m.r + One(last),
         got |-> IF last THEN 0 ELSE m.got + One(beat),
         gone |-> m.gone \/ i \in in.walk]
MasterEdge(in) ==
    mas' = [i \in Slots |->
      LET m == Advance(i, in)
      IN  IF mas[i].gone /\ rs[i].st = "RS_IDLE"
          THEN [m EXCEPT !.r = m.ar, !.got = 0, !.gone = FALSE]
          ELSE IF i = 0 /\ in.flush /\ 0 \notin arr'
          THEN [m EXCEPT !.issued = m.ar]
          ELSE m]

(* The slaves: bursts owed, answered one beat at a time, bursts of         *)
(* different tags in any order.                                            *)
EmptySlave == [owed |-> <<>>, v |-> -1]
Served(s, in) ==
    LET k == BurstAt(s, slv[s].v)
        q == slv[s].owed
    IN  IF ~s_rready(s, in) THEN q
        ELSE IF q[k].left = 1 THEN RemoveAt(q, k)
        ELSE [q EXCEPT ![k].left = @ - 1]
Tags(q) == {q[k].tag : k \in 1..Len(q)}
Shown(s, in) ==
    IF slv[s].v >= 0 /\ ~s_rready(s, in) THEN {slv[s].v}
    ELSE Tags(Served(s, in)) \union {-1}
Accepted(s, in) ==
    LET i == sr[s].slot
    IN  IF ArFire(s, in)
        THEN <<[rd |-> rs[i].rd, tag |-> i, left |-> rs[i].len + 1]>>
        ELSE <<>>
IslandInReset == slv_flush \/ env.far > 0
Dropped(s) == s = "S1" /\ IslandInReset
SlaveEdge(in) ==
    LET owed == [s \in Slaves |-> IF Dropped(s) THEN <<>>
                                 ELSE Served(s, in) \o Accepted(s, in)]
        busy == {s \in Slaves : Shown(s, in) # {-1} /\ ~Dropped(s)}
    IN  \E show \in [busy -> Slots \union {-1}] :
            /\ \A s \in busy : show[s] \in Shown(s, in)
            /\ slv' = [s \in Slaves |->
                         [owed |-> owed[s],
                          v |-> IF s \in busy THEN show[s] ELSE -1]]

EnvEdge(in) ==
    env' = [flush |-> in.flush,
            age |-> IF in.flush # env.flush THEN 0
                    ELSE IF env.age < ResetLen THEN env.age + 1 ELSE env.age,
            flushes |-> env.flushes - One(in.flush /\ ~env.flush),
            far |-> IF slv_flush THEN FarLen
                    ELSE IF env.far > 0 THEN env.far - 1 ELSE 0]

(* The inputs of a cycle.  A master that is still there takes its beat     *)
(* within the grace the crossbar allows.                                   *)
MayIssue ==
    {i \in Slots : /\ mas[i].issued < Len(scn.reads[i])
                   /\ mas[i].issued = mas[i].ar /\ ~mas[i].gone
                   /\ i = 0 => ~cpu_held_in_reset}
WantsR == {i \in Slots : (mr_rvalid_slv(i) \/ mr_rvalid_loc(i)) /\ ~mas[i].gone}
MayWalk ==
    {i \in Slots : i \in scn.walks /\ ~mas[i].gone /\ mas[i].r < mas[i].ar}
Edge(in) ==
    /\ SlotEdge(in) /\ ArEdge(in) /\ QuarantineEdge(in) /\ TailEdge
    /\ MasterEdge(in) /\ SlaveEdge(in) /\ EnvEdge(in)
    /\ UNCHANGED scn
Next ==
    \E is \in SUBSET MayIssue,
       rr \in {S \in SUBSET WantsR :
                 \A i \in WantsR : rs[i].hold + 1 = BHoldMax => i \in S},
       ar \in SUBSET {s \in Slaves : sr[s].slot >= 0},
       fl \in (IF env.flush /\ env.age < ResetLen THEN {} ELSE {FALSE}) \union
              (IF env.flush \/ env.flushes > 0 THEN {TRUE} ELSE {}),
       wk \in SUBSET MayWalk :
        /\ wk \intersect (is \union rr) = {}
        /\ Edge([issue |-> is, rready |-> rr, arready |-> ar, flush |-> fl,
                 walk |-> wk])

Init ==
    /\ scn \in Scenarios
    /\ env = [flush |-> FALSE, age |-> 0, flushes |-> scn.flushes, far |-> 0]
    /\ rs = [i \in Slots |-> NoRead]
    /\ arr = {}
    /\ sr = [s \in Slaves |-> [slot |-> -1, rr |-> 0]]
    /\ rq = {}
    /\ tail = 0
    /\ mas = [i \in Slots |-> [issued |-> 0, ar |-> 0, r |-> 0, got |-> 0,
                               gone |-> FALSE]]
    /\ slv = [s \in Slaves |-> EmptySlave]

Spec == Init /\ [][Next]_vars

-----------------------------------------------------------------------------
(* Every beat offered to a slot belongs to the read the slot carries, and  *)
(* the beats its master has had plus those still to come are exactly       *)
(* len + 1, whether the slave or the local tail supplies them              *)
(* (rs_release_remaining, rs_bcnt, RID routing).                           *)
ReadBeatsInStep ==
    \A i \in Slots :
        LET left == rs[i].len + 1 - mas[i].got
        IN  ~mas[i].gone =>
            /\ mr_rvalid_slv(i) => /\ Burst(rs[i].slv).rd = rs[i].rd
                                   /\ Burst(rs[i].slv).left = left
            /\ rs[i].st \in {"RS_DRAIN_R", "RS_SEND_RLOCAL"} => rs[i].bcnt = left

(* A slot that waits for its slave waits for a burst the slave owes; every *)
(* burst a slave owes has a slot or a quarantine bit to take it; and a     *)
(* quarantine bit stands for a burst still owed (s3_rq_v, RS_DRAIN_R).     *)
ReadsMatchSlaves ==
    /\ \A i \in Slots :
         LET s == rs[i].slv
         IN  rs[i].st \in {"RS_WAIT_R", "RS_DRAIN_R"} =>
             \/ \E e \in Range(slv[s].owed) : e.rd = rs[i].rd
             \/ s = "S1" /\ IslandInReset
    /\ \A s \in Slaves : \A e \in Range(slv[s].owed) :
         \/ /\ rs[e.tag].rd = e.rd
            /\ rs[e.tag].st \in {"RS_WAIT_R", "RS_DRAIN_R"}
         \/ s = "S3" /\ e.tag \in rq
         \/ s = "S1" /\ IslandInReset
    /\ \A i \in rq : \E e \in Range(slv["S3"].owed) : e.tag = i

(* A read slot goes idle only when its master has had the whole read or    *)
(* has walked away (the tails of RS_DRAIN_R and rs_release_slot).          *)
ReadWhenIdle ==
    \A i \in Slots :
        rs[i].st # "RS_IDLE" /\ rs'[i].st = "RS_IDLE" =>
            mas'[i].r >= rs[i].rd[2] \/ mas[i].gone
NoLostRead == [][ReadWhenIdle]_vars

=============================================================================
