------------------------------ MODULE BridgeInv ------------------------------
(***************************************************************************)
(* The inductive invariant of AxiBridge.  Bursts and beats are numbered in *)
(* the order the master issues them, so that "stale" is "below mst.base"   *)
(* and the order of a channel is arithmetic:                               *)
(*   Phases    the channels leave and enter the reset together;            *)
(*   Flights   the counts are the lengths of the slave's queues;           *)
(*   Restart   what a reset master starts again from;                      *)
(*   StaleW/R  stale bursts come first, and a channel that is reset has    *)
(*             forwarded nothing new before the snapshot is taken;         *)
(*   AwOrder, WOrder  what is queued is consecutive;                       *)
(*   Flow      so is what this life has at the slave, owed in full but for *)
(*             the burst being fed;                                        *)
(*   Pairs     the next beat belongs to the burst being fed.               *)
(***************************************************************************)
EXTENDS Integers, AxiBridge, BridgeParts

\* What the debt of the read sink is worth, as SinkInv for the write sink.
ReadSinkInv == SinkAt(r_outstanding, r_debt, r_old, r_fresh)

\* Every channel is held by the reset on the memory side.
AllEngaged == \A f \in Chan : MEngaged(f)

\* The next m_clk edge takes the snapshot of the reset the master has left.
Armed == ~sRst /\ pend /\ AllEngaged

\* A read at the slave: its number and the beats still to come.
Bursts == [id : Nat, left : Nat \ {0}]

\* The types.
TypeOK ==
  /\ scn \in Scenarios /\ ph \in [Chan -> {"run", "near", "frozen", "thaw"}]
  /\ DOMAIN q = Chan
  /\ q["aw"] \in Seq(Nat) /\ q["w"] \in Seq(WBeats) /\ q["b"] \in Seq(Nat)
  /\ q["ar"] \in Seq(Nat) /\ q["r"] \in Seq(Nat)
  /\ sRst \in BOOLEAN /\ pend \in BOOLEAN /\ src_toggle \in {0, 1} /\ dst_sync \in {0, 1}
  /\ stage \in Nat \cup {None} /\ writes \in Seq(Nat) /\ reads \in Seq(Bursts)
  /\ mst \in [aw : Nat, w : Nat, sent : Nat, ar : Nat, base : Nat, resets : Nat]

\* A transaction of a channel has been issued.
Issued ==
  /\ \A i \in 1 .. Len(q["aw"]) : q["aw"][i] \in 1 .. Len(scn.beats) /\ q["aw"][i] < mst.aw
  /\ \A i \in 1 .. Len(writes) : writes[i] \in 1 .. Len(scn.beats) /\ writes[i] < mst.aw
  /\ stage # None => stage \in 1 .. Len(scn.beats) /\ stage < mst.aw
  /\ \A i \in 1 .. Len(q["ar"]) : q["ar"][i] \in 1 .. Len(scn.reads) /\ q["ar"][i] < mst.ar
  /\ \A i \in 1 .. Len(reads) : reads[i].id < mst.ar

\* The channels leave and enter the reset together.
Phases ==
  /\ sRst => \A f \in Chan : ph[f] \in {"near", "frozen"}
  /\ ~sRst => \A f \in Chan : ph[f] # "near"
  /\ ~sRst /\ Crossing => \A f \in Chan : ph[f] = "run"
  /\ \A f \in Chan : ph[f] = "frozen" => q[f] = <<>>
  /\ \A f \in {"b", "r"} : ph[f] = "thaw" => q[f] = <<>>

\* The counts of the trackers are the lengths of the slave's queues.
Flights == /\ old + fresh = Len(writes) /\ r_old + r_fresh = Len(reads)
           /\ Len(owed) <= Len(writes)
           /\ left = 0 => Len(owed) <= fresh
           /\ left > 0 => left + fresh = Len(owed)

\* What the master has queued on a channel.
Queued(f) == QueuedAs(ph[f], q[f], mst.base)

\* What the slave has answered on a channel.
Answers(f) == AnswersAs(ph[f], q[f], mst.base)

\* Nothing new is in flight before the snapshot of the reset is taken.
Snapshot(f, n) ==
  /\ ~sRst /\ MEngaged(f) => n = 0 \/ (pend /\ AllEngaged)
  /\ sRst /\ ~Crossing => pend \/ (AllEngaged /\ n = 0)

\* The stale bursts of a channel at the slave.
Stale(f, ids, o) == StaleAs(ph[f], ids, mst.base, o)

\* The numbers of the reads at the slave.
RIds == [i \in 1 .. Len(reads) |-> reads[i].id]

\* The write side: requests, answers, snapshot and bursts at the slave.
StaleW ==
  /\ Queued("aw") /\ Answers("b") /\ Snapshot("aw", fresh) /\ Stale("aw", writes, old)
  /\ ph["aw"] = "run" /\ stage # None => stage >= mst.base
  /\ ph["aw"] = "near" /\ stage # None => stage < mst.base

\* The read side.
StaleR == Queued("ar") /\ Answers("r") /\ Snapshot("ar", r_fresh) /\ Stale("ar", RIds, r_old)

\* The oldest burst queued, or the next one the master issues.
AwHead == IF q["aw"] # <<>> THEN q["aw"][1] ELSE mst.aw

\* The next burst to be forwarded will still be.
Alive == ~sRst \/ (ph["aw"] = "near" /\ (stage # None \/ q["aw"] # <<>>))

\* That burst.
NextAw == IF stage # None /\ ~MEngaged("aw") THEN stage ELSE AwHead

\* The burst of the next beat.
NextW == IF q["w"] # <<>> THEN q["w"][1].id ELSE mst.w

\* The number of the next beat in it.
NextNo == IF q["w"] # <<>> THEN q["w"][1].no ELSE mst.sent + 1

\* The youngest burst at the slave.
Last == writes[Len(writes)]

\* The bursts of this life the slave is not done being fed.
Unfed == Len(owed) - left

\* The master counts on from the base of its life.
Restart == /\ 1 <= mst.base /\ mst.base <= mst.aw /\ mst.base <= mst.w /\ mst.base <= mst.ar
           /\ sRst => /\ mst.aw = mst.base /\ mst.w = mst.base /\ mst.ar = mst.base
                      /\ mst.sent = 0

\* The queued bursts are consecutive.
AwOrder ==
  /\ \A i \in 1 .. Len(q["aw"]) : q["aw"][i] = AwHead + i - 1
  /\ ~sRst => AwHead + Len(q["aw"]) = mst.aw
  /\ stage # None /\ ~MEngaged("aw") /\ (sRst => q["aw"] # <<>>) => AwHead = stage + 1

\* The queued beats are consecutive.
WOrder ==
  /\ \A i \in 1 .. Len(q["w"]) : /\ q["w"][i].id \in 1 .. Len(scn.beats)
                                 /\ q["w"][i].no \in 1 .. scn.beats[q["w"][i].id]
                                 /\ q["w"][i].last <=> q["w"][i].no = scn.beats[q["w"][i].id]
  /\ \A i \in 1 .. Len(q["w"]) - 1 : Follows(q["w"][i], q["w"][i + 1].id, q["w"][i + 1].no)
  /\ ~sRst /\ q["w"] # <<>> => Follows(q["w"][Len(q["w"])], mst.w, mst.sent + 1)
  /\ mst.sent > 0 => mst.w \in 1 .. Len(scn.beats) /\ mst.sent < scn.beats[mst.w]

\* The bursts of this life at the slave are consecutive and owed in full.
Flow ==
  /\ \A j \in 0 .. fresh - 1 : writes[Len(writes) - j] = Last - j
  /\ \A k \in left + 2 .. Len(owed) : owed[k] = scn.beats[Last - (Len(owed) - k)]
  /\ ~Armed /\ Alive /\ fresh > 0 => NextAw = Last + 1

\* The next beat belongs to the burst the slave is being fed.
Pairs ==
  /\ Armed => NextW = NextAw /\ NextNo = 1
  /\ ~Armed /\ (sRst => ph["w"] = "near" /\ q["w"] # <<>>) =>
       /\ Unfed = 0 /\ Alive => NextW = NextAw /\ NextNo = 1
       /\ Unfed > 0 => /\ NextW = Last + 1 - Unfed
                       /\ owed[left + 1] = scn.beats[NextW] - NextNo + 1

\* The inductive invariant.
Inv == /\ TypeOK /\ PadInv /\ SinkInv /\ ReadSinkInv
       /\ Issued /\ Phases /\ Flights /\ Restart /\ StaleW /\ StaleR
       /\ AwOrder /\ WOrder /\ Flow /\ Pairs
=============================================================================
