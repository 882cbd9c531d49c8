-------------------------- MODULE BridgeEdgeProofs --------------------------
(***************************************************************************)
(* An edge of the memory clock: what it moves (Cycle), what that does to   *)
(* each piece of the state (After), and that every conjunct of Inv but the *)
(* flow of writes and the pairing survives it.                             *)
(***************************************************************************)
EXTENDS BridgeInv

\* A leaf is Zenon's unless it names the SMT solver.
USE ZenonT(30)

\* The queued bursts are consecutive, behind the one staged.
AwOrderAs(s, aw, rst, st, eng) ==
  /\ \A i \in 1 .. Len(s) : s[i] = HeadOr(s, aw) + i - 1
  /\ ~rst => HeadOr(s, aw) + Len(s) = aw
  /\ st # None /\ ~eng /\ (rst => s # <<>>) => HeadOr(s, aw) = st + 1

\* An edge of the write address channel.
AwStep(s, t, pop, fwd, aw, rst, st, st2, eng) ==
  /\ s \in Seq(Nat) /\ t \in Seq(Nat) /\ aw \in Nat
  /\ pop => s # <<>> /\ ~eng
  /\ Shift(s, t, pop, FALSE, None)
  /\ st2 = IF eng THEN None ELSE IF pop THEN s[1] ELSE IF fwd THEN None ELSE st
  /\ AwOrderAs(s, aw, rst, st, eng)

\* They stay consecutive over such an edge.
LEMMA AwOrderMoves ==
  ASSUME NEW s, NEW t, NEW pop, NEW fwd, NEW aw, NEW rst, NEW st, NEW st2, NEW eng, NEW eng2,
         AwStep(s, t, pop, fwd, aw, rst, st, st2, eng)
  PROVE  AwOrderAs(t, aw, rst, st2, eng2)
  <1>0. /\ s \in Seq(Nat) /\ t \in Seq(Nat) /\ aw \in Nat
        /\ pop => s # <<>> /\ ~eng
        /\ Shift(s, t, pop, FALSE, None)
        /\ st2 = IF eng THEN None ELSE IF pop THEN s[1] ELSE IF fwd THEN None ELSE st
        /\ AwOrderAs(s, aw, rst, st, eng)
    BY DEF AwStep
  <1>1. CASE pop
    <2>1. /\ Len(t) = Len(s) - 1 /\ Len(s) \in Nat /\ Len(s) > 0 /\ Len(t) \in Nat
          /\ \A i \in 1 .. Len(t) : t[i] = s[i + 1]
      BY <1>0, <1>1, SMTT(60) DEF Shift, One
    <2>2. HeadOr(s, aw) = s[1] /\ s[1] \in Nat /\ ~eng /\ st2 = s[1]
      BY <1>0, <1>1, <2>1, SMTT(60) DEF HeadOr
    <2>3. /\ \A i \in 1 .. Len(s) : s[i] = s[1] + i - 1
          /\ ~rst => s[1] + Len(s) = aw
      BY <1>0, <2>2 DEF AwOrderAs
    <2>4. t # <<>> => HeadOr(t, aw) = s[1] + 1
      <3>1. t # <<>> => Len(t) > 0
        BY <1>0, <2>1, SMTT(60)
      <3>2. t # <<>> => 1 \in 1 .. Len(t) /\ 2 \in 1 .. Len(s) /\ t[1] = s[2]
        BY <1>0, <2>1, <3>1, SMTT(60)
      <3>3. 2 \in 1 .. Len(s) => s[2] = s[1] + 2 - 1
        BY <2>3
      <3>4. t # <<>> => t[1] = s[1] + 1
        BY <2>2, <3>2, <3>3, SMTT(60)
      <3> QED BY <3>4 DEF HeadOr
    <2>5. t = <<>> => HeadOr(t, aw) = aw /\ Len(t) = 0 /\ Len(s) = 1
      BY <1>0, <2>1, SMTT(60) DEF HeadOr
    <2>6. \A i \in 1 .. Len(t) : t[i] = HeadOr(t, aw) + i - 1
      <3>1. \A i \in 1 .. Len(t) : t[i] = (s[1] + 1) + i - 1
        BY <2>1, <2>2, <2>3, SMTT(60)
      <3> QED BY <2>1, <2>2, <2>4, <2>5, <3>1, SMTT(60)
    <2>7. ~rst => HeadOr(t, aw) + Len(t) = aw
      BY <1>0, <2>1, <2>2, <2>3, <2>4, <2>5, SMTT(60)
    <2>8. (rst => t # <<>>) => HeadOr(t, aw) = st2 + 1
      BY <1>0, <2>1, <2>2, <2>3, <2>4, <2>5, SMTT(60)
    <2> QED BY <2>6, <2>7, <2>8 DEF AwOrderAs
  <1>2. CASE ~pop
    <2>1. Len(t) = Len(s) /\ \A i \in 1 .. Len(t) : t[i] = s[i]
      BY <1>0, <1>2, SMTT(60) DEF Shift, One
    <2>2. t = s
      BY <1>0, <2>1, SMTT(60)
    <2>3. st2 # None => st2 = st /\ ~eng
      BY <1>0, <1>2
    <2> QED BY <1>0, <2>2, <2>3 DEF AwOrderAs
  <1> QED BY <1>1, <1>2

\* The queued beats stay consecutive as their head is taken.
LEMMA WOrderMoves ==
  ASSUME NEW s \in Seq(WBeats), NEW t \in Seq(WBeats), NEW take \in BOOLEAN, take => s # <<>>,
         NEW B, NEW rst, NEW w, NEW no, Shift(s, t, take, FALSE, None),
         WOrderAs(s, B, rst, w, no)
  PROVE  WOrderAs(t, B, rst, w, no)
  <1>1. CASE take
    <2>1. /\ Len(t) = Len(s) - 1 /\ Len(s) \in Nat /\ Len(s) > 0 /\ Len(t) \in Nat
          /\ \A i \in 1 .. Len(t) : t[i] = s[i + 1] /\ i + 1 \in 1 .. Len(s)
      BY <1>1, SMTT(60) DEF Shift, One
    <2>2. /\ \A i \in 1 .. Len(s) : /\ s[i].id \in 1 .. Len(B)
                                    /\ s[i].no \in 1 .. B[s[i].id]
                                    /\ s[i].last <=> s[i].no = B[s[i].id]
          /\ \A i \in 1 .. Len(s) - 1 : Follows(s[i], s[i + 1].id, s[i + 1].no)
          /\ ~rst /\ s # <<>> => Follows(s[Len(s)], w, no)
      BY DEF WOrderAs
    <2>3. \A i \in 1 .. Len(t) : /\ t[i].id \in 1 .. Len(B)
                                 /\ t[i].no \in 1 .. B[t[i].id]
                                 /\ t[i].last <=> t[i].no = B[t[i].id]
      BY <2>1, <2>2
    <2>4. \A i \in 1 .. Len(t) - 1 : /\ t[i] = s[i + 1] /\ t[i + 1] = s[i + 1 + 1]
                                     /\ i + 1 \in 1 .. Len(s) - 1
      BY <2>1, SMTT(60)
    <2>5. \A i \in 1 .. Len(t) - 1 : Follows(t[i], t[i + 1].id, t[i + 1].no)
      BY <2>2, <2>4
    <2>6. t # <<>> => t[Len(t)] = s[Len(s)]
      BY <2>1, SMTT(60)
    <2> QED BY <1>1, <2>2, <2>3, <2>5, <2>6 DEF WOrderAs
  <1>2. CASE ~take
    <2>1. Len(t) = Len(s) /\ \A i \in 1 .. Len(t) : t[i] = s[i]
      BY <1>2, SMTT(60) DEF Shift, One
    <2>2. t = s
      BY <2>1, SMTT(60)
    <2> QED BY <2>2
  <1> QED BY <1>1, <1>2

done(r) == r /\ Head(reads).left = 1

burst_len(fwd) == IF fwd THEN scn.beats[stage] ELSE 1

\* What an edge may move, by the conditions of the channels.
Handshakes(fwd, pop, w, b, ar, r) ==
  /\ fwd => stage # None /\ ~aw_block /\ ~MEngaged("aw") /\ Len(writes) < SlaveCap
  /\ pop => q["aw"] # <<>> /\ ~MEngaged("aw") /\ (stage = None \/ fwd)
  /\ w => m_wvalid /\ owed # <<>>
  /\ b => Len(writes) > Len(owed) /\ (sinking \/ ~b_full)
  /\ ar => q["ar"] # <<>> /\ ~MEngaged("ar") /\ Len(reads) < SlaveCap
  /\ r => reads # <<>> /\ (RSink!sinking \/ ~r_full)

\* What it does to the trackers.
Counts(fwd, w, b, ar, r) ==
  LET ev == s_reset_recovery_event_m
  IN /\ PadEdge(ev, fwd, burst_len(fwd), w) /\ OwedEdge(ev, fwd, burst_len(fwd), w)
     /\ SinkEdge(ev, fwd, b) /\ FlightEdge(ev, fwd, b)
     /\ RSink!SinkEdge(ev, ar, done(r)) /\ RSink!FlightEdge(ev, ar, done(r))

\* What it does to the phases and to the recovery event.
PhaseEdge(moving, arrives) ==
  /\ moving \subseteq {f \in Chan : ph[f] \in {"near", "thaw"}}
  /\ arrives => Crossing
  /\ ph' = [f \in Chan |-> IF f \notin moving THEN ph[f]
                           ELSE IF ph[f] = "near" THEN "frozen" ELSE "run"]
  /\ pend' = IF arrives THEN TRUE ELSE IF s_reset_recovery_event_m THEN FALSE ELSE pend
  /\ dst_sync' = IF arrives THEN src_toggle ELSE dst_sync
  /\ UNCHANGED <<scn, sRst, src_toggle, mst>>

freezing_now(moving) == {f \in moving : ph[f] = "near"}

\* One edge of the memory clock.
Cycle(fwd, pop, w, b, ar, r, moving, arrives) ==
  /\ Handshakes(fwd, pop, w, b, ar, r)
  /\ Counts(fwd, w, b, ar, r)
  /\ StageEdge(pop, fwd)
  /\ SlaveEdge(fwd, b, ar, r)
  /\ QueueEdge(pop, w, b, ar, r, freezing_now(moving))
  /\ PhaseEdge(moving, arrives)

\* Every edge of the memory clock is such a cycle.
LEMMA TickCycle ==
  ASSUME MTick
  PROVE  \E fwd, pop, w, b, ar, r, arrives \in BOOLEAN :
           \E moving : Cycle(fwd, pop, w, b, ar, r, moving, arrives)
  <1>1. PICK go \in SUBSET Offers, lanes \in SUBSET Moving :
               \E arrives \in {FALSE, Crossing} : MEdge(go, UNION lanes, arrives)
    BY DEF MTick
  <1>2. PICK arrives \in {FALSE, Crossing} : MEdge(go, UNION lanes, arrives)
    BY <1>1
  <1> DEFINE fwd == "aw" \in go
             pop == "pop" \in go /\ (stage = None \/ fwd)
             w == "w" \in go
             b == "b" \in go
             ar == "ar" \in go
             r == "r" \in go
             moving == UNION lanes
  <1>3. Handshakes(fwd, pop, w, b, ar, r)
    <2>1. fwd => m_awvalid_i /\ Len(writes) < SlaveCap
      BY DEF Offers
    <2>2. "pop" \in go => q["aw"] # <<>> /\ ~MEngaged("aw")
      BY DEF Offers
    <2>3. w => m_wvalid /\ owed # <<>>
      BY DEF Offers
    <2>4. b => m_bvalid /\ (sinking \/ ~b_full)
      BY DEF Offers
    <2>5. ar => q["ar"] # <<>> /\ ~MEngaged("ar") /\ Len(reads) < SlaveCap
      BY DEF Offers
    <2>6. r => m_rvalid /\ (RSink!sinking \/ ~r_full)
      BY DEF Offers
    <2> QED BY <2>1, <2>2, <2>3, <2>4, <2>5, <2>6
            DEF Handshakes, m_awvalid_i, m_bvalid, m_rvalid
  <1>4. arrives \in BOOLEAN /\ (arrives => Crossing)
    BY DEF Crossing
  <1>5. moving \subseteq {f \in Chan : ph[f] \in {"near", "thaw"}}
    <2>1. \A lane \in Lanes : lane \subseteq Chan
      BY DEF Lanes, Chan
    <2>2. ASSUME NEW f \in moving PROVE f \in Chan /\ ph[f] \in {"near", "thaw"}
      <3>1. PICK lane \in lanes : f \in lane
        OBVIOUS
      <3>2. lane \in Lanes /\ \A g \in lane : ph[g] \in {"near", "thaw"}
        BY DEF Moving
      <3> QED BY <2>1, <3>1, <3>2
    <2> QED BY <2>2
  <1>6. Counts(fwd, w, b, ar, r)
    BY <1>2 DEF MEdge, Counts, burst_len, done
  <1>7. /\ StageEdge(pop, fwd) /\ SlaveEdge(fwd, b, ar, r)
        /\ QueueEdge(pop, w, b, ar, r, freezing_now(moving))
    BY <1>2 DEF MEdge, freezing_now
  <1>8. PhaseEdge(moving, arrives)
    BY <1>2, <1>4, <1>5 DEF MEdge, PhaseEdge
  <1>9. Cycle(fwd, pop, w, b, ar, r, moving, arrives)
    BY <1>3, <1>6, <1>7, <1>8 DEF Cycle
  <1>10. /\ fwd \in BOOLEAN /\ pop \in BOOLEAN /\ w \in BOOLEAN /\ b \in BOOLEAN
         /\ ar \in BOOLEAN /\ r \in BOOLEAN
    BY SMTT(60)
  <1> HIDE DEF fwd, pop, w, b, ar, r, moving
  <1>11. \E a \in BOOLEAN : \E m : Cycle(fwd, pop, w, b, ar, r, m, a)
    BY <1>4, <1>9
  <1>12. \E r2, a \in BOOLEAN : \E m : Cycle(fwd, pop, w, b, ar, r2, m, a)
    BY <1>10, <1>11
  <1>13. \E ar2, r2, a \in BOOLEAN : \E m : Cycle(fwd, pop, w, b, ar2, r2, m, a)
    BY <1>10, <1>12
  <1>14. \E b2, ar2, r2, a \in BOOLEAN : \E m : Cycle(fwd, pop, w, b2, ar2, r2, m, a)
    BY <1>10, <1>13
  <1>15. \E w2, b2, ar2, r2, a \in BOOLEAN : \E m : Cycle(fwd, pop, w2, b2, ar2, r2, m, a)
    BY <1>10, <1>14
  <1>16. \E p2, w2, b2, ar2, r2, a \in BOOLEAN : \E m : Cycle(fwd, p2, w2, b2, ar2, r2, m, a)
    BY <1>10, <1>15
  <1> QED BY <1>10, <1>16

\* The phases after an edge.
LEMMA PhasesAfter ==
  ASSUME TypeOK, NEW moving, NEW arrives \in BOOLEAN, PhaseEdge(moving, arrives)
  PROVE  /\ ph' \in [Chan -> Phase] /\ ph \in [Chan -> Phase]
         /\ \A f \in Chan : Moved(ph[f], ph'[f])
         /\ \A f \in Chan : f \in freezing_now(moving) <=> ph[f] = "near" /\ ph'[f] = "frozen"
         /\ scn' = scn /\ sRst' = sRst /\ src_toggle' = src_toggle /\ mst' = mst
  <1>1. ph \in [Chan -> Phase]
    BY DEF TypeOK, Phase
  <1>2. /\ moving \subseteq {f \in Chan : ph[f] \in {"near", "thaw"}}
        /\ ph' = [f \in Chan |-> IF f \notin moving THEN ph[f]
                                 ELSE IF ph[f] = "near" THEN "frozen" ELSE "run"]
        /\ scn' = scn /\ sRst' = sRst /\ src_toggle' = src_toggle /\ mst' = mst
    BY DEF PhaseEdge
  <1>3. ASSUME NEW f \in Chan
        PROVE  /\ Moved(ph[f], ph'[f])
               /\ f \in freezing_now(moving) <=> ph[f] = "near" /\ ph'[f] = "frozen"
    <2>1. ph'[f] = IF f \notin moving THEN ph[f] ELSE IF ph[f] = "near" THEN "frozen" ELSE "run"
      BY <1>2
    <2>2. f \in moving => ph[f] = "near" \/ ph[f] = "thaw"
      BY <1>2
    <2> QED BY <2>1, <2>2 DEF Moved, freezing_now
  <1>4. \A f \in Chan : (IF f \notin moving THEN ph[f]
                         ELSE IF ph[f] = "near" THEN "frozen" ELSE "run") \in Phase
    BY <1>1 DEF Phase
  <1>5. ph' \in [Chan -> Phase]
    BY <1>2, <1>4
  <1> QED BY <1>1, <1>2, <1>3, <1>5

\* The queues after an edge, channel by channel.
QueuesMove(pop, w, b, ar, r, freezing) ==
  /\ DOMAIN q' = Chan
  /\ \A f \in Chan : f \in freezing => q'[f] = <<>>
  /\ "aw" \notin freezing => q'["aw"] = IF pop THEN Tail(q["aw"]) ELSE q["aw"]
  /\ "w" \notin freezing => q'["w"] = IF w /\ ~pad_active THEN Tail(q["w"]) ELSE q["w"]
  /\ "b" \notin freezing =>
       q'["b"] = IF b /\ ~sinking THEN Append(q["b"], Head(writes)) ELSE q["b"]
  /\ "ar" \notin freezing => q'["ar"] = IF ar THEN Tail(q["ar"]) ELSE q["ar"]
  /\ "r" \notin freezing =>
       q'["r"] = IF r /\ ~RSink!sinking THEN Append(q["r"], Head(reads).id) ELSE q["r"]

\* QueueEdge moves them so.
LEMMA QueueAfter ==
  ASSUME TypeOK, NEW pop \in BOOLEAN, NEW w \in BOOLEAN, NEW b \in BOOLEAN,
         NEW ar \in BOOLEAN, NEW r \in BOOLEAN, NEW moving,
         QueueEdge(pop, w, b, ar, r, freezing_now(moving))
  PROVE  QueuesMove(pop, w, b, ar, r, freezing_now(moving))
  <1> DEFINE moved == [q EXCEPT !["aw"] = IF pop THEN Tail(@) ELSE @,
                         !["w"] = IF w /\ ~pad_active THEN Tail(@) ELSE @,
                         !["b"] = IF b /\ ~sinking THEN Append(@, Head(writes)) ELSE @,
                         !["ar"] = IF ar THEN Tail(@) ELSE @,
                         !["r"] = IF r /\ ~RSink!sinking
                                  THEN Append(@, Head(reads).id) ELSE @]
  <1>1. q' = [f \in Chan |-> IF f \in freezing_now(moving) THEN <<>> ELSE moved[f]]
    BY DEF QueueEdge
  <1>2. DOMAIN q = Chan
    BY DEF TypeOK
  <1>3. /\ moved["aw"] = IF pop THEN Tail(q["aw"]) ELSE q["aw"]
        /\ moved["w"] = IF w /\ ~pad_active THEN Tail(q["w"]) ELSE q["w"]
        /\ moved["b"] = IF b /\ ~sinking THEN Append(q["b"], Head(writes)) ELSE q["b"]
        /\ moved["ar"] = IF ar THEN Tail(q["ar"]) ELSE q["ar"]
        /\ moved["r"] = IF r /\ ~RSink!sinking THEN Append(q["r"], Head(reads).id) ELSE q["r"]
    BY <1>2, SMTT(60) DEF Chan
  <1> HIDE DEF moved
  <1>4. DOMAIN q' = Chan /\ \A f \in Chan : q'[f] = IF f \in freezing_now(moving) THEN <<>> ELSE moved[f]
    BY <1>1
  <1>5. "aw" \in Chan /\ "w" \in Chan /\ "b" \in Chan /\ "ar" \in Chan /\ "r" \in Chan
    BY DEF Chan
  <1> QED BY <1>3, <1>4, <1>5 DEF QueuesMove

\* The writes at the slave: one may be answered, one forwarded.
LEMMA WritesAfter ==
  ASSUME TypeOK, Issued, NEW fwd \in BOOLEAN, NEW pop \in BOOLEAN, NEW w \in BOOLEAN,
         NEW b \in BOOLEAN, NEW ar \in BOOLEAN, NEW r \in BOOLEAN,
         Handshakes(fwd, pop, w, b, ar, r), SlaveEdge(fwd, b, ar, r)
  PROVE  /\ writes' \in Seq(Nat) /\ Shift(writes, writes', b, fwd, stage)
         /\ b => writes # <<>>
         /\ fwd => stage \in Nat
  <1>1. writes \in Seq(Nat) /\ (stage \in Nat \cup {None})
    BY DEF TypeOK
  <1>2. fwd => stage \in Nat
    BY <1>1 DEF Handshakes
  <1>3. b => writes # <<>>
    <2> SUFFICES ASSUME b PROVE writes # <<>>
      OBVIOUS
    <2>1. Len(writes) > Len(owed)
      BY DEF Handshakes
    <2> QED BY <1>1, <2>1, SMTT(60)
  <1>4. writes' = Shifted(writes, b, fwd, stage)
    BY DEF SlaveEdge, Shifted, Rest
  <1>5. writes' \in Seq(Nat) /\ Shift(writes, writes', b, fwd, stage)
    BY <1>1, <1>2, <1>3, <1>4, ShiftSeq
  <1> QED BY <1>2, <1>3, <1>5

\* The numbers of the reads at the slave.
LEMMA ReadIds ==
  ASSUME TypeOK
  PROVE  /\ RIds \in Seq(Nat) /\ Len(RIds) = Len(reads) /\ Len(reads) \in Nat
         /\ \A i \in 1 .. Len(reads) : RIds[i] = reads[i].id
         /\ reads # <<>> => RIds # <<>>
  <1>1. reads \in Seq(Bursts)
    BY DEF TypeOK
  <1>2. Len(reads) \in Nat /\ \A i \in 1 .. Len(reads) : reads[i] \in Bursts
    BY <1>1, Lengths
  <1>3. \A i \in 1 .. Len(reads) : reads[i].id \in Nat
    BY <1>2 DEF Bursts
  <1>4. RIds \in Seq(Nat) /\ Len(RIds) = Len(reads)
    BY <1>2, <1>3, SMTT(60) DEF RIds
  <1>5. \A i \in 1 .. Len(reads) : RIds[i] = reads[i].id
    BY DEF RIds
  <1>6. reads # <<>> => RIds # <<>>
    BY <1>1, <1>4, Lengths
  <1> QED BY <1>2, <1>4, <1>5, <1>6

\* A read ends with its last beat.
LEMMA DoneFacts ==
  ASSUME NEW r \in BOOLEAN, r => reads # <<>>
  PROVE  done(r) \in BOOLEAN /\ (done(r) => reads # <<>>)
  BY SMTT(60) DEF done

\* The reads at the slave: the oldest may end, one may be forwarded.
LEMMA ReadsAfter ==
  ASSUME TypeOK, Issued, NEW fwd \in BOOLEAN, NEW pop \in BOOLEAN, NEW w \in BOOLEAN,
         NEW b \in BOOLEAN, NEW ar \in BOOLEAN, NEW r \in BOOLEAN,
         Handshakes(fwd, pop, w, b, ar, r), SlaveEdge(fwd, b, ar, r)
  PROVE  /\ reads' \in Seq(Bursts) /\ done(r) \in BOOLEAN
         /\ Shift(RIds, RIds', done(r), ar, q["ar"][1])
         /\ done(r) => reads # <<>>
         /\ ar => q["ar"][1] \in Nat /\ q["ar"][1] < mst.ar
  <1> DEFINE d == done(r)
             e == [id |-> Head(q["ar"]), left |-> scn.reads[Head(q["ar"])]]
             fed == IF ~r THEN reads
                    ELSE IF Head(reads).left = 1 THEN Tail(reads)
                    ELSE [reads EXCEPT ![1].left = @ - 1]
  <1>0. d \in BOOLEAN
    BY SMTT(60) DEF done
  <1>1. reads \in Seq(Bursts) /\ (r => reads # <<>>) /\ (d => reads # <<>>)
    BY DEF TypeOK, Handshakes, done
  <1>2. reads' = IF ar THEN Append(fed, e) ELSE fed
    BY DEF SlaveEdge
  <1>3. ar => /\ e \in Bursts /\ e.id = q["ar"][1] /\ q["ar"][1] \in Nat
              /\ q["ar"][1] < mst.ar
    <2> SUFFICES ASSUME ar
                 PROVE  /\ e \in Bursts /\ e.id = q["ar"][1] /\ q["ar"][1] \in Nat
                        /\ q["ar"][1] < mst.ar
      OBVIOUS
    <2>1. q["ar"] \in Seq(Nat) /\ q["ar"] # <<>> /\ scn \in Scenarios
      BY DEF TypeOK, Handshakes
    <2>2. Head(q["ar"]) = q["ar"][1] /\ 1 \in 1 .. Len(q["ar"]) /\ q["ar"][1] \in Nat
      BY <2>1, SMTT(60)
    <2>3. q["ar"][1] \in 1 .. Len(scn.reads) /\ q["ar"][1] < mst.ar
      BY <2>2 DEF Issued
    <2>4. scn.reads \in Seq(Nat \ {0})
      BY <2>1, BridgeAssumption
    <2>5. scn.reads[q["ar"][1]] \in Nat \ {0}
      BY <2>3, <2>4, Lengths
    <2> QED BY <2>2, <2>3, <2>5 DEF Bursts
  <1>4. /\ fed \in Seq(Bursts) /\ Len(fed) = Len(reads) - One(d)
        /\ \A i \in 1 .. Len(fed) : fed[i].id = reads[i + One(d)].id
    <2>1. CASE d
      <3>1. fed = Tail(reads) /\ One(d) = 1 /\ reads # <<>>
        BY <1>1, <2>1 DEF done, One
      <3> HIDE DEF fed, d
      <3>2. /\ fed \in Seq(Bursts) /\ Len(fed) = Len(reads) - 1
            /\ \A i \in 1 .. Len(fed) : fed[i] = reads[i + 1]
        BY <1>1, <3>1, SMTT(60)
      <3> QED BY <3>1, <3>2
    <2>2. CASE r /\ ~d
      <3>1. fed = [reads EXCEPT ![1].left = reads[1].left - 1] /\ One(d) = 0 /\ reads # <<>>
            /\ Head(reads).left # 1
        BY <1>1, <2>2 DEF done, One
      <3>2. 1 \in 1 .. Len(reads) /\ Head(reads) = reads[1] /\ reads[1] \in Bursts
        BY <1>1, <3>1, SMTT(60)
      <3>3. reads[1].left \in Nat \ {0} /\ reads[1].id \in Nat /\ reads[1].left # 1
        BY <3>1, <3>2 DEF Bursts
      <3>4. reads[1].left - 1 \in Nat \ {0}
        BY <3>3, SMTT(60)
      <3> DEFINE x == [reads[1] EXCEPT !.left = reads[1].left - 1]
      <3>5. x \in Bursts /\ x.id = reads[1].id
        BY <3>2, <3>4 DEF Bursts
      <3>6. fed = [reads EXCEPT ![1] = x]
        BY <3>1
      <3> HIDE DEF x, fed, d
      <3>7. /\ fed \in Seq(Bursts) /\ Len(fed) = Len(reads)
            /\ \A i \in 1 .. Len(fed) : fed[i] = IF i = 1 THEN x ELSE reads[i]
        BY <1>1, <3>2, <3>5, <3>6, SMTT(60)
      <3>8. Len(reads) \in Nat /\ Len(reads) - 0 = Len(reads)
            /\ \A i \in 1 .. Len(fed) : i + 0 = i
        BY <1>1, <3>7, SMTT(60)
      <3> QED BY <3>1, <3>5, <3>7, <3>8
    <2>3. CASE ~r
      <3>1. fed = reads /\ One(d) = 0
        BY <2>3 DEF done, One
      <3>2. Len(reads) \in Nat /\ Len(reads) - 0 = Len(reads)
            /\ \A i \in 1 .. Len(reads) : i + 0 = i
        BY <1>1, SMTT(60)
      <3> HIDE DEF fed, d
      <3> QED BY <1>1, <3>1, <3>2
    <2> QED BY <2>1, <2>2, <2>3
  <1> HIDE DEF d, e, fed
  <1>5. /\ reads' \in Seq(Bursts) /\ Len(reads') = Len(reads) - One(d) + One(ar)
        /\ \A i \in 1 .. Len(reads') :
             reads'[i].id = IF i <= Len(reads) - One(d) THEN reads[i + One(d)].id ELSE q["ar"][1]
    <2>1. CASE ar
      <3>1. /\ reads' \in Seq(Bursts) /\ Len(reads') = Len(fed) + 1
            /\ \A i \in 1 .. Len(reads') : reads'[i] = IF i <= Len(fed) THEN fed[i] ELSE e
        BY <1>2, <1>3, <1>4, <2>1, SMTT(60)
      <3>2. One(ar) = 1 /\ \A i \in 1 .. Len(reads') : i <= Len(fed) => i \in 1 .. Len(fed)
        BY <1>4, <2>1, <3>1, SMTT(60) DEF One
      <3> QED BY <1>3, <1>4, <2>1, <3>1, <3>2
    <2>2. CASE ~ar
      <3>1. reads' = fed /\ One(ar) = 0
        BY <1>2, <2>2 DEF One
      <3>2. Len(fed) \in Nat /\ Len(fed) + 0 = Len(fed)
            /\ \A i \in 1 .. Len(fed) : i <= Len(fed)
        BY <1>4, SMTT(60)
      <3> QED BY <1>4, <3>1, <3>2
    <2> QED BY <2>1, <2>2
  <1>6. /\ RIds \in Seq(Nat) /\ Len(RIds) = Len(reads) /\ Len(reads) \in Nat
        /\ \A i \in 1 .. Len(reads) : RIds[i] = reads[i].id
    BY ReadIds
  <1>7. Len(reads') \in Nat /\ Len(RIds') = Len(reads')
        /\ \A i \in 1 .. Len(reads') : RIds'[i] = reads'[i].id
    <2>1. Len(reads') \in Nat
      BY <1>5, Lengths
    <2>2. RIds' = [i \in 1 .. Len(reads') |-> reads'[i].id]
      BY DEF RIds
    <2> HIDE DEF RIds
    <2> QED BY <2>1, <2>2, SMTT(60)
  <1>8. \A i \in 1 .. Len(reads') : i <= Len(reads) - One(d) => i + One(d) \in 1 .. Len(reads)
    BY <1>0, <1>6, <1>7, SMTT(60) DEF One
  <1>9. Shift(RIds, RIds', d, ar, q["ar"][1])
    BY <1>5, <1>6, <1>7, <1>8 DEF Shift
  <1> QED BY <1>0, <1>1, <1>3, <1>5, <1>9 DEF d

\* The edge on which a channel freezes, and its queue is emptied.
Freezes(f) == ph[f] = "near" /\ ph'[f] = "frozen"

real(w) == w /\ ~pad_active

kept(b) == b /\ ~sinking

rkept(r) == r /\ ~RSink!sinking

\* Each channel loses its head, gains an element, or is emptied.
ChannelsMove(pop, w, b, ar, r) ==
  /\ \A f \in Chan : Freezes(f) => q'[f] = <<>>
  /\ ~Freezes("aw") => Shift(q["aw"], q'["aw"], pop, FALSE, None)
  /\ ~Freezes("ar") => Shift(q["ar"], q'["ar"], ar, FALSE, None)
  /\ ~Freezes("w") => Shift(q["w"], q'["w"], real(w), FALSE, None)
  /\ ~Freezes("b") => Shift(q["b"], q'["b"], FALSE, kept(b), writes[1])
  /\ ~Freezes("r") => Shift(q["r"], q'["r"], FALSE, rkept(r), reads[1].id)
  /\ pop => q["aw"] # <<>>
  /\ ar => q["ar"] # <<>>
  /\ real(w) => q["w"] # <<>>
  /\ kept(b) => writes # <<>>
  /\ rkept(r) => reads # <<>>

\* The types of the queues.
QueueTypes == /\ DOMAIN q = Chan
              /\ q["aw"] \in Seq(Nat) /\ q["ar"] \in Seq(Nat) /\ q["b"] \in Seq(Nat)
              /\ q["r"] \in Seq(Nat) /\ q["w"] \in Seq(WBeats)

\* What is kept of a move is yes or no.
KeptTypes(w, b, r) == real(w) \in BOOLEAN /\ kept(b) \in BOOLEAN /\ rkept(r) \in BOOLEAN

\* A cycle moves the channels so.
LEMMA ChannelsAfter ==
  ASSUME TypeOK, Flights, NEW fwd \in BOOLEAN, NEW pop \in BOOLEAN, NEW w \in BOOLEAN,
         NEW b \in BOOLEAN, NEW ar \in BOOLEAN, NEW r \in BOOLEAN,
         NEW moving, NEW arrives \in BOOLEAN, Cycle(fwd, pop, w, b, ar, r, moving, arrives)
  PROVE  QueueTypes' /\ ChannelsMove(pop, w, b, ar, r) /\ KeptTypes(w, b, r)
  <1> DEFINE F == freezing_now(moving)
  <1>1. /\ Handshakes(fwd, pop, w, b, ar, r) /\ QueueEdge(pop, w, b, ar, r, F)
        /\ PhaseEdge(moving, arrives)
    BY DEF Cycle
  <1> HIDE DEF F
  <1>2. \A f \in Chan : f \in F <=> Freezes(f)
    <2>1. \A f \in Chan : f \in freezing_now(moving) <=> ph[f] = "near" /\ ph'[f] = "frozen"
      BY <1>1, PhasesAfter
    <2> QED BY <2>1 DEF Freezes, F
  <1>3. /\ DOMAIN q' = Chan
        /\ \A f \in Chan : f \in F => q'[f] = <<>>
        /\ "aw" \notin F => q'["aw"] = IF pop THEN Tail(q["aw"]) ELSE q["aw"]
        /\ "w" \notin F => q'["w"] = IF w /\ ~pad_active THEN Tail(q["w"]) ELSE q["w"]
        /\ "b" \notin F =>
             q'["b"] = IF b /\ ~sinking THEN Append(q["b"], Head(writes)) ELSE q["b"]
        /\ "ar" \notin F => q'["ar"] = IF ar THEN Tail(q["ar"]) ELSE q["ar"]
        /\ "r" \notin F =>
             q'["r"] = IF r /\ ~RSink!sinking THEN Append(q["r"], Head(reads).id) ELSE q["r"]
    <2>0. QueueEdge(pop, w, b, ar, r, freezing_now(moving))
      BY <1>1 DEF F
    <2>1. QueuesMove(pop, w, b, ar, r, freezing_now(moving))
      BY <2>0, QueueAfter, SMTT(60)
    <2> QED BY <2>1 DEF QueuesMove, F
  <1>4. /\ q["aw"] \in Seq(Nat) /\ q["w"] \in Seq(WBeats) /\ q["b"] \in Seq(Nat)
        /\ q["ar"] \in Seq(Nat) /\ q["r"] \in Seq(Nat)
        /\ writes \in Seq(Nat) /\ reads \in Seq(Bursts)
    BY DEF TypeOK
  <1>5. /\ pop => q["aw"] # <<>>
        /\ ar => q["ar"] # <<>>
        /\ real(w) => q["w"] # <<>>
        /\ rkept(r) => reads # <<>>
    BY <1>1 DEF Handshakes, real, rkept, m_wvalid, m_wvalid_i
  <1>6. kept(b) => writes # <<>>
    <2>1. kept(b) => Len(writes) > Len(owed)
      BY <1>1 DEF Handshakes, kept
    <2> QED BY <1>4, <2>1, SMTT(60) DEF Flights
  <1>7. real(w) \in BOOLEAN /\ kept(b) \in BOOLEAN /\ rkept(r) \in BOOLEAN
    BY SMTT(60) DEF real, kept, rkept
  <1>8. /\ writes # <<>> => Head(writes) = writes[1] /\ writes[1] \in Nat
        /\ reads # <<>> => Head(reads) = reads[1] /\ reads[1] \in Bursts
    BY <1>4, SMTT(60)
  <1>9. reads # <<>> => reads[1].id \in Nat
    BY <1>8 DEF Bursts
  <1>10. /\ ~Freezes("aw") => q'["aw"] = Shifted(q["aw"], pop, FALSE, None)
         /\ ~Freezes("ar") => q'["ar"] = Shifted(q["ar"], ar, FALSE, None)
         /\ ~Freezes("w") => q'["w"] = Shifted(q["w"], real(w), FALSE, None)
    BY <1>2, <1>3 DEF Shifted, Rest, real, Chan
  <1>11. /\ ~Freezes("b") => q'["b"] = Shifted(q["b"], FALSE, kept(b), writes[1])
         /\ ~Freezes("r") => q'["r"] = Shifted(q["r"], FALSE, rkept(r), reads[1].id)
    BY <1>2, <1>3, <1>5, <1>6, <1>8 DEF Shifted, Rest, kept, rkept, Chan
  <1>12. ~Freezes("aw") => q'["aw"] \in Seq(Nat) /\ Shift(q["aw"], q'["aw"], pop, FALSE, None)
    BY <1>4, <1>5, <1>10, ShiftSeq
  <1>13. ~Freezes("ar") => q'["ar"] \in Seq(Nat) /\ Shift(q["ar"], q'["ar"], ar, FALSE, None)
    BY <1>4, <1>5, <1>10, ShiftSeq
  <1>14. ~Freezes("w") => q'["w"] \in Seq(WBeats)
                          /\ Shift(q["w"], q'["w"], real(w), FALSE, None)
    BY <1>4, <1>5, <1>7, <1>10, ShiftSeq
  <1>15. ~Freezes("b") => q'["b"] \in Seq(Nat)
                          /\ Shift(q["b"], q'["b"], FALSE, kept(b), writes[1])
    BY <1>4, <1>6, <1>7, <1>8, <1>11, ShiftSeq
  <1>16. ~Freezes("r") => q'["r"] \in Seq(Nat)
                          /\ Shift(q["r"], q'["r"], FALSE, rkept(r), reads[1].id)
    BY <1>4, <1>5, <1>7, <1>9, <1>11, ShiftSeq
  <1>17. \A f \in Chan : Freezes(f) => q'[f] = <<>> /\ q'[f] \in Seq(Nat) /\ q'[f] \in Seq(WBeats)
    <2>1. <<>> \in Seq(Nat) /\ <<>> \in Seq(WBeats)
      BY SMTT(60)
    <2> QED BY <1>2, <1>3, <2>1
  <1>18. /\ q'["aw"] \in Seq(Nat) /\ q'["ar"] \in Seq(Nat) /\ q'["b"] \in Seq(Nat)
         /\ q'["r"] \in Seq(Nat) /\ q'["w"] \in Seq(WBeats)
    BY <1>12, <1>13, <1>14, <1>15, <1>16, <1>17 DEF Chan
  <1> QED BY <1>3, <1>5, <1>6, <1>7, <1>12, <1>13, <1>14, <1>15, <1>16, <1>17, <1>18
          DEF ChannelsMove, QueueTypes, KeptTypes

\* A cycle is an edge of the tracker.
LEMMA PadCycle ==
  ASSUME TypeOK, Issued, PadInv, NEW fwd \in BOOLEAN, NEW pop \in BOOLEAN, NEW w \in BOOLEAN,
         NEW b \in BOOLEAN, NEW ar \in BOOLEAN, NEW r \in BOOLEAN,
         NEW moving, NEW arrives \in BOOLEAN, Cycle(fwd, pop, w, b, ar, r, moving, arrives)
  PROVE  /\ PadInv' /\ s_reset_recovery_event_m \in BOOLEAN
         /\ Feed(owed, owed', w, fwd, burst_len(fwd))
         /\ left' = IF s_reset_recovery_event_m THEN Len(owed')
                    ELSE IF w /\ owed[1] = 1 /\ left > 0 THEN left - 1 ELSE left
         /\ fwd => stage \in 1 .. Len(scn.beats)
         /\ w => owed # <<>>
  <1> DEFINE ev == s_reset_recovery_event_m
             n == burst_len(fwd)
  <1>1. ev \in BOOLEAN
    BY DEF TypeOK, s_reset_recovery_event_m
  <1>2. fwd => stage \in 1 .. Len(scn.beats)
    BY DEF Cycle, Handshakes, Issued
  <1>3. n \in Beats
    <2>1. CASE fwd
      <3>1. scn.beats \in Seq(Beats)
        BY BridgeAssumption DEF TypeOK
      <3>2. scn.beats[stage] \in Beats
        BY <1>2, <2>1, <3>1, Lengths
      <3> QED BY <2>1, <3>2 DEF burst_len
    <2>2. CASE ~fwd
      <3>1. 1 \in Beats
        BY PadAssumption, SMTT(60) DEF Beats
      <3> QED BY <2>2, <3>1 DEF burst_len
    <2> QED BY <2>1, <2>2
  <1>4. PadEdge(ev, fwd, n, w) /\ OwedEdge(ev, fwd, n, w)
    BY DEF Cycle, Counts
  <1>5. (fwd => ~aw_block) /\ (w => (track_valid \/ pad_active) /\ owed # <<>>)
    BY DEF Cycle, Handshakes, m_wvalid, m_wvalid_i
  <1> HIDE DEF ev, n
  <1>6. PadClock(ev, fwd, n, w)
    BY <1>4, <1>5 DEF PadClock
  <1>7. PadNext
    BY <1>1, <1>3, <1>6 DEF PadNext
  <1>8. PadInv'
    BY <1>7, PadStep
  <1>9. owed \in Seq(Beats)
    BY DEF PadInv, PadTypeOK
  <1>10. /\ Feed(owed, owed', w, fwd, n)
         /\ left' = IF ev THEN Len(owed')
                    ELSE IF w /\ owed[1] = 1 /\ left > 0 THEN left - 1 ELSE left
    BY <1>1, <1>3, <1>4, <1>5, <1>9, OwedAfter
  <1> QED BY <1>1, <1>2, <1>5, <1>8, <1>10 DEF ev, n

\* A cycle is an edge of both sinks.
LEMMA SinkCycle ==
  ASSUME TypeOK, Issued, Flights, SinkInv, ReadSinkInv,
         NEW fwd \in BOOLEAN, NEW pop \in BOOLEAN, NEW w \in BOOLEAN,
         NEW b \in BOOLEAN, NEW ar \in BOOLEAN, NEW r \in BOOLEAN,
         NEW moving, NEW arrives \in BOOLEAN, Cycle(fwd, pop, w, b, ar, r, moving, arrives)
  PROVE  /\ SinkInv' /\ ReadSinkInv'
         /\ Flown(old, fresh, old', fresh', s_reset_recovery_event_m, fwd, b)
         /\ Flown(r_old, r_fresh, r_old', r_fresh', s_reset_recovery_event_m, ar, done(r))
  <1> DEFINE ev == s_reset_recovery_event_m
             d == done(r)
  <1>1. ev \in BOOLEAN
    BY DEF TypeOK, s_reset_recovery_event_m
  <1>2. Handshakes(fwd, pop, w, b, ar, r) /\ SlaveEdge(fwd, b, ar, r)
    BY DEF Cycle
  <1>3. d \in BOOLEAN /\ (d => reads # <<>>) /\ (b => writes # <<>>)
    <2>1. d \in BOOLEAN /\ (d => reads # <<>>)
      BY <1>2, DoneFacts DEF Handshakes
    <2>2. b => writes # <<>>
      BY <1>2, WritesAfter
    <2> QED BY <2>1, <2>2
  <1>4. /\ old \in Nat /\ fresh \in Nat /\ r_old \in Nat /\ r_fresh \in Nat
    BY DEF SinkInv, SinkAt, ReadSinkInv
  <1>5. /\ old + fresh = Len(writes) /\ r_old + r_fresh = Len(reads)
    BY DEF Flights
  <1>6. writes \in Seq(Nat) /\ reads \in Seq(Bursts)
    BY DEF TypeOK
  <1>7. /\ fwd => old + fresh < SlaveCap
        /\ ar => r_old + r_fresh < SlaveCap
    BY <1>2, <1>5 DEF Handshakes
  <1>8. (b => old + fresh > 0) /\ (d => r_old + r_fresh > 0)
    <2>1. (b => Len(writes) > 0) /\ (d => Len(reads) > 0)
      <3> HIDE DEF d
      <3> QED BY <1>3, <1>6, SMTT(60)
    <2> QED BY <1>5, <2>1
  <1>9. /\ SinkEdge(ev, fwd, b) /\ FlightEdge(ev, fwd, b)
        /\ RSink!SinkEdge(ev, ar, d) /\ RSink!FlightEdge(ev, ar, d)
    BY DEF Cycle, Counts
  <1> HIDE DEF ev, d
  <1>10. SinkClock(ev, fwd, b)
    BY <1>7, <1>8, <1>9 DEF SinkClock, InFlight
  <1>11. SinkInv'
    <2>1. SinkNext
      BY <1>1, <1>10 DEF SinkNext
    <2> QED BY <2>1, SinkStep
  <1>12. SinkAt(r_outstanding, r_debt, r_old, r_fresh)
    BY DEF ReadSinkInv
  <1>13. ReadSinkInv'
    <2>1. SinkMove(r_outstanding, r_debt, r_old, r_fresh, r_outstanding', r_debt', r_old', r_fresh',
                   ev, ar, d)
      BY <1>1, <1>3, <1>7, <1>8, <1>9
         DEF RSink!SinkEdge, RSink!FlightEdge, RSink!outstanding_next_c, RSink!sinking, RSink!One,
             One, SinkMove
    <2>2. SinkAt(r_outstanding', r_debt', r_old', r_fresh')
      BY <1>12, <2>1, SinkMoves
    <2> QED BY <2>2 DEF ReadSinkInv
  <1>14. Flown(old, fresh, old', fresh', ev, fwd, b)
    BY <1>9 DEF FlightEdge, Flown
  <1>15. Flown(r_old, r_fresh, r_old', r_fresh', ev, ar, d)
    BY <1>9 DEF RSink!FlightEdge, Flown, RSink!One, One
  <1> QED BY <1>11, <1>13, <1>14, <1>15 DEF ev, d

\* What an edge does, piece by piece.
PhasesMove(arrives) ==
  /\ \A f \in Chan : Moved(ph[f], ph'[f])
  /\ scn' = scn /\ sRst' = sRst /\ src_toggle' = src_toggle /\ mst' = mst
  /\ arrives => Crossing
  /\ pend' = IF arrives THEN TRUE ELSE IF s_reset_recovery_event_m THEN FALSE ELSE pend
  /\ dst_sync' = IF arrives THEN src_toggle ELSE dst_sync

\* What a cycle does to the bursts at the slave.
BurstsMove(fwd, b, ar, r) ==
  /\ Shift(writes, writes', b, fwd, stage)
  /\ b => writes # <<>>
  /\ fwd => stage \in Nat /\ stage \in 1 .. Len(scn.beats)
  /\ Shift(RIds, RIds', done(r), ar, q["ar"][1])
  /\ done(r) => reads # <<>>
  /\ ar => q["ar"][1] \in Nat /\ q["ar"][1] < mst.ar

\* What it does to the counts.
CountsMove(fwd, w, b, ar, r) ==
  /\ Flown(old, fresh, old', fresh', s_reset_recovery_event_m, fwd, b)
  /\ Flown(r_old, r_fresh, r_old', r_fresh', s_reset_recovery_event_m, ar, done(r))
  /\ Feed(owed, owed', w, fwd, burst_len(fwd))
  /\ left' = IF s_reset_recovery_event_m THEN Len(owed')
             ELSE IF w /\ owed[1] = 1 /\ left > 0 THEN left - 1 ELSE left
  /\ w => owed # <<>>

\* The types of its parameters.
Booleans(w, b, r) ==
  /\ real(w) \in BOOLEAN /\ kept(b) \in BOOLEAN /\ rkept(r) \in BOOLEAN /\ done(r) \in BOOLEAN
  /\ s_reset_recovery_event_m \in BOOLEAN

\* All that a cycle does, and the part of the invariant already known after
\* it.
After(fwd, pop, w, b, ar, r, arrives) ==
  /\ TypeOK' /\ PadInv' /\ SinkInv' /\ ReadSinkInv'
  /\ Handshakes(fwd, pop, w, b, ar, r)
  /\ StageEdge(pop, fwd)
  /\ PhasesMove(arrives)
  /\ ChannelsMove(pop, w, b, ar, r)
  /\ BurstsMove(fwd, b, ar, r)
  /\ CountsMove(fwd, w, b, ar, r)
  /\ Booleans(w, b, r)

\* A cycle does all that.
LEMMA CycleAfter ==
  ASSUME Inv, NEW fwd \in BOOLEAN, NEW pop \in BOOLEAN, NEW w \in BOOLEAN,
         NEW b \in BOOLEAN, NEW ar \in BOOLEAN, NEW r \in BOOLEAN,
         NEW moving, NEW arrives \in BOOLEAN, Cycle(fwd, pop, w, b, ar, r, moving, arrives)
  PROVE  After(fwd, pop, w, b, ar, r, arrives)
  <1>1. TypeOK /\ PadInv /\ SinkInv /\ ReadSinkInv /\ Issued /\ Flights
    BY DEF Inv
  <1>2. /\ Handshakes(fwd, pop, w, b, ar, r) /\ StageEdge(pop, fwd) /\ SlaveEdge(fwd, b, ar, r)
        /\ PhaseEdge(moving, arrives)
    BY DEF Cycle
  <1>3. /\ DOMAIN q' = Chan
        /\ q'["aw"] \in Seq(Nat) /\ q'["ar"] \in Seq(Nat) /\ q'["b"] \in Seq(Nat)
        /\ q'["r"] \in Seq(Nat) /\ q'["w"] \in Seq(WBeats)
        /\ ChannelsMove(pop, w, b, ar, r)
        /\ real(w) \in BOOLEAN /\ kept(b) \in BOOLEAN /\ rkept(r) \in BOOLEAN
    <2>1. QueueTypes' /\ ChannelsMove(pop, w, b, ar, r) /\ KeptTypes(w, b, r)
      BY <1>1, ChannelsAfter, SMTT(60)
    <2> QED BY <2>1 DEF QueueTypes, KeptTypes
  <1>4. /\ PadInv' /\ s_reset_recovery_event_m \in BOOLEAN
        /\ Feed(owed, owed', w, fwd, burst_len(fwd))
        /\ left' = IF s_reset_recovery_event_m THEN Len(owed')
                    ELSE IF w /\ owed[1] = 1 /\ left > 0 THEN left - 1 ELSE left
        /\ fwd => stage \in 1 .. Len(scn.beats)
        /\ w => owed # <<>>
    BY <1>1, PadCycle, SMTT(60)
  <1>5. /\ SinkInv' /\ ReadSinkInv'
        /\ Flown(old, fresh, old', fresh', s_reset_recovery_event_m, fwd, b)
        /\ Flown(r_old, r_fresh, r_old', r_fresh', s_reset_recovery_event_m, ar, done(r))
    BY <1>1, SinkCycle, SMTT(60)
  <1>6. /\ writes' \in Seq(Nat) /\ Shift(writes, writes', b, fwd, stage)
        /\ b => writes # <<>>
        /\ fwd => stage \in Nat
    BY <1>1, <1>2, WritesAfter
  <1>7. /\ reads' \in Seq(Bursts) /\ done(r) \in BOOLEAN
        /\ Shift(RIds, RIds', done(r), ar, q["ar"][1])
        /\ done(r) => reads # <<>>
        /\ ar => q["ar"][1] \in Nat /\ q["ar"][1] < mst.ar
    BY <1>1, <1>2, ReadsAfter, SMTT(60)
  <1>8. /\ ph' \in [Chan -> Phase]
        /\ \A f \in Chan : Moved(ph[f], ph'[f])
        /\ scn' = scn /\ sRst' = sRst /\ src_toggle' = src_toggle /\ mst' = mst
    BY <1>1, <1>2, PhasesAfter
  <1>9. PhasesMove(arrives)
    BY <1>2, <1>8 DEF PhasesMove, PhaseEdge
  <1>10. stage' \in Nat \cup {None}
    <2>1. q["aw"] \in Seq(Nat) /\ stage \in Nat \cup {None}
      BY <1>1 DEF TypeOK
    <2>2. pop => q["aw"] # <<>>
      BY <1>3 DEF ChannelsMove
    <2>3. q["aw"] # <<>> => Head(q["aw"]) \in Nat
      BY <2>1, SMTT(60)
    <2> QED BY <1>2, <2>1, <2>2, <2>3 DEF StageEdge
  <1>11. pend' \in BOOLEAN /\ dst_sync' \in {0, 1}
    <2>1. pend \in BOOLEAN /\ dst_sync \in {0, 1} /\ src_toggle \in {0, 1}
      BY <1>1 DEF TypeOK
    <2> QED BY <1>9, <2>1 DEF PhasesMove
  <1>12. TypeOK'
    <2>1. /\ scn \in Scenarios /\ sRst \in BOOLEAN /\ src_toggle \in {0, 1}
          /\ mst \in [aw : Nat, w : Nat, sent : Nat, ar : Nat, base : Nat, resets : Nat]
      BY <1>1 DEF TypeOK
    <2> QED BY <1>3, <1>6, <1>7, <1>8, <1>10, <1>11, <2>1 DEF TypeOK, Phase
  <1> QED BY <1>2, <1>3, <1>4, <1>5, <1>6, <1>7, <1>9, <1>12
          DEF After, BurstsMove, CountsMove, Booleans

\* An engaged channel is empty and stays so.
LEMMA EmptyStays ==
  ASSUME Inv, NEW fwd \in BOOLEAN, NEW pop \in BOOLEAN, NEW w \in BOOLEAN,
         NEW b \in BOOLEAN, NEW ar \in BOOLEAN, NEW r \in BOOLEAN, NEW arrives \in BOOLEAN,
         After(fwd, pop, w, b, ar, r, arrives), NEW f \in Chan, q[f] = <<>>, MEngaged(f)
  PROVE  q'[f] = <<>>
  <1>1. TypeOK /\ TypeOK' /\ ChannelsMove(pop, w, b, ar, r) /\ Booleans(w, b, r)
        /\ Handshakes(fwd, pop, w, b, ar, r)
    BY DEF Inv, After
  <1>2. ~Freezes(f)
    BY DEF MEngaged, Freezes
  <1>3. /\ f = "aw" => ~pop
        /\ f = "ar" => ~ar
        /\ f = "w" => ~real(w)
    BY <1>1 DEF ChannelsMove
  <1>4. /\ f = "b" => ~kept(b)
        /\ f = "r" => ~rkept(r)
    BY <1>1 DEF Handshakes, kept, rkept, b_full, r_full
  <1>5. real(w) \in BOOLEAN /\ kept(b) \in BOOLEAN /\ rkept(r) \in BOOLEAN
    BY <1>1 DEF Booleans
  <1>6. CASE f = "aw"
    <2>1. q["aw"] \in Seq(Nat) /\ q'["aw"] \in Seq(Nat) /\ Shift(q["aw"], q'["aw"], pop, FALSE, None)
      BY <1>1, <1>2, <1>6 DEF TypeOK, ChannelsMove
    <2>a. q["aw"] = <<>>
      BY <1>6
    <2>b. One(pop) = 0 /\ One(FALSE) = 0
      BY <1>3, <1>4, <1>6 DEF One
    <2>c. Len(q'["aw"]) = Len(q["aw"]) - One(pop) + One(FALSE)
      BY <2>1 DEF Shift
    <2>2. q'["aw"] = <<>>
      BY <2>1, <2>a, <2>b, <2>c, EmptyShift
    <2> QED BY <1>6, <2>2
  <1>7. CASE f = "ar"
    <2>1. q["ar"] \in Seq(Nat) /\ q'["ar"] \in Seq(Nat) /\ Shift(q["ar"], q'["ar"], ar, FALSE, None)
      BY <1>1, <1>2, <1>7 DEF TypeOK, ChannelsMove
    <2>a. q["ar"] = <<>>
      BY <1>7
    <2>b. One(ar) = 0 /\ One(FALSE) = 0
      BY <1>3, <1>4, <1>7 DEF One
    <2>c. Len(q'["ar"]) = Len(q["ar"]) - One(ar) + One(FALSE)
      BY <2>1 DEF Shift
    <2>2. q'["ar"] = <<>>
      BY <2>1, <2>a, <2>b, <2>c, EmptyShift
    <2> QED BY <1>7, <2>2
  <1>8. CASE f = "w"
    <2>1. /\ q["w"] \in Seq(WBeats) /\ q'["w"] \in Seq(WBeats)
          /\ Shift(q["w"], q'["w"], real(w), FALSE, None)
      BY <1>1, <1>2, <1>8 DEF TypeOK, ChannelsMove
    <2>a. q["w"] = <<>>
      BY <1>8
    <2>b. One(real(w)) = 0 /\ One(FALSE) = 0
      BY <1>3, <1>4, <1>8 DEF One
    <2>c. Len(q'["w"]) = Len(q["w"]) - One(real(w)) + One(FALSE)
      BY <2>1 DEF Shift
    <2>2. q'["w"] = <<>>
      BY <2>1, <2>a, <2>b, <2>c, EmptyShift
    <2> QED BY <1>8, <2>2
  <1>9. CASE f = "b"
    <2>1. /\ q["b"] \in Seq(Nat) /\ q'["b"] \in Seq(Nat)
          /\ Shift(q["b"], q'["b"], FALSE, kept(b), writes[1])
      BY <1>1, <1>2, <1>9 DEF TypeOK, ChannelsMove
    <2>a. q["b"] = <<>>
      BY <1>9
    <2>b. One(FALSE) = 0 /\ One(kept(b)) = 0
      BY <1>3, <1>4, <1>9 DEF One
    <2>c. Len(q'["b"]) = Len(q["b"]) - One(FALSE) + One(kept(b))
      BY <2>1 DEF Shift
    <2>2. q'["b"] = <<>>
      BY <2>1, <2>a, <2>b, <2>c, EmptyShift
    <2> QED BY <1>9, <2>2
  <1>10. CASE f = "r"
    <2>1. /\ q["r"] \in Seq(Nat) /\ q'["r"] \in Seq(Nat)
          /\ Shift(q["r"], q'["r"], FALSE, rkept(r), reads[1].id)
      BY <1>1, <1>2, <1>10 DEF TypeOK, ChannelsMove
    <2>a. q["r"] = <<>>
      BY <1>10
    <2>b. One(FALSE) = 0 /\ One(rkept(r)) = 0
      BY <1>3, <1>4, <1>10 DEF One
    <2>c. Len(q'["r"]) = Len(q["r"]) - One(FALSE) + One(rkept(r))
      BY <2>1 DEF Shift
    <2>2. q'["r"] = <<>>
      BY <2>1, <2>a, <2>b, <2>c, EmptyShift
    <2> QED BY <1>10, <2>2
  <1> QED BY <1>6, <1>7, <1>8, <1>9, <1>10 DEF Chan

\* A cycle keeps the phases in step with the reset.
LEMMA PhasesCycle ==
  ASSUME Inv, NEW fwd \in BOOLEAN, NEW pop \in BOOLEAN, NEW w \in BOOLEAN,
         NEW b \in BOOLEAN, NEW ar \in BOOLEAN, NEW r \in BOOLEAN, NEW arrives \in BOOLEAN,
         After(fwd, pop, w, b, ar, r, arrives)
  PROVE  Phases'
  <1>1. TypeOK /\ Phases /\ PhasesMove(arrives) /\ ChannelsMove(pop, w, b, ar, r)
    BY DEF Inv, After
  <1>2. \A f \in Chan : Moved(ph[f], ph'[f])
    BY <1>1 DEF PhasesMove
  <1>3. sRst' = sRst /\ (sRst => \A f \in Chan : ph[f] \in {"near", "frozen"})
        /\ (~sRst => \A f \in Chan : ph[f] # "near")
    BY <1>1 DEF Phases, PhasesMove
  <1>4. Crossing' => Crossing
    BY <1>1 DEF PhasesMove, Crossing
  <1>5. sRst' => \A f \in Chan : ph'[f] \in {"near", "frozen"}
    BY <1>2, <1>3 DEF Moved
  <1>6. ~sRst' => \A f \in Chan : ph'[f] # "near"
    BY <1>2, <1>3 DEF Moved
  <1>7. ~sRst' /\ Crossing' => \A f \in Chan : ph'[f] = "run"
    BY <1>1, <1>2, <1>3, <1>4 DEF Phases, Moved
  <1>8. ASSUME NEW f \in Chan, ph'[f] = "frozen" PROVE q'[f] = <<>>
    <2>1. CASE ph[f] = "near"
      BY <1>1, <1>8, <2>1 DEF ChannelsMove, Freezes
    <2>2. CASE ph[f] = "frozen"
      <3>1. q[f] = <<>> /\ MEngaged(f)
        BY <1>1, <2>2 DEF Phases, MEngaged
      <3> QED BY <3>1, EmptyStays, SMTT(60)
    <2> QED BY <1>2, <1>8, <2>1, <2>2 DEF Moved
  <1>9. ASSUME NEW f \in {"b", "r"}, ph'[f] = "thaw" PROVE q'[f] = <<>>
    <2>1. f \in Chan
      BY DEF Chan
    <2>2. ph[f] = "thaw"
      BY <1>2, <1>9, <2>1 DEF Moved
    <2>3. q[f] = <<>> /\ MEngaged(f)
      BY <1>1, <2>2 DEF Phases, MEngaged
    <2> QED BY <2>1, <2>3, EmptyStays, SMTT(60)
  <1> QED BY <1>5, <1>6, <1>7, <1>8, <1>9 DEF Phases

\* A cycle invents no transaction.
LEMMA IssuedCycle ==
  ASSUME Inv, NEW fwd \in BOOLEAN, NEW pop \in BOOLEAN, NEW w \in BOOLEAN,
         NEW b \in BOOLEAN, NEW ar \in BOOLEAN, NEW r \in BOOLEAN, NEW arrives \in BOOLEAN,
         After(fwd, pop, w, b, ar, r, arrives)
  PROVE  Issued'
  <1> DEFINE A == {x \in 1 .. Len(scn.beats) : x < mst.aw}
             R == {x \in 1 .. Len(scn.reads) : x < mst.ar}
             I == {x \in Nat : x < mst.ar}
  <1>1. /\ TypeOK /\ TypeOK' /\ Issued /\ PhasesMove(arrives) /\ ChannelsMove(pop, w, b, ar, r)
        /\ BurstsMove(fwd, b, ar, r) /\ StageEdge(pop, fwd) /\ Booleans(w, b, r)
        /\ Handshakes(fwd, pop, w, b, ar, r)
    BY DEF Inv, After
  <1>2. /\ q["aw"] \in Seq(Nat) /\ q'["aw"] \in Seq(Nat) /\ q["ar"] \in Seq(Nat)
        /\ q'["ar"] \in Seq(Nat) /\ writes \in Seq(Nat) /\ writes' \in Seq(Nat)
        /\ reads \in Seq(Bursts) /\ reads' \in Seq(Bursts)
    BY <1>1 DEF TypeOK
  <1>3. /\ \A i \in 1 .. Len(q["aw"]) : q["aw"][i] \in A
        /\ \A i \in 1 .. Len(writes) : writes[i] \in A
        /\ stage # None => stage \in A
        /\ \A i \in 1 .. Len(q["ar"]) : q["ar"][i] \in R
        /\ \A i \in 1 .. Len(reads) : reads[i].id < mst.ar
    BY <1>1 DEF Issued
  <1>4. scn' = scn /\ mst' = mst
    BY <1>1 DEF PhasesMove
  <1> HIDE DEF A, R, I
  <1>5. \A i \in 1 .. Len(q'["aw"]) : q'["aw"][i] \in A
    <2>1. CASE Freezes("aw")
      <3>1. q'["aw"] = <<>>
        BY <1>1, <2>1 DEF ChannelsMove, Chan
      <3> QED BY <3>1, SMTT(60)
    <2>2. CASE ~Freezes("aw")
      <3>1. Shift(q["aw"], q'["aw"], pop, FALSE, None) /\ (pop => q["aw"] # <<>>)
        BY <1>1, <2>2 DEF ChannelsMove
      <3>2. From(q["aw"], q'["aw"], FALSE, None)
        BY <1>2, <3>1, ShiftFrom
      <3> QED BY <1>3, <3>2 DEF From
    <2> QED BY <2>1, <2>2
  <1>6. \A i \in 1 .. Len(q'["ar"]) : q'["ar"][i] \in R
    <2>1. CASE Freezes("ar")
      <3>1. q'["ar"] = <<>>
        BY <1>1, <2>1 DEF ChannelsMove, Chan
      <3> QED BY <3>1, SMTT(60)
    <2>2. CASE ~Freezes("ar")
      <3>1. Shift(q["ar"], q'["ar"], ar, FALSE, None) /\ (ar => q["ar"] # <<>>)
        BY <1>1, <2>2 DEF ChannelsMove
      <3>2. From(q["ar"], q'["ar"], FALSE, None)
        BY <1>2, <3>1, ShiftFrom
      <3> QED BY <1>3, <3>2 DEF From
    <2> QED BY <2>1, <2>2
  <1>7. \A i \in 1 .. Len(writes') : writes'[i] \in A
    <2>1. Shift(writes, writes', b, fwd, stage) /\ (b => writes # <<>>) /\ (fwd => stage \in A)
      BY <1>1, <1>3 DEF BurstsMove, Handshakes
    <2>2. From(writes, writes', fwd, stage)
      BY <1>2, <2>1, ShiftFrom
    <2> QED BY <1>3, <2>1, <2>2 DEF From
  <1>8. stage' # None => stage' \in A
    <2>1. pop => Head(q["aw"]) \in A
      <3>1. pop => q["aw"] # <<>>
        BY <1>1 DEF ChannelsMove
      <3>2. q["aw"] # <<>> => Head(q["aw"]) = q["aw"][1] /\ 1 \in 1 .. Len(q["aw"])
        BY <1>2, SMTT(60)
      <3> QED BY <1>3, <3>1, <3>2
    <2> QED BY <1>1, <1>3, <2>1 DEF StageEdge
  <1>9. \A i \in 1 .. Len(reads') : reads'[i].id < mst.ar
    <2>1. /\ RIds \in Seq(Nat) /\ Len(RIds) = Len(reads)
          /\ \A i \in 1 .. Len(reads) : RIds[i] = reads[i].id
          /\ reads # <<>> => RIds # <<>>
      BY <1>1, ReadIds
    <2>2. /\ RIds' \in Seq(Nat) /\ Len(RIds') = Len(reads')
          /\ \A i \in 1 .. Len(reads') : RIds'[i] = reads'[i].id
      <3>1. Len(reads') \in Nat /\ \A i \in 1 .. Len(reads') : reads'[i] \in Bursts
        BY <1>2, Lengths
      <3>2. \A i \in 1 .. Len(reads') : reads'[i].id \in Nat
        BY <3>1 DEF Bursts
      <3>3. RIds' = [i \in 1 .. Len(reads') |-> reads'[i].id]
        BY DEF RIds
      <3> QED BY <3>1, <3>2, <3>3, SMTT(60)
    <2>3. \A i \in 1 .. Len(RIds) : RIds[i] \in I
      <3>1. \A i \in 1 .. Len(RIds) : RIds[i] \in Nat
        BY <2>1, Lengths
      <3> QED BY <1>3, <2>1, <3>1 DEF I
    <2>4. /\ Shift(RIds, RIds', done(r), ar, q["ar"][1]) /\ done(r) \in BOOLEAN
          /\ done(r) => reads # <<>>
          /\ ar => q["ar"][1] \in I
      BY <1>1 DEF BurstsMove, Booleans, I
    <2>5. \A i \in 1 .. Len(RIds') : RIds'[i] \in I
      <3>1. From(RIds, RIds', ar, q["ar"][1])
        BY <2>1, <2>2, <2>4, ShiftFrom
      <3> QED BY <2>3, <2>4, <3>1 DEF From
    <2> QED BY <2>2, <2>5 DEF I
  <1> QED BY <1>4, <1>5, <1>6, <1>7, <1>8, <1>9 DEF Issued, A, R

\* A cycle keeps the counts equal to the queues.
LEMMA FlightsCycle ==
  ASSUME Inv, NEW fwd \in BOOLEAN, NEW pop \in BOOLEAN, NEW w \in BOOLEAN,
         NEW b \in BOOLEAN, NEW ar \in BOOLEAN, NEW r \in BOOLEAN, NEW arrives \in BOOLEAN,
         After(fwd, pop, w, b, ar, r, arrives)
  PROVE  Flights'
  <1> DEFINE ev == s_reset_recovery_event_m
             ends == w /\ owed[1] = 1
  <1>1. /\ TypeOK /\ TypeOK' /\ Flights /\ PadInv /\ PadInv' /\ SinkInv /\ SinkInv'
        /\ ReadSinkInv /\ ReadSinkInv'
        /\ BurstsMove(fwd, b, ar, r) /\ CountsMove(fwd, w, b, ar, r) /\ Booleans(w, b, r)
        /\ Handshakes(fwd, pop, w, b, ar, r)
    BY DEF Inv, After
  <1>2. /\ old \in Nat /\ fresh \in Nat /\ r_old \in Nat /\ r_fresh \in Nat
        /\ old' \in Nat /\ fresh' \in Nat
    BY <1>1 DEF SinkInv, SinkAt, ReadSinkInv
  <1>3. /\ owed \in Seq(Beats) /\ owed' \in Seq(Beats) /\ left \in Nat /\ left' \in Nat
        /\ left <= Len(owed)
    BY <1>1 DEF PadInv, PadTypeOK, PadExact
  <1>4. /\ writes \in Seq(Nat) /\ writes' \in Seq(Nat) /\ reads \in Seq(Bursts)
        /\ reads' \in Seq(Bursts)
    BY <1>1 DEF TypeOK
  <1>5. /\ Len(owed) \in Nat /\ Len(owed') \in Nat /\ Len(writes) \in Nat /\ Len(writes') \in Nat
        /\ Len(reads) \in Nat
    BY <1>3, <1>4, Lengths
  <1>6. /\ ev \in BOOLEAN /\ done(r) \in BOOLEAN
        /\ Flown(old, fresh, old', fresh', ev, fwd, b)
        /\ Flown(r_old, r_fresh, r_old', r_fresh', ev, ar, done(r))
    BY <1>1 DEF CountsMove, Booleans
  <1>7. /\ old + fresh = Len(writes) /\ r_old + r_fresh = Len(reads)
        /\ Len(owed) <= Len(writes)
        /\ left = 0 => Len(owed) <= fresh
        /\ left > 0 => left + fresh = Len(owed)
    BY <1>1 DEF Flights
  <1>8. /\ b => writes # <<>>
        /\ done(r) => reads # <<>>
        /\ Len(writes') = Len(writes) - One(b) + One(fwd)
        /\ Len(RIds') = Len(RIds) - One(done(r)) + One(ar)
    BY <1>1 DEF BurstsMove, Shift
  <1>9. Len(RIds) = Len(reads) /\ Len(RIds') = Len(reads')
    <2>1. Len(reads') \in Nat
      BY <1>4, Lengths
    <2>2. RIds' = [i \in 1 .. Len(reads') |-> reads'[i].id]
      BY DEF RIds
    <2>3. Len(RIds') = Len(reads')
      BY <2>1, <2>2, SMTT(60)
    <2> QED BY <1>1, <2>3, ReadIds
  <1>10. (b => old + fresh > 0) /\ (done(r) => r_old + r_fresh > 0)
    BY <1>4, <1>7, <1>8, SMTT(60)
  <1>11. old' + fresh' = Len(writes')
    <2>0. FlownTo(old, fresh, old', fresh', ev, fwd, b)
      BY <1>2, <1>6, <1>10, FlownCount, SMTT(60)
    <2>1. old' + fresh' = old + fresh - One(b) + One(fwd)
      BY <2>0 DEF FlownTo
    <2>2. old + fresh = Len(writes)
      BY <1>7
    <2>3. Len(writes') = Len(writes) - One(b) + One(fwd)
      BY <1>8
    <2>4. One(b) \in 0 .. 1 /\ One(fwd) \in 0 .. 1
      BY OneBit
    <2> QED BY <1>2, <1>5, <2>1, <2>2, <2>3, <2>4, SMTT(60)
  <1>12. r_old' + r_fresh' = Len(reads')
    <2>0. FlownTo(r_old, r_fresh, r_old', r_fresh', ev, ar, done(r))
      BY <1>2, <1>6, <1>10, FlownCount, SMTT(60)
    <2>1. r_old' + r_fresh' = r_old + r_fresh - One(done(r)) + One(ar)
      BY <2>0 DEF FlownTo
    <2> QED BY <1>2, <1>5, <1>7, <1>8, <1>9, <2>1, SMTT(60) DEF One
  <1>13. Len(owed') = Len(owed) - One(ends) + One(fwd) /\ (w => owed # <<>>)
    BY <1>1 DEF CountsMove, Feed
  <1>14. left' = IF ev THEN Len(owed') ELSE IF ends /\ left > 0 THEN left - 1 ELSE left
    BY <1>1 DEF CountsMove
  <1>15. ends \in BOOLEAN /\ (ends => Len(owed) > 0) /\ (b => Len(writes) > Len(owed))
    <2>1. w => Len(owed) > 0
      BY <1>3, <1>13, SMTT(60)
    <2> QED BY <1>1, <2>1 DEF Handshakes
  <1> HIDE DEF ev, ends
  <1>16. /\ One(ends) \in 0 .. 1 /\ One(fwd) \in 0 .. 1 /\ One(b) \in 0 .. 1
         /\ One(ends) = 1 => ends
         /\ One(ends) = 0 => ~ends
         /\ One(b) = 1 => b
    <2>1. One(ends) \in 0 .. 1 /\ One(fwd) \in 0 .. 1 /\ One(b) \in 0 .. 1
      BY <1>15, OneBit
    <2>2. 0 # 1
      BY SMTT(60)
    <2> QED BY <2>1, <2>2 DEF One
  <1>17. Len(owed') <= Len(writes')
    BY <1>5, <1>7, <1>8, <1>13, <1>15, <1>16, SMTT(60)
  <1>18. CASE ev
    <2>1. left' = Len(owed') /\ fresh' = 0
      BY <1>6, <1>14, <1>18 DEF Flown
    <2>2. (left' = 0 => Len(owed') <= fresh') /\ (left' > 0 => left' + fresh' = Len(owed'))
      BY <1>5, <2>1, SMTT(60)
    <2> QED BY <1>11, <1>12, <1>17, <2>2 DEF Flights
  <1>19. CASE ~ev
    <2>1. fresh' = fresh + One(fwd) - One(b /\ old = 0)
      BY <1>6, <1>19 DEF Flown
    <2>2. One(b /\ old = 0) = IF old = 0 THEN One(b) ELSE 0
      BY DEF One
    <2>3. fresh' = fresh + One(fwd) - (IF old = 0 THEN One(b) ELSE 0)
      BY <2>1, <2>2
    <2>4. /\ One(ends) = 1 /\ left > 0 => left' = left - 1
          /\ One(ends) = 0 \/ left = 0 => left' = left
      <3>1. left = 0 => ~(left > 0)
        BY <1>3, SMTT(60)
      <3> QED BY <1>14, <1>16, <1>19, <3>1
    <2>5. One(ends) = 1 => Len(owed) > 0
      BY <1>15, <1>16
    <2>6. One(b) = 1 => Len(writes) > Len(owed)
      BY <1>15, <1>16
    <2>7. (left' = 0 => Len(owed') <= fresh') /\ (left' > 0 => left' + fresh' = Len(owed'))
      <3>1. CASE left > 0
        <4>1. left + fresh = Len(owed) /\ (One(ends) = 1 => left' = left - 1)
              /\ (One(ends) = 0 => left' = left)
          BY <1>7, <2>4, <3>1
        <4>2. fresh' = fresh + One(fwd)
          <5>1. old = 0 => One(b) = 0
            BY <1>2, <1>3, <1>5, <1>7, <1>16, <2>6, <3>1, <4>1, SMTT(60)
          <5> QED BY <1>2, <1>16, <2>3, <5>1, SMTT(60)
        <4> QED BY <1>2, <1>3, <1>5, <1>13, <1>16, <3>1, <4>1, <4>2, SMTT(60)
      <3>2. CASE left = 0
        <4>1. Len(owed) <= fresh /\ left' = 0
          BY <1>7, <2>4, <3>2
        <4>2. Len(owed') <= fresh'
          <5>1. CASE old = 0 /\ One(b) = 1
            <6>1. fresh' = fresh + One(fwd) - 1 /\ Len(owed) < fresh
              BY <1>2, <1>5, <1>7, <1>16, <2>3, <2>6, <5>1, SMTT(60)
            <6> QED BY <1>2, <1>5, <1>13, <1>16, <6>1, SMTT(60)
          <5>2. CASE ~(old = 0 /\ One(b) = 1)
            <6>1. fresh' = fresh + One(fwd)
              BY <1>2, <1>16, <2>3, <5>2, SMTT(60)
            <6> QED BY <1>2, <1>5, <1>13, <1>16, <4>1, <6>1, SMTT(60)
          <5> QED BY <5>1, <5>2
        <4>3. ~(0 > 0)
          BY SMTT(60)
        <4> QED BY <4>1, <4>2, <4>3
      <3> QED BY <1>3, <3>1, <3>2, SMTT(60)
    <2> QED BY <1>11, <1>12, <1>17, <2>7 DEF Flights
  <1> QED BY <1>18, <1>19

\* A cycle takes the snapshot before anything new is forwarded.
LEMMA SnapshotCycle ==
  ASSUME Inv, NEW arrives \in BOOLEAN, PhasesMove(arrives), TypeOK',
         NEW f \in Chan, NEW n \in Nat, NEW m \in Nat, NEW put \in BOOLEAN,
         put => ~MEngaged(f), s_reset_recovery_event_m => m = 0, n = 0 /\ ~put => m = 0,
         ~sRst /\ MEngaged(f) => n = 0 \/ (pend /\ AllEngaged),
         sRst /\ ~Crossing => pend \/ (AllEngaged /\ n = 0)
  PROVE  /\ ~sRst' /\ MEngaged(f)' => m = 0 \/ (pend' /\ AllEngaged')
         /\ sRst' /\ ~Crossing' => pend' \/ (AllEngaged' /\ m = 0)
  <1>1. Phases
    BY DEF Inv
  <1>2. \A g \in Chan : Moved(ph[g], ph'[g])
    BY DEF PhasesMove
  <1>3. sRst' = sRst
    BY DEF PhasesMove
  <1>4. ASSUME ~sRst', MEngaged(f)' PROVE m = 0
    <2>1. ~sRst /\ ph[f] # "near"
      BY <1>1, <1>3, <1>4 DEF Phases
    <2>2. ph'[f] = "frozen" \/ ph'[f] = "thaw"
      BY <1>4 DEF MEngaged
    <2>3. MEngaged(f)
      BY <1>2, <2>1, <2>2 DEF Moved, MEngaged
    <2>4. n = 0 \/ s_reset_recovery_event_m
      BY <2>1, <2>3 DEF s_reset_recovery_event_m, AllEngaged
    <2> QED BY <2>3, <2>4
  <1>5. ASSUME sRst', ~Crossing', ~pend' PROVE AllEngaged' /\ m = 0
    <2>1. ~arrives /\ ~Crossing
      BY <1>5 DEF PhasesMove, Crossing
    <2>2. pend \/ (AllEngaged /\ n = 0)
      BY <1>3, <1>5, <2>1
    <2>3. pend => s_reset_recovery_event_m
      BY <1>5, <2>1 DEF PhasesMove
    <2>4. AllEngaged
      BY <2>2, <2>3 DEF s_reset_recovery_event_m, AllEngaged
    <2>5. \A g \in Chan : ph[g] = "frozen"
      BY <1>1, <1>3, <1>5, <2>4 DEF AllEngaged, MEngaged, Phases
    <2>6. \A g \in Chan : ph'[g] = "frozen"
      BY <1>2, <2>5 DEF Moved
    <2>7. AllEngaged'
      BY <2>6 DEF AllEngaged, MEngaged
    <2>8. ~put
      BY <2>4 DEF AllEngaged
    <2> QED BY <2>2, <2>3, <2>7, <2>8
  <1>6. pend' \in BOOLEAN
    BY DEF TypeOK
  <1> QED BY <1>4, <1>5, <1>6

\* Nothing in flight is older than the reset once the debt is paid and some
\* FIFO is back in service.
LEMMA AnsweredFresh ==
  ASSUME NEW p \in Phase, NEW ids \in Seq(Nat), ids # <<>>, NEW base \in Nat,
         NEW o \in Nat, NEW n \in Nat, o + n = Len(ids), o = 0,
         p \in {"frozen", "thaw"} => n = 0, p # "near", StaleAs(p, ids, base, o)
  PROVE  ids[1] >= base
  <1>1. Len(ids) > 0 /\ 1 \in 1 .. Len(ids) /\ n > 0
    BY SMTT(60)
  <1>2. p = "run"
    BY <1>1, SMTT(60) DEF Phase
  <1>3. ids[1] < base <=> 1 <= o
    BY <1>1, <1>2 DEF Sorted, StaleAs
  <1>4. ids[1] \in Nat
    BY <1>1, SMTT(60)
  <1> QED BY <1>3, <1>4, SMTT(60)

\* The counts after a cycle.
LEMMA FlightsFlown ==
  ASSUME Inv, NEW fwd \in BOOLEAN, NEW pop \in BOOLEAN, NEW w \in BOOLEAN,
         NEW b \in BOOLEAN, NEW ar \in BOOLEAN, NEW r \in BOOLEAN, NEW arrives \in BOOLEAN,
         After(fwd, pop, w, b, ar, r, arrives)
  PROVE  /\ FlownTo(old, fresh, old', fresh', s_reset_recovery_event_m, fwd, b)
         /\ FlownTo(r_old, r_fresh, r_old', r_fresh', s_reset_recovery_event_m, ar, done(r))
  <1>1. /\ TypeOK /\ Flights /\ SinkInv /\ ReadSinkInv
        /\ BurstsMove(fwd, b, ar, r) /\ CountsMove(fwd, w, b, ar, r) /\ Booleans(w, b, r)
    BY DEF Inv, After
  <1>2. /\ old \in Nat /\ fresh \in Nat /\ r_old \in Nat /\ r_fresh \in Nat
    BY <1>1 DEF SinkInv, SinkAt, ReadSinkInv
  <1>3. writes \in Seq(Nat) /\ reads \in Seq(Bursts)
    BY <1>1 DEF TypeOK
  <1>4. /\ s_reset_recovery_event_m \in BOOLEAN /\ done(r) \in BOOLEAN
        /\ Flown(old, fresh, old', fresh', s_reset_recovery_event_m, fwd, b)
        /\ Flown(r_old, r_fresh, r_old', r_fresh', s_reset_recovery_event_m, ar, done(r))
    BY <1>1 DEF CountsMove, Booleans
  <1>5. old + fresh = Len(writes) /\ r_old + r_fresh = Len(reads)
    BY <1>1 DEF Flights
  <1>6. (b => writes # <<>>) /\ (done(r) => reads # <<>>)
    BY <1>1 DEF BurstsMove
  <1>7. (b => old + fresh > 0) /\ (done(r) => r_old + r_fresh > 0)
    BY <1>3, <1>5, <1>6, SMTT(60)
  <1>8. FlownTo(old, fresh, old', fresh', s_reset_recovery_event_m, fwd, b)
    BY <1>2, <1>4, <1>7, FlownCount, SMTT(60)
  <1>9. FlownTo(r_old, r_fresh, r_old', r_fresh', s_reset_recovery_event_m, ar, done(r))
    BY <1>2, <1>4, <1>7, FlownCount, SMTT(60)
  <1> QED BY <1>8, <1>9

\* A cycle keeps the stale writes in front.
LEMMA StaleWCycle ==
  ASSUME Inv, NEW fwd \in BOOLEAN, NEW pop \in BOOLEAN, NEW w \in BOOLEAN,
         NEW b \in BOOLEAN, NEW ar \in BOOLEAN, NEW r \in BOOLEAN, NEW arrives \in BOOLEAN,
         After(fwd, pop, w, b, ar, r, arrives)
  PROVE  StaleW'
  <1> DEFINE ev == s_reset_recovery_event_m
  <1>1. /\ TypeOK /\ TypeOK' /\ Phases /\ StaleW /\ Flights /\ SinkInv
        /\ PhasesMove(arrives) /\ ChannelsMove(pop, w, b, ar, r)
        /\ BurstsMove(fwd, b, ar, r) /\ CountsMove(fwd, w, b, ar, r) /\ Booleans(w, b, r)
        /\ Handshakes(fwd, pop, w, b, ar, r) /\ StageEdge(pop, fwd)
    BY DEF Inv, After
  <1>2. /\ q["aw"] \in Seq(Nat) /\ q'["aw"] \in Seq(Nat) /\ q["b"] \in Seq(Nat)
        /\ q'["b"] \in Seq(Nat) /\ writes \in Seq(Nat) /\ writes' \in Seq(Nat)
        /\ stage \in Nat \cup {None}
    BY <1>1 DEF TypeOK
  <1>3. mst.base \in Nat
    BY <1>1 DEF TypeOK
  <1>4. /\ ph["aw"] \in Phase /\ ph["b"] \in Phase
        /\ "aw" \in Chan /\ "b" \in Chan
    BY <1>1 DEF TypeOK, Phase, Chan
  <1>5. /\ Moved(ph["aw"], ph'["aw"]) /\ Moved(ph["b"], ph'["b"])
        /\ mst' = mst /\ sRst' = sRst
    BY <1>1, <1>4 DEF PhasesMove
  <1>6. /\ QueuedAs(ph["aw"], q["aw"], mst.base) /\ AnswersAs(ph["b"], q["b"], mst.base)
        /\ StaleAs(ph["aw"], writes, mst.base, old)
        /\ ph["aw"] = "run" /\ stage # None => stage >= mst.base
        /\ ph["aw"] = "near" /\ stage # None => stage < mst.base
        /\ ~sRst /\ MEngaged("aw") => fresh = 0 \/ (pend /\ AllEngaged)
        /\ sRst /\ ~Crossing => pend \/ (AllEngaged /\ fresh = 0)
    BY <1>1 DEF StaleW, Queued, Answers, Stale, Snapshot
  <1>7. /\ old \in Nat /\ fresh \in Nat /\ old + fresh = Len(writes)
        /\ debt = old
    BY <1>1 DEF SinkInv, SinkAt, Flights
  <1>8. /\ ev \in BOOLEAN /\ kept(b) \in BOOLEAN
        /\ Flown(old, fresh, old', fresh', ev, fwd, b)
        /\ FlownTo(old, fresh, old', fresh', ev, fwd, b)
    <2>1. ev \in BOOLEAN /\ kept(b) \in BOOLEAN /\ Flown(old, fresh, old', fresh', ev, fwd, b)
      BY <1>1 DEF CountsMove, Booleans
    <2>2. FlownTo(old, fresh, old', fresh', ev, fwd, b)
      BY FlightsFlown, SMTT(60)
    <2> QED BY <2>1, <2>2
  <1>9. /\ fwd => ~MEngaged("aw") /\ stage # None /\ stage \in Nat
        /\ pop => q["aw"] # <<>>
        /\ b => writes # <<>>
        /\ kept(b) => writes # <<>> /\ ~MEngaged("b") /\ ~sinking
    BY <1>1 DEF Handshakes, ChannelsMove, BurstsMove, kept, b_full
  <1>10. ev => pend /\ \A f \in Chan : MEngaged(f)
    BY DEF s_reset_recovery_event_m
  <1>11. Queued("aw")'
    <2>1. /\ Freezes("aw") => q'["aw"] = <<>>
          /\ ~Freezes("aw") => Shift(q["aw"], q'["aw"], pop, FALSE, None)
      BY <1>1, <1>4 DEF ChannelsMove
    <2>2. QueuedAs(ph'["aw"], q'["aw"], mst.base)
      <3>1. /\ ph["aw"] = "near" /\ ph'["aw"] = "frozen" => q'["aw"] = <<>>
            /\ ~(ph["aw"] = "near" /\ ph'["aw"] = "frozen") =>
                  Shift(q["aw"], q'["aw"], pop, FALSE, None)
        BY <2>1 DEF Freezes
      <3>2. QueuedStep(ph["aw"], ph'["aw"], q["aw"], q'["aw"], pop, None, mst.base)
        BY <1>2, <1>3, <1>4, <1>5, <1>6, <1>9, <3>1 DEF QueuedStep
      <3> QED BY <3>2, QueuedMoves
    <2> QED BY <1>5, <2>2 DEF Queued
  <1>12. Answers("b")'
    <2>1. \A f \in {"b", "r"} : ph'[f] \in {"frozen", "thaw"} => q'[f] = <<>>
      <3>1. Phases'
        BY PhasesCycle, SMTT(60)
      <3> QED BY <3>1 DEF Phases, Chan
    <2>2. ph["b"] # "near" => Shift(q["b"], q'["b"], FALSE, kept(b), writes[1])
      BY <1>1 DEF ChannelsMove, Freezes
    <2>3. ph["b"] # "run" /\ ph["b"] # "near" => q["b"] = <<>> /\ ~kept(b)
      <3>1. ph["b"] # "run" /\ ph["b"] # "near" => ph["b"] = "frozen" \/ ph["b"] = "thaw"
        BY <1>4 DEF Phase
      <3> QED BY <1>1, <1>4, <1>9, <3>1 DEF Phases, MEngaged
    <2>4. kept(b) /\ ph["b"] = "run" => writes[1] >= mst.base
      <3> SUFFICES ASSUME kept(b), ph["b"] = "run" PROVE writes[1] >= mst.base
        OBVIOUS
      <3>1. old = 0 /\ writes # <<>>
        BY <1>7, <1>9 DEF sinking
      <3>2. ~sRst
        BY <1>1, <1>4 DEF Phases
      <3>3. ph["aw"] # "near"
        BY <1>1, <1>4, <3>2 DEF Phases
      <3>4. ~AllEngaged
        BY <1>4 DEF AllEngaged, MEngaged
      <3>5. ph["aw"] \in {"frozen", "thaw"} => fresh = 0
        BY <1>6, <3>2, <3>4 DEF MEngaged
      <3> QED BY <1>2, <1>3, <1>4, <1>6, <1>7, <3>1, <3>3, <3>5, AnsweredFresh
    <2>5. AnswersAs(ph'["b"], q'["b"], mst.base)
      <3>1. AnswersStep(ph["b"], ph'["b"], q["b"], q'["b"], kept(b), writes[1], mst.base)
        BY <1>2, <1>3, <1>4, <1>5, <1>6, <1>8, <2>1, <2>2, <2>3, <2>4 DEF AnswersStep
      <3> QED BY <3>1, AnswersMove
    <2> QED BY <1>5, <2>5 DEF Answers
  <1>13. Snapshot("aw", fresh)'
    <2>1. /\ ~sRst' /\ MEngaged("aw")' => fresh' = 0 \/ (pend' /\ AllEngaged')
          /\ sRst' /\ ~Crossing' => pend' \/ (AllEngaged' /\ fresh' = 0)
      <3>1. (ev => fresh' = 0) /\ (fresh = 0 /\ ~fwd => fresh' = 0) /\ fresh' \in Nat
        BY <1>8 DEF FlownTo
      <3>2. fwd => ~MEngaged("aw")
        BY <1>9
      <3> QED BY <1>1, <1>4, <1>6, <1>7, <3>1, <3>2, SnapshotCycle
    <2> QED BY <2>1 DEF Snapshot
  <1>14. Stale("aw", writes, old)'
    <2>1. Shift(writes, writes', b, fwd, stage)
      BY <1>1 DEF BurstsMove
    <2>2. fwd => /\ stage \in Nat /\ ph["aw"] \in {"run", "near"}
                 /\ (ph["aw"] = "run" => stage >= mst.base)
                 /\ (ph["aw"] = "near" => stage < mst.base)
      BY <1>4, <1>6, <1>9 DEF MEngaged, Phase
    <2>3. ev => ph["aw"] \in {"frozen", "thaw"}
      BY <1>4, <1>10 DEF MEngaged
    <2>4. ph["aw"] = "thaw" => fresh = 0 \/ ev
      <3> SUFFICES ASSUME ph["aw"] = "thaw" PROVE fresh = 0 \/ ev
        OBVIOUS
      <3>1. ~sRst /\ MEngaged("aw")
        BY <1>1, <1>4 DEF Phases, MEngaged
      <3> QED BY <1>6, <3>1 DEF AllEngaged, s_reset_recovery_event_m
    <2> HIDE DEF ev
    <2>5. StaleAs(ph'["aw"], writes', mst.base, old')
      <3>1. FlightsStep(ph["aw"], ph'["aw"], writes, writes', b, fwd, stage, mst.base,
                        old, fresh, old', fresh', ev)
        BY <1>2, <1>3, <1>4, <1>5, <1>6, <1>7, <1>8, <1>9, <2>1, <2>2, <2>3, <2>4
        DEF FlightsStep
      <3> QED BY <3>1, StaleMoves
    <2> QED BY <1>5, <2>5 DEF Stale
  <1>15. /\ ph'["aw"] = "run" /\ stage' # None => stage' >= mst.base
         /\ ph'["aw"] = "near" /\ stage' # None => stage' < mst.base
    <2>1. /\ ph'["aw"] = "run" => ph["aw"] = "run" \/ MEngaged("aw")
          /\ ph'["aw"] = "near" => ph["aw"] = "near"
      BY <1>5 DEF Moved, MEngaged
    <2>2. /\ ph["aw"] = "run" /\ pop => Head(q["aw"]) >= mst.base
          /\ ph["aw"] = "near" /\ pop => Head(q["aw"]) < mst.base
      <3>1. pop => Head(q["aw"]) = q["aw"][1] /\ 1 \in 1 .. Len(q["aw"])
        BY <1>2, <1>9, SMTT(60)
      <3> QED BY <1>6, <3>1 DEF QueuedAs
    <2> QED BY <1>1, <1>6, <2>1, <2>2 DEF StageEdge
  <1> QED BY <1>5, <1>11, <1>12, <1>13, <1>14, <1>15 DEF StaleW

\* A cycle does not touch the master.
LEMMA RestartCycle ==
  ASSUME Inv, NEW arrives \in BOOLEAN, PhasesMove(arrives)
  PROVE  Restart'
  BY DEF Inv, Restart, PhasesMove

\* A cycle keeps the stale reads in front.
LEMMA StaleRCycle ==
  ASSUME Inv, NEW fwd \in BOOLEAN, NEW pop \in BOOLEAN, NEW w \in BOOLEAN,
         NEW b \in BOOLEAN, NEW ar \in BOOLEAN, NEW r \in BOOLEAN, NEW arrives \in BOOLEAN,
         After(fwd, pop, w, b, ar, r, arrives)
  PROVE  StaleR'
  <1> DEFINE ev == s_reset_recovery_event_m
             d == done(r)
  <1>1. /\ TypeOK /\ TypeOK' /\ Phases /\ StaleR /\ Flights /\ ReadSinkInv
        /\ PhasesMove(arrives) /\ ChannelsMove(pop, w, b, ar, r)
        /\ BurstsMove(fwd, b, ar, r) /\ CountsMove(fwd, w, b, ar, r) /\ Booleans(w, b, r)
        /\ Handshakes(fwd, pop, w, b, ar, r)
    BY DEF Inv, After
  <1>2. /\ q["ar"] \in Seq(Nat) /\ q'["ar"] \in Seq(Nat) /\ q["r"] \in Seq(Nat)
        /\ q'["r"] \in Seq(Nat)
    BY <1>1 DEF TypeOK
  <1>3. /\ RIds \in Seq(Nat) /\ Len(RIds) = Len(reads)
        /\ reads # <<>> => RIds # <<>> /\ RIds[1] = reads[1].id
    <2>1. /\ RIds \in Seq(Nat) /\ Len(RIds) = Len(reads) /\ Len(reads) \in Nat
          /\ \A i \in 1 .. Len(reads) : RIds[i] = reads[i].id
          /\ reads # <<>> => RIds # <<>>
      BY <1>1, ReadIds
    <2>2. reads \in Seq(Bursts)
      BY <1>1 DEF TypeOK
    <2>3. reads # <<>> => 1 \in 1 .. Len(reads)
      BY <2>2, SMTT(60)
    <2> QED BY <2>1, <2>3
  <1>30. RIds' \in Seq(Nat)
    <2>1. reads' \in Seq(Bursts)
      BY <1>1 DEF TypeOK
    <2>2. Len(reads') \in Nat /\ \A i \in 1 .. Len(reads') : reads'[i] \in Bursts
      BY <2>1, Lengths
    <2>3. \A i \in 1 .. Len(reads') : reads'[i].id \in Nat
      BY <2>2 DEF Bursts
    <2>4. RIds' = [i \in 1 .. Len(reads') |-> reads'[i].id]
      BY DEF RIds
    <2> QED BY <2>2, <2>3, <2>4, SMTT(60)
  <1>4. /\ ph["ar"] \in Phase /\ ph["r"] \in Phase
        /\ "ar" \in Chan /\ "r" \in Chan /\ mst.base \in Nat
    BY <1>1 DEF TypeOK, Phase, Chan
  <1>5. /\ Moved(ph["ar"], ph'["ar"]) /\ Moved(ph["r"], ph'["r"])
        /\ mst' = mst /\ sRst' = sRst
    BY <1>1, <1>4 DEF PhasesMove
  <1>6. /\ QueuedAs(ph["ar"], q["ar"], mst.base) /\ AnswersAs(ph["r"], q["r"], mst.base)
        /\ StaleAs(ph["ar"], RIds, mst.base, r_old)
        /\ ~sRst /\ MEngaged("ar") => r_fresh = 0 \/ (pend /\ AllEngaged)
        /\ sRst /\ ~Crossing => pend \/ (AllEngaged /\ r_fresh = 0)
    BY <1>1 DEF StaleR, Queued, Answers, Stale, Snapshot
  <1>7. /\ r_old \in Nat /\ r_fresh \in Nat /\ r_old + r_fresh = Len(RIds)
        /\ r_debt = r_old
    BY <1>1, <1>3 DEF ReadSinkInv, SinkAt, Flights
  <1>8. /\ ev \in BOOLEAN /\ rkept(r) \in BOOLEAN /\ d \in BOOLEAN
        /\ Flown(r_old, r_fresh, r_old', r_fresh', ev, ar, d)
        /\ FlownTo(r_old, r_fresh, r_old', r_fresh', ev, ar, d)
    <2>1. /\ ev \in BOOLEAN /\ rkept(r) \in BOOLEAN /\ d \in BOOLEAN
          /\ Flown(r_old, r_fresh, r_old', r_fresh', ev, ar, d)
      BY <1>1 DEF CountsMove, Booleans
    <2>2. FlownTo(r_old, r_fresh, r_old', r_fresh', ev, ar, done(r))
      BY FlightsFlown, SMTT(60)
    <2> QED BY <2>1, <2>2
  <1>9. /\ ar => ~MEngaged("ar") /\ q["ar"] # <<>> /\ q["ar"][1] \in Nat
        /\ d => RIds # <<>>
        /\ rkept(r) => reads # <<>> /\ ~MEngaged("r") /\ ~RSink!sinking
    BY <1>1, <1>3 DEF Handshakes, ChannelsMove, BurstsMove, rkept, r_full
  <1>10. ev => pend /\ \A f \in Chan : MEngaged(f)
    BY DEF s_reset_recovery_event_m
  <1>11. Queued("ar")'
    <2>1. /\ Freezes("ar") => q'["ar"] = <<>>
          /\ ~Freezes("ar") => Shift(q["ar"], q'["ar"], ar, FALSE, None)
      BY <1>1, <1>4 DEF ChannelsMove
    <2>2. /\ ph["ar"] = "near" /\ ph'["ar"] = "frozen" => q'["ar"] = <<>>
          /\ ~(ph["ar"] = "near" /\ ph'["ar"] = "frozen") =>
                Shift(q["ar"], q'["ar"], ar, FALSE, None)
      BY <2>1 DEF Freezes
    <2>3. QueuedStep(ph["ar"], ph'["ar"], q["ar"], q'["ar"], ar, None, mst.base)
      BY <1>2, <1>4, <1>5, <1>6, <1>9, <2>2 DEF QueuedStep
    <2>4. QueuedAs(ph'["ar"], q'["ar"], mst.base)
      BY <2>3, QueuedMoves
    <2> QED BY <1>5, <2>4 DEF Queued
  <1>12. Answers("r")'
    <2>1. \A f \in {"b", "r"} : ph'[f] \in {"frozen", "thaw"} => q'[f] = <<>>
      <3>1. Phases'
        BY PhasesCycle, SMTT(60)
      <3> QED BY <3>1 DEF Phases, Chan
    <2>2. ph["r"] # "near" => Shift(q["r"], q'["r"], FALSE, rkept(r), reads[1].id)
      BY <1>1 DEF ChannelsMove, Freezes
    <2>3. ph["r"] # "run" /\ ph["r"] # "near" => q["r"] = <<>> /\ ~rkept(r)
      <3>1. ph["r"] # "run" /\ ph["r"] # "near" => ph["r"] = "frozen" \/ ph["r"] = "thaw"
        BY <1>4 DEF Phase
      <3> QED BY <1>1, <1>4, <1>9, <3>1 DEF Phases, MEngaged
    <2>4. rkept(r) /\ ph["r"] = "run" => reads[1].id >= mst.base
      <3> SUFFICES ASSUME rkept(r), ph["r"] = "run" PROVE RIds[1] >= mst.base
        BY <1>3, <1>9
      <3>1. r_old = 0 /\ RIds # <<>>
        BY <1>3, <1>7, <1>9 DEF RSink!sinking
      <3>2. ~sRst
        BY <1>1, <1>4 DEF Phases
      <3>3. ph["ar"] # "near"
        BY <1>1, <1>4, <3>2 DEF Phases
      <3>4. ~AllEngaged
        BY <1>4 DEF AllEngaged, MEngaged
      <3>5. ph["ar"] \in {"frozen", "thaw"} => r_fresh = 0
        BY <1>6, <3>2, <3>4 DEF MEngaged
      <3> QED BY <1>3, <1>4, <1>6, <1>7, <3>1, <3>3, <3>5, AnsweredFresh
    <2>5. AnswersStep(ph["r"], ph'["r"], q["r"], q'["r"], rkept(r), reads[1].id, mst.base)
      BY <1>2, <1>4, <1>5, <1>6, <1>8, <2>1, <2>2, <2>3, <2>4 DEF AnswersStep
    <2>6. AnswersAs(ph'["r"], q'["r"], mst.base)
      BY <2>5, AnswersMove
    <2> QED BY <1>5, <2>6 DEF Answers
  <1>13. Snapshot("ar", r_fresh)'
    <2>1. (ev => r_fresh' = 0) /\ (r_fresh = 0 /\ ~ar => r_fresh' = 0) /\ r_fresh' \in Nat
      BY <1>8 DEF FlownTo
    <2>2. ar => ~MEngaged("ar")
      BY <1>9
    <2>3. /\ ~sRst' /\ MEngaged("ar")' => r_fresh' = 0 \/ (pend' /\ AllEngaged')
          /\ sRst' /\ ~Crossing' => pend' \/ (AllEngaged' /\ r_fresh' = 0)
      BY <1>1, <1>4, <1>6, <1>7, <2>1, <2>2, SnapshotCycle
    <2> QED BY <2>3 DEF Snapshot
  <1>14. Stale("ar", RIds, r_old)'
    <2>1. Shift(RIds, RIds', d, ar, q["ar"][1])
      BY <1>1 DEF BurstsMove
    <2>2. ar => /\ q["ar"][1] \in Nat /\ ph["ar"] \in {"run", "near"}
                /\ (ph["ar"] = "run" => q["ar"][1] >= mst.base)
                /\ (ph["ar"] = "near" => q["ar"][1] < mst.base)
      <3>1. ar => 1 \in 1 .. Len(q["ar"])
        BY <1>2, <1>9, SMTT(60)
      <3> QED BY <1>4, <1>6, <1>9, <3>1 DEF MEngaged, Phase, QueuedAs
    <2>3. ev => ph["ar"] \in {"frozen", "thaw"}
      BY <1>4, <1>10 DEF MEngaged
    <2>4. ph["ar"] = "thaw" => r_fresh = 0 \/ ev
      <3> SUFFICES ASSUME ph["ar"] = "thaw" PROVE r_fresh = 0 \/ ev
        OBVIOUS
      <3>1. ~sRst /\ MEngaged("ar")
        BY <1>1, <1>4 DEF Phases, MEngaged
      <3> QED BY <1>6, <3>1 DEF AllEngaged, s_reset_recovery_event_m
    <2> HIDE DEF ev, d
    <2>5. FlightsStep(ph["ar"], ph'["ar"], RIds, RIds', d, ar, q["ar"][1], mst.base,
                      r_old, r_fresh, r_old', r_fresh', ev)
      BY <1>3, <1>30, <1>4, <1>5, <1>6, <1>7, <1>8, <1>9, <2>1, <2>2, <2>3, <2>4
      DEF FlightsStep
    <2>6. StaleAs(ph'["ar"], RIds', mst.base, r_old')
      BY <2>5, StaleMoves
    <2> QED BY <1>5, <2>6 DEF Stale
  <1> QED BY <1>11, <1>12, <1>13, <1>14 DEF StaleR

\* A cycle keeps the queued bursts consecutive.
LEMMA AwOrderCycle ==
  ASSUME Inv, NEW fwd \in BOOLEAN, NEW pop \in BOOLEAN, NEW w \in BOOLEAN,
         NEW b \in BOOLEAN, NEW ar \in BOOLEAN, NEW r \in BOOLEAN, NEW arrives \in BOOLEAN,
         After(fwd, pop, w, b, ar, r, arrives)
  PROVE  AwOrder'
  <1>1. /\ TypeOK /\ TypeOK' /\ Phases /\ AwOrder
        /\ PhasesMove(arrives) /\ ChannelsMove(pop, w, b, ar, r)
        /\ Handshakes(fwd, pop, w, b, ar, r) /\ StageEdge(pop, fwd)
    BY DEF Inv, After
  <1>2. /\ q["aw"] \in Seq(Nat) /\ q'["aw"] \in Seq(Nat)
        /\ stage \in Nat \cup {None} /\ sRst \in BOOLEAN /\ mst.aw \in Nat
    BY <1>1 DEF TypeOK
  <1>3. sRst' = sRst /\ mst' = mst /\ "aw" \in Chan
    BY <1>1 DEF PhasesMove, Chan
  <1>4. AwOrderAs(q["aw"], mst.aw, sRst, stage, MEngaged("aw"))
    BY <1>1 DEF AwOrder, AwOrderAs, AwHead, HeadOr
  <1>5. SUFFICES AwOrderAs(q'["aw"], mst.aw, sRst, stage', MEngaged("aw")')
    BY <1>3 DEF AwOrder, AwOrderAs, AwHead, HeadOr
  <1>7. CASE Freezes("aw")
    <2>1. q'["aw"] = <<>> /\ MEngaged("aw")' /\ sRst
      BY <1>1, <1>3, <1>7 DEF ChannelsMove, Freezes, MEngaged, Phases
    <2>2. Len(q'["aw"]) = 0
      BY <2>1, SMTT(60)
    <2>3. \A i \in 1 .. Len(q'["aw"]) : FALSE
      BY <2>2, SMTT(60)
    <2> QED BY <2>1, <2>3 DEF AwOrderAs
  <1>8. CASE ~Freezes("aw")
    <2>1. Shift(q["aw"], q'["aw"], pop, FALSE, None)
      BY <1>1, <1>8 DEF ChannelsMove
    <2>2. pop => q["aw"] # <<>> /\ ~MEngaged("aw")
      BY <1>1 DEF Handshakes
    <2>3. pop => Head(q["aw"]) = q["aw"][1]
      BY <1>2, <2>2, SMTT(60)
    <2>4. stage' = IF MEngaged("aw") THEN None ELSE IF pop THEN q["aw"][1]
                   ELSE IF fwd THEN None ELSE stage
      BY <1>1, <2>3 DEF StageEdge
    <2>5. AwStep(q["aw"], q'["aw"], pop, fwd, mst.aw, sRst, stage, stage', MEngaged("aw"))
      BY <1>2, <1>4, <2>1, <2>2, <2>4 DEF AwStep
    <2> QED BY <2>5, AwOrderMoves
  <1> QED BY <1>7, <1>8

\* A cycle keeps the queued beats consecutive.
LEMMA WOrderCycle ==
  ASSUME Inv, NEW fwd \in BOOLEAN, NEW pop \in BOOLEAN, NEW w \in BOOLEAN,
         NEW b \in BOOLEAN, NEW ar \in BOOLEAN, NEW r \in BOOLEAN, NEW arrives \in BOOLEAN,
         After(fwd, pop, w, b, ar, r, arrives)
  PROVE  WOrder'
  <1>1. /\ TypeOK /\ TypeOK' /\ WOrder
        /\ PhasesMove(arrives) /\ ChannelsMove(pop, w, b, ar, r) /\ Booleans(w, b, r)
    BY DEF Inv, After
  <1>2. q["w"] \in Seq(WBeats) /\ q'["w"] \in Seq(WBeats) /\ real(w) \in BOOLEAN
    BY <1>1 DEF TypeOK, Booleans
  <1>3. sRst' = sRst /\ mst' = mst /\ scn' = scn /\ "w" \in Chan
    BY <1>1 DEF PhasesMove, Chan
  <1>4. /\ WOrderAs(q["w"], scn.beats, sRst, mst.w, mst.sent + 1)
        /\ mst.sent > 0 => mst.w \in 1 .. Len(scn.beats) /\ mst.sent < scn.beats[mst.w]
    BY <1>1 DEF WOrder, WOrderAs
  <1>5. SUFFICES WOrderAs(q'["w"], scn.beats, sRst, mst.w, mst.sent + 1)
    BY <1>3, <1>4 DEF WOrder, WOrderAs
  <1>6. CASE Freezes("w")
    <2>1. q'["w"] = <<>>
      BY <1>1, <1>3, <1>6 DEF ChannelsMove
    <2>2. (\A i \in 1 .. Len(q'["w"]) : FALSE) /\ \A i \in 1 .. Len(q'["w"]) - 1 : FALSE
      BY <2>1, SMTT(60)
    <2> QED BY <2>1, <2>2 DEF WOrderAs
  <1>7. CASE ~Freezes("w")
    <2>1. Shift(q["w"], q'["w"], real(w), FALSE, None) /\ (real(w) => q["w"] # <<>>)
      BY <1>1, <1>7 DEF ChannelsMove
    <2> QED BY <1>2, <1>4, <2>1, WOrderMoves
  <1> QED BY <1>6, <1>7
=============================================================================
