---------------------------- MODULE BridgeProofs ----------------------------
(***************************************************************************)
(* The flow of writes and the pairing of beats with bursts survive an edge *)
(* of the memory clock; with it, Inv is inductive and gives the three      *)
(* safety properties of AxiBridge.                                         *)
(***************************************************************************)
EXTENDS BridgeSideProofs, BridgeEdgeProofs

\* A leaf is Zenon's unless it names the SMT solver.
USE ZenonT(30)

\* The next burst to be forwarded moves on when one is.
LEMMA NextAwCycle ==
  ASSUME Inv, NEW fwd \in BOOLEAN, NEW pop \in BOOLEAN, NEW w \in BOOLEAN,
         NEW b \in BOOLEAN, NEW ar \in BOOLEAN, NEW r \in BOOLEAN, NEW arrives \in BOOLEAN,
         After(fwd, pop, w, b, ar, r, arrives), Alive'
  PROVE  Alive /\ NextAw \in Nat /\ NextAw' = NextAw + One(fwd)
  <1>1. /\ TypeOK /\ TypeOK' /\ Phases /\ AwOrder
        /\ PhasesMove(arrives) /\ ChannelsMove(pop, w, b, ar, r)
        /\ Handshakes(fwd, pop, w, b, ar, r) /\ StageEdge(pop, fwd)
    BY DEF Inv, After
  <1>2. /\ q["aw"] \in Seq(Nat) /\ q'["aw"] \in Seq(Nat)
        /\ stage \in Nat \cup {None} /\ mst.aw \in Nat /\ None \notin Nat
    BY <1>1, BridgeAssumption DEF TypeOK
  <1>3. /\ sRst' = sRst /\ mst' = mst /\ "aw" \in Chan
        /\ Moved(ph["aw"], ph'["aw"]) /\ ph["aw"] \in Phase
    BY <1>1 DEF PhasesMove, Chan, TypeOK, Phase
  <1>4. ~Freezes("aw")
    <2> SUFFICES ASSUME Freezes("aw") PROVE FALSE
      OBVIOUS
    <2>1. sRst /\ ph'["aw"] = "frozen"
      BY <1>1, <1>3 DEF Freezes, Phases
    <2> QED BY <1>3, <2>1 DEF Alive
  <1>5. Shift(q["aw"], q'["aw"], pop, FALSE, None)
    BY <1>1, <1>4 DEF ChannelsMove
  <1>6. ~pop => q'["aw"] = q["aw"]
    BY <1>2, <1>5, Unshifted
  <1>7. /\ pop => q["aw"] # <<>> /\ ~MEngaged("aw") /\ (stage = None \/ fwd)
        /\ fwd => stage # None /\ ~MEngaged("aw")
    BY <1>1 DEF Handshakes
  <1>8. q["aw"] # <<>> => Head(q["aw"]) = q["aw"][1] /\ q["aw"][1] \in Nat
    BY <1>2, SMTT(60)
  <1>9. AwHead \in Nat
    BY <1>2, <1>8 DEF AwHead
  <1>10. NextAw \in Nat
    BY <1>2, <1>9 DEF NextAw
  <1>11. ~MEngaged("aw") => ph'["aw"] = ph["aw"] /\ ~MEngaged("aw")'
    BY <1>3, <1>4 DEF Moved, MEngaged, Freezes
  <1>12. Alive
    <2> SUFFICES ASSUME sRst PROVE Alive
      BY DEF Alive
    <2>1. ph'["aw"] = "near" /\ (stage' # None \/ q'["aw"] # <<>>)
      BY <1>3 DEF Alive
    <2>2. ph["aw"] = "near"
      BY <1>3, <2>1 DEF Moved
    <2> QED BY <1>1, <1>6, <1>7, <2>1, <2>2 DEF Alive, StageEdge
  <1>13. stage # None /\ ~MEngaged("aw") /\ (sRst => q["aw"] # <<>>) => AwHead = stage + 1
    BY <1>1 DEF AwOrder
  <1>14. CASE MEngaged("aw")
    <2>1. ~fwd /\ ~pop /\ stage' = None
      BY <1>1, <1>7, <1>14 DEF StageEdge
    <2>2. NextAw' = AwHead' /\ NextAw = AwHead /\ AwHead' = AwHead
      BY <1>3, <1>6, <1>14, <2>1 DEF NextAw, AwHead
    <2>3. One(fwd) = 0
      BY <2>1 DEF One
    <2> QED BY <1>10, <1>12, <2>2, <2>3, SMTT(60)
  <1>15. CASE ~MEngaged("aw") /\ pop
    <2>1. stage' = q["aw"][1] /\ stage' # None /\ stage' = AwHead
      BY <1>1, <1>2, <1>7, <1>8, <1>15 DEF StageEdge, AwHead
    <2>2. NextAw' = AwHead
      BY <1>11, <1>15, <2>1 DEF NextAw
    <2>3. CASE fwd
      <3>1. NextAw = stage /\ AwHead = stage + 1 /\ One(fwd) = 1
        BY <1>7, <1>13, <1>15, <2>3 DEF NextAw, One
      <3> QED BY <1>10, <1>12, <2>2, <3>1
    <2>4. CASE ~fwd
      <3>1. NextAw = AwHead /\ One(fwd) = 0
        BY <1>7, <1>15, <2>4 DEF NextAw, One
      <3> QED BY <1>10, <1>12, <2>2, <3>1, SMTT(60)
    <2> QED BY <2>3, <2>4
  <1>16. CASE ~MEngaged("aw") /\ ~pop
    <2>1. AwHead' = AwHead /\ q'["aw"] = q["aw"]
      BY <1>3, <1>6, <1>16 DEF AwHead
    <2>2. CASE fwd
      <3>1. stage' = None /\ stage # None
        BY <1>1, <1>7, <1>16, <2>2 DEF StageEdge
      <3>2. sRst => q["aw"] # <<>>
        BY <1>3, <2>1, <3>1 DEF Alive
      <3>3. NextAw' = AwHead /\ NextAw = stage /\ AwHead = stage + 1 /\ One(fwd) = 1
        BY <1>13, <1>16, <2>1, <2>2, <3>1, <3>2 DEF NextAw, One
      <3> QED BY <1>10, <1>12, <3>3
    <2>3. CASE ~fwd
      <3>1. stage' = stage
        BY <1>1, <1>16, <2>3 DEF StageEdge
      <3>2. NextAw' = NextAw /\ One(fwd) = 0
        BY <1>11, <1>16, <2>1, <2>3, <3>1 DEF NextAw, One
      <3> QED BY <1>10, <1>12, <3>2, SMTT(60)
    <2> QED BY <2>2, <2>3
  <1> QED BY <1>14, <1>15, <1>16

\* A snapshot that is due is taken on the next edge.
LEMMA ArmedCycle ==
  ASSUME Inv, NEW arrives \in BOOLEAN, PhasesMove(arrives)
  PROVE  /\ ~s_reset_recovery_event_m => ~Armed
         /\ ~Armed'
  <1>1. Phases
    BY DEF Inv
  <1>2. ~s_reset_recovery_event_m => ~Armed
    BY DEF Armed, AllEngaged, s_reset_recovery_event_m
  <1>3. ASSUME Armed' PROVE FALSE
    <2>1. ~sRst /\ pend' /\ \A f \in Chan : MEngaged(f)'
      BY <1>3 DEF Armed, AllEngaged, PhasesMove
    <2>2. \A f \in Chan : ph[f] # "near" /\ Moved(ph[f], ph'[f])
      BY <1>1, <2>1 DEF Phases, PhasesMove
    <2>3. \A f \in Chan : MEngaged(f)
      BY <2>1, <2>2 DEF MEngaged, Moved
    <2>4. ~arrives
      <3> SUFFICES ASSUME arrives PROVE FALSE
        OBVIOUS
      <3>1. Crossing
        BY DEF PhasesMove
      <3>2. "aw" \in Chan
        BY DEF Chan
      <3>3. ph["aw"] = "run"
        BY <1>1, <2>1, <3>1, <3>2 DEF Phases
      <3> QED BY <2>3, <3>2, <3>3 DEF MEngaged
    <2> QED BY <2>1, <2>3, <2>4 DEF PhasesMove, s_reset_recovery_event_m
  <1> QED BY <1>2, <1>3

\* The snapshot abandons every burst: the pairing starts afresh.
LEMMA EventCycle ==
  ASSUME Inv, NEW fwd \in BOOLEAN, NEW pop \in BOOLEAN, NEW w \in BOOLEAN,
         NEW b \in BOOLEAN, NEW ar \in BOOLEAN, NEW r \in BOOLEAN, NEW arrives \in BOOLEAN,
         After(fwd, pop, w, b, ar, r, arrives), s_reset_recovery_event_m
  PROVE  Flow' /\ Pairs'
  <1>1. /\ TypeOK /\ TypeOK' /\ Phases /\ Pairs /\ PadInv' /\ SinkInv'
        /\ PhasesMove(arrives) /\ ChannelsMove(pop, w, b, ar, r)
        /\ Handshakes(fwd, pop, w, b, ar, r) /\ StageEdge(pop, fwd)
        /\ CountsMove(fwd, w, b, ar, r)
    BY DEF Inv, After
  <1>2. pend /\ AllEngaged /\ MEngaged("aw") /\ MEngaged("w") /\ "w" \in Chan /\ "aw" \in Chan
    BY DEF s_reset_recovery_event_m, AllEngaged, Chan
  <1>3. /\ q["aw"] \in Seq(Nat) /\ q'["aw"] \in Seq(Nat)
        /\ q["w"] \in Seq(WBeats) /\ q'["w"] \in Seq(WBeats)
    BY <1>1 DEF TypeOK
  <1>4. ~Armed'
    BY <1>1, ArmedCycle
  <1>5. fresh' = 0 /\ left' = Len(owed')
    BY <1>1 DEF CountsMove, Flown
  <1>6. Len(owed') \in Nat
    <2>1. owed' \in Seq(Beats)
      BY <1>1 DEF PadInv, PadTypeOK
    <2> QED BY <2>1, Lengths
  <1>7. Unfed' = 0
    BY <1>5, <1>6, SMTT(60) DEF Unfed
  <1>8. Flow'
    <2>1. (\A j \in 0 .. fresh' - 1 : FALSE) /\ ~(fresh' > 0)
      BY <1>5, SMTT(60)
    <2>2. \A k \in left' + 2 .. Len(owed') : FALSE
      BY <1>5, <1>6, SMTT(60)
    <2> QED BY <2>1, <2>2 DEF Flow
  <1>9. ~fwd /\ ~pop /\ ~real(w)
    BY <1>1, <1>2 DEF Handshakes, real, m_wvalid, m_wvalid_i
  <1>10. q'["aw"] = q["aw"] /\ q'["w"] = q["w"]
    <2>1. ~Freezes("aw") /\ ~Freezes("w")
      BY <1>2 DEF MEngaged, Freezes
    <2>2. /\ Shift(q["aw"], q'["aw"], pop, FALSE, None)
          /\ Shift(q["w"], q'["w"], real(w), FALSE, None)
      BY <1>1, <2>1 DEF ChannelsMove
    <2>3. q'["aw"] = q["aw"]
      BY <1>3, <1>9, <2>2, Unshifted
    <2>4. q'["w"] = q["w"]
      BY <1>3, <1>9, <2>2, Unshifted
    <2> QED BY <2>3, <2>4
  <1>11. stage' = None /\ mst' = mst /\ sRst' = sRst
    BY <1>1, <1>2 DEF StageEdge, PhasesMove
  <1>12. NextAw' = NextAw /\ NextW' = NextW /\ NextNo' = NextNo
    BY <1>2, <1>10, <1>11 DEF NextAw, NextW, NextNo, AwHead
  <1>13. ~sRst => NextW = NextAw /\ NextNo = 1
    BY <1>1, <1>2 DEF Pairs, Armed
  <1>14. ph'["w"] # "near"
    <2>1. Moved(ph["w"], ph'["w"])
      BY <1>1, <1>2 DEF PhasesMove
    <2> QED BY <1>2, <2>1 DEF MEngaged, Moved
  <1>15. Pairs'
    <2>1. ~(Unfed' > 0)
      BY <1>7, SMTT(60)
    <2>2. (sRst' => ph'["w"] = "near" /\ q'["w"] # <<>>) => ~sRst
      BY <1>11, <1>14
    <2> QED BY <1>4, <1>12, <1>13, <2>1, <2>2 DEF Pairs
  <1> QED BY <1>8, <1>15

\* The bursts of this life at the slave after a cycle.
WritesRun(fwd) ==
  /\ \A j \in 0 .. fresh' - 1 : writes'[Len(writes') - j] = writes'[Len(writes')] - j
  /\ fwd => LastOf(writes') = stage /\ Alive /\ NextAw = stage /\ stage \in Nat
  /\ fwd /\ fresh > 0 => NextAw = LastOf(writes) + 1
  /\ ~fwd /\ fresh' > 0 => fresh > 0 /\ LastOf(writes') = LastOf(writes)

\* They stay consecutive.
LEMMA LastCycle ==
  ASSUME Inv, NEW fwd \in BOOLEAN, NEW pop \in BOOLEAN, NEW w \in BOOLEAN,
         NEW b \in BOOLEAN, NEW ar \in BOOLEAN, NEW r \in BOOLEAN, NEW arrives \in BOOLEAN,
         After(fwd, pop, w, b, ar, r, arrives), ~s_reset_recovery_event_m
  PROVE  WritesRun(fwd)
  <1>1. /\ TypeOK /\ TypeOK' /\ Phases /\ Flow /\ Flights /\ SinkInv /\ SinkInv'
        /\ PhasesMove(arrives) /\ BurstsMove(fwd, b, ar, r)
        /\ Handshakes(fwd, pop, w, b, ar, r)
    BY DEF Inv, After
  <1>2. Flights'
    BY FlightsCycle, SMTT(60)
  <1>3. writes \in Seq(Nat) /\ writes' \in Seq(Nat) /\ ph["aw"] \in Phase
    BY <1>1 DEF TypeOK, Phase, Chan
  <1>4. /\ old \in Nat /\ fresh \in Nat /\ old' \in Nat /\ fresh' \in Nat
        /\ old + fresh = Len(writes) /\ old' + fresh' = Len(writes')
    BY <1>1, <1>2 DEF SinkInv, SinkAt, Flights
  <1>5. /\ LastOf(writes) \in Nat /\ (writes # <<>> => LastOf(writes) = writes[Len(writes)])
        /\ Len(writes) \in Nat /\ (Len(writes) > 0 <=> writes # <<>>)
    BY <1>3, LastOfSeq
  <1>6. /\ LastOf(writes') \in Nat
        /\ (writes' # <<>> => LastOf(writes') = writes'[Len(writes')])
        /\ Len(writes') \in Nat /\ (Len(writes') > 0 <=> writes' # <<>>)
    BY <1>3, LastOfSeq
  <1>7. /\ Shift(writes, writes', b, fwd, stage) /\ (b => writes # <<>>)
        /\ fwd => stage \in Nat
    BY <1>1 DEF BurstsMove
  <1>8. FlownTo(old, fresh, old', fresh', s_reset_recovery_event_m, fwd, b)
    BY FlightsFlown, SMTT(60)
  <1>9. fresh' <= fresh + One(fwd) /\ (fresh = 0 /\ ~fwd => fresh' = 0)
    BY <1>8 DEF FlownTo
  <1>10. fwd => Alive /\ NextAw = stage
    <2> SUFFICES ASSUME fwd PROVE Alive /\ NextAw = stage
      OBVIOUS
    <2>1. stage # None /\ ~MEngaged("aw")
      BY <1>1 DEF Handshakes
    <2>2. sRst => ph["aw"] = "near"
      BY <1>1, <2>1 DEF Phases, MEngaged, Chan
    <2> QED BY <2>1, <2>2 DEF Alive, NextAw
  <1>11. ~Armed
    BY <1>1, ArmedCycle
  <1>12. fresh > 0 => writes # <<>> /\ LastOf(writes) = Last /\ LastOf(writes) = writes[Len(writes)]
    <2>1. fresh > 0 => Len(writes) > 0
      BY <1>4, <1>5, SMTT(60)
    <2> QED BY <1>5, <2>1 DEF Last
  <1>13. fwd /\ fresh > 0 => NextAw = LastOf(writes) + 1
    BY <1>1, <1>10, <1>11, <1>12 DEF Flow
  <1>14. \A j \in 0 .. fresh - 1 : writes[Len(writes) - j] = writes[Len(writes)] - j
    BY <1>1 DEF Flow, Last
  <1>15. fresh <= Len(writes) /\ fresh' <= Len(writes')
    BY <1>4, <1>5, <1>6, SMTT(60)
  <1>16. fwd /\ fresh > 0 => stage = writes[Len(writes)] + 1
    BY <1>10, <1>12, <1>13
  <1>17. /\ \A j \in 0 .. fresh' - 1 : writes'[Len(writes') - j] = writes'[Len(writes')] - j
         /\ fwd => writes'[Len(writes')] = stage
         /\ ~fwd /\ fresh' > 0 => writes'[Len(writes')] = writes[Len(writes)]
    <2>1. RunStep(writes, writes', b, fwd, stage, fresh, fresh')
      BY <1>3, <1>4, <1>7, <1>9, <1>14, <1>15, <1>16 DEF RunStep
    <2>2. RunKept(writes, writes', fwd, stage, fresh')
      BY <2>1, RunMoves
    <2> QED BY <2>2 DEF RunKept
  <1>18. fwd => writes' # <<>>
    <2>1. Len(writes') = Len(writes) - One(b) + One(fwd)
      BY <1>7 DEF Shift
    <2>2. b => Len(writes) > 0
      BY <1>5, <1>7
    <2> HIDE DEF One
    <2>3. ASSUME fwd PROVE Len(writes') > 0
      <3>1. One(fwd) = 1 /\ One(b) \in 0 .. 1 /\ (b => One(b) = 1) /\ (~b => One(b) = 0)
        BY <2>3, OneBit
      <3>2. CASE b
        <4>1. Len(writes) > 0 /\ One(b) = 1
          BY <2>2, <3>1, <3>2
        <4> QED BY <1>5, <2>1, <3>1, <4>1, SMTT(60)
      <3>3. CASE ~b
        <4>1. One(b) = 0
          BY <3>1, <3>3
        <4> QED BY <1>5, <2>1, <3>1, <4>1, SMTT(60)
      <3> QED BY <3>2, <3>3
    <2>4. fwd => Len(writes') > 0
      BY <2>3
    <2> QED BY <1>6, <2>4
  <1>19. ~fwd /\ fresh' > 0 => fresh > 0 /\ writes' # <<>>
    <2>1. fresh' > 0 => Len(writes') > 0
      BY <1>4, <1>6, SMTT(60)
    <2>2. fresh' > 0 => fresh' # 0
      BY SMTT(60)
    <2>3. fresh # 0 => fresh > 0
      BY <1>4, SMTT(60)
    <2> QED BY <1>6, <1>9, <2>1, <2>2, <2>3
  <1> QED BY <1>6, <1>7, <1>10, <1>12, <1>13, <1>17, <1>18, <1>19 DEF WritesRun

\* What this cycle feeds the slave.
FeedNow(fwd, w) == Fedding(owed, owed', w, fwd, burst_len(fwd), left, left', scn.beats,
                           LastOf(writes), LastOf(writes'), NextAw)

\* A cycle feeds the slave so.
LEMMA FeddingCycle ==
  ASSUME Inv, NEW fwd \in BOOLEAN, NEW pop \in BOOLEAN, NEW w \in BOOLEAN,
         NEW b \in BOOLEAN, NEW ar \in BOOLEAN, NEW r \in BOOLEAN, NEW arrives \in BOOLEAN,
         After(fwd, pop, w, b, ar, r, arrives), ~s_reset_recovery_event_m
  PROVE  FeedNow(fwd, w)
  <1>1. /\ TypeOK /\ Flow /\ Flights /\ PadInv /\ PadInv' /\ SinkInv /\ SinkInv'
        /\ CountsMove(fwd, w, b, ar, r)
    BY DEF Inv, After
  <1>2. Flights'
    BY FlightsCycle, SMTT(60)
  <1>3. /\ owed \in Seq(Beats) /\ owed' \in Seq(Beats) /\ left \in Nat /\ left' \in Nat
        /\ fresh \in Nat /\ fresh' \in Nat /\ writes \in Seq(Nat)
    BY <1>1 DEF PadInv, PadTypeOK, SinkInv, SinkAt, TypeOK
  <1>4. Len(owed) \in Nat /\ Len(owed') \in Nat
    BY <1>3, Lengths
  <1>5. /\ Len(owed) <= Len(writes)
        /\ left = 0 => Len(owed) <= fresh
        /\ left > 0 => left + fresh = Len(owed)
        /\ left' = 0 => Len(owed') <= fresh'
        /\ left' > 0 => left' + fresh' = Len(owed')
    BY <1>1, <1>2 DEF Flights
  <1>6. left <= Len(owed)
    BY <1>3, <1>4, <1>5, SMTT(60)
  <1>7. (Len(owed) > left => fresh > 0) /\ (Len(owed') > left' => fresh' > 0)
    <2>1. ASSUME NEW a \in Nat, NEW l \in Nat, NEW n \in Nat, l = 0 => a <= n, l > 0 => l + n = a,
                 a > l
          PROVE  n > 0
      BY <2>1, SMTT(60)
    <2>2. Len(owed) > left => fresh > 0
      BY <1>3, <1>4, <1>5, <2>1
    <2>3. Len(owed') > left' => fresh' > 0
      BY <1>3, <1>4, <1>5, <2>1
    <2> QED BY <2>2, <2>3
  <1>8. /\ fwd => LastOf(writes') = stage /\ Alive /\ NextAw = stage /\ stage \in Nat
        /\ fwd /\ fresh > 0 => NextAw = LastOf(writes) + 1
        /\ ~fwd /\ fresh' > 0 => fresh > 0 /\ LastOf(writes') = LastOf(writes)
    <2>1. WritesRun(fwd)
      BY LastCycle, SMTT(60)
    <2> QED BY <2>1 DEF WritesRun
  <1>9. /\ LastOf(writes) \in Nat /\ (writes # <<>> => LastOf(writes) = writes[Len(writes)])
        /\ Len(writes) \in Nat /\ (Len(writes) > 0 <=> writes # <<>>)
    BY <1>3, LastOfSeq
  <1>10. \A k \in left + 2 .. Len(owed) : owed[k] = scn.beats[LastOf(writes) - (Len(owed) - k)]
    <2> SUFFICES ASSUME NEW k \in left + 2 .. Len(owed)
                 PROVE  owed[k] = scn.beats[LastOf(writes) - (Len(owed) - k)]
      OBVIOUS
    <2>1. Len(writes) > 0
      BY <1>3, <1>4, <1>5, <1>9, SMTT(60)
    <2>2. LastOf(writes) = Last
      BY <1>9, <2>1 DEF Last
    <2> QED BY <1>1, <2>2 DEF Flow
  <1>11. /\ w => owed # <<>>
         /\ Feed(owed, owed', w, fwd, burst_len(fwd))
         /\ left' = IF w /\ owed[1] = 1 /\ left > 0 THEN left - 1 ELSE left
    BY <1>1 DEF CountsMove
  <1>12. fwd => burst_len(fwd) = scn.beats[NextAw] /\ LastOf(writes') = NextAw
    BY <1>8 DEF burst_len
  <1>13. fwd /\ Len(owed) > left => NextAw = LastOf(writes) + 1
    BY <1>7, <1>8
  <1>14. ~fwd /\ Len(owed') > left' => LastOf(writes') = LastOf(writes)
    BY <1>7, <1>8
  <1>15. Fedding(owed, owed', w, fwd, burst_len(fwd), left, left', scn.beats,
                 LastOf(writes), LastOf(writes'), NextAw)
    BY <1>6, <1>10, <1>11, <1>12, <1>13, <1>14 DEF Fedding
  <1> QED BY <1>15 DEF FeedNow

\* The bursts of this life stay consecutive and owed in full.
LEMMA FlowCycle ==
  ASSUME Inv, NEW fwd \in BOOLEAN, NEW pop \in BOOLEAN, NEW w \in BOOLEAN,
         NEW b \in BOOLEAN, NEW ar \in BOOLEAN, NEW r \in BOOLEAN, NEW arrives \in BOOLEAN,
         After(fwd, pop, w, b, ar, r, arrives), ~s_reset_recovery_event_m
  PROVE  Flow'
  <1>1. /\ TypeOK /\ TypeOK' /\ Flow /\ Flights /\ PadInv /\ PadInv' /\ SinkInv /\ SinkInv'
        /\ PhasesMove(arrives)
    BY DEF Inv, After
  <1>2. Flights'
    BY FlightsCycle, SMTT(60)
  <1>3. /\ owed \in Seq(Beats) /\ owed' \in Seq(Beats) /\ left \in Nat /\ left' \in Nat
        /\ fresh \in Nat /\ fresh' \in Nat /\ old' \in Nat /\ old \in Nat
        /\ writes \in Seq(Nat) /\ writes' \in Seq(Nat)
    BY <1>1 DEF PadInv, PadTypeOK, SinkInv, SinkAt, TypeOK
  <1>4. WritesRun(fwd) /\ FeedNow(fwd, w)
    <2>1. WritesRun(fwd)
      BY LastCycle, SMTT(60)
    <2>2. FeedNow(fwd, w)
      BY FeddingCycle, SMTT(60)
    <2> QED BY <2>1, <2>2
  <1>5. LastOf(writes) \in Nat
    BY <1>3, LastOfSeq
  <1>6. /\ LastOf(writes') \in Nat
        /\ (writes' # <<>> => LastOf(writes') = writes'[Len(writes')])
        /\ Len(writes') \in Nat /\ (Len(writes') > 0 <=> writes' # <<>>)
    BY <1>3, LastOfSeq
  <1>7. scn' = scn /\ ~Armed /\ Len(owed') \in Nat
    BY <1>1, <1>3, ArmedCycle, Lengths DEF PhasesMove
  <1>8. \A j \in 0 .. fresh' - 1 : writes'[Len(writes') - j] = Last' - j
    BY <1>4 DEF WritesRun, Last
  <1>9. \A k \in left' + 2 .. Len(owed') : owed'[k] = scn'.beats[Last' - (Len(owed') - k)]
    <2> SUFFICES ASSUME NEW k \in left' + 2 .. Len(owed')
                 PROVE  owed'[k] = scn.beats[Last' - (Len(owed') - k)]
      BY <1>7
    <2>1. Len(owed') <= Len(writes')
      BY <1>2 DEF Flights
    <2>2. Len(writes') > 0
      <3>1. ASSUME NEW l \in Nat, NEW a \in Nat, NEW c \in Nat, NEW i \in l + 2 .. a, a <= c
            PROVE  c > 0
        BY <3>1, SMTT(60)
      <3> QED BY <1>3, <1>6, <1>7, <2>1, <3>1
    <2>3. LastOf(writes') = Last'
      BY <1>6, <2>2 DEF Last
    <2>4. \A i \in left' + 2 .. Len(owed') :
             owed'[i] = scn.beats[LastOf(writes') - (Len(owed') - i)]
      <3>1. FeedTypes(owed, owed', w, fwd, left, left', LastOf(writes), LastOf(writes'))
        BY <1>3, <1>5, <1>6 DEF FeedTypes
      <3>2. LaterOwed(owed', left', scn.beats, LastOf(writes'))
        BY <1>4, <3>1, LaterMoves DEF FeedNow
      <3> QED BY <3>2 DEF LaterOwed
    <2> QED BY <2>3, <2>4
  <1>10. Alive' /\ fresh' > 0 => NextAw' = Last' + 1
    <2> SUFFICES ASSUME Alive', fresh' > 0 PROVE NextAw' = Last' + 1
      OBVIOUS
    <2>1. Alive /\ NextAw \in Nat /\ NextAw' = NextAw + One(fwd)
      BY NextAwCycle, SMTT(60)
    <2>2. old' + fresh' = Len(writes')
      BY <1>2 DEF Flights
    <2>3. Len(writes') > 0
      BY <1>3, <1>6, <2>2, SMTT(60)
    <2>4. LastOf(writes') = Last'
      BY <1>6, <2>3 DEF Last
    <2>5. CASE fwd
      <3>1. NextAw = LastOf(writes') /\ One(fwd) = 1
        BY <1>4, <2>5 DEF WritesRun, One
      <3> QED BY <2>1, <2>4, <3>1
    <2>6. CASE ~fwd
      <3>1. fresh > 0 /\ LastOf(writes') = LastOf(writes) /\ One(fwd) = 0
        BY <1>4, <2>6 DEF WritesRun, One
      <3>2. old + fresh = Len(writes)
        BY <1>1 DEF Flights
      <3>3. writes # <<>>
        BY <1>3, <3>1, <3>2, SMTT(60)
      <3>4. LastOf(writes) = Last
        BY <3>3 DEF LastOf, Last
      <3>5. NextAw = Last + 1
        BY <1>1, <1>7, <2>1, <3>1 DEF Flow
      <3>6. NextAw' = NextAw
        BY <2>1, <3>1, SMTT(60)
      <3> QED BY <2>4, <3>1, <3>4, <3>5, <3>6
    <2> QED BY <2>5, <2>6
  <1> QED BY <1>8, <1>9, <1>10 DEF Flow

\* The next W beat of the master follows the one the slave has just taken.
LEMMA NextWCycle ==
  ASSUME Inv, NEW fwd \in BOOLEAN, NEW pop \in BOOLEAN, NEW w \in BOOLEAN,
         NEW b \in BOOLEAN, NEW ar \in BOOLEAN, NEW r \in BOOLEAN, NEW arrives \in BOOLEAN,
         After(fwd, pop, w, b, ar, r, arrives),
         sRst' => ph'["w"] = "near" /\ q'["w"] # <<>>
  PROVE  /\ sRst => ph["w"] = "near" /\ q["w"] # <<>>
         /\ NextW \in Nat /\ NextNo \in Nat
         /\ ~real(w) => NextW' = NextW /\ NextNo' = NextNo
         /\ real(w) => /\ q["w"] # <<>>
                       /\ Follows(q["w"][1], NextW', NextNo')
  <1>1. /\ TypeOK /\ TypeOK' /\ WOrder /\ Phases
        /\ PhasesMove(arrives) /\ ChannelsMove(pop, w, b, ar, r) /\ Booleans(w, b, r)
    BY DEF Inv, After
  <1>2. /\ q["w"] \in Seq(WBeats) /\ q'["w"] \in Seq(WBeats) /\ real(w) \in BOOLEAN
        /\ mst.w \in Nat /\ mst.sent \in Nat /\ ph["w"] \in Phase
    BY <1>1 DEF TypeOK, Booleans, Phase, Chan
  <1>3. sRst' = sRst /\ mst' = mst /\ "w" \in Chan
    BY <1>1 DEF PhasesMove, Chan
  <1>4. ~Freezes("w")
    <2> SUFFICES ASSUME Freezes("w") PROVE FALSE
      OBVIOUS
    <2>1. sRst /\ ph'["w"] = "frozen"
      BY <1>1, <1>3 DEF Freezes, Phases
    <2> QED BY <1>3, <2>1
  <1>5. Shift(q["w"], q'["w"], real(w), FALSE, None) /\ (real(w) => q["w"] # <<>>)
    BY <1>1, <1>4 DEF ChannelsMove
  <1>6. ~real(w) => q'["w"] = q["w"]
    BY <1>2, <1>5, Unshifted
  <1>7. sRst => ph["w"] = "near" /\ q["w"] # <<>>
    <2>1. Moved(ph["w"], ph'["w"])
      BY <1>1, <1>3 DEF PhasesMove
    <2> QED BY <1>3, <1>5, <1>6, <2>1 DEF Moved
  <1>8. NextW \in Nat /\ NextNo \in Nat
    <2>1. q["w"] # <<>> => q["w"][1] \in WBeats
      BY <1>2, SMTT(60)
    <2>2. mst.sent + 1 \in Nat
      BY <1>2, SMTT(60)
    <2> QED BY <1>2, <2>1, <2>2 DEF NextW, NextNo, WBeats
  <1>9. ~real(w) => NextW' = NextW /\ NextNo' = NextNo
    BY <1>3, <1>6 DEF NextW, NextNo
  <1>10. ASSUME real(w) PROVE Follows(q["w"][1], NextW', NextNo')
    <2>1. /\ Len(q["w"]) \in Nat /\ Len(q["w"]) > 0 /\ Len(q'["w"]) = Len(q["w"]) - 1
          /\ \A i \in 1 .. Len(q'["w"]) : q'["w"][i] = q["w"][i + 1]
      BY <1>2, <1>5, <1>10, SMTT(60) DEF Shift, One
    <2>2. CASE q'["w"] = <<>>
      <3>1. Len(q["w"]) = 1
        BY <2>1, <2>2, SMTT(60)
      <3>2. ~sRst /\ q["w"] # <<>>
        BY <1>3, <1>5, <1>10, <2>2
      <3>3. Follows(q["w"][Len(q["w"])], mst.w, mst.sent + 1)
        BY <1>1, <3>2 DEF WOrder
      <3>4. NextW' = mst.w /\ NextNo' = mst.sent + 1
        BY <1>3, <2>2 DEF NextW, NextNo
      <3> QED BY <3>1, <3>3, <3>4
    <2>3. CASE q'["w"] # <<>>
      <3>1. Len(q'["w"]) > 0
        BY <1>2, <2>3, SMTT(60)
      <3>2. 1 \in 1 .. Len(q["w"]) - 1 /\ q'["w"][1] = q["w"][1 + 1]
        BY <2>1, <3>1, SMTT(60)
      <3>3. Follows(q["w"][1], q["w"][1 + 1].id, q["w"][1 + 1].no)
        BY <1>1, <3>2 DEF WOrder
      <3>4. NextW' = q["w"][1 + 1].id /\ NextNo' = q["w"][1 + 1].no
        BY <2>3, <3>2 DEF NextW, NextNo
      <3> QED BY <3>3, <3>4
    <2> QED BY <2>2, <2>3
  <1> QED BY <1>5, <1>7, <1>8, <1>9, <1>10

\* The pairing of the invariant, as one fact about values.
LEMMA PairsOpen ==
  ASSUME Inv, ~Armed, sRst => ph["w"] = "near" /\ q["w"] # <<>>
  PROVE  Paired(owed, left, scn.beats, LastOf(writes), NextW, NextNo, NextAw, Alive)
  <1>1. TypeOK /\ Pairs /\ Flights /\ PadInv
    BY DEF Inv
  <1>2. owed \in Seq(Beats) /\ left \in Nat /\ writes \in Seq(Nat)
    BY <1>1 DEF PadInv, PadTypeOK, TypeOK
  <1>3. Len(owed) \in Nat
    BY <1>2, Lengths
  <1>4. /\ LastOf(writes) \in Nat /\ (writes # <<>> => LastOf(writes) = writes[Len(writes)])
        /\ Len(writes) \in Nat /\ (Len(writes) > 0 <=> writes # <<>>)
    BY <1>2, LastOfSeq
  <1>5. /\ Unfed = 0 /\ Alive => NextW = NextAw /\ NextNo = 1
        /\ Unfed > 0 => /\ NextW = Last + 1 - Unfed
                        /\ owed[left + 1] = scn.beats[NextW] - NextNo + 1
    BY <1>1 DEF Pairs
  <1>6. (Len(owed) = left => Unfed = 0) /\ (Len(owed) > left => Unfed > 0)
    BY <1>2, <1>3, SMTT(60) DEF Unfed
  <1>7. Len(owed) > left => LastOf(writes) = Last
    <2>1. Len(owed) <= Len(writes)
      BY <1>1 DEF Flights
    <2>2. Len(owed) > left => Len(writes) > 0
      <3>1. ASSUME NEW a \in Nat, NEW l \in Nat, NEW c \in Nat, a > l, a <= c PROVE c > 0
        BY <3>1, SMTT(60)
      <3> QED BY <1>2, <1>3, <1>4, <2>1, <3>1
    <2> QED BY <1>4, <2>2 DEF Last
  <1> QED BY <1>5, <1>6, <1>7 DEF Paired, Unfed

\* That fact, with the types it needs.
PairShut(o, l, B, s, G, N, F, alive) ==
  /\ o \in Seq(Beats) /\ l \in Nat /\ l <= Len(o) /\ s \in Seq(Nat) /\ Len(o) <= Len(s)
  /\ Paired(o, l, B, LastOf(s), G, N, F, alive)

\* The pairing of the invariant, from it.
PairTold(o, l, B, s, G, N, F, alive) ==
  /\ Len(o) - l = 0 /\ alive => G = F /\ N = 1
  /\ Len(o) - l > 0 => G = s[Len(s)] + 1 - (Len(o) - l) /\ o[l + 1] = B[G] - N + 1

\* The first gives the second.
LEMMA PairsClose ==
  ASSUME NEW o, NEW l, NEW B, NEW s, NEW G, NEW N, NEW F, NEW alive,
         PairShut(o, l, B, s, G, N, F, alive)
  PROVE  PairTold(o, l, B, s, G, N, F, alive)
  <1>0. /\ o \in Seq(Beats) /\ l \in Nat /\ l <= Len(o) /\ s \in Seq(Nat) /\ Len(o) <= Len(s)
        /\ Paired(o, l, B, LastOf(s), G, N, F, alive)
    BY DEF PairShut
  <1>1. Len(o) \in Nat /\ Len(s) \in Nat
    BY <1>0, Lengths
  <1>2. /\ Len(o) - l = 0 => Len(o) = l
        /\ Len(o) - l > 0 => Len(o) > l /\ Len(s) > 0
    BY <1>0, <1>1, SMTT(60)
  <1>3. Len(s) > 0 => LastOf(s) = s[Len(s)]
    BY <1>0, LastOfSeq
  <1> QED BY <1>0, <1>2, <1>3 DEF Paired, PairTold

\* A cycle outside a snapshot keeps the pairing.
LEMMA PairedCycle ==
  ASSUME Inv, NEW fwd \in BOOLEAN, NEW pop \in BOOLEAN, NEW w \in BOOLEAN,
         NEW b \in BOOLEAN, NEW ar \in BOOLEAN, NEW r \in BOOLEAN, NEW arrives \in BOOLEAN,
         After(fwd, pop, w, b, ar, r, arrives), ~s_reset_recovery_event_m,
         sRst' => ph'["w"] = "near" /\ q'["w"] # <<>>
  PROVE  Paired(owed', left', scn.beats, LastOf(writes'), NextW', NextNo', NextAw', Alive')
  <1> DEFINE B == scn.beats
             last == LastOf(writes)
             last2 == LastOf(writes')
             n == burst_len(fwd)
  <1>1. /\ TypeOK /\ TypeOK' /\ Flow /\ Flights /\ PadInv /\ PadInv' /\ WOrder /\ SinkInv
        /\ PhasesMove(arrives) /\ Booleans(w, b, r) /\ Handshakes(fwd, pop, w, b, ar, r)
    BY DEF Inv, After
  <1>2. /\ owed \in Seq(Beats) /\ owed' \in Seq(Beats) /\ left \in Nat /\ left' \in Nat
        /\ writes \in Seq(Nat) /\ writes' \in Seq(Nat) /\ fresh \in Nat
    BY <1>1 DEF PadInv, PadTypeOK, TypeOK, SinkInv, SinkAt
  <1>3. last \in Nat /\ last2 \in Nat
    BY <1>2, LastOfSeq
  <1>4. ~Armed
    BY <1>1, ArmedCycle
  <1>5. /\ sRst => ph["w"] = "near" /\ q["w"] # <<>>
        /\ NextW \in Nat /\ NextNo \in Nat
        /\ ~real(w) => NextW' = NextW /\ NextNo' = NextNo
        /\ real(w) => q["w"] # <<>> /\ Follows(q["w"][1], NextW', NextNo')
    BY NextWCycle, SMTT(60)
  <1>6. Paired(owed, left, B, last, NextW, NextNo, NextAw, Alive)
    BY <1>4, <1>5, PairsOpen
  <1>7. WritesRun(fwd) /\ FeedNow(fwd, w)
    <2>1. WritesRun(fwd)
      BY LastCycle, SMTT(60)
    <2>2. FeedNow(fwd, w)
      BY FeddingCycle, SMTT(60)
    <2> QED BY <2>1, <2>2
  <1>8. Fedding(owed, owed', w, fwd, n, left, left', B, last, last2, NextAw)
    BY <1>7 DEF FeedNow
  <1>9. Alive' => Alive /\ NextAw' = NextAw + One(fwd)
    <2> SUFFICES ASSUME Alive' PROVE Alive /\ NextAw' = NextAw + One(fwd)
      OBVIOUS
    <2> QED BY NextAwCycle, SMTT(60)
  <1>10. NextAw \in Nat
    <2>1. /\ q["aw"] \in Seq(Nat) /\ stage \in Nat \cup {None} /\ mst.aw \in Nat
      BY <1>1 DEF TypeOK
    <2>2. q["aw"] # <<>> => q["aw"][1] \in Nat
      BY <2>1, SMTT(60)
    <2> QED BY <2>1, <2>2 DEF NextAw, AwHead
  <1>11. Alive \in BOOLEAN /\ Alive' \in BOOLEAN /\ real(w) \in BOOLEAN
    <2>1. Alive \in BOOLEAN /\ Alive' \in BOOLEAN
      BY SMTT(60) DEF Alive
    <2> QED BY <1>1, <2>1 DEF Booleans
  <1>12. fwd => Alive
    BY <1>7 DEF WritesRun
  <1>13. pad_active <=> left > 0
    <2>1. pad_active <=> left # 0
      BY <1>1 DEF PadInv, PadExact, pad_active
    <2>2. left # 0 <=> left > 0
      BY <1>2, SMTT(60)
    <2> QED BY <2>1, <2>2
  <1> HIDE DEF B, last, last2, n
  <1>14. CASE ~real(w)
    <2>1. w => left > 0
      BY <1>13, <1>14 DEF real
    <2>2. PairKeep(owed, owed', w, fwd, n, left, left', B, last, last2, NextAw,
                   NextW, NextNo, NextAw, NextAw', Alive, Alive')
      BY <1>2, <1>3, <1>5, <1>6, <1>8, <1>9, <1>10, <1>11, <1>12, <2>1 DEF PairKeep
    <2>3. Paired(owed', left', B, last2, NextW, NextNo, NextAw', Alive')
      BY <2>2, PairedMovesKept
    <2> QED BY <1>5, <1>14, <2>3 DEF B, last2
  <1>15. CASE real(w)
    <2>1. w /\ left = 0 /\ owed # <<>> /\ w = TRUE
      <3>1. w /\ ~(left > 0) /\ owed # <<>>
        BY <1>1, <1>13, <1>15 DEF real, Handshakes
      <3>2. left = 0
        BY <1>2, <3>1, SMTT(60)
      <3> QED BY <3>1, <3>2
    <2>2. left' = 0
      BY <1>8, <2>1, SMTT(60) DEF Fedding
    <2>3. Len(owed) \in Nat /\ Len(owed) > 0 /\ Len(owed) > left
      BY <1>2, <2>1, SMTT(60)
    <2>4. /\ NextW = last + 1 - Len(owed) /\ owed[1] = B[NextW] - NextNo + 1
      <3>1. NextW = last + 1 - (Len(owed) - left) /\ owed[left + 1] = B[NextW] - NextNo + 1
        BY <1>6, <2>3 DEF Paired
      <3>2. Len(owed) - left = Len(owed) /\ left + 1 = 1
        BY <2>1, <2>3, SMTT(60)
      <3> QED BY <3>1, <3>2
    <2>5. Fedding(owed, owed', TRUE, fwd, n, 0, 0, B, last, last2, NextAw)
      BY <1>8, <2>1, <2>2
    <2>6. /\ NextW = q["w"][1].id /\ NextNo = q["w"][1].no
          /\ q["w"][1].last <=> NextNo = B[NextW]
          /\ NextW \in 1 .. Len(B) /\ NextNo \in 1 .. B[NextW]
      <3>1. q["w"] # <<>> /\ q["w"] \in Seq(WBeats)
        BY <1>1, <1>5, <1>15 DEF TypeOK
      <3>2. 1 \in 1 .. Len(q["w"])
        BY <3>1, SMTT(60)
      <3>3. NextW = q["w"][1].id /\ NextNo = q["w"][1].no
        BY <3>1 DEF NextW, NextNo
      <3> QED BY <1>1, <3>2, <3>3 DEF WOrder, B
    <2>7. B[NextW] \in Nat
      <3>1. B \in Seq(Beats)
        BY <1>1, BridgeAssumption DEF TypeOK, B
      <3>2. B[NextW] \in Beats
        BY <2>6, <3>1, SMTT(60)
      <3> QED BY <3>2, PadAssumption, SMTT(60) DEF Beats
    <2>8. q["w"][1].last <=> owed[1] = 1
      <3>1. owed[1] = 1 <=> NextNo = B[NextW]
        BY <1>5, <2>4, <2>7, SMTT(60)
      <3> QED BY <2>6, <3>1
    <2>9. Follows(q["w"][1], NextW', NextNo')
      BY <1>5, <1>15
    <2>10. CASE owed[1] = 1
      <3>1. NextW' = NextW + 1 /\ NextNo' = 1
        BY <2>6, <2>8, <2>9, <2>10 DEF Follows
      <3>2. Alive' => NextAw = last + 1
        <4> SUFFICES ASSUME Alive' PROVE NextAw = last + 1
          OBVIOUS
        <4>1. Len(owed) <= fresh /\ Len(owed) <= Len(writes)
          BY <1>1, <2>1 DEF Flights
        <4>2. fresh > 0 /\ writes # <<>>
          BY <1>2, <2>3, <4>1, SMTT(60)
        <4>3. NextAw = Last + 1
          BY <1>1, <1>4, <1>9, <4>2 DEF Flow
        <4> QED BY <4>2, <4>3 DEF last, LastOf, Last
      <3>3. PairLast(owed, owed', fwd, n, B, last, last2, NextAw, NextW, NextAw, Alive', NextAw')
        BY <1>2, <1>3, <1>5, <1>9, <1>10, <1>11, <2>1, <2>4, <2>5, <2>10, <3>2 DEF PairLast
      <3>4. Paired(owed', 0, B, last2, NextW + 1, 1, NextAw', Alive')
        BY <3>3, PairedMovesLast
      <3> QED BY <2>2, <3>1, <3>4 DEF B, last2
    <2>11. CASE owed[1] # 1
      <3>1. NextW' = NextW /\ NextNo' = NextNo + 1
        BY <2>6, <2>8, <2>9, <2>11 DEF Follows
      <3>2. PairNext(owed, owed', fwd, n, B, last, last2, NextAw, NextW, NextNo, Alive')
        BY <1>2, <1>3, <1>5, <1>10, <1>11, <2>1, <2>4, <2>5, <2>7, <2>11 DEF PairNext
      <3>3. Paired(owed', 0, B, last2, NextW, NextNo + 1, NextAw', Alive')
        BY <3>2, PairedMovesNext
      <3> QED BY <2>2, <3>1, <3>3 DEF B, last2
    <2> QED BY <2>10, <2>11
  <1> QED BY <1>14, <1>15

\* The same, as the invariant says it.
LEMMA PairsCycle ==
  ASSUME Inv, NEW fwd \in BOOLEAN, NEW pop \in BOOLEAN, NEW w \in BOOLEAN,
         NEW b \in BOOLEAN, NEW ar \in BOOLEAN, NEW r \in BOOLEAN, NEW arrives \in BOOLEAN,
         After(fwd, pop, w, b, ar, r, arrives), ~s_reset_recovery_event_m
  PROVE  Pairs'
  <1>1. TypeOK' /\ PadInv' /\ PhasesMove(arrives)
    BY DEF Inv, After
  <1>2. ~Armed' /\ scn' = scn
    BY <1>1, ArmedCycle DEF PhasesMove
  <1>3. SUFFICES ASSUME sRst' => ph'["w"] = "near" /\ q'["w"] # <<>>
                 PROVE  /\ Unfed' = 0 /\ Alive' => NextW' = NextAw' /\ NextNo' = 1
                        /\ Unfed' > 0 => /\ NextW' = Last' + 1 - Unfed'
                                         /\ owed'[left' + 1] = scn.beats[NextW'] - NextNo' + 1
    BY <1>2 DEF Pairs
  <1>4. Paired(owed', left', scn.beats, LastOf(writes'), NextW', NextNo', NextAw', Alive')
    BY <1>3, PairedCycle, SMTT(60)
  <1>5. Flights'
    BY FlightsCycle, SMTT(60)
  <1>6. owed' \in Seq(Beats) /\ left' \in Nat /\ writes' \in Seq(Nat)
    BY <1>1 DEF PadInv, PadTypeOK, TypeOK
  <1>7. Len(owed') <= Len(writes') /\ left' <= Len(owed')
    <2>1. Len(owed') \in Nat
      BY <1>6, Lengths
    <2>2. left' = 0 \/ left' > 0
      BY <1>6, SMTT(60)
    <2>3. fresh' \in Nat
      BY DEF After, SinkInv, SinkAt
    <2>4. ASSUME NEW l \in Nat, NEW f \in Nat, NEW a \in Nat, l > 0 => l + f = a PROVE l <= a
      BY <2>4, SMTT(60)
    <2> QED BY <1>5, <1>6, <2>1, <2>2, <2>3, <2>4 DEF Flights
  <1>8. /\ Len(owed') - left' = 0 /\ Alive' => NextW' = NextAw' /\ NextNo' = 1
        /\ Len(owed') - left' > 0 =>
             /\ NextW' = writes'[Len(writes')] + 1 - (Len(owed') - left')
             /\ owed'[left' + 1] = scn.beats[NextW'] - NextNo' + 1
    <2>1. PairShut(owed', left', scn.beats, writes', NextW', NextNo', NextAw', Alive')
      BY <1>4, <1>6, <1>7 DEF PairShut
    <2>2. PairTold(owed', left', scn.beats, writes', NextW', NextNo', NextAw', Alive')
      BY <2>1, PairsClose
    <2> QED BY <2>2 DEF PairTold
  <1> QED BY <1>8 DEF Unfed, Last

\* Every edge of the memory clock keeps the invariant.
LEMMA TickStep ==
  ASSUME Inv, MTick
  PROVE  Inv'
  <1>1. PICK fwd, pop, w, b, ar, r, arrives \in BOOLEAN :
               \E moving : Cycle(fwd, pop, w, b, ar, r, moving, arrives)
    BY TickCycle
  <1>2. PICK moving : Cycle(fwd, pop, w, b, ar, r, moving, arrives)
    BY <1>1
  <1>3. After(fwd, pop, w, b, ar, r, arrives)
    BY <1>2, CycleAfter, SMTT(60)
  <1> HIDE <1>1, <1>2
  <1>4. TypeOK' /\ PadInv' /\ SinkInv' /\ ReadSinkInv' /\ PhasesMove(arrives)
    BY <1>3 DEF After
  <1>5. Issued'
    BY <1>3, IssuedCycle, SMTT(60)
  <1>6. Phases'
    BY <1>3, PhasesCycle, SMTT(60)
  <1>7. Flights'
    BY <1>3, FlightsCycle, SMTT(60)
  <1>8. Restart'
    BY <1>4, RestartCycle
  <1>9. StaleW'
    BY <1>3, StaleWCycle, SMTT(60)
  <1>10. StaleR'
    BY <1>3, StaleRCycle, SMTT(60)
  <1>11. AwOrder'
    BY <1>3, AwOrderCycle, SMTT(60)
  <1>12. WOrder'
    BY <1>3, WOrderCycle, SMTT(60)
  <1>13. Flow' /\ Pairs'
    <2>1. CASE s_reset_recovery_event_m
      BY <1>3, <2>1, EventCycle, SMTT(60)
    <2>2. CASE ~s_reset_recovery_event_m
      <3>1. Flow'
        BY <1>3, <2>2, FlowCycle, SMTT(60)
      <3>2. Pairs'
        BY <1>3, <2>2, PairsCycle, SMTT(60)
      <3> QED BY <3>1, <3>2
    <2> QED BY <2>1, <2>2
  <1> QED BY <1>4, <1>5, <1>6, <1>7, <1>8, <1>9, <1>10, <1>11, <1>12, <1>13 DEF Inv

\* Every step does.
LEMMA NextInv == Inv /\ [Next]_vars => Inv'
  <1> SUFFICES ASSUME Inv, [Next]_vars PROVE Inv'
    OBVIOUS
  <1>1. CASE SendAw
    BY <1>1, SendAwStep
  <1>2. CASE SendW
    BY <1>2, SendWStep
  <1>3. CASE SendAr
    BY <1>3, SendArStep
  <1>4. CASE \E f \in {"b", "r"} : TakeResponse(f)
    BY <1>4, TakeStep
  <1>5. CASE SReset
    BY <1>5, SResetStep
  <1>6. CASE SResetEnds
    BY <1>6, ResetEndsStep
  <1>7. CASE \E lane \in Lanes : SThaw(lane)
    BY <1>7, ThawStep
  <1>8. CASE MTick
    BY <1>8, TickStep
  <1>9. CASE FullReset
    BY <1>9, FullResetStep
  <1>10. CASE UNCHANGED vars
    BY <1>10, StutterInv
  <1> QED BY <1>1, <1>2, <1>3, <1>4, <1>5, <1>6, <1>7, <1>8, <1>9, <1>10 DEF Next

\* The inductive invariant of axi_async_bridge holds, for every number of
\* transactions, burst length, queue depth and slave, however resets of the
\* master's side or of both fall.
THEOREM BridgeInvariant == Spec => []Inv
  BY InitInv, NextInv, PTL DEF Spec

\* The bridge discards a response (b_sinking, r_sinking gate the wr_en of
\* b_fifo and r_fifo) exactly when it answers a burst the master issued
\* before its last reset: no stale response reaches the new master and no
\* response of its own is lost.
THEOREM StaleResponsesSunk == Spec => []ExactlyStaleSunk
  BY BridgeInvariant, SunkFromInv, PTL

\* Every W beat the bridge hands to the slave is the next beat of the burst
\* the slave is being fed, even when a reset emptied w_fifo in the middle of
\* a burst and w_pad finished it.
THEOREM BeatsReachTheirBurst == Spec => []PairingKept
  BY BridgeInvariant, PairingFromInv, PTL

\* The filler beats of axi_bridge_w_pad go only to bursts whose master has
\* been reset since it issued them.
THEOREM FillerNeverReachesTheLiving == Spec => []FillerOnlyForAbandoned
  BY BridgeInvariant, FillerFromInv, PTL
=============================================================================
