-------------------------- MODULE BridgeSideProofs --------------------------
(***************************************************************************)
(* The steps of the master's side of the bridge, of its resets and of its  *)
(* start keep Inv; and what Inv says of the properties.                    *)
(***************************************************************************)
EXTENDS BridgeInv

\* A leaf is Zenon's unless it names the SMT solver.
USE ZenonT(30)

\* The m side at rest.
MQuiet ==
  /\ PadInv' /\ SinkInv' /\ ReadSinkInv'
  /\ writes' = writes /\ reads' = reads /\ RIds' = RIds /\ stage' = stage
  /\ old' = old /\ fresh' = fresh /\ r_old' = r_old /\ r_fresh' = r_fresh
  /\ owed' = owed /\ left' = left /\ pend' = pend

\* The memory side at rest keeps what is said of it.
LEMMA QuietKept ==
  ASSUME Inv, UNCHANGED mVars
  PROVE  MQuiet
  <1>1. PadInv /\ SinkInv /\ ReadSinkInv
    BY DEF Inv
  <1>2. UNCHANGED padVars /\ UNCHANGED sinkVars /\ UNCHANGED rSinkVars
        /\ pend' = pend /\ stage' = stage /\ writes' = writes /\ reads' = reads
    BY DEF mVars
  <1>3. PadInv'
    BY <1>1, <1>2, PadStep
  <1>4. SinkInv'
    BY <1>1, <1>2, SinkStep
  <1>5. ReadSinkInv'
    <2>1. UNCHANGED RSink!sinkVars
      BY <1>2 DEF rSinkVars, RSink!sinkVars
    <2> QED BY <1>1, <2>1 DEF RSink!sinkVars, ReadSinkInv
  <1>6. RIds' = RIds
    BY <1>2 DEF RIds
  <1>7. /\ old' = old /\ fresh' = fresh /\ r_old' = r_old /\ r_fresh' = r_fresh
        /\ owed' = owed /\ left' = left
    BY <1>2 DEF padVars, sinkVars, rSinkVars
  <1> QED BY <1>2, <1>3, <1>4, <1>5, <1>6, <1>7 DEF MQuiet

\* And the bursts in flight.
LEMMA FlightsQuiet ==
  ASSUME Inv, MQuiet
  PROVE  Flights'
  BY DEF Inv, Flights, MQuiet


\* A channel that has seen the reset end runs again.
LEMMA ThawStep ==
  ASSUME Inv, NEW lane, SThaw(lane)
  PROVE  Inv'
  <1>1. /\ TypeOK /\ Issued /\ Phases /\ Flights /\ Restart /\ StaleW /\ StaleR
        /\ AwOrder /\ WOrder /\ Flow /\ Pairs
    BY DEF Inv
  <1>2. MQuiet
    BY QuietKept DEF SThaw, sUnchanged
  <1>3. /\ ~sRst /\ \A f \in lane : ph[f] = "frozen"
        /\ ph' = [f \in Chan |-> IF f \in lane THEN "thaw" ELSE ph[f]]
        /\ scn' = scn /\ sRst' = sRst /\ src_toggle' = src_toggle /\ dst_sync' = dst_sync
        /\ q' = q /\ mst' = mst
    BY DEF SThaw, sUnchanged
  <1>4. \A f \in Chan : \/ ph'[f] = ph[f]
                        \/ ph[f] = "frozen" /\ ph'[f] = "thaw"
    BY <1>3
  <1>5. \A f \in Chan : MEngaged(f)' <=> MEngaged(f)
    BY <1>4 DEF MEngaged
  <1>6. "aw" \in Chan /\ "w" \in Chan /\ "b" \in Chan /\ "ar" \in Chan /\ "r" \in Chan
    BY DEF Chan
  <1>7. (AllEngaged' <=> AllEngaged) /\ (Armed' <=> Armed) /\ (Crossing' <=> Crossing)
    BY <1>2, <1>3, <1>5 DEF AllEngaged, Armed, Crossing, MQuiet
  <1>8. TypeOK'
    <2>1. ph' \in [Chan -> {"run", "near", "frozen", "thaw"}]
      BY <1>1, <1>3 DEF TypeOK
    <2> QED BY <1>1, <1>2, <1>3, <2>1 DEF TypeOK, MQuiet
  <1>9. Issued' /\ Flights' /\ Restart'
    BY <1>1, <1>2, <1>3 DEF Issued, Flights, Restart, MQuiet
  <1>10. Phases'
    BY <1>1, <1>3, <1>4, <1>6, <1>7 DEF Phases
  <1>11. \A f \in Chan : ph[f] = "frozen" => q[f] = <<>>
    BY <1>1 DEF Phases
  <1>12. \A i \in 1 .. Len(<<>>) : FALSE
    BY SMTT(60)
  <1>13. StaleW'
    <2>1. Queued("aw")' /\ Answers("b")'
      BY <1>1, <1>3, <1>4, <1>6, <1>11, <1>12 DEF StaleW, Queued, Answers, QueuedAs, AnswersAs
    <2>2. Snapshot("aw", fresh)'
      BY <1>1, <1>2, <1>3, <1>5, <1>6, <1>7 DEF StaleW, Snapshot, MQuiet
    <2>3. Stale("aw", writes, old)'
      BY <1>1, <1>2, <1>3, <1>4, <1>6 DEF StaleW, Stale, StaleAs, MQuiet
    <2> QED BY <1>1, <1>2, <1>3, <1>4, <1>6, <2>1, <2>2, <2>3 DEF StaleW, MQuiet
  <1>14. StaleR'
    <2>1. Queued("ar")' /\ Answers("r")'
      BY <1>1, <1>3, <1>4, <1>6, <1>11, <1>12 DEF StaleR, Queued, Answers, QueuedAs, AnswersAs
    <2>2. Snapshot("ar", r_fresh)'
      BY <1>1, <1>2, <1>3, <1>5, <1>6, <1>7 DEF StaleR, Snapshot, MQuiet
    <2>3. Stale("ar", RIds, r_old)'
      BY <1>1, <1>2, <1>3, <1>4, <1>6 DEF StaleR, Stale, StaleAs, MQuiet
    <2> QED BY <2>1, <2>2, <2>3 DEF StaleR
  <1>15. AwHead' = AwHead /\ NextAw' = NextAw /\ NextW' = NextW /\ NextNo' = NextNo
         /\ Alive' /\ Alive /\ Last' = Last /\ Unfed' = Unfed
    BY <1>2, <1>3, <1>5, <1>6 DEF AwHead, NextAw, NextW, NextNo, Alive, Last, Unfed, MQuiet
  <1>16. AwOrder' /\ WOrder'
    <2>1. AwOrder'
      BY <1>1, <1>2, <1>3, <1>5, <1>6, <1>15 DEF AwOrder, MQuiet
    <2>2. WOrder'
      BY <1>1, <1>3 DEF WOrder
    <2> QED BY <2>1, <2>2
  <1>17. Flow' /\ Pairs'
    <2>1. Flow'
      BY <1>1, <1>2, <1>3, <1>7, <1>15 DEF Flow, MQuiet
    <2>2. Pairs'
      BY <1>1, <1>2, <1>3, <1>7, <1>15 DEF Pairs, MQuiet
    <2> QED BY <2>1, <2>2
  <1>18. PadInv' /\ SinkInv' /\ ReadSinkInv'
    BY <1>2 DEF MQuiet
  <1> QED BY <1>8, <1>9, <1>10, <1>13, <1>14, <1>16, <1>17, <1>18 DEF Inv

\* The master leaves its reset.
LEMMA ResetEndsStep ==
  ASSUME Inv, SResetEnds
  PROVE  Inv'
  <1>1. /\ TypeOK /\ Issued /\ Phases /\ Flights /\ Restart /\ StaleW /\ StaleR
        /\ AwOrder /\ WOrder /\ Flow /\ Pairs /\ PadInv /\ SinkInv
    BY DEF Inv
  <1>2. MQuiet
    BY QuietKept DEF SResetEnds
  <1>3. /\ sRst /\ ~Crossing /\ (\A f \in Chan : ph[f] = "frozen") /\ sRst' = FALSE
        /\ scn' = scn /\ src_toggle' = src_toggle /\ dst_sync' = dst_sync
        /\ ph' = ph /\ q' = q /\ mst' = mst
    BY DEF SResetEnds
  <1>4. "aw" \in Chan /\ "w" \in Chan /\ "b" \in Chan /\ "ar" \in Chan /\ "r" \in Chan
    BY DEF Chan
  <1>5. q["aw"] = <<>> /\ q["w"] = <<>> /\ MEngaged("aw") /\ MEngaged("aw")'
    BY <1>1, <1>3, <1>4 DEF Phases, MEngaged
  <1>6. AllEngaged /\ AllEngaged' /\ ~Crossing'
    BY <1>3 DEF AllEngaged, MEngaged, Crossing
  <1>7. (pend \/ fresh = 0) /\ (pend \/ r_fresh = 0)
    BY <1>1, <1>3 DEF StaleW, StaleR, Snapshot
  <1>8. TypeOK'
    <2>1. sRst' \in BOOLEAN
      BY <1>3
    <2> QED BY <1>1, <1>2, <1>3, <2>1 DEF TypeOK, MQuiet
  <1>9. Issued' /\ Flights' /\ Restart'
    BY <1>1, <1>2, <1>3 DEF Issued, Flights, Restart, MQuiet
  <1>10. Phases'
    BY <1>1, <1>3, <1>6 DEF Phases
  <1>11. StaleW'
    <2>1. Snapshot("aw", fresh)'
      BY <1>2, <1>3, <1>6, <1>7 DEF Snapshot, MQuiet
    <2> QED BY <1>1, <1>2, <1>3, <2>1 DEF StaleW, Queued, Answers, Stale, MQuiet
  <1>12. StaleR'
    <2>1. Snapshot("ar", r_fresh)'
      BY <1>2, <1>3, <1>6, <1>7 DEF Snapshot, MQuiet
    <2> QED BY <1>1, <1>2, <1>3, <2>1 DEF StaleR, Queued, Answers, Stale, MQuiet
  <1>13. /\ AwHead' = mst.aw /\ NextAw' = mst.aw /\ NextW' = mst.w /\ NextNo' = mst.sent + 1
         /\ mst.aw = mst.base /\ mst.w = mst.base /\ mst.sent = 0
    BY <1>1, <1>3, <1>5 DEF AwHead, NextAw, NextW, NextNo, Restart
  <1>14. Len(q'["aw"]) = 0 /\ mst.aw + 0 = mst.aw /\ mst.sent + 1 = 1
    <2>1. mst.aw \in Nat
      BY <1>1 DEF TypeOK
    <2> QED BY <1>3, <1>5, <1>13, <2>1, SMTT(60)
  <1>15. AwOrder'
    <2>1. \A i \in 1 .. Len(q'["aw"]) : FALSE
      BY <1>14, SMTT(60)
    <2> QED BY <1>3, <1>5, <1>13, <1>14, <2>1 DEF AwOrder
  <1>16. WOrder'
    BY <1>1, <1>3, <1>5 DEF WOrder
  <1>17. Armed' <=> pend
    BY <1>2, <1>3, <1>6 DEF Armed, MQuiet
  <1>18. ~pend => Unfed = 0 /\ ~(fresh > 0)
    <2>1. owed \in Seq(Beats) /\ left \in Nat /\ fresh \in Nat
      BY <1>1 DEF PadInv, PadTypeOK, SinkInv, SinkAt
    <2>2. Len(owed) \in Nat
      BY <2>1, Lengths
    <2>3. /\ left = 0 => Len(owed) <= fresh
          /\ left > 0 => left + fresh = Len(owed)
      BY <1>1 DEF Flights
    <2>4. ASSUME NEW a \in Nat, NEW l \in Nat, NEW f \in Nat, l = 0 => a <= f,
                 l > 0 => l + f = a, f = 0
          PROVE  a - l = 0 /\ ~(f > 0)
      BY <2>4, SMTT(60)
    <2> QED BY <1>7, <2>1, <2>2, <2>3, <2>4 DEF Unfed
  <1>19. Flow'
    <2>1. Last' = Last
      BY <1>2 DEF Last, MQuiet
    <2> QED BY <1>1, <1>2, <1>3, <1>17, <1>18, <2>1 DEF Flow, MQuiet
  <1>20. Pairs'
    <2>1. Unfed' = Unfed /\ NextW' = NextAw' /\ NextNo' = 1
      BY <1>2, <1>13, <1>14 DEF Unfed, MQuiet
    <2>2. Unfed = 0 => ~(Unfed > 0)
      BY SMTT(60)
    <2> QED BY <1>17, <1>18, <2>1, <2>2 DEF Pairs
  <1>21. PadInv' /\ SinkInv' /\ ReadSinkInv'
    BY <1>2 DEF MQuiet
  <1> QED BY <1>8, <1>9, <1>10, <1>11, <1>12, <1>15, <1>16, <1>19, <1>20, <1>21 DEF Inv

\* The resets and the phases of the FIFOs at rest too.
SQuiet ==
  /\ MQuiet /\ ph' = ph /\ sRst' = sRst /\ scn' = scn
  /\ src_toggle' = src_toggle /\ dst_sync' = dst_sync /\ mst'.base = mst.base

\* What a step of the master leaves as it was.
SideKept ==
  /\ Armed' <=> Armed
  /\ PadInv' /\ SinkInv' /\ ReadSinkInv' /\ Flights'
  /\ Snapshot("aw", fresh)' /\ Snapshot("ar", r_fresh)'
  /\ Stale("aw", writes, old)' /\ Stale("ar", RIds, r_old)'
  /\ ph'["aw"] = "run" /\ stage' # None => stage' >= mst'.base
  /\ ph'["aw"] = "near" /\ stage' # None => stage' < mst'.base
  /\ Last' = Last /\ Unfed' = Unfed

\* A step of the master alone leaves it so.
LEMMA SideQuiet ==
  ASSUME Inv, SQuiet
  PROVE  SideKept
  <1>1. StaleW /\ StaleR /\ Flights
    BY DEF Inv
  <1>2. /\ MQuiet /\ ph' = ph /\ sRst' = sRst /\ scn' = scn
        /\ src_toggle' = src_toggle /\ dst_sync' = dst_sync /\ mst'.base = mst.base
    BY DEF SQuiet
  <1>3. (AllEngaged' <=> AllEngaged) /\ (Crossing' <=> Crossing)
    BY <1>2 DEF AllEngaged, MEngaged, Crossing
  <1>4. Armed' <=> Armed
    BY <1>2, <1>3 DEF Armed, MQuiet
  <1>5. Snapshot("aw", fresh)' /\ Snapshot("ar", r_fresh)'
    BY <1>1, <1>2, <1>3 DEF StaleW, StaleR, Snapshot, MQuiet, MEngaged
  <1>6. Stale("aw", writes, old)' /\ Stale("ar", RIds, r_old)'
    BY <1>1, <1>2 DEF StaleW, StaleR, Stale, MQuiet
  <1>7. /\ ph'["aw"] = "run" /\ stage' # None => stage' >= mst'.base
        /\ ph'["aw"] = "near" /\ stage' # None => stage' < mst'.base
    BY <1>1, <1>2 DEF StaleW, MQuiet
  <1>8. Flights' /\ Last' = Last /\ Unfed' = Unfed
    BY <1>1, <1>2 DEF Flights, Last, Unfed, MQuiet
  <1>9. PadInv' /\ SinkInv' /\ ReadSinkInv'
    BY <1>2 DEF MQuiet
  <1> QED BY <1>4, <1>5, <1>6, <1>7, <1>8, <1>9 DEF SideKept

\* What a push leaves of the queues.
LEMMA Pushed ==
  ASSUME TypeOK, NEW f \in Chan, NEW e, Push(f, e)
  PROVE  /\ DOMAIN q' = Chan /\ q'[f] = Append(q[f], e)
         /\ \A g \in Chan : g # f => q'[g] = q[g]
  <1>1. DOMAIN q = Chan
    BY DEF TypeOK
  <1>2. q' = [q EXCEPT ![f] = Append(q[f], e)]
    BY DEF Push
  <1> QED BY <1>1, <1>2

\* t is s with e behind it.
Longer(t, s, e) ==
  /\ t # <<>> /\ Len(t) = Len(s) + 1 /\ Len(s) \in Nat
  /\ \A i \in 1 .. Len(t) : (i \in 1 .. Len(s) /\ t[i] = s[i]) \/ (i = Len(s) + 1 /\ t[i] = e)
  /\ \A i \in 1 .. Len(s) : i \in 1 .. Len(t) /\ t[i] = s[i]
  /\ s # <<>> => t[1] = s[1]
  /\ s = <<>> => t[1] = e
  /\ t[Len(s) + 1] = e

\* Append makes it so.
LEMMA Appended ==
  ASSUME NEW S, NEW s \in Seq(S), NEW e \in S
  PROVE  Append(s, e) \in Seq(S) /\ Longer(Append(s, e), s, e)
  <1>1. Append(s, e) \in Seq(S) /\ Append(s, e) # <<>> /\ Len(Append(s, e)) = Len(s) + 1 /\ Len(s) \in Nat
    BY SMTT(60)
  <1>2. \A i \in 1 .. Len(Append(s, e)) : \/ i \in 1 .. Len(s) /\ Append(s, e)[i] = s[i]
                                          \/ i = Len(s) + 1 /\ Append(s, e)[i] = e
    BY SMTT(60)
  <1>3. \A i \in 1 .. Len(s) : i \in 1 .. Len(Append(s, e)) /\ Append(s, e)[i] = s[i]
    BY SMTT(60)
  <1>4. (s # <<>> => Append(s, e)[1] = s[1]) /\ (s = <<>> => Append(s, e)[1] = e)
    BY SMTT(60)
  <1>5. Append(s, e)[Len(s) + 1] = e
    BY SMTT(60)
  <1> QED BY <1>1, <1>2, <1>3, <1>4, <1>5 DEF Longer

\* The master issues a read.
LEMMA SendArStep ==
  ASSUME Inv, SendAr
  PROVE  Inv'
  <1>1. /\ TypeOK /\ Issued /\ Phases /\ Flights /\ Restart /\ StaleW /\ StaleR
        /\ AwOrder /\ WOrder /\ Flow /\ Pairs
    BY DEF Inv
  <1>2. /\ mst.ar <= Len(scn.reads) /\ SOpen("ar") /\ Push("ar", mst.ar)
        /\ mst' = [mst EXCEPT !.ar = mst.ar + 1]
        /\ UNCHANGED mVars /\ UNCHANGED <<scn, sRst, src_toggle, dst_sync>> /\ ph' = ph
    BY DEF SendAr, sUnchanged
  <1>3. MQuiet
    BY <1>2, QuietKept
  <1>4. mst \in [aw : Nat, w : Nat, sent : Nat, ar : Nat, base : Nat, resets : Nat]
    BY <1>1 DEF TypeOK
  <1>5. /\ mst'.aw = mst.aw /\ mst'.w = mst.w /\ mst'.sent = mst.sent /\ mst'.base = mst.base
        /\ mst'.ar = mst.ar + 1 /\ mst.ar \in Nat /\ mst.base \in Nat
        /\ mst' \in [aw : Nat, w : Nat, sent : Nat, ar : Nat, base : Nat, resets : Nat]
    BY <1>2, <1>4, SMTT(60)
  <1>6. SideKept
    <2>1. SQuiet
      BY <1>2, <1>3, <1>5 DEF SQuiet
    <2> QED BY <2>1, SideQuiet
  <1>7. "aw" \in Chan /\ "w" \in Chan /\ "b" \in Chan /\ "ar" \in Chan /\ "r" \in Chan
    BY DEF Chan
  <1>8. /\ DOMAIN q' = Chan /\ q'["ar"] = Append(q["ar"], mst.ar)
        /\ \A g \in Chan : g # "ar" => q'[g] = q[g]
    BY <1>1, <1>2, <1>7, Pushed
  <1>9. q'["aw"] = q["aw"] /\ q'["w"] = q["w"] /\ q'["b"] = q["b"] /\ q'["r"] = q["r"]
    BY <1>7, <1>8
  <1>10. q["ar"] \in Seq(Nat)
    BY <1>1 DEF TypeOK
  <1>11. /\ q'["ar"] \in Seq(Nat)
         /\ \A i \in 1 .. Len(q'["ar"]) : \/ i \in 1 .. Len(q["ar"]) /\ q'["ar"][i] = q["ar"][i]
                                          \/ q'["ar"][i] = mst.ar
    <2>1. q'["ar"] \in Seq(Nat) /\ Longer(q'["ar"], q["ar"], mst.ar)
      BY <1>5, <1>8, <1>10, Appended
    <2> QED BY <2>1 DEF Longer
  <1>12. TypeOK'
    BY <1>1, <1>2, <1>3, <1>5, <1>8, <1>9, <1>11 DEF TypeOK, MQuiet
  <1>13. Issued'
    <2>1. mst.ar >= 1 /\ mst.ar < mst.ar + 1 /\ mst.ar \in 1 .. Len(scn.reads)
      <3>1. scn.reads \in Seq(Nat \ {0})
        BY <1>1, BridgeAssumption DEF TypeOK
      <3>2. Len(scn.reads) \in Nat
        BY <3>1, Lengths
      <3>3. 1 <= mst.base /\ mst.base <= mst.ar
        BY <1>1 DEF Restart
      <3> QED BY <1>2, <1>5, <3>2, <3>3, SMTT(60)
    <2>2. \A i \in 1 .. Len(q'["ar"]) : q'["ar"][i] \in 1 .. Len(scn.reads) /\ q'["ar"][i] < mst.ar + 1
      <3> SUFFICES ASSUME NEW i \in 1 .. Len(q'["ar"])
                   PROVE  q'["ar"][i] \in 1 .. Len(scn.reads) /\ q'["ar"][i] < mst.ar + 1
        OBVIOUS
      <3>1. CASE i \in 1 .. Len(q["ar"]) /\ q'["ar"][i] = q["ar"][i]
        <4>1. q["ar"][i] \in 1 .. Len(scn.reads) /\ q["ar"][i] < mst.ar
          BY <1>1, <3>1 DEF Issued
        <4>2. q["ar"][i] \in Nat
          BY <1>10, <3>1, Lengths
        <4>3. q["ar"][i] < mst.ar + 1
          BY <1>5, <4>1, <4>2, SMTT(60)
        <4> QED BY <3>1, <4>1, <4>3
      <3>2. CASE q'["ar"][i] = mst.ar
        BY <2>1, <3>2
      <3> QED BY <1>11, <3>1, <3>2
    <2>3. \A i \in 1 .. Len(reads) : reads[i].id < mst.ar + 1
      <3> SUFFICES ASSUME NEW i \in 1 .. Len(reads) PROVE reads[i].id < mst.ar + 1
        OBVIOUS
      <3>1. reads \in Seq(Bursts)
        BY <1>1 DEF TypeOK
      <3>2. reads[i].id \in Nat
        <4>1. reads[i] \in Bursts
          BY <3>1, Lengths
        <4> QED BY <4>1 DEF Bursts
      <3>3. reads[i].id < mst.ar
        BY <1>1 DEF Issued
      <3> QED BY <1>5, <3>2, <3>3, SMTT(60)
    <2> QED BY <1>1, <1>2, <1>3, <1>5, <1>9, <2>2, <2>3 DEF Issued, MQuiet
  <1>14. Phases'
    <2>1. ph["ar"] # "frozen"
      BY <1>2 DEF SOpen
    <2>2. Crossing' <=> Crossing
      BY <1>2 DEF Crossing
    <2> QED BY <1>1, <1>2, <1>7, <1>8, <2>1, <2>2 DEF Phases
  <1>15. Restart'
    <2>1. ~sRst
      BY <1>2 DEF SOpen
    <2>2. 1 <= mst.base /\ mst.base <= mst.aw /\ mst.base <= mst.w /\ mst.base <= mst.ar
      BY <1>1 DEF Restart
    <2>3. mst.base <= mst.ar + 1
      BY <1>5, <2>2, SMTT(60)
    <2> QED BY <1>2, <1>5, <2>1, <2>2, <2>3 DEF Restart
  <1>16. StaleW'
    <2>1. Queued("aw")' /\ Answers("b")'
      BY <1>1, <1>2, <1>5, <1>9 DEF StaleW, Queued, Answers
    <2> QED BY <1>6, <2>1 DEF StaleW, SideKept
  <1>17. StaleR'
    <2>1. Answers("r")'
      BY <1>1, <1>2, <1>5, <1>9 DEF StaleR, Answers
    <2>2. Queued("ar")'
      <3>1. ph["ar"] \in {"run", "thaw"}
        BY <1>2 DEF SOpen
      <3>2. \A i \in 1 .. Len(q["ar"]) : q["ar"][i] >= mst.base
        BY <1>1, <3>1 DEF StaleR, Queued, QueuedAs
      <3>3. mst.ar >= mst.base
        <4>1. mst.base <= mst.ar
          BY <1>1 DEF Restart
        <4> QED BY <1>5, <4>1, SMTT(60)
      <3>4. \A i \in 1 .. Len(q'["ar"]) : q'["ar"][i] >= mst.base
        BY <1>11, <3>2, <3>3
      <3> QED BY <1>2, <1>5, <3>1, <3>4 DEF Queued, QueuedAs
    <2> QED BY <1>6, <2>1, <2>2 DEF StaleR, SideKept
  <1>18. AwHead' = AwHead /\ NextAw' = NextAw /\ NextW' = NextW /\ NextNo' = NextNo
         /\ (Alive' <=> Alive)
    BY <1>2, <1>3, <1>5, <1>9 DEF AwHead, NextAw, NextW, NextNo, Alive, MQuiet, MEngaged
  <1>19. AwOrder' /\ WOrder'
    <2>1. AwOrder'
      BY <1>1, <1>2, <1>3, <1>5, <1>9, <1>18 DEF AwOrder, MQuiet, MEngaged
    <2>2. WOrder'
      BY <1>1, <1>2, <1>5, <1>9 DEF WOrder
    <2> QED BY <2>1, <2>2
  <1>20. Flow' /\ Pairs'
    <2>1. Flow'
      BY <1>1, <1>2, <1>3, <1>6, <1>18 DEF Flow, MQuiet, SideKept
    <2>2. Pairs'
      BY <1>1, <1>2, <1>3, <1>6, <1>9, <1>18 DEF Pairs, MQuiet, SideKept
    <2> QED BY <2>1, <2>2
  <1> QED BY <1>6, <1>12, <1>13, <1>14, <1>15, <1>16, <1>17, <1>19, <1>20 DEF Inv, SideKept

\* The master takes a response.
LEMMA TakeStep ==
  ASSUME Inv, NEW f \in {"b", "r"}, TakeResponse(f)
  PROVE  Inv'
  <1>1. /\ TypeOK /\ Issued /\ Phases /\ Flights /\ Restart /\ StaleW /\ StaleR
        /\ AwOrder /\ WOrder /\ Flow /\ Pairs
    BY DEF Inv
  <1>2. /\ SOpen(f) /\ q[f] # <<>> /\ q' = [q EXCEPT ![f] = Tail(q[f])] /\ mst' = mst
        /\ UNCHANGED mVars /\ UNCHANGED <<scn, sRst, src_toggle, dst_sync>> /\ ph' = ph
    BY DEF TakeResponse, sUnchanged
  <1>3. MQuiet
    BY <1>2, QuietKept
  <1>6. SideKept
    <2>1. SQuiet
      BY <1>2, <1>3 DEF SQuiet
    <2> QED BY <2>1, SideQuiet
  <1>7. "aw" \in Chan /\ "w" \in Chan /\ "b" \in Chan /\ "ar" \in Chan /\ "r" \in Chan /\ f \in Chan
    BY DEF Chan
  <1>8. DOMAIN q' = Chan /\ q'[f] = Tail(q[f]) /\ \A g \in Chan : g # f => q'[g] = q[g]
    <2>1. DOMAIN q = Chan
      BY <1>1 DEF TypeOK
    <2> QED BY <1>2, <1>7, <2>1
  <1>9. q'["aw"] = q["aw"] /\ q'["w"] = q["w"] /\ q'["ar"] = q["ar"]
    BY <1>7, <1>8
  <1>10. q[f] \in Seq(Nat) /\ ph[f] = "run"
    <2>1. q["b"] \in Seq(Nat) /\ q["r"] \in Seq(Nat)
      BY <1>1 DEF TypeOK
    <2>2. ph[f] \in {"run", "thaw"} /\ (ph[f] = "thaw" => q[f] = <<>>)
      BY <1>1, <1>2 DEF Phases, SOpen
    <2> QED BY <1>2, <2>1, <2>2
  <1>11. /\ q'[f] \in Seq(Nat)
         /\ \A i \in 1 .. Len(q'[f]) : i + 1 \in 1 .. Len(q[f]) /\ q'[f][i] = q[f][i + 1]
    <2>1. ASSUME NEW s \in Seq(Nat), s # <<>>
          PROVE  /\ Tail(s) \in Seq(Nat)
                 /\ \A i \in 1 .. Len(Tail(s)) : i + 1 \in 1 .. Len(s) /\ Tail(s)[i] = s[i + 1]
      BY <2>1, SMTT(60)
    <2> DEFINE Tailed(t, s) == /\ t \in Seq(Nat)
                               /\ \A i \in 1 .. Len(t) : i + 1 \in 1 .. Len(s) /\ t[i] = s[i + 1]
    <2>2. \A s \in Seq(Nat) : s # <<>> => Tailed(Tail(s), s)
      BY <2>1
    <2> HIDE DEF Tailed
    <2>3. Tailed(q'[f], q[f])
      BY <1>2, <1>8, <1>10, <2>2
    <2> QED BY <2>3 DEF Tailed
  <1>12. TypeOK'
    <2>1. q'["b"] \in Seq(Nat) /\ q'["r"] \in Seq(Nat)
      BY <1>1, <1>7, <1>8, <1>11 DEF TypeOK
    <2> QED BY <1>1, <1>2, <1>3, <1>8, <1>9, <2>1 DEF TypeOK, MQuiet
  <1>13. Issued'
    BY <1>1, <1>2, <1>3, <1>9 DEF Issued, MQuiet
  <1>14. Phases'
    <2>2. Crossing' <=> Crossing
      BY <1>2 DEF Crossing
    <2> QED BY <1>1, <1>2, <1>7, <1>8, <1>10, <2>2 DEF Phases
  <1>15. Restart'
    BY <1>1, <1>2 DEF Restart
  <1>16. Answers("b")' /\ Answers("r")'
    <2>1. Answers("b") /\ Answers("r")
      BY <1>1 DEF StaleW, StaleR
    <2>2. \A i \in 1 .. Len(q[f]) : q[f][i] >= mst.base
      BY <1>10, <2>1 DEF Answers, AnswersAs
    <2>3. \A i \in 1 .. Len(q'[f]) : q'[f][i] >= mst.base
      BY <1>11, <2>2
    <2>4. \A g \in {"b", "r"} : g # f => q'[g] = q[g]
      BY <1>7, <1>8
    <2> QED BY <1>2, <2>1, <2>3, <2>4 DEF Answers, AnswersAs
  <1>17. Queued("aw")' /\ Queued("ar")'
    BY <1>1, <1>2, <1>9 DEF StaleW, StaleR, Queued
  <1>18. AwHead' = AwHead /\ NextAw' = NextAw /\ NextW' = NextW /\ NextNo' = NextNo
         /\ (Alive' <=> Alive)
    <2>1. AwHead' = AwHead /\ NextW' = NextW /\ NextNo' = NextNo
      <3>1. mst' = mst
        BY <1>2
      <3> QED BY <1>9, <3>1 DEF AwHead, NextW, NextNo
    <2>2. stage' = stage
      BY <1>3 DEF MQuiet
    <2>3. NextAw' = NextAw
      BY <1>2, <2>1, <2>2 DEF NextAw, MEngaged
    <2>4. Alive' <=> Alive
      BY <1>2, <1>9, <2>2 DEF Alive
    <2> QED BY <2>1, <2>3, <2>4
  <1>19. AwOrder' /\ WOrder'
    <2>1. AwOrder'
      BY <1>1, <1>2, <1>3, <1>9, <1>18 DEF AwOrder, MQuiet, MEngaged
    <2>2. WOrder'
      BY <1>1, <1>2, <1>9 DEF WOrder
    <2> QED BY <2>1, <2>2
  <1>20. Flow' /\ Pairs'
    <2>1. Flow'
      BY <1>1, <1>2, <1>3, <1>6, <1>18 DEF Flow, MQuiet, SideKept
    <2>2. Pairs'
      BY <1>1, <1>2, <1>3, <1>6, <1>9, <1>18 DEF Pairs, MQuiet, SideKept
    <2> QED BY <2>1, <2>2
  <1> QED BY <1>6, <1>12, <1>13, <1>14, <1>15, <1>16, <1>17, <1>19, <1>20
        DEF Inv, SideKept, StaleW, StaleR

\* The master issues a write.
LEMMA SendAwStep ==
  ASSUME Inv, SendAw
  PROVE  Inv'
  <1>1. /\ TypeOK /\ Issued /\ Phases /\ Flights /\ Restart /\ StaleW /\ StaleR
        /\ AwOrder /\ WOrder /\ Flow /\ Pairs
    BY DEF Inv
  <1>2. /\ mst.aw <= Len(scn.beats) /\ SOpen("aw") /\ Push("aw", mst.aw)
        /\ mst' = [mst EXCEPT !.aw = mst.aw + 1]
        /\ UNCHANGED mVars /\ UNCHANGED <<scn, sRst, src_toggle, dst_sync>> /\ ph' = ph
    BY DEF SendAw, sUnchanged
  <1>3. MQuiet
    BY <1>2, QuietKept
  <1>4. mst \in [aw : Nat, w : Nat, sent : Nat, ar : Nat, base : Nat, resets : Nat]
    BY <1>1 DEF TypeOK
  <1>5. /\ mst'.ar = mst.ar /\ mst'.w = mst.w /\ mst'.sent = mst.sent /\ mst'.base = mst.base
        /\ mst'.aw = mst.aw + 1 /\ mst.aw \in Nat /\ mst.base \in Nat
        /\ mst' \in [aw : Nat, w : Nat, sent : Nat, ar : Nat, base : Nat, resets : Nat]
    BY <1>2, <1>4, SMTT(60)
  <1>6. SideKept
    <2>1. SQuiet
      BY <1>2, <1>3, <1>5 DEF SQuiet
    <2> QED BY <2>1, SideQuiet
  <1>7. "aw" \in Chan /\ "w" \in Chan /\ "b" \in Chan /\ "ar" \in Chan /\ "r" \in Chan
    BY DEF Chan
  <1>8. /\ DOMAIN q' = Chan /\ q'["aw"] = Append(q["aw"], mst.aw)
        /\ \A g \in Chan : g # "aw" => q'[g] = q[g]
    BY <1>1, <1>2, <1>7, Pushed
  <1>9. q'["ar"] = q["ar"] /\ q'["w"] = q["w"] /\ q'["b"] = q["b"] /\ q'["r"] = q["r"]
    BY <1>7, <1>8
  <1>10. q["aw"] \in Seq(Nat)
    BY <1>1 DEF TypeOK
  <1>11. q'["aw"] \in Seq(Nat) /\ Longer(q'["aw"], q["aw"], mst.aw)
    BY <1>5, <1>8, <1>10, Appended
  <1>12. TypeOK'
    BY <1>1, <1>2, <1>3, <1>5, <1>8, <1>9, <1>11 DEF TypeOK, MQuiet
  <1>13. Issued'
    <2>0. \A a \in Nat : a < mst.aw => a < mst.aw + 1
      BY <1>5, SMTT(60)
    <2>1. mst.aw < mst.aw + 1 /\ mst.aw \in 1 .. Len(scn.beats)
      <3>1. scn.beats \in Seq(Beats)
        BY <1>1, BridgeAssumption DEF TypeOK
      <3>2. Len(scn.beats) \in Nat
        BY <3>1, Lengths
      <3>3. 1 <= mst.base /\ mst.base <= mst.aw
        BY <1>1 DEF Restart
      <3> QED BY <1>2, <1>5, <3>2, <3>3, SMTT(60)
    <2>2. \A i \in 1 .. Len(q'["aw"]) : q'["aw"][i] \in 1 .. Len(scn.beats) /\ q'["aw"][i] < mst.aw + 1
      <3> SUFFICES ASSUME NEW i \in 1 .. Len(q'["aw"])
                   PROVE  q'["aw"][i] \in 1 .. Len(scn.beats) /\ q'["aw"][i] < mst.aw + 1
        OBVIOUS
      <3>1. CASE i \in 1 .. Len(q["aw"]) /\ q'["aw"][i] = q["aw"][i]
        <4>1. q["aw"][i] \in 1 .. Len(scn.beats) /\ q["aw"][i] < mst.aw
          BY <1>1, <3>1 DEF Issued
        <4>2. q["aw"][i] \in Nat
          BY <1>10, <3>1, Lengths
        <4> QED BY <2>0, <3>1, <4>1, <4>2
      <3>2. CASE q'["aw"][i] = mst.aw
        BY <2>1, <3>2
      <3> QED BY <1>11, <3>1, <3>2 DEF Longer
    <2>3. \A i \in 1 .. Len(writes) : writes[i] \in 1 .. Len(scn.beats) /\ writes[i] < mst.aw + 1
      <3> SUFFICES ASSUME NEW i \in 1 .. Len(writes)
                   PROVE  writes[i] \in 1 .. Len(scn.beats) /\ writes[i] < mst.aw + 1
        OBVIOUS
      <3>1. writes \in Seq(Nat)
        BY <1>1 DEF TypeOK
      <3>2. writes[i] \in Nat
        BY <3>1, Lengths
      <3>3. writes[i] \in 1 .. Len(scn.beats) /\ writes[i] < mst.aw
        BY <1>1 DEF Issued
      <3> QED BY <2>0, <3>2, <3>3
    <2>4. stage # None => stage \in 1 .. Len(scn.beats) /\ stage < mst.aw + 1
      <3>1. stage \in Nat \cup {None}
        BY <1>1 DEF TypeOK
      <3>2. stage # None => stage \in 1 .. Len(scn.beats) /\ stage < mst.aw
        BY <1>1 DEF Issued
      <3> QED BY <2>0, <3>1, <3>2
    <2> QED BY <1>1, <1>2, <1>3, <1>5, <1>9, <2>2, <2>3, <2>4 DEF Issued, MQuiet
  <1>14. Phases'
    <2>1. ph["aw"] # "frozen"
      BY <1>2 DEF SOpen
    <2>2. Crossing' <=> Crossing
      BY <1>2 DEF Crossing
    <2> QED BY <1>1, <1>2, <1>7, <1>8, <2>1, <2>2 DEF Phases
  <1>a. ~sRst /\ ~sRst'
    BY <1>2 DEF SOpen
  <1>15. Restart'
    <2>2. 1 <= mst.base /\ mst.base <= mst.aw /\ mst.base <= mst.w /\ mst.base <= mst.ar
      BY <1>1 DEF Restart
    <2>3. mst.base <= mst.aw + 1
      BY <1>5, <2>2, SMTT(60)
    <2> QED BY <1>a, <1>2, <1>5, <2>2, <2>3 DEF Restart
  <1>16. StaleR'
    <2>1. Queued("ar")' /\ Answers("r")'
      BY <1>1, <1>2, <1>5, <1>9 DEF StaleR, Queued, Answers
    <2> QED BY <1>6, <2>1 DEF StaleR, SideKept
  <1>17. StaleW'
    <2>1. Answers("b")'
      BY <1>1, <1>2, <1>5, <1>9 DEF StaleW, Answers
    <2>2. Queued("aw")'
      <3>1. ph["aw"] \in {"run", "thaw"}
        BY <1>2 DEF SOpen
      <3>2. \A i \in 1 .. Len(q["aw"]) : q["aw"][i] >= mst.base
        BY <1>1, <3>1 DEF StaleW, Queued, QueuedAs
      <3>3. mst.aw >= mst.base
        <4>1. mst.base <= mst.aw
          BY <1>1 DEF Restart
        <4> QED BY <1>5, <4>1, SMTT(60)
      <3>4. \A i \in 1 .. Len(q'["aw"]) : q'["aw"][i] >= mst.base
        BY <1>11, <3>2, <3>3 DEF Longer
      <3> QED BY <1>2, <1>5, <3>1, <3>4 DEF Queued, QueuedAs
    <2> QED BY <1>6, <2>1, <2>2 DEF StaleW, SideKept
  <1>b. AwHead' = AwHead
    BY <1>11 DEF AwHead, Longer
  <1>18. NextAw' = NextAw /\ NextW' = NextW /\ NextNo' = NextNo /\ Alive /\ Alive'
    BY <1>a, <1>b, <1>2, <1>3, <1>5, <1>9 DEF NextAw, NextW, NextNo, Alive, MQuiet, MEngaged
  <1>19. AwOrder' /\ WOrder'
    <2>1. AwHead \in Nat
      <3>1. q["aw"] # <<>> => q["aw"][1] \in Nat
        BY <1>10, SMTT(60)
      <3> QED BY <1>5, <3>1 DEF AwHead
    <2>2. /\ \A i \in 1 .. Len(q["aw"]) : q["aw"][i] = AwHead + i - 1
          /\ AwHead + Len(q["aw"]) = mst.aw
          /\ stage # None /\ ~MEngaged("aw") /\ (sRst => q["aw"] # <<>>) => AwHead = stage + 1
      BY <1>1, <1>a DEF AwOrder
    <2>3. Len(q["aw"]) \in Nat /\ Len(q'["aw"]) = Len(q["aw"]) + 1
      BY <1>11 DEF Longer
    <2>4. /\ AwHead + Len(q'["aw"]) = mst.aw + 1
          /\ AwHead + (Len(q["aw"]) + 1) - 1 = mst.aw
      BY <2>1, <2>2, <2>3, SMTT(60)
    <2>5. \A i \in 1 .. Len(q'["aw"]) : q'["aw"][i] = AwHead + i - 1
      BY <1>11, <2>2, <2>4 DEF Longer
    <2>6. stage' # None /\ ~MEngaged("aw")' => AwHead = stage' + 1
      BY <1>a, <1>2, <1>3, <2>2 DEF MQuiet, MEngaged
    <2>7. AwOrder'
      BY <1>b, <1>5, <2>4, <2>5, <2>6 DEF AwOrder
    <2>8. WOrder'
      BY <1>1, <1>2, <1>5, <1>9 DEF WOrder
    <2> QED BY <2>7, <2>8
  <1>20. Flow' /\ Pairs'
    <2>1. Flow'
      BY <1>1, <1>2, <1>3, <1>6, <1>18 DEF Flow, MQuiet, SideKept
    <2>2. Pairs'
      BY <1>a, <1>1, <1>2, <1>3, <1>6, <1>9, <1>18 DEF Pairs, MQuiet, SideKept
    <2> QED BY <2>1, <2>2
  <1> QED BY <1>6, <1>12, <1>13, <1>14, <1>15, <1>16, <1>17, <1>19, <1>20 DEF Inv, SideKept

\* The master sends a beat.
LEMMA SendWStep ==
  ASSUME Inv, SendW
  PROVE  Inv'
  <1>1. /\ TypeOK /\ Issued /\ Phases /\ Flights /\ Restart /\ StaleW /\ StaleR
        /\ AwOrder /\ WOrder /\ Flow /\ Pairs
    BY DEF Inv
  <1> DEFINE last == mst.sent + 1 = scn.beats[mst.w]
             e == [id |-> mst.w, no |-> mst.sent + 1, last |-> last]
  <1>2. /\ mst.w <= Len(scn.beats) /\ SOpen("w") /\ Push("w", e)
        /\ mst' = IF last THEN [mst EXCEPT !.w = mst.w + 1, !.sent = 0]
                  ELSE [mst EXCEPT !.sent = mst.sent + 1]
        /\ UNCHANGED mVars /\ UNCHANGED <<scn, sRst, src_toggle, dst_sync>> /\ ph' = ph
    BY DEF SendW, sUnchanged
  <1>3. MQuiet
    BY <1>2, QuietKept
  <1>4. mst \in [aw : Nat, w : Nat, sent : Nat, ar : Nat, base : Nat, resets : Nat]
    BY <1>1 DEF TypeOK
  <1>c. last \in BOOLEAN
    BY SMTT(60)
  <1>e. /\ e.id = mst.w /\ e.no = mst.sent + 1 /\ e.last = last /\ e \in WBeats
    <2>1. mst.w \in Nat /\ mst.sent + 1 \in Nat
      BY <1>4, SMTT(60)
    <2> QED BY <1>c, <2>1 DEF WBeats
  <1> HIDE DEF last, e
  <1>5. /\ mst'.aw = mst.aw /\ mst'.ar = mst.ar /\ mst'.base = mst.base
        /\ last => mst'.w = mst.w + 1 /\ mst'.sent = 0
        /\ ~last => mst'.w = mst.w /\ mst'.sent = mst.sent + 1
        /\ mst.w \in Nat /\ mst.sent \in Nat /\ mst.base \in Nat
        /\ mst' \in [aw : Nat, w : Nat, sent : Nat, ar : Nat, base : Nat, resets : Nat]
    <2>1. CASE last
      <3>1. mst' = [mst EXCEPT !.w = mst.w + 1, !.sent = 0]
        BY <1>2, <2>1
      <3>2. mst.w \in Nat /\ mst.sent \in Nat /\ mst.w + 1 \in Nat /\ mst.sent + 1 \in Nat /\ 0 \in Nat
        BY <1>4, SMTT(60)
      <3>3. /\ mst'.aw = mst.aw /\ mst'.ar = mst.ar /\ mst'.base = mst.base
            /\ mst'.w = mst.w + 1 /\ mst'.sent = 0 /\ mst.base \in Nat
        BY <1>4, <3>1, <3>2
      <3>4. mst' \in [aw : Nat, w : Nat, sent : Nat, ar : Nat, base : Nat, resets : Nat]
        BY <1>4, <3>1, <3>2
      <3> QED BY <2>1, <3>2, <3>3, <3>4
    <2>2. CASE ~last
      <3>1. mst' = [mst EXCEPT !.sent = mst.sent + 1]
        BY <1>2, <2>2
      <3>2. mst.w \in Nat /\ mst.sent \in Nat /\ mst.w + 1 \in Nat /\ mst.sent + 1 \in Nat /\ 0 \in Nat
        BY <1>4, SMTT(60)
      <3>3. /\ mst'.aw = mst.aw /\ mst'.ar = mst.ar /\ mst'.base = mst.base
            /\ mst'.w = mst.w /\ mst'.sent = mst.sent + 1 /\ mst.base \in Nat
        BY <1>4, <3>1, <3>2
      <3>4. mst' \in [aw : Nat, w : Nat, sent : Nat, ar : Nat, base : Nat, resets : Nat]
        BY <1>4, <3>1, <3>2
      <3> QED BY <2>2, <3>2, <3>3, <3>4
    <2> QED BY <2>1, <2>2
  <1>6. SideKept
    <2>1. SQuiet
      BY <1>2, <1>3, <1>5 DEF SQuiet
    <2> QED BY <2>1, SideQuiet
  <1>7. "aw" \in Chan /\ "w" \in Chan /\ "b" \in Chan /\ "ar" \in Chan /\ "r" \in Chan
    BY DEF Chan
  <1>8. /\ DOMAIN q' = Chan /\ q'["w"] = Append(q["w"], e)
        /\ \A g \in Chan : g # "w" => q'[g] = q[g]
    BY <1>1, <1>2, <1>7, Pushed
  <1>9. q'["ar"] = q["ar"] /\ q'["aw"] = q["aw"] /\ q'["b"] = q["b"] /\ q'["r"] = q["r"]
    BY <1>7, <1>8
  <1>10. q["w"] \in Seq(WBeats)
    BY <1>1 DEF TypeOK
  <1>11. q'["w"] \in Seq(WBeats) /\ Longer(q'["w"], q["w"], e)
    BY <1>e, <1>8, <1>10, Appended
  <1>12. TypeOK'
    BY <1>1, <1>2, <1>3, <1>5, <1>8, <1>9, <1>11 DEF TypeOK, MQuiet
  <1>13. Issued'
    BY <1>1, <1>2, <1>3, <1>5, <1>9 DEF Issued, MQuiet
  <1>14. Phases'
    <2>1. ph["w"] # "frozen"
      BY <1>2 DEF SOpen
    <2>2. Crossing' <=> Crossing
      BY <1>2 DEF Crossing
    <2> QED BY <1>1, <1>2, <1>7, <1>8, <2>1, <2>2 DEF Phases
  <1>a. ~sRst /\ ~sRst'
    BY <1>2 DEF SOpen
  <1>15. Restart'
    <2>2. 1 <= mst.base /\ mst.base <= mst.aw /\ mst.base <= mst.w /\ mst.base <= mst.ar
      BY <1>1 DEF Restart
    <2>3. mst.base <= mst.w + 1
      BY <1>5, <2>2, SMTT(60)
    <2>4. mst.base <= mst'.w
      BY <1>5, <2>2, <2>3
    <2> QED BY <1>a, <1>5, <2>2, <2>4 DEF Restart
  <1>16. StaleR'
    <2>1. Queued("ar")' /\ Answers("r")'
      BY <1>1, <1>2, <1>5, <1>9 DEF StaleR, Queued, Answers
    <2> QED BY <1>6, <2>1 DEF StaleR, SideKept
  <1>17. StaleW'
    <2>1. Queued("aw")' /\ Answers("b")'
      BY <1>1, <1>2, <1>5, <1>9 DEF StaleW, Queued, Answers
    <2> QED BY <1>6, <2>1 DEF StaleW, SideKept
  <1>18. AwHead' = AwHead /\ NextAw' = NextAw /\ NextW' = NextW /\ NextNo' = NextNo
         /\ Alive /\ Alive'
    <2>1. AwHead' = AwHead
      BY <1>5, <1>9 DEF AwHead
    <2>2. stage' = stage
      BY <1>3 DEF MQuiet
    <2>3. NextAw' = NextAw
      BY <1>2, <2>1, <2>2 DEF NextAw, MEngaged
    <2>4. Alive /\ Alive'
      BY <1>a DEF Alive
    <2>5. NextW' = NextW /\ NextNo' = NextNo
      <3>1. CASE q["w"] = <<>>
        <4>1. q'["w"] # <<>> /\ q'["w"][1] = e
          BY <1>11, <3>1 DEF Longer
        <4> QED BY <1>e, <3>1, <4>1 DEF NextW, NextNo
      <3>2. CASE q["w"] # <<>>
        <4>1. q'["w"] # <<>> /\ q'["w"][1] = q["w"][1]
          BY <1>11, <3>2 DEF Longer
        <4> QED BY <3>2, <4>1 DEF NextW, NextNo
      <3> QED BY <3>1, <3>2
    <2> QED BY <2>1, <2>3, <2>4, <2>5
  <1>19. AwOrder'
    BY <1>1, <1>2, <1>3, <1>5, <1>9, <1>18 DEF AwOrder, MQuiet, MEngaged
  <1>w. WOrder'
    <2>1. scn.beats \in Seq(Beats)
      BY <1>1, BridgeAssumption DEF TypeOK
    <2>2. mst.w \in 1 .. Len(scn.beats)
      <3>1. Len(scn.beats) \in Nat
        BY <2>1, Lengths
      <3>2. 1 <= mst.base /\ mst.base <= mst.w
        BY <1>1 DEF Restart
      <3> QED BY <1>2, <1>5, <3>1, <3>2, SMTT(60)
    <2>3. scn.beats[mst.w] \in Nat /\ scn.beats[mst.w] >= 1
      <3>1. scn.beats[mst.w] \in Beats
        BY <2>1, <2>2, Lengths
      <3> QED BY <3>1, PadAssumption, SMTT(60) DEF Beats
    <2>4. mst.sent > 0 => mst.sent < scn.beats[mst.w]
      BY <1>1 DEF WOrder
    <2>5. mst.sent + 1 \in 1 .. scn.beats[mst.w] /\ (~last => mst.sent + 1 < scn.beats[mst.w])
      BY <1>5, <2>3, <2>4, SMTT(60) DEF last
    <2>6. e.last <=> e.no = scn.beats[e.id]
      BY <1>e DEF last
    <2>7. /\ \A i \in 1 .. Len(q["w"]) : /\ q["w"][i].id \in 1 .. Len(scn.beats)
                                         /\ q["w"][i].no \in 1 .. scn.beats[q["w"][i].id]
                                         /\ q["w"][i].last <=> q["w"][i].no = scn.beats[q["w"][i].id]
          /\ \A i \in 1 .. Len(q["w"]) - 1 : Follows(q["w"][i], q["w"][i + 1].id, q["w"][i + 1].no)
          /\ q["w"] # <<>> => Follows(q["w"][Len(q["w"])], mst.w, mst.sent + 1)
      BY <1>1, <1>a DEF WOrder
    <2>8. \A i \in 1 .. Len(q'["w"]) : /\ q'["w"][i].id \in 1 .. Len(scn.beats)
                                       /\ q'["w"][i].no \in 1 .. scn.beats[q'["w"][i].id]
                                       /\ q'["w"][i].last <=> q'["w"][i].no = scn.beats[q'["w"][i].id]
      <3> SUFFICES ASSUME NEW i \in 1 .. Len(q'["w"])
                   PROVE  /\ q'["w"][i].id \in 1 .. Len(scn.beats)
                          /\ q'["w"][i].no \in 1 .. scn.beats[q'["w"][i].id]
                          /\ q'["w"][i].last <=> q'["w"][i].no = scn.beats[q'["w"][i].id]
        OBVIOUS
      <3>1. CASE i \in 1 .. Len(q["w"]) /\ q'["w"][i] = q["w"][i]
        BY <2>7, <3>1
      <3>2. CASE q'["w"][i] = e
        <4>1. e.id \in 1 .. Len(scn.beats) /\ e.no \in 1 .. scn.beats[e.id]
          BY <1>e, <2>2, <2>5
        <4> QED BY <2>6, <3>2, <4>1
      <3> QED BY <1>11, <3>1, <3>2 DEF Longer
    <2>9. Len(q["w"]) \in Nat /\ Len(q'["w"]) = Len(q["w"]) + 1
      BY <1>11 DEF Longer
    <2>10. \A i \in 1 .. Len(q'["w"]) - 1 : Follows(q'["w"][i], q'["w"][i + 1].id, q'["w"][i + 1].no)
      <3> SUFFICES ASSUME NEW i \in 1 .. Len(q'["w"]) - 1
                   PROVE  Follows(q'["w"][i], q'["w"][i + 1].id, q'["w"][i + 1].no)
        OBVIOUS
      <3>1. /\ i \in 1 .. Len(q["w"]) /\ Len(q["w"]) # 0
            /\ i # Len(q["w"]) => i \in 1 .. Len(q["w"]) - 1 /\ i + 1 \in 1 .. Len(q["w"])
        BY <2>9, SMTT(60)
      <3>2. q'["w"][i] = q["w"][i]
        BY <1>11, <3>1 DEF Longer
      <3>3. CASE i = Len(q["w"])
        <4>1. q'["w"][i + 1] = e
          BY <1>11, <3>3 DEF Longer
        <4>2. q["w"] # <<>>
          BY <1>10, <3>1, Lengths
        <4> QED BY <1>e, <2>7, <3>2, <3>3, <4>1, <4>2
      <3>4. CASE i # Len(q["w"])
        <4>1. q'["w"][i + 1] = q["w"][i + 1]
          BY <1>11, <3>1, <3>4 DEF Longer
        <4> QED BY <2>7, <3>1, <3>2, <3>4, <4>1
      <3> QED BY <3>3, <3>4
    <2>11. Follows(q'["w"][Len(q'["w"])], mst'.w, mst'.sent + 1)
      <3>1. q'["w"][Len(q'["w"])] = e
        BY <1>11, <2>9 DEF Longer
      <3>2. 0 + 1 = 1
        BY SMTT(60)
      <3>3. Follows(e, mst'.w, mst'.sent + 1)
        <4>1. CASE last
          BY <1>e, <1>5, <3>2, <4>1 DEF Follows
        <4>2. CASE ~last
          BY <1>e, <1>5, <4>2 DEF Follows
        <4> QED BY <4>1, <4>2
      <3> QED BY <3>1, <3>3
    <2>12. mst'.sent > 0 => mst'.w \in 1 .. Len(scn.beats) /\ mst'.sent < scn.beats[mst'.w]
      <3>1. ~(0 > 0)
        BY SMTT(60)
      <3> QED BY <1>5, <2>2, <2>5, <3>1
    <2> QED BY <1>2, <2>8, <2>10, <2>11, <2>12 DEF WOrder
  <1>20. Flow' /\ Pairs'
    <2>1. Flow'
      BY <1>1, <1>2, <1>3, <1>6, <1>18 DEF Flow, MQuiet, SideKept
    <2>2. Pairs'
      BY <1>a, <1>1, <1>2, <1>3, <1>6, <1>9, <1>18 DEF Pairs, MQuiet, SideKept
    <2> QED BY <2>1, <2>2
  <1> QED BY <1>w, <1>6, <1>12, <1>13, <1>14, <1>15, <1>16, <1>17, <1>19, <1>20 DEF Inv, SideKept

\* No number the master has used reaches the one it restarts from.
LEMMA RestartsAbove ==
  ASSUME TypeOK
  PROVE  /\ Unused \in Nat /\ mst.aw <= Unused /\ mst.w <= Unused /\ mst.ar <= Unused
         /\ Restarted.aw = Unused /\ Restarted.w = Unused /\ Restarted.ar = Unused
         /\ Restarted.base = Unused /\ Restarted.sent = 0
         /\ Restarted \in [aw : Nat, w : Nat, sent : Nat, ar : Nat, base : Nat, resets : Nat]
  <1>1. mst \in [aw : Nat, w : Nat, sent : Nat, ar : Nat, base : Nat, resets : Nat]
    BY DEF TypeOK
  <1>2. mst.aw \in Nat /\ mst.w \in Nat /\ mst.ar \in Nat /\ mst.resets + 1 \in Nat /\ 0 \in Nat
    BY <1>1, SMTT(60)
  <1>3. Unused \in Nat /\ mst.aw <= Unused /\ mst.w <= Unused /\ mst.ar <= Unused
    BY <1>2, SMTT(60) DEF Unused
  <1>4. Restarted = [aw |-> Unused, w |-> Unused, sent |-> 0, ar |-> Unused,
                     base |-> Unused, resets |-> mst.resets + 1]
    BY DEF Restarted
  <1>5. /\ Restarted.aw = Unused /\ Restarted.w = Unused /\ Restarted.ar = Unused
        /\ Restarted.base = Unused /\ Restarted.sent = 0
    BY <1>4
  <1>6. Restarted \in [aw : Nat, w : Nat, sent : Nat, ar : Nat, base : Nat, resets : Nat]
    BY <1>2, <1>3, <1>4
  <1> QED BY <1>3, <1>5, <1>6

\* What the freeze of the s side leaves of a FIFO.
Dropped(f) == /\ MEngaged(f) => ph'[f] = "frozen" /\ q'[f] = <<>>
              /\ ~MEngaged(f) => ph'[f] = "near" /\ q'[f] = q[f] /\ ph[f] = "run"

\* The master is reset: what it queued is stale from now on.
LEMMA SResetStep ==
  ASSUME Inv, SReset
  PROVE  Inv'
  <1>1. /\ TypeOK /\ Issued /\ Phases /\ Flights /\ Restart /\ StaleW /\ StaleR
        /\ AwOrder /\ WOrder /\ Flow /\ Pairs
    BY DEF Inv
  <1>2. /\ ~sRst /\ ~Crossing /\ sRst' = TRUE /\ src_toggle' = 1 - src_toggle
        /\ mst' = Restarted /\ scn' = scn /\ dst_sync' = dst_sync /\ UNCHANGED mVars
    BY DEF SReset
  <1>3. MQuiet
    BY <1>2, QuietKept
  <1>4. /\ Unused \in Nat /\ mst.aw <= Unused /\ mst.ar <= Unused
        /\ mst'.aw = Unused /\ mst'.w = Unused /\ mst'.ar = Unused
        /\ mst'.base = Unused /\ mst'.sent = 0
        /\ mst' \in [aw : Nat, w : Nat, sent : Nat, ar : Nat, base : Nat, resets : Nat]
    BY <1>1, <1>2, RestartsAbove
  <1>5. \A n \in Nat : (n < mst.aw \/ n < mst.ar => n < Unused)
    <2>1. mst \in [aw : Nat, w : Nat, sent : Nat, ar : Nat, base : Nat, resets : Nat]
      BY <1>1 DEF TypeOK
    <2>2. mst.aw \in Nat /\ mst.ar \in Nat
      BY <2>1
    <2> QED BY <1>4, <2>2, SMTT(60)
  <1>7. "aw" \in Chan /\ "w" \in Chan /\ "b" \in Chan /\ "ar" \in Chan /\ "r" \in Chan
    BY DEF Chan
  <1>8. DOMAIN q' = Chan /\ ph' \in [Chan -> {"run", "near", "frozen", "thaw"}]
    BY DEF SReset
  <1>9. ASSUME NEW f \in Chan PROVE Dropped(f)
    <2>1. ph[f] \in {"run", "near", "frozen", "thaw"} /\ ph[f] # "near"
      BY <1>1, <1>2 DEF TypeOK, Phases
    <2>2. ph'[f] = IF MEngaged(f) THEN "frozen" ELSE "near"
      BY DEF SReset
    <2>3. q'[f] = IF MEngaged(f) THEN <<>> ELSE q[f]
      BY DEF SReset
    <2> QED BY <2>1, <2>2, <2>3 DEF Dropped, MEngaged
  <1>10. Dropped("aw") /\ Dropped("w") /\ Dropped("b") /\ Dropped("ar") /\ Dropped("r")
    BY <1>7, <1>9
  <1>11. Crossing'
    <2>1. src_toggle \in {0, 1} /\ src_toggle = dst_sync
      BY <1>1, <1>2 DEF TypeOK, Crossing
    <2>2. 1 - src_toggle # src_toggle
      BY <2>1, SMTT(60)
    <2> QED BY <1>2, <2>1, <2>2 DEF Crossing
  <1>12. TypeOK'
    <2>1. /\ q["aw"] \in Seq(Nat) /\ q["w"] \in Seq(WBeats) /\ q["b"] \in Seq(Nat)
          /\ q["ar"] \in Seq(Nat) /\ q["r"] \in Seq(Nat)
      BY <1>1 DEF TypeOK
    <2>2. <<>> \in Seq(Nat) /\ <<>> \in Seq(WBeats)
      BY SMTT(60)
    <2>3. /\ q'["aw"] \in Seq(Nat) /\ q'["w"] \in Seq(WBeats) /\ q'["b"] \in Seq(Nat)
          /\ q'["ar"] \in Seq(Nat) /\ q'["r"] \in Seq(Nat)
      BY <1>10, <2>1, <2>2 DEF Dropped
    <2>4. src_toggle \in {0, 1}
      BY <1>1 DEF TypeOK
    <2>5. 1 - src_toggle \in {0, 1}
      BY <2>4, SMTT(60)
    <2> QED BY <1>1, <1>2, <1>3, <1>4, <1>8, <2>3, <2>5 DEF TypeOK, MQuiet
  <1>0. \A i \in 1 .. Len(<<>>) : FALSE
    BY SMTT(60)
  <1>13. Issued'
    <2>1. /\ \A i \in 1 .. Len(q["aw"]) : q["aw"][i] \in 1 .. Len(scn.beats) /\ q["aw"][i] < Unused
          /\ \A i \in 1 .. Len(q["ar"]) : q["ar"][i] \in 1 .. Len(scn.reads) /\ q["ar"][i] < Unused
          /\ \A i \in 1 .. Len(writes) : writes[i] \in 1 .. Len(scn.beats) /\ writes[i] < Unused
      <3>1. q["aw"] \in Seq(Nat) /\ q["ar"] \in Seq(Nat) /\ writes \in Seq(Nat)
        BY <1>1 DEF TypeOK
      <3>2. /\ \A i \in 1 .. Len(q["aw"]) : q["aw"][i] \in Nat
            /\ \A i \in 1 .. Len(q["ar"]) : q["ar"][i] \in Nat
            /\ \A i \in 1 .. Len(writes) : writes[i] \in Nat
        BY <3>1, Lengths
      <3> QED BY <1>1, <1>5, <3>2 DEF Issued
    <2>2. stage # None => stage \in 1 .. Len(scn.beats) /\ stage < Unused
      <3>1. stage \in Nat \cup {None}
        BY <1>1 DEF TypeOK
      <3>2. stage # None => stage \in 1 .. Len(scn.beats) /\ stage < mst.aw
        BY <1>1 DEF Issued
      <3> QED BY <1>5, <3>1, <3>2
    <2>3. \A i \in 1 .. Len(reads) : reads[i].id < Unused
      <3> SUFFICES ASSUME NEW i \in 1 .. Len(reads) PROVE reads[i].id < Unused
        OBVIOUS
      <3>1. reads \in Seq(Bursts)
        BY <1>1 DEF TypeOK
      <3>2. reads[i] \in Bursts
        BY <3>1, Lengths
      <3>3. reads[i].id \in Nat
        BY <3>2 DEF Bursts
      <3>4. reads[i].id < mst.ar
        BY <1>1 DEF Issued
      <3> QED BY <1>5, <3>3, <3>4
    <2>4. \A i \in 1 .. Len(q'["aw"]) : q'["aw"][i] \in 1 .. Len(scn.beats) /\ q'["aw"][i] < Unused
      BY <1>0, <1>10, <2>1 DEF Dropped
    <2>5. \A i \in 1 .. Len(q'["ar"]) : q'["ar"][i] \in 1 .. Len(scn.reads) /\ q'["ar"][i] < Unused
      BY <1>0, <1>10, <2>1 DEF Dropped
    <2> QED BY <1>2, <1>3, <1>4, <2>1, <2>2, <2>3, <2>4, <2>5 DEF Issued, MQuiet
  <1>14. Phases'
    <2>1. \A f \in Chan : ph'[f] \in {"near", "frozen"} /\ (ph'[f] = "frozen" => q'[f] = <<>>)
      BY <1>9 DEF Dropped
    <2>2. "b" \in Chan /\ "r" \in Chan
      BY <1>7
    <2> QED BY <1>2, <2>1, <2>2 DEF Phases
  <1>15. Restart'
    <2>1. 1 <= mst.base /\ mst.base <= mst.aw
      BY <1>1 DEF Restart
    <2>2. mst \in [aw : Nat, w : Nat, sent : Nat, ar : Nat, base : Nat, resets : Nat]
      BY <1>1 DEF TypeOK
    <2>3. mst.base \in Nat /\ mst.aw \in Nat
      BY <2>2
    <2>4. 1 <= Unused /\ Unused <= Unused
      BY <1>4, <2>1, <2>3, SMTT(60)
    <2> QED BY <1>4, <2>4 DEF Restart
  <1>16. Snapshot("aw", fresh)' /\ Snapshot("ar", r_fresh)'
    BY <1>2, <1>11 DEF Snapshot
  <1>17. StaleW'
    <2>1. Queued("aw")'
      <3>1. \A i \in 1 .. Len(q'["aw"]) : q'["aw"][i] < Unused
        BY <1>4, <1>13 DEF Issued
      <3> QED BY <1>4, <1>10, <3>1 DEF Queued, QueuedAs, Dropped
    <2>2. Answers("b")'
      BY <1>0, <1>10 DEF Answers, AnswersAs, Dropped
    <2>3. Stale("aw", writes, old)'
      <3>1. \A i \in 1 .. Len(writes') : writes'[i] < Unused
        BY <1>4, <1>13 DEF Issued
      <3> QED BY <1>4, <1>10, <3>1 DEF Stale, StaleAs, Below, Dropped
    <2>4. /\ ph'["aw"] # "run"
          /\ stage' # None => stage' < mst'.base
      BY <1>4, <1>10, <1>13 DEF Issued, Dropped
    <2> QED BY <1>16, <2>1, <2>2, <2>3, <2>4 DEF StaleW
  <1>18. StaleR'
    <2>1. Queued("ar")'
      <3>1. \A i \in 1 .. Len(q'["ar"]) : q'["ar"][i] < Unused
        BY <1>4, <1>13 DEF Issued
      <3> QED BY <1>4, <1>10, <3>1 DEF Queued, QueuedAs, Dropped
    <2>2. Answers("r")'
      BY <1>0, <1>10 DEF Answers, AnswersAs, Dropped
    <2>3. Stale("ar", RIds, r_old)'
      <3>1. \A i \in 1 .. Len(reads') : reads'[i].id < Unused
        BY <1>4, <1>13 DEF Issued
      <3>2. reads' \in Seq(Bursts)
        BY <1>12 DEF TypeOK
      <3>3. RIds' = [i \in 1 .. Len(reads') |-> reads'[i].id]
        BY DEF RIds
      <3>4. Len(RIds') = Len(reads')
        BY <3>2, <3>3, SMTT(60)
      <3>5. Below(RIds', Unused)
        BY <3>1, <3>3, <3>4 DEF Below
      <3> QED BY <1>4, <1>10, <3>5 DEF Stale, StaleAs, Dropped
    <2> QED BY <1>16, <2>1, <2>2, <2>3 DEF StaleR
  <1>19. AwOrder'
    <2>1. CASE q'["aw"] = <<>>
      BY <1>0, <1>2, <2>1 DEF AwOrder
    <2>2. CASE q'["aw"] # <<>>
      <3>1. ~MEngaged("aw") /\ q'["aw"] = q["aw"]
        BY <1>10, <2>2 DEF Dropped
      <3>2. AwHead' = AwHead
        BY <2>2, <3>1 DEF AwHead
      <3>3. stage' = stage
        BY <1>3 DEF MQuiet
      <3> QED BY <1>1, <1>2, <2>2, <3>1, <3>2, <3>3 DEF AwOrder
    <2> QED BY <2>1, <2>2
  <1>20. WOrder'
    <2>1. /\ \A i \in 1 .. Len(q["w"]) : /\ q["w"][i].id \in 1 .. Len(scn.beats)
                                         /\ q["w"][i].no \in 1 .. scn.beats[q["w"][i].id]
                                         /\ q["w"][i].last <=> q["w"][i].no = scn.beats[q["w"][i].id]
          /\ \A i \in 1 .. Len(q["w"]) - 1 : Follows(q["w"][i], q["w"][i + 1].id, q["w"][i + 1].no)
      BY <1>1 DEF WOrder
    <2>2. ~(mst'.sent > 0)
      BY <1>4, SMTT(60)
    <2>3. CASE q'["w"] = <<>>
      <3>1. \A i \in 1 .. Len(<<>>) - 1 : FALSE
        BY SMTT(60)
      <3> QED BY <1>0, <1>2, <2>2, <2>3, <3>1 DEF WOrder
    <2>4. CASE q'["w"] # <<>>
      <3>1. q'["w"] = q["w"]
        BY <1>10, <2>4 DEF Dropped
      <3> QED BY <1>2, <2>1, <2>2, <3>1 DEF WOrder
    <2> QED BY <2>3, <2>4
  <1>21. Alive' => ~Armed /\ Alive /\ NextAw' = NextAw
    <2> SUFFICES ASSUME Alive' PROVE ~Armed /\ Alive /\ NextAw' = NextAw
      OBVIOUS
    <2>1. ph'["aw"] = "near" /\ (stage' # None \/ q'["aw"] # <<>>)
      BY <1>2 DEF Alive
    <2>2. ~MEngaged("aw") /\ q'["aw"] = q["aw"]
      BY <1>10, <2>1 DEF Dropped
    <2>3. ~MEngaged("aw")'
      BY <2>1 DEF MEngaged
    <2>4. stage' = stage
      BY <1>3 DEF MQuiet
    <2>5. NextAw' = NextAw
      BY <2>1, <2>2, <2>3, <2>4 DEF NextAw, AwHead
    <2>6. ~Armed /\ Alive
      BY <1>2, <1>7, <2>2 DEF Armed, AllEngaged, Alive
    <2> QED BY <2>5, <2>6
  <1>22. ~Armed' /\ Last' = Last /\ Unfed' = Unfed
    BY <1>2, <1>3 DEF Armed, Last, Unfed, MQuiet
  <1>23. Flow'
    BY <1>1, <1>2, <1>3, <1>21, <1>22 DEF Flow, MQuiet
  <1>24. Pairs'
    <2>1. CASE ph'["w"] = "near" /\ q'["w"] # <<>>
      <3>1. ~MEngaged("w") /\ q'["w"] = q["w"]
        BY <1>10, <2>1 DEF Dropped
      <3>2. NextW' = NextW /\ NextNo' = NextNo
        BY <2>1, <3>1 DEF NextW, NextNo
      <3>3. ~Armed
        BY <1>7, <3>1 DEF Armed, AllEngaged
      <3> QED BY <1>1, <1>2, <1>3, <1>21, <1>22, <3>2, <3>3 DEF Pairs, MQuiet
    <2>2. CASE ~(ph'["w"] = "near" /\ q'["w"] # <<>>)
      BY <1>2, <1>22, <2>2 DEF Pairs
    <2> QED BY <2>1, <2>2
  <1>25. Flights' /\ PadInv' /\ SinkInv' /\ ReadSinkInv'
    BY <1>1, <1>3 DEF Flights, MQuiet
  <1> QED BY <1>12, <1>13, <1>14, <1>15, <1>17, <1>18, <1>19, <1>20, <1>23, <1>24, <1>25 DEF Inv

\* The bridge after m_rst: nothing in flight, nothing remembered.
Clean ==
  /\ TypeOK /\ PadInv /\ SinkInv /\ ReadSinkInv
  /\ ph = [f \in Chan |-> "run"] /\ q = [f \in Chan |-> <<>>]
  /\ ~sRst /\ ~pend /\ stage = None /\ writes = <<>> /\ reads = <<>>
  /\ owed = <<>> /\ left = 0 /\ old = 0 /\ fresh = 0 /\ r_old = 0 /\ r_fresh = 0
  /\ mst.w = mst.aw /\ mst.ar = mst.aw /\ mst.base = mst.aw /\ mst.sent = 0
  /\ 1 <= mst.aw

\* A bridge with nothing in it satisfies the invariant.
LEMMA CleanInv == Clean => Inv
  <1> SUFFICES ASSUME Clean PROVE Inv
    OBVIOUS
  <1>1. /\ TypeOK /\ PadInv /\ SinkInv /\ ReadSinkInv
        /\ ph = [f \in Chan |-> "run"] /\ q = [f \in Chan |-> <<>>]
        /\ ~sRst /\ ~pend /\ stage = None /\ writes = <<>> /\ reads = <<>>
        /\ owed = <<>> /\ left = 0 /\ old = 0 /\ fresh = 0 /\ r_old = 0 /\ r_fresh = 0
        /\ mst.w = mst.aw /\ mst.ar = mst.aw /\ mst.base = mst.aw /\ mst.sent = 0
        /\ 1 <= mst.aw
    BY DEF Clean
  <1>2. \A f \in Chan : ph[f] = "run" /\ q[f] = <<>>
    BY <1>1
  <1>3. "aw" \in Chan /\ "w" \in Chan /\ "b" \in Chan /\ "ar" \in Chan /\ "r" \in Chan
    BY DEF Chan
  <1>4. /\ q["aw"] = <<>> /\ q["w"] = <<>> /\ q["b"] = <<>> /\ q["ar"] = <<>> /\ q["r"] = <<>>
        /\ ph["aw"] = "run" /\ ph["w"] = "run" /\ ph["b"] = "run" /\ ph["ar"] = "run"
        /\ ph["r"] = "run"
    BY <1>2, <1>3
  <1>0. /\ \A i \in 1 .. Len(<<>>) : FALSE
        /\ \A i \in 1 .. Len(<<>>) - 1 : FALSE
        /\ \A i \in 0 .. 0 - 1 : FALSE
        /\ \A i \in 0 + 2 .. Len(<<>>) : FALSE
        /\ Len(<<>>) - 0 = 0 /\ ~(0 > 0) /\ Len(<<>>) <= 0 /\ 0 + 0 = Len(<<>>) /\ 0 + 1 = 1
    BY SMTT(60)
  <1>5. Issued
    BY <1>0, <1>1, <1>4 DEF Issued
  <1>6. Phases
    BY <1>1, <1>2 DEF Phases, Chan
  <1>7. Flights
    <2>1. Len(<<>>) <= Len(<<>>)
      BY SMTT(60)
    <2> QED BY <1>0, <1>1, <2>1 DEF Flights
  <1>8. mst.aw \in Nat
    <2>1. mst \in [aw : Nat, w : Nat, sent : Nat, ar : Nat, base : Nat, resets : Nat]
      BY <1>1 DEF TypeOK
    <2> QED BY <2>1
  <1>9. Restart
    <2>1. mst.aw <= mst.aw
      BY <1>8, SMTT(60)
    <2> QED BY <1>1, <2>1 DEF Restart
  <1>10. Queued("aw") /\ Queued("ar") /\ Answers("b") /\ Answers("r")
    BY <1>0, <1>4 DEF Queued, Answers, QueuedAs, AnswersAs
  <1>11. Snapshot("aw", fresh) /\ Snapshot("ar", r_fresh)
    BY <1>1 DEF Snapshot
  <1>12. Stale("aw", writes, old)
    BY <1>0, <1>1 DEF Stale, StaleAs, Below, Sorted
  <1>13. Stale("ar", RIds, r_old)
    <2>1. RIds = [i \in 1 .. Len(<<>>) |-> reads[i].id]
      BY <1>1 DEF RIds
    <2>2. RIds = <<>>
      BY <2>1, SMTT(60)
    <2> QED BY <1>0, <2>2 DEF Stale, StaleAs, Below, Sorted
  <1>14. StaleW /\ StaleR
    BY <1>1, <1>10, <1>11, <1>12, <1>13 DEF StaleW, StaleR
  <1>15. AwHead = mst.aw /\ NextAw = mst.aw /\ NextW = mst.aw /\ NextNo = 1
    BY <1>0, <1>1, <1>4 DEF AwHead, NextAw, NextW, NextNo
  <1>16. AwOrder
    <2>1. mst.aw + Len(<<>>) = mst.aw
      BY <1>8, SMTT(60)
    <2> QED BY <1>0, <1>1, <1>4, <1>15, <2>1 DEF AwOrder
  <1>17. WOrder
    BY <1>0, <1>1, <1>4 DEF WOrder
  <1>18. Flow
    BY <1>0, <1>1 DEF Flow
  <1>19. Pairs
    <2>1. Unfed = 0 /\ ~Armed /\ ~(Unfed > 0)
      BY <1>0, <1>1 DEF Unfed, Armed
    <2> QED BY <1>15, <2>1 DEF Pairs
  <1> QED BY <1>1, <1>5, <1>6, <1>7, <1>9, <1>14, <1>16, <1>17, <1>18, <1>19 DEF Inv

\* The same, after a step.
LEMMA CleanNext == Clean' => Inv'
  BY CleanInv, PTL

\* A reset of both sides empties the bridge.
LEMMA FullResetStep ==
  ASSUME Inv, FullReset
  PROVE  Inv'
  <1>1. TypeOK /\ PadInv /\ SinkInv /\ ReadSinkInv /\ Restart
    BY DEF Inv
  <1>2. /\ PadReset /\ SinkReset /\ RSink!SinkReset
        /\ ph' = [f \in Chan |-> "run"] /\ q' = [f \in Chan |-> <<>>]
        /\ sRst' = FALSE /\ pend' = FALSE
        /\ src_toggle' = (IF sRst THEN src_toggle ELSE 1 - src_toggle)
        /\ dst_sync' = 0 /\ stage' = None /\ writes' = <<>> /\ reads' = <<>>
        /\ mst' = Restarted /\ scn' = scn
    BY DEF FullReset
  <1>3. PadInv'
    BY <1>1, <1>2, PadStep DEF PadNext
  <1>4. SinkInv'
    BY <1>1, <1>2, SinkStep DEF SinkNext
  <1>5. ReadSinkInv'
    BY <1>2, SinkAssumption, SMTT(60)
       DEF RSink!SinkReset, ReadSinkInv, SinkAt
  <1>6. /\ owed' = <<>> /\ left' = 0 /\ old' = 0 /\ fresh' = 0 /\ r_old' = 0 /\ r_fresh' = 0
    BY <1>2 DEF PadReset, SinkReset, RSink!SinkReset
  <1>7. /\ Unused \in Nat /\ mst.aw <= Unused
        /\ mst'.aw = Unused /\ mst'.w = Unused /\ mst'.ar = Unused
        /\ mst'.base = Unused /\ mst'.sent = 0
        /\ mst' \in [aw : Nat, w : Nat, sent : Nat, ar : Nat, base : Nat, resets : Nat]
    BY <1>1, <1>2, RestartsAbove
  <1>8. 1 <= Unused
    <2>1. 1 <= mst.base /\ mst.base <= mst.aw
      BY <1>1 DEF Restart
    <2>2. mst \in [aw : Nat, w : Nat, sent : Nat, ar : Nat, base : Nat, resets : Nat]
      BY <1>1 DEF TypeOK
    <2>3. mst.base \in Nat /\ mst.aw \in Nat
      BY <2>2
    <2> QED BY <1>7, <2>1, <2>3, SMTT(60)
  <1>9. TypeOK'
    <2>1. src_toggle \in {0, 1}
      BY <1>1 DEF TypeOK
    <2>2. 1 - src_toggle \in {0, 1}
      BY <2>1, SMTT(60)
    <2>3. src_toggle' \in {0, 1}
      BY <1>2, <2>1, <2>2
    <2>4. <<>> \in Seq(Nat) /\ <<>> \in Seq(WBeats) /\ <<>> \in Seq(Bursts)
      BY SMTT(60)
    <2>5. DOMAIN q' = Chan /\ \A f \in Chan : q'[f] = <<>>
      BY <1>2
    <2>6. /\ q'["aw"] = <<>> /\ q'["w"] = <<>> /\ q'["b"] = <<>> /\ q'["ar"] = <<>>
          /\ q'["r"] = <<>>
      BY <2>5 DEF Chan
    <2>7. ph' \in [Chan -> {"run", "near", "frozen", "thaw"}]
      BY <1>2
    <2>8. scn' \in Scenarios
      BY <1>1, <1>2 DEF TypeOK
    <2> QED BY <1>2, <1>7, <2>3, <2>4, <2>5, <2>6, <2>7, <2>8 DEF TypeOK
  <1>10. Clean'
    BY <1>2, <1>3, <1>4, <1>5, <1>6, <1>7, <1>8, <1>9 DEF Clean
  <1> QED BY <1>10, CleanNext

\* The bridge starts empty.
LEMMA InitInv == Init => Inv
  <1> SUFFICES ASSUME Init PROVE Inv
    OBVIOUS
  <1>1. /\ PadInit /\ SinkInit /\ RSink!SinkInit
        /\ scn \in Scenarios
        /\ ph = [f \in Chan |-> "run"] /\ q = [f \in Chan |-> <<>>]
        /\ sRst = FALSE /\ pend = FALSE /\ src_toggle = 0 /\ dst_sync = 0
        /\ stage = None /\ writes = <<>> /\ reads = <<>>
        /\ mst = [aw |-> 1, w |-> 1, sent |-> 0, ar |-> 1, base |-> 1, resets |-> 0]
    BY DEF Init
  <1>2. PadInv
    BY <1>1, PadStart
  <1>3. SinkInv
    BY <1>1, SinkAssumption, SMTT(60) DEF SinkInit, SinkInv, SinkAt
  <1>4. ReadSinkInv
    BY <1>1, SinkAssumption, SMTT(60) DEF RSink!SinkInit, ReadSinkInv, SinkAt
  <1>5. owed = <<>> /\ left = 0 /\ old = 0 /\ fresh = 0 /\ r_old = 0 /\ r_fresh = 0
    BY <1>1 DEF PadInit, SinkInit, RSink!SinkInit
  <1>6. /\ mst.aw = 1 /\ mst.w = 1 /\ mst.ar = 1 /\ mst.base = 1 /\ mst.sent = 0 /\ 1 <= 1
        /\ mst \in [aw : Nat, w : Nat, sent : Nat, ar : Nat, base : Nat, resets : Nat]
    BY <1>1, SMTT(60)
  <1>7. TypeOK
    <2>4. <<>> \in Seq(Nat) /\ <<>> \in Seq(WBeats) /\ <<>> \in Seq(Bursts)
      BY SMTT(60)
    <2>5. DOMAIN q = Chan /\ \A f \in Chan : q[f] = <<>>
      BY <1>1
    <2>6. q["aw"] = <<>> /\ q["w"] = <<>> /\ q["b"] = <<>> /\ q["ar"] = <<>> /\ q["r"] = <<>>
      BY <2>5 DEF Chan
    <2>7. ph \in [Chan -> {"run", "near", "frozen", "thaw"}]
      BY <1>1
    <2> QED BY <1>1, <1>6, <2>4, <2>5, <2>6, <2>7 DEF TypeOK
  <1>8. Clean
    BY <1>1, <1>2, <1>3, <1>4, <1>5, <1>6, <1>7 DEF Clean
  <1> QED BY <1>8, CleanInv

\* Nothing happens.
LEMMA StutterInv ==
  ASSUME Inv, UNCHANGED vars
  PROVE  Inv'
  <1>1. /\ TypeOK /\ Issued /\ Phases /\ Flights /\ Restart /\ StaleW /\ StaleR
        /\ AwOrder /\ WOrder /\ Flow /\ Pairs
    BY DEF Inv
  <1>2. /\ UNCHANGED mVars /\ dst_sync' = dst_sync /\ scn' = scn /\ ph' = ph /\ q' = q
        /\ sRst' = sRst /\ src_toggle' = src_toggle /\ mst' = mst
    BY DEF vars
  <1>3. MQuiet
    BY <1>2, QuietKept
  <1>4. SideKept
    <2>1. SQuiet
      BY <1>2, <1>3 DEF SQuiet
    <2> QED BY <2>1, SideQuiet
  <1>5. TypeOK' /\ Issued' /\ Phases' /\ Restart' /\ WOrder'
    BY <1>1, <1>2, <1>3 DEF TypeOK, Issued, Phases, Restart, WOrder, MQuiet, Crossing
  <1>6. Queued("aw")' /\ Queued("ar")' /\ Answers("b")' /\ Answers("r")'
    BY <1>1, <1>2 DEF StaleW, StaleR, Queued, Answers
  <1>7. AwHead' = AwHead /\ NextAw' = NextAw /\ NextW' = NextW /\ NextNo' = NextNo
        /\ (Alive' <=> Alive)
    BY <1>2, <1>3 DEF AwHead, NextAw, NextW, NextNo, Alive, MQuiet, MEngaged
  <1>8. AwOrder' /\ Flow' /\ Pairs'
    BY <1>1, <1>2, <1>3, <1>4, <1>7 DEF AwOrder, Flow, Pairs, SideKept, MQuiet, MEngaged
  <1> QED BY <1>4, <1>5, <1>6, <1>8 DEF Inv, SideKept, StaleW, StaleR

\* The debts are positive only while the head of the queue is stale, and
\* conversely.
LEMMA SunkFromInv == Inv => ExactlyStaleSunk
  <1> SUFFICES ASSUME Inv PROVE ExactlyStaleSunk
    OBVIOUS
  <1>1. TypeOK /\ SinkInv /\ ReadSinkInv /\ Flights /\ StaleW /\ StaleR
    BY DEF Inv
  <1>2. ASSUME NEW f \in {"b", "r"}, SOpen(f)
        PROVE  \A i \in 1 .. Len(q[f]) : q[f][i] >= mst.base
    <2>1. Answers("b") /\ Answers("r")
      BY <1>1 DEF StaleW, StaleR
    <2>2. ph[f] # "near"
      BY <1>2 DEF SOpen
    <2> QED BY <2>1, <2>2 DEF Answers, AnswersAs
  <1>3. ASSUME sinking PROVE writes # <<>> /\ Head(writes) < mst.base
    <2>1. old # 0 /\ old \in Nat /\ fresh \in Nat
      BY <1>1, <1>3 DEF sinking, SinkInv, SinkAt
    <2>2. writes \in Seq(Nat) /\ old + fresh = Len(writes)
      BY <1>1 DEF TypeOK, Flights
    <2>3. writes # <<>> /\ 1 \in 1 .. Len(writes) /\ 1 <= old /\ Head(writes) = writes[1]
      BY <2>1, <2>2, SMTT(60)
    <2>4. StaleAs(ph["aw"], writes, mst.base, old)
      BY <1>1 DEF StaleW, Stale
    <2> QED BY <2>3, <2>4 DEF StaleAs, Below, Sorted
  <1>4. ASSUME RSink!sinking PROVE reads # <<>> /\ Head(reads).id < mst.base
    <2>1. r_old # 0 /\ r_old \in Nat /\ r_fresh \in Nat
      BY <1>1, <1>4 DEF RSink!sinking, ReadSinkInv, SinkAt
    <2>2. reads \in Seq(Bursts) /\ r_old + r_fresh = Len(reads)
      BY <1>1 DEF TypeOK, Flights
    <2>3. reads # <<>> /\ 1 \in 1 .. Len(reads) /\ 1 <= r_old /\ Head(reads) = reads[1]
      BY <2>1, <2>2, SMTT(60)
    <2>4. StaleAs(ph["ar"], RIds, mst.base, r_old)
      BY <1>1 DEF StaleR, Stale
    <2>5. RIds = [i \in 1 .. Len(reads) |-> reads[i].id]
      BY DEF RIds
    <2>6. Len(RIds) = Len(reads)
      BY <2>2, <2>5, SMTT(60)
    <2>7. RIds[1] = reads[1].id /\ 1 \in 1 .. Len(RIds)
      BY <2>3, <2>5, <2>6
    <2>8. RIds[1] < mst.base
      BY <2>3, <2>4, <2>7 DEF StaleAs, Below, Sorted
    <2> QED BY <2>3, <2>7, <2>8
  <1> QED BY <1>2, <1>3, <1>4 DEF ExactlyStaleSunk

\* Filler goes to a burst only when its master has been reset since.
LEMMA FillerFromInv == Inv => FillerOnlyForAbandoned
  <1> SUFFICES ASSUME Inv, pad_active
               PROVE  owed # <<>> /\ Fed < mst.base /\ (pad_wlast <=> owed[1] = 1)
    BY DEF FillerOnlyForAbandoned
  <1>1. TypeOK /\ PadInv /\ SinkInv /\ Flights /\ StaleW
    BY DEF Inv
  <1>2. left # 0 /\ left \in Nat /\ left <= Len(owed) /\ owed \in Seq(Beats)
    BY <1>1 DEF pad_active, PadInv, PadExact, PadTypeOK
  <1>3. left > 0
    BY <1>2, SMTT(60)
  <1>4. /\ old + fresh = Len(writes) /\ left + fresh = Len(owed) /\ Len(owed) <= Len(writes)
        /\ old \in Nat /\ fresh \in Nat /\ writes \in Seq(Nat)
    BY <1>1, <1>3 DEF Flights, SinkInv, SinkAt, TypeOK
  <1>5. owed # <<>> /\ Head(owed) = owed[1]
    BY <1>2, <1>3, SMTT(60)
  <1> DEFINE k == Len(writes) - Len(owed) + 1
  <1>6. k \in 1 .. Len(writes) /\ k <= old
    BY <1>2, <1>3, <1>4, SMTT(60)
  <1> HIDE DEF k
  <1>7. StaleAs(ph["aw"], writes, mst.base, old)
    BY <1>1 DEF StaleW, Stale
  <1>8. writes[k] < mst.base
    BY <1>6, <1>7 DEF StaleAs, Below, Sorted
  <1>9. Fed = writes[k]
    BY DEF Fed, k
  <1>10. pad_wlast <=> owed[1] = 1
    BY <1>1, <1>5 DEF pad_wlast, PadInv, TrackExact
  <1> QED BY <1>5, <1>8, <1>9, <1>10

\* A beat that reaches the slave is of the burst the slave is being fed.
LEMMA PairingFromInv == Inv => PairingKept
  <1> SUFFICES ASSUME Inv, m_wvalid_i, ~pad_active
               PROVE  Head(q["w"]).id = Fed /\ (Head(q["w"]).last <=> owed[1] = 1)
    BY DEF PairingKept
  <1>1. TypeOK /\ PadInv /\ SinkInv /\ Phases /\ Flights /\ WOrder /\ Flow /\ Pairs
    BY DEF Inv
  <1>2. q["w"] # <<>> /\ ~MEngaged("w") /\ head_valid
    BY DEF m_wvalid_i, track_valid
  <1>3. owed # <<>> /\ left = 0 /\ owed \in Seq(Beats)
    BY <1>1, <1>2 DEF PadInv, TrackExact, PadExact, PadTypeOK, pad_active
  <1>4. Len(owed) \in Nat /\ Len(owed) # 0
    BY <1>3, Lengths
  <1>5. /\ old + fresh = Len(writes) /\ Len(owed) <= fresh
        /\ old \in Nat /\ fresh \in Nat /\ writes \in Seq(Nat)
    BY <1>1, <1>3 DEF Flights, SinkInv, SinkAt, TypeOK
  <1>6. ~Armed /\ (sRst => ph["w"] = "near" /\ q["w"] # <<>>)
    <2>1. "w" \in Chan
      BY DEF Chan
    <2>2. ~Armed
      BY <1>2, <2>1 DEF Armed, AllEngaged
    <2>3. sRst => ph["w"] \in {"near", "frozen"}
      BY <1>1, <2>1 DEF Phases
    <2> QED BY <1>2, <2>2, <2>3 DEF MEngaged
  <1>7. Unfed = Len(owed) /\ Unfed > 0 /\ left + 1 = 1
    BY <1>3, <1>4, SMTT(60) DEF Unfed
  <1>8. NextW = Last + 1 - Len(owed) /\ owed[1] = scn.beats[NextW] - NextNo + 1
    BY <1>1, <1>6, <1>7 DEF Pairs
  <1>9. NextW = q["w"][1].id /\ NextNo = q["w"][1].no
    BY <1>2 DEF NextW, NextNo
  <1>10. q["w"] \in Seq(WBeats)
    BY <1>1 DEF TypeOK
  <1>11. Head(q["w"]) = q["w"][1] /\ 1 \in 1 .. Len(q["w"])
    BY <1>2, <1>10, SMTT(60)
  <1>12. /\ q["w"][1].id \in 1 .. Len(scn.beats)
         /\ q["w"][1].no \in 1 .. scn.beats[q["w"][1].id]
         /\ q["w"][1].last <=> q["w"][1].no = scn.beats[q["w"][1].id]
    BY <1>1, <1>11 DEF WOrder
  <1>13. Fed = NextW
    <2> DEFINE j == Len(owed) - 1
    <2>1. j \in 0 .. fresh - 1 /\ Len(writes) - Len(owed) + 1 = Len(writes) - j
      BY <1>4, <1>5, SMTT(60)
    <2>2. Last \in Nat
      <3>1. Len(writes) \in 1 .. Len(writes)
        BY <1>4, <1>5, SMTT(60)
      <3> QED BY <1>5, <3>1, Lengths DEF Last
    <2>3. Last - j = Last + 1 - Len(owed)
      BY <1>4, <2>2, SMTT(60)
    <2> HIDE DEF j
    <2>4. writes[Len(writes) - j] = Last - j
      BY <1>1, <2>1 DEF Flow
    <2> QED BY <1>8, <2>1, <2>3, <2>4 DEF Fed
  <1>14. owed[1] = 1 <=> q["w"][1].no = scn.beats[q["w"][1].id]
    <2>1. scn.beats[q["w"][1].id] \in Nat
      <3>1. scn.beats \in Seq(Beats)
        BY <1>1, BridgeAssumption DEF TypeOK
      <3>2. scn.beats[q["w"][1].id] \in Beats
        BY <1>12, <3>1, Lengths
      <3> QED BY <3>2, PadAssumption, SMTT(60) DEF Beats
    <2>2. ASSUME NEW n \in Nat, NEW m \in 1 .. n PROVE n - m + 1 = 1 <=> m = n
      BY SMTT(60)
    <2>3. owed[1] = scn.beats[q["w"][1].id] - q["w"][1].no + 1
      BY <1>8, <1>9
    <2> QED BY <1>12, <2>1, <2>2, <2>3
  <1> QED BY <1>9, <1>11, <1>12, <1>13, <1>14
=============================================================================
