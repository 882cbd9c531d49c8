----------------------------- MODULE XbarProofs -----------------------------
(***************************************************************************)
(* The crossbar's owner lock is exact: for every traffic, every reset and  *)
(* every bound of the timers, a slave is locked for the slot that is       *)
(* engaged with it and for nobody else.                                    *)
(***************************************************************************)
EXTENDS XbarWrite, TLAPS

\* Leaves may take the solver up to a minute.
USE SMTT(60)

\* The fields of a slot and of a slave's lock, whatever their values.
SlotShape(r) ==
  DOMAIN r = {"st", "slv", "wr", "wdone", "left", "len", "bcnt", "hold"}
LockShape(r) == DOMAIN r = {"owned", "owner", "rr", "aw"}

\* What one edge does to the engagement of a slot: it ends it and says so, or
\* keeps it with the same slave; a slot that is not engaged gives nothing up.
EdgeOf(r, n) ==
  /\ SlotShape(n.ws)
  /\ n.gave \in BOOLEAN
  /\ r.st \in Engaged => IF n.gave THEN n.ws.st \notin Engaged
                         ELSE n.ws.st \in Engaged /\ n.ws.slv = r.slv
  /\ r.st \notin Engaged => ~n.gave /\ n.ws.st \notin Engaged

\* A move to another state keeps the slave.
LEMMA ToEdge ==
  ASSUME NEW i, SlotShape(ws[i]), NEW st, ws[i].st \in Engaged <=> st \in Engaged
  PROVE EdgeOf(ws[i], To(i, st))
BY ZenonT(60) DEF Stay, To, SlotShape, EdgeOf

\* A slot that releases its slave drains, answers or goes idle.
LEMMA ReleasedShape ==
  ASSUME NEW i, SlotShape(ws[i]), NEW d
  PROVE SlotShape(Released(i, d)) /\ Released(i, d).st \notin Engaged
BY DEF Released, SlotShape, NoWrite, Engaged

\* The two forms of release give the slave up.
LEMMA ReleaseEdge ==
  ASSUME NEW i, SlotShape(ws[i]), ws[i].st \in Engaged, NEW d, NEW b
  PROVE EdgeOf(ws[i], Release(i, d)) /\ EdgeOf(ws[i], FlushRelease(i, d, b))
BY ReleasedShape DEF Release, FlushRelease, Stay, EdgeOf

\* The hold counter leaves the engagement alone.
LEMMA HoldEdge ==
  ASSUME NEW i, SlotShape(ws[i]), NEW b
  PROVE EdgeOf(ws[i], Hold(i, b)) /\ EdgeOf(ws[i], Stay(i))
BY DEF Hold, Stay, EdgeOf, SlotShape

-----------------------------------------------------------------------------
\* Each state's branch of the slot machine is an edge in that sense.
LEMMA SlotStepEdge ==
  ASSUME NEW i, NEW in, SlotShape(ws[i])
  PROVE EdgeOf(ws[i], SlotStep(i, in))
<1>1. CASE ws[i].st = "WS_WAIT_SLV_AW"
  <2>1. ws[i].st \in Engaged
    BY <1>1 DEF Engaged
  <2>2. \A st \in Engaged : EdgeOf(ws[i], To(i, st))
    BY <2>1, ToEdge
  <2>3. EdgeOf(ws[i], [Stay(i) EXCEPT !.ws.wdone = ~ws_needs_drain(i, in)])
    BY <2>1 DEF Stay, EdgeOf, SlotShape
  <2>4. EdgeOf(ws[i], WaitSlvAw(i, in))
    BY <2>1, <2>2, <2>3, ReleaseEdge DEF WaitSlvAw, Engaged
  <2>5. QED BY <1>1, <2>4 DEF SlotStep
<1>2. CASE ws[i].st = "WS_FWD_W"
  <2>1. ws[i].st \in Engaged
    BY <1>2 DEF Engaged
  <2>2. \A st \in Engaged : EdgeOf(ws[i], To(i, st))
    BY <2>1, ToEdge
  <2>3. EdgeOf(ws[i], FwdW(i, in))
    BY <2>1, <2>2, ReleaseEdge, HoldEdge, ZenonT(60) DEF FwdW, Engaged
  <2>4. QED BY <1>2, <2>3 DEF SlotStep
<1>3. CASE ws[i].st = "WS_PAD_W"
  <2>1. ws[i].st \in Engaged
    BY <1>3 DEF Engaged
  <2>2. \A st \in Engaged : EdgeOf(ws[i], To(i, st))
    BY <2>1, ToEdge
  <2>3. EdgeOf(ws[i], PadW(i, in))
    BY <2>1, <2>2, ReleaseEdge, HoldEdge, ZenonT(60) DEF PadW, Engaged
  <2>4. QED BY <1>3, <2>3 DEF SlotStep
<1>4. CASE ws[i].st = "WS_WAIT_B"
  <2>1. ws[i].st \in Engaged
    BY <1>4 DEF Engaged
  <2>2. EdgeOf(ws[i], [Stay(i) EXCEPT !.ws = NoWrite, !.gave = TRUE, !.turn = TRUE])
    BY <2>1 DEF Stay, EdgeOf, SlotShape, NoWrite, Engaged
  <2>3. EdgeOf(ws[i], WaitB(i, in))
    BY <2>1, <2>2, ReleaseEdge, HoldEdge, ZenonT(60) DEF WaitB
  <2>4. QED BY <1>4, <2>3 DEF SlotStep
<1>5. CASE ws[i].st = "WS_DRAIN_W"
  <2>1. ws[i].st \notin Engaged
    BY <1>5 DEF Engaged
  <2>2. EdgeOf(ws[i], To(i, "WS_SEND_BLOCAL"))
    BY <2>1, ToEdge DEF Engaged
  <2>3. EdgeOf(ws[i], [Stay(i) EXCEPT !.ws.bcnt = @ - 1, !.ws.hold = 0])
    BY <2>1, ZenonT(60) DEF Stay, EdgeOf, SlotShape
  <2>4. EdgeOf(ws[i], [Stay(i) EXCEPT !.ws.st = "WS_SEND_BLOCAL"])
    BY <2>1 DEF Stay, EdgeOf, SlotShape, Engaged
  <2>5. EdgeOf(ws[i], DrainW(i, in))
    BY <2>2, <2>3, <2>4, HoldEdge, ZenonT(60) DEF DrainW
  <2>6. QED BY <1>5, <2>5 DEF SlotStep
<1>6. CASE ws[i].st = "WS_SEND_BLOCAL"
  <2>1. ws[i].st \notin Engaged
    BY <1>6 DEF Engaged
  <2>2. EdgeOf(ws[i], [Stay(i) EXCEPT !.ws = NoWrite])
    BY <2>1 DEF Stay, EdgeOf, SlotShape, NoWrite, Engaged
  <2>3. EdgeOf(ws[i], SendBlocal(i, in))
    BY <2>2, HoldEdge, ZenonT(60) DEF SendBlocal
  <2>4. QED BY <1>6, <2>3 DEF SlotStep
<1>7. CASE ws[i].st \notin {"WS_WAIT_SLV_AW", "WS_FWD_W", "WS_PAD_W", "WS_WAIT_B",
                           "WS_DRAIN_W", "WS_SEND_BLOCAL"}
  <2>1. SlotStep(i, in) = Stay(i)
    BY <1>7 DEF SlotStep
  <2>2. QED BY <2>1, HoldEdge
<1>8. QED BY <1>1, <1>2, <1>3, <1>4, <1>5, <1>6, <1>7

\* The beat count that runs beside the states does not change this.
LEMMA SlotNextEdge ==
  ASSUME NEW i, NEW in, SlotShape(ws[i])
  PROVE EdgeOf(ws[i], SlotNext(i, in))
<1> DEFINE n == SlotStep(i, in)
<1>1. EdgeOf(ws[i], n)
  BY SlotStepEdge
<1>2. QED BY <1>1 DEF SlotNext, EdgeOf, SlotShape

-----------------------------------------------------------------------------
\* The inductive invariant: the lock property and the shapes it is stated on.
SlotsOK == \A i \in Slots : /\ SlotShape(ws[i])
                            /\ ws_active(i) => ws[i].slv \in Slaves
LocksOK == \A s \in Slaves : /\ LockShape(sw[s])
                             /\ sw[s].owned \in BOOLEAN
                             /\ sw[s].owner \in Slots
                             /\ sw[s].rr \in Int
LockInv == SlotsOK /\ LocksOK /\ LockMatchesOwner

\* Round robin picks one of the slots that ask.
LEMMA PickAsks ==
  ASSUME LocksOK, NEW s \in Slaves, req(s) # {}
  PROVE rr_pick_w(s) \in req(s)
<1>1. req(s) \subseteq {0, 1} /\ sw[s].rr \in Int
  BY XbarAssumption, ZenonT(60) DEF req, LocksOK
<1> DEFINE d(i) == (i - sw[s].rr) % 4
<1>2. d(0) \in Int /\ d(1) \in Int
  BY <1>1
<1>3. \E i \in req(s) : \A j \in req(s) : d(i) <= d(j)
  <2> HIDE DEF d
  <2>1. CASE d(0) <= d(1) /\ 0 \in req(s)
    BY <1>1, <1>2, <2>1
  <2>2. CASE d(1) <= d(0) /\ 1 \in req(s)
    BY <1>1, <1>2, <2>2
  <2>3. CASE 0 \notin req(s) \/ 1 \notin req(s)
    BY <1>1, <1>2, <2>3
  <2>4. QED BY <1>1, <1>2, <2>1, <2>2, <2>3
<1>4. QED BY <1>3 DEF rr_pick_w

\* A granted slot was idle and asked for the slave that grants it.
LEMMA GrantFacts ==
  ASSUME LocksOK, NEW s \in Slaves, Grants(s)
  PROVE /\ rr_pick_w(s) \in Slots
        /\ ws[rr_pick_w(s)].st = "WS_IDLE"
        /\ Decode(rr_pick_w(s)).slv = s
        /\ ~sw[s].owned
<1>1. rr_pick_w(s) \in req(s) /\ ~sw[s].owned
  BY PickAsks DEF Grants
<1>2. QED BY <1>1 DEF req, Requests

\* The slot after it is granted, and after a local acceptance.
LEMMA TakenShape ==
  ASSUME NEW i, NEW s
  PROVE /\ SlotShape(Taken(i, s)) /\ Taken(i, s).st \in Engaged /\ Taken(i, s).slv = s
        /\ SlotShape(TakenLocal(i)) /\ TakenLocal(i).st \notin Engaged
<1>0. SlotShape(NoWrite)
  BY DEF SlotShape, NoWrite
<1>1. /\ SlotShape(Taken(i, s)) /\ Taken(i, s).st = "WS_WAIT_SLV_AW"
      /\ Taken(i, s).slv = s
  BY <1>0 DEF Taken, SlotShape
<1>2. SlotShape(TakenLocal(i)) /\ TakenLocal(i).st = "WS_DRAIN_W"
  BY <1>0 DEF TakenLocal, SlotShape
<1>3. QED BY <1>1, <1>2 DEF Engaged

\* What an edge does to one slot.
LEMMA SlotAfter ==
  ASSUME SlotsOK, LocksOK, NEW in, SlotEdge(in), NEW i \in Slots
  PROVE /\ SlotShape(ws'[i])
        /\ \A s \in Slaves : Grants(s) /\ rr_pick_w(s) = i =>
             ws'[i].st \in Engaged /\ ws'[i].slv = s
        /\ ws'[i].st \in Engaged =>
             \/ \E s \in Slaves : Grants(s) /\ rr_pick_w(s) = i /\ ws'[i].slv = s
             \/ ws[i].st \in Engaged /\ ~SlotNext(i, in).gave /\ ws'[i].slv = ws[i].slv
        /\ ws[i].st \in Engaged /\ ~SlotNext(i, in).gave =>
             ws'[i].st \in Engaged /\ ws'[i].slv = ws[i].slv
        /\ SlotNext(i, in).gave => ws[i].st \in Engaged /\ ws'[i].st \notin Engaged
<1>1. SlotShape(ws[i]) /\ EdgeOf(ws[i], SlotNext(i, in))
  BY SlotNextEdge DEF SlotsOK
<1>2. ws'[i] = IF Granted(i) THEN Taken(i, Decode(i).slv)
               ELSE IF LocalWin(i) THEN TakenLocal(i) ELSE SlotNext(i, in).ws
  BY DEF SlotEdge
<1>3. "WS_IDLE" \notin Engaged
  BY DEF Engaged
<1>4. CASE Granted(i)
  <2>1. PICK s \in Slaves : Grants(s) /\ rr_pick_w(s) = i
    BY <1>4 DEF Granted
  <2>2. ws[i].st \notin Engaged /\ Decode(i).slv = s
    BY <1>3, <2>1, GrantFacts
  <2>3. \A u \in Slaves : Grants(u) /\ rr_pick_w(u) = i => u = s
    BY <2>2, GrantFacts
  <2>4. ~SlotNext(i, in).gave
    BY <1>1, <2>2 DEF EdgeOf
  <2>5. SlotShape(ws'[i]) /\ ws'[i].st \in Engaged /\ ws'[i].slv = s
    BY <1>2, <1>4, <2>2, TakenShape
  <2>6. QED BY <2>1, <2>2, <2>3, <2>4, <2>5
<1>5. CASE ~Granted(i) /\ LocalWin(i)
  <2>1. ws[i].st \notin Engaged
    BY <1>3, <1>5 DEF LocalWin, req_local, Requests
  <2>2. ~SlotNext(i, in).gave
    BY <1>1, <2>1 DEF EdgeOf
  <2>3. SlotShape(ws'[i]) /\ ws'[i].st \notin Engaged
    BY <1>2, <1>5, TakenShape
  <2>4. QED BY <1>5, <2>1, <2>2, <2>3 DEF Granted
<1>6. CASE ~Granted(i) /\ ~LocalWin(i)
  <2>1. ws'[i] = SlotNext(i, in).ws
    BY <1>2, <1>6
  <2>2. QED BY <1>1, <1>6, <2>1 DEF EdgeOf, Granted
<1>7. QED BY <1>4, <1>5, <1>6

\* What an edge does to one lock.
LEMMA LockAfter ==
  ASSUME LocksOK, NEW in, LockEdge(in), NEW s \in Slaves
  PROVE LET gave == {i \in Slots : ws[i].slv = s /\ SlotNext(i, in).gave}
        IN  /\ LockShape(sw'[s]) /\ sw'[s].owned \in BOOLEAN
            /\ sw'[s].owner \in Slots /\ sw'[s].rr \in Int
            /\ Grants(s) => sw'[s].owned /\ sw'[s].owner = rr_pick_w(s)
            /\ ~Grants(s) => /\ sw'[s].owned <=> sw[s].owned /\ gave = {}
                             /\ sw'[s].owner = sw[s].owner
<1> DEFINE gave == {i \in Slots : ws[i].slv = s /\ SlotNext(i, in).gave}
           turn == {i \in gave : SlotNext(i, in).turn}
           rr2 == IF turn # {} THEN (CHOOSE i \in turn : TRUE) + 1 ELSE sw[s].rr
           free == [sw[s] EXCEPT
                      !.owned = @ /\ gave = {},
                      !.rr = IF turn # {} THEN (CHOOSE i \in turn : TRUE) + 1 ELSE @,
                      !.aw = @ /\ gave = {} /\ ~AwFire(s, in)]
<1>1. /\ LockShape(sw[s]) /\ sw[s].owned \in BOOLEAN
      /\ sw[s].owner \in Slots /\ sw[s].rr \in Int
  BY DEF LocksOK
<1>2. rr2 \in Int
  <2>1. turn \subseteq {0, 1}
    BY XbarAssumption, ZenonT(60)
  <2> HIDE DEF turn
  <2> DEFINE c == CHOOSE i \in turn : TRUE
  <2>2. turn # {} => c \in turn
    OBVIOUS
  <2> HIDE DEF c
  <2>3. turn # {} => c = 0 \/ c = 1
    BY <2>1, <2>2, ZenonT(60)
  <2>4. c = 0 \/ c = 1 => c + 1 \in Int
    OBVIOUS
  <2>5. rr2 = IF turn # {} THEN c + 1 ELSE sw[s].rr
    BY DEF c
  <2>6. QED BY <1>1, <2>3, <2>4, <2>5
<1>3. sw'[s] = IF Grants(s)
               THEN [free EXCEPT !.owned = TRUE, !.owner = rr_pick_w(s), !.aw = TRUE]
               ELSE free
  BY ZenonT(60) DEF LockEdge
<1>4. /\ LockShape(free) /\ free.owned = (sw[s].owned /\ gave = {})
      /\ free.rr = rr2 /\ free.owner = sw[s].owner
  <2> HIDE DEF gave, turn
  <2>1. QED BY <1>1 DEF LockShape
<1> HIDE DEF gave, rr2, free
<1>5. CASE Grants(s)
  <2>1. /\ LockShape(sw'[s]) /\ sw'[s].owned = TRUE
        /\ sw'[s].rr = free.rr /\ sw'[s].owner = rr_pick_w(s)
    BY <1>3, <1>4, <1>5 DEF LockShape
  <2>2. rr_pick_w(s) \in Slots
    BY <1>5, GrantFacts
  <2>3. QED BY <1>2, <1>4, <1>5, <2>1, <2>2, ZenonT(60)
<1>6. CASE ~Grants(s)
  <2>1. sw'[s] = free
    BY <1>3, <1>6
  <2>2. sw'[s].owned = (sw[s].owned /\ gave = {})
    BY <1>4, <2>1
  <2>3. QED BY <1>1, <1>2, <1>4, <1>6, <2>1, <2>2, ZenonT(60) DEF gave
<1>7. QED BY <1>5, <1>6

-----------------------------------------------------------------------------
\* An edge keeps the lock exact: a grant of s finds it free and engages one
\* slot; without a grant the lock falls exactly when its owner lets go.
LEMMA EdgeKeepsLock ==
  ASSUME LockInv, NEW in, SlotEdge(in), LockEdge(in)
  PROVE LockInv'
<1>0. SlotsOK /\ LocksOK
  BY DEF LockInv
<1>1. SlotsOK'
  <2> SUFFICES ASSUME NEW i \in Slots
               PROVE SlotShape(ws'[i]) /\ (ws'[i].st \in Engaged => ws'[i].slv \in Slaves)
    BY DEF SlotsOK, ws_active, SlotShape, Engaged
  <2>1. QED BY <1>0, SlotAfter DEF SlotsOK, ws_active
<1>2. LocksOK'
  <2> SUFFICES ASSUME NEW s \in Slaves
               PROVE /\ LockShape(sw'[s]) /\ sw'[s].owned \in BOOLEAN
                     /\ sw'[s].owner \in Slots /\ sw'[s].rr \in Int
    BY DEF LocksOK, LockShape
  <2>1. QED BY <1>0, LockAfter
<1>3. ASSUME NEW s \in Slaves, NEW i \in Slots
      PROVE (ws'[i].st \in Engaged /\ ws'[i].slv = s) <=> (sw'[s].owned /\ sw'[s].owner = i)
  <2> DEFINE gave == {j \in Slots : ws[j].slv = s /\ SlotNext(j, in).gave}
  <2>1. \A j \in Slots :
          (ws[j].st \in Engaged /\ ws[j].slv = s) <=> (sw[s].owned /\ sw[s].owner = j)
    BY DEF LockInv, LockMatchesOwner, ws_active
  <2>2. CASE Grants(s)
    <3>1. sw'[s].owned /\ sw'[s].owner = rr_pick_w(s) /\ ~sw[s].owned
      BY <1>0, <2>2, LockAfter, GrantFacts
    <3>2. rr_pick_w(s) = i => ws'[i].st \in Engaged /\ ws'[i].slv = s
      BY <1>0, <2>2, SlotAfter
    <3>3. ws'[i].st \in Engaged /\ ws'[i].slv = s => rr_pick_w(s) = i
      BY <1>0, <2>1, <3>1, SlotAfter
    <3>4. QED BY <3>1, <3>2, <3>3
  <2>3. CASE ~Grants(s)
    <3>1. /\ sw'[s].owned <=> sw[s].owned /\ gave = {}
          /\ sw'[s].owner = sw[s].owner
      BY <1>0, <2>3, LockAfter
    <3>2. \A j \in gave : sw[s].owned /\ sw[s].owner = j
      BY <1>0, <2>1, SlotAfter
    <3>3. ASSUME ws'[i].st \in Engaged, ws'[i].slv = s
          PROVE sw'[s].owned /\ sw'[s].owner = i
      <4>1. ws[i].st \in Engaged /\ ~SlotNext(i, in).gave /\ ws[i].slv = s
        BY <1>0, <2>3, <3>3, SlotAfter
      <4>2. sw[s].owned /\ sw[s].owner = i
        BY <2>1, <4>1
      <4>3. gave = {}
        BY <3>2, <4>1, <4>2
      <4>4. QED BY <3>1, <4>2, <4>3
    <3>4. ASSUME sw'[s].owned, sw'[s].owner = i
          PROVE ws'[i].st \in Engaged /\ ws'[i].slv = s
      <4>1. sw[s].owned /\ sw[s].owner = i /\ gave = {}
        BY <3>1, <3>4
      <4>2. ws[i].st \in Engaged /\ ws[i].slv = s /\ ~SlotNext(i, in).gave
        BY <2>1, <4>1
      <4>3. QED BY <1>0, <4>2, SlotAfter
    <3>5. QED BY <3>3, <3>4
  <2>4. QED BY <2>2, <2>3
<1>4. LockMatchesOwner'
  BY <1>3 DEF LockMatchesOwner, ws_active, Engaged
<1>5. QED BY <1>1, <1>2, <1>4 DEF LockInv

\* At power-up every slot is idle and every lock free.
LEMMA InitLockInv == Init => LockInv
<1> SUFFICES ASSUME Init PROVE LockInv
  OBVIOUS
<1>1. SlotShape(NoWrite) /\ NoWrite.st \notin Engaged
  BY DEF SlotShape, NoWrite, Engaged
<1>2. \A i \in Slots : ws[i] = NoWrite
  BY DEF Init
<1>3. \A s \in Slaves : sw[s] = [owned |-> FALSE, owner |-> 0, rr |-> 0, aw |-> FALSE]
  BY DEF Init
<1>4. SlotsOK
  BY <1>1, <1>2 DEF SlotsOK, ws_active
<1>5. LocksOK
  <2>1. 0 \in Slots
    BY XbarAssumption
  <2>2. \A s \in Slaves : LockShape(sw[s])
    BY <1>3 DEF LockShape
  <2>3. \A s \in Slaves : sw[s].owned \in BOOLEAN
    <3>1. \A s \in Slaves : sw[s].owned = FALSE
      BY <1>3
    <3>2. QED BY <3>1, ZenonT(60)
  <2>4. \A s \in Slaves : sw[s].owner \in Slots /\ sw[s].rr \in Int
    BY <1>3, <2>1
  <2>5. QED BY <2>2, <2>3, <2>4, ZenonT(60) DEF LocksOK
<1>6. LockMatchesOwner
  BY <1>1, <1>2, <1>3 DEF LockMatchesOwner, ws_active
<1>7. QED BY <1>4, <1>5, <1>6 DEF LockInv

\* Every cycle of the crossbar is such an edge, for inputs of some kind.
LEMMA NextLockInv == LockInv /\ [Next]_vars => LockInv'
<1> SUFFICES ASSUME LockInv, [Next]_vars PROVE LockInv'
  OBVIOUS
<1>1. CASE Next
  <2>1. \E in : Edge(in)
    <3> DEFINE E(is, wv, br, ar, bs, mo, la, wk, wr) ==
                 Edge([issue |-> is, wvalid |-> wv, bready |-> br \union ForcedB,
                       awready |-> ar, wready |-> wr, bshow |-> bs, mode |-> mo,
                       late |-> la, walk |-> wk])
               LateSet == IF \E i \in Slots : ws[i].hold = BHoldMax THEN BOOLEAN ELSE {FALSE}
               WalkSet == IF MayWalk THEN BOOLEAN ELSE {FALSE}
               Ready(ar) == SUBSET {s \in Slaves : TakesW(s, ar) /\
                              (\/ \E i \in Slots : Drives(i) /\ ws[i].slv = s
                               \/ s = "S3" /\ s3 > 0)}
    <3>1. PICK is \in SUBSET MayIssue,
               wv \in Cover(WantsBeat, {x \in WantsBeat : Due(x)}),
               br \in Cover(WantsB, {x \in WantsB : Due(x)}),
               ar \in SUBSET {s \in Slaves : sw[s].aw},
               bs \in SUBSET {s \in Slaves : slv[s].done # <<>>},
               mo \in NextModes, la \in LateSet, wk \in WalkSet :
            /\ wk => "host" \notin is \union wv \union br
            /\ \E wr \in Ready(ar) : E(is, wv, br, ar, bs, mo, la, wk, wr)
      BY <1>1, ZenonT(60) DEF Next
    <3> HIDE DEF E, LateSet, WalkSet, Ready
    <3>2. PICK wr \in Ready(ar) : E(is, wv, br, ar, bs, mo, la, wk, wr)
      BY <3>1
    <3>3. QED BY <3>2, ZenonT(60) DEF E
  <2>2. PICK in : SlotEdge(in) /\ LockEdge(in)
    BY <2>1 DEF Edge
  <2>3. QED BY <2>2, EdgeKeepsLock
<1>2. CASE UNCHANGED vars
  BY <1>2 DEF vars, LockInv, SlotsOK, LocksOK, LockMatchesOwner, ws_active, SlotShape, LockShape, Engaged
<1>3. QED BY <1>1, <1>2

\* The owner lock of every slave is held exactly while its owner is engaged
\* with it (sw_owned, sw_owner), for every traffic, pattern of resets and
\* bound of the timers.
THEOREM LockIsExact == Spec => []LockMatchesOwner
<1>1. LockInv => LockMatchesOwner
  BY DEF LockInv
<1>2. QED BY InitLockInv, NextLockInv, <1>1, PTL DEF Spec
=============================================================================
