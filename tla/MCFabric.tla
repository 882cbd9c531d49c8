------------------------------ MODULE MCFabric ------------------------------
(***************************************************************************)
(* The AXI fabric: the write half and the read half of the crossbar, the   *)
(* window guards on the core's own ports of the L2, and the memory port of *)
(* the L2.  A behaviour belongs to one of them, `dev'; the crossbar's      *)
(* halves share the registers they have in common, the guards the names of *)
(* theirs, and the registers of the others stand still.                    *)
(***************************************************************************)
EXTENDS XbarWrite

CONSTANTS ReadHoldMax, ReadScenarios,
          VictimSlots, BypassSlots, Entries, FillBeats, DrainFloor, WalkLen, PortScenarios,
          Ring, LedgerMod, DoorCap, WGuardScenarios, CountMod, ReadCap, RGuardScenarios

VARIABLES dev, rs, arr, sr, rq, pscn, v, b, arb, rd, fl, walk, dram, gscn, gd, up, dn

Reads == INSTANCE XbarRead WITH BHoldMax <- ReadHoldMax, Scenarios <- ReadScenarios
Port == INSTANCE L2Port WITH Scenarios <- PortScenarios, scn <- pscn
WGuard == INSTANCE WriteGuard WITH Scenarios <- WGuardScenarios
RGuard == INSTANCE ReadGuard WITH Scenarios <- RGuardScenarios

ASSUME PortAssumption == Port!PortParams
ASSUME GuardAssumption == WGuard!WriteGuardParams /\ RGuard!ReadGuardParams

-----------------------------------------------------------------------------
(* Writes: the copier and the CPU on slot 0 under both resets; a host that *)
(* walks away; each slave that a flush empties, or does not.  A load has   *)
(* the resets it can meet without the coincidences the README lists.       *)
Wr(s, n) == [slv |-> s, len |-> n]
Load(cpu, boot, host, kinds, n, walks) ==
    [writes |-> [cpu |-> cpu, boot |-> boot, host |-> host], kinds |-> kinds,
     resets |-> n, walks |-> walks]
WriteLoads == {
    Load(<<Wr("S0", 1)>>, <<Wr("S0", 1), Wr("S0", 0)>>, <<>>, {"hold", "flush"}, 2, FALSE),
    Load(<<Wr("S0", 1)>>, <<Wr("S0", 0)>>, <<Wr("S0", 0)>>, {"hold"}, 1, TRUE),
    Load(<<Wr("S1", 0)>>, <<Wr("S0", 0)>>, <<Wr("S1", 0), Wr("S1", 0)>>, {"flush"}, 1, TRUE),
    Load(<<Wr("S3", 1)>>, <<>>, <<Wr("S3", 1)>>, {"flush"}, 1, FALSE),
    Load(<<Wr("S3", 1)>>, <<Wr("S0", 0)>>, <<Wr("S3", 0)>>, {"hold"}, 1, FALSE),
    Load(<<Wr("S1", 1), Wr("none", 1)>>, <<>>, <<Wr("S3", 1)>>, {"flush"}, 1, TRUE)}

(* Reads: two masters at one slave, answered in any order, with and        *)
(* without a flush, with and without a host that walks away.               *)
ReadLoad(cpu, host, n, walks) ==
    [reads |-> [i \in {0, 1} |-> IF i = 0 THEN cpu ELSE host], flushes |-> n,
     walks |-> walks]
ReadLoads == {
    ReadLoad(<<Wr("S0", 1), Wr("S0", 0)>>, <<Wr("S0", 1), Wr("none", 1)>>, 0, {1}),
    ReadLoad(<<Wr("S3", 1), Wr("S3", 0)>>, <<Wr("S3", 1), Wr("S0", 0)>>, 1, {}),
    ReadLoad(<<Wr("S1", 0), Wr("S1", 1)>>, <<Wr("S1", 0), Wr("S1", 0)>>, 1, {1})}

(* Port: writebacks beside bypass writes, resets that meet writes, reads   *)
(* and writes of the bypass, resets that meet line fetches.                *)
Rq(wr, id, need) == [wr |-> wr, id |-> id, need |-> need]
PortLoad(pushes, reqs, fills, resets) ==
    [pushes |-> pushes, reqs |-> reqs, fills |-> fills, resets |-> resets]
BypassWrites == {Rq(TRUE, 0, TRUE), Rq(TRUE, 0, FALSE)}
BypassMix == {Rq(TRUE, 0, TRUE), Rq(FALSE, 0, TRUE), Rq(FALSE, 1, TRUE)}
PortLoads == {
    PortLoad({0, 1}, BypassWrites, FALSE, 0), PortLoad({0, 1}, BypassWrites, FALSE, 2),
    PortLoad({}, BypassMix, FALSE, 0), PortLoad({}, {Rq(FALSE, 0, TRUE)}, TRUE, 0),
    PortLoad({}, {}, TRUE, 2)}

(* Guards: requests inside and outside the window, under two ids, and      *)
(* resets of the core that meet each of them.                              *)
GuardWrite(ram, id, len) == [ram |-> ram, id |-> id, len |-> len]
WGuardLoads == {
    [writes |-> <<GuardWrite(TRUE, 0, 1), GuardWrite(TRUE, 1, 0),
                  GuardWrite(FALSE, 0, 1), GuardWrite(TRUE, 0, 0)>>, resets |-> 1],
    [writes |-> <<GuardWrite(FALSE, 0, 1), GuardWrite(TRUE, 0, 1),
                  GuardWrite(TRUE, 1, 0), GuardWrite(TRUE, 0, 1)>>, resets |-> 2]}
GuardRead(inside, id, len) == [inside |-> inside, id |-> id, len |-> len]
RGuardLoads == {
    [reads |-> <<GuardRead(TRUE, 0, 1), GuardRead(TRUE, 1, 1), GuardRead(FALSE, 0, 1),
                 GuardRead(TRUE, 0, 1), GuardRead(FALSE, 1, 0)>>],
    [reads |-> <<GuardRead(FALSE, 0, 1), GuardRead(TRUE, 0, 0), GuardRead(TRUE, 1, 2),
                 GuardRead(TRUE, 0, 1), GuardRead(FALSE, 1, 1)>>]}

-----------------------------------------------------------------------------
writeVars == <<m0, ws, awr, sw, s3>>
readVars == <<rs, arr, sr, rq>>
sharedVars == <<scn, env, tail, mas, slv>>
portVars == <<pscn, v, b, arb, rd, fl, walk, dram>>
guardVars == <<gscn, gd, up, dn>>
allVars == <<dev, writeVars, readVars, sharedVars, portVars, guardVars>>

WriteOff == m0 = None /\ ws = None /\ awr = None /\ sw = None /\ s3 = None
ReadOff == rs = None /\ arr = None /\ sr = None /\ rq = None
SharedOff == scn = None /\ env = None /\ tail = None /\ mas = None /\ slv = None
PortOff == /\ pscn = None /\ v = None /\ b = None /\ arb = None
           /\ rd = None /\ fl = None /\ walk = None /\ dram = None
GuardOff == gscn = None /\ gd = None /\ up = None /\ dn = None

FabricInit ==
    \/ dev = "write" /\ Init /\ ReadOff /\ PortOff /\ GuardOff
    \/ dev = "read" /\ Reads!Init /\ WriteOff /\ PortOff /\ GuardOff
    \/ dev = "port" /\ Port!Init /\ WriteOff /\ ReadOff /\ SharedOff /\ GuardOff
    \/ /\ WriteOff /\ ReadOff /\ SharedOff /\ PortOff
       /\ \/ dev = "wguard" /\ WGuard!Init
          \/ dev = "rguard" /\ RGuard!Init
FabricNext ==
    /\ UNCHANGED dev
    /\ \/ dev = "write" /\ Next /\ UNCHANGED <<readVars, portVars, guardVars>>
       \/ dev = "read" /\ Reads!Next /\ UNCHANGED <<writeVars, portVars, guardVars>>
       \/ dev = "port" /\ Port!Next /\ UNCHANGED <<writeVars, readVars, sharedVars, guardVars>>
       \/ /\ dev = "wguard" /\ WGuard!Next
          /\ UNCHANGED <<writeVars, readVars, sharedVars, portVars>>
       \/ /\ dev = "rguard" /\ RGuard!Next
          /\ UNCHANGED <<writeVars, readVars, sharedVars, portVars>>
FabricSpec == FabricInit /\ [][FabricNext]_allVars

-----------------------------------------------------------------------------

(* axi_xbar: a slot waits only for what its slave still owes it, and       *)
(* whatever a slave holds or owes, a slot, the S3 clean-up or a quarantine *)
(* bit is there to take it.                                                *)
XbarSlotsMatchSlaves == /\ dev = "write" => SlotsMatchSlaves
                        /\ dev = "read" => Reads!ReadsMatchSlaves


(* axi_xbar: a slave's write lock is held exactly while its owner is       *)
(* engaged with it, and nobody else is.                                    *)
XbarLockMatchesOwner == dev = "write" => LockMatchesOwner

(* axi_xbar: a slot goes idle only when its write is answered, its read    *)
(* has been had to the last beat, or its master is gone.                   *)
XbarNoLostAnswer == [][/\ dev = "write" => AnsweredWhenIdle
                       /\ dev = "read" => Reads!ReadWhenIdle]_allVars

(* l2c, l2c_victim, l2c_bypass: a B is never refused, goes to the engine   *)
(* whose write it completes, and frees a slot exactly if it is not a stray *)
(* of before a reset.                                                      *)
PortBFreesItsOwn == dev = "port" => Port!BFreesItsOwn

(* l2c: a W beat belongs to the burst DRAM is waiting for, the last beat   *)
(* is marked last, and filler goes only to bursts a reset abandoned.       *)
PortWBelongsToBurst == dev = "port" => Port!WBelongsToBurst

(* l2c_bypass: a read returns what the writes accepted before it wrote,    *)
(* under its own id.                                                       *)
PortBypassInOrder == dev = "port" => Port!BypassInOrder

(* l2c, l2c_mshr: a read beat is never refused and goes to the request     *)
(* that fetched it, or to the reset drain if that request is gone.         *)
PortReadFindsOwner == dev = "port" => Port!ReadFindsOwner


(* dh_write_window_guard, ifetch_window_guard: what the guard counts as    *)
(* owed below is what the L2 owes; every beat goes to the transfer it      *)
(* belongs to; what the core is shown answers the oldest request of that   *)
(* id it waits for, never one of a core that is gone; and the guard's own  *)
(* answers neither split nor overtake the L2's.                            *)
GuardKeepsOrder == /\ dev = "wguard" => WGuard!WritesInOrder
                   /\ dev = "rguard" => RGuard!ReadsInOrder
=============================================================================
