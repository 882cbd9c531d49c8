----------------------------- MODULE MCProgress -----------------------------
(***************************************************************************)
(* What the two caches must eventually do, on small loads.  A behaviour    *)
(* belongs to one of them, `dev', and the registers of the other stand     *)
(* still.                                                                  *)
(***************************************************************************)
EXTENDS MCL2

CONSTANTS BlkBytes, BLOCKS_PER_WAY, LbaSpace, WdogMax, VhddScenarios

VARIABLES dev, vscn,
          way_valid, way_base, way_bytes, lru, last_num_lbas, cache_mem,
          fst, f_lba, f_count, f_way, f_poison,
          rq, pend_pass, serve_way, serve_off, serve_left, serve_wdog,
          done_r, err_r, rd_valid_r, serve_q,
          num_lbas, inval, req, prov, ver, floor, sent, out, stale, fin

Vhdd == INSTANCE VhddReadahead WITH Scenarios <- VhddScenarios, scn <- vscn

vhddVars == <<vscn, way_valid, way_base, way_bytes, lru, last_num_lbas, cache_mem,
              fst, f_lba, f_count, f_way, f_poison,
              rq, pend_pass, serve_way, serve_off, serve_left, serve_wdog,
              done_r, err_r, rd_valid_r, serve_q,
              num_lbas, inval, req, prov, ver, floor, sent, out, stale, fin>>
allVars == <<dev, vars, vhddVars>>

\* Hits, misses and pass-through reads under a withheld rd_ready.
DiskRead(c) == [wr |-> FALSE, multi |-> c > 1, lba |-> 0, count |-> c]
VhddLoads == {[eager |-> FALSE, adaptive |-> TRUE, ops |-> {DiskRead(1), DiskRead(3)},
               sizes |-> {3, 2}, maxVer |-> 1]}

ProgressInit ==
  /\ dev \in {"l2", "vhdd"} /\ Init /\ Vhdd!Init
  /\ dev = "vhdd" => scn = CHOOSE s \in Scenarios : TRUE
  /\ dev = "l2" => num_lbas = CHOOSE n \in vscn.sizes : TRUE

L2Step(A) == dev = "l2" /\ A /\ UNCHANGED <<dev, vhddVars>>
VhddStep(A) == dev = "vhdd" /\ A /\ UNCHANGED <<dev, vars>>
ProgressNext == L2Step(Next) \/ VhddStep(Vhdd!Tick) \/ VhddStep(Vhdd!Reset)

\* The fairness of L2Ctrl!LiveSpec and of VhddReadahead!LiveSpec.
ProgressSpec ==
  /\ ProgressInit /\ [][ProgressNext]_allVars
  /\ WF_allVars(L2Step(FillComes)) /\ WF_allVars(L2Step(BComes))
  /\ WF_allVars(VhddStep(Vhdd!Tick)) /\ []<>(prov = None)

----------------------------------------------------------------------------
\* vhdd_readahead: every request ends, however long the master withholds
\* rd_ready.
EveryRequestEnds == Vhdd!EveryRequestEnds
=============================================================================
