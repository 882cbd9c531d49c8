------------------------------- MODULE L2Mshr -------------------------------
(***************************************************************************)
(* The miss table of the L2 cache, rtl/soc/l2c_mshr.v.                     *)
(*                                                                         *)
(* An entry holds one missing line: the request that missed (pri), up to   *)
(* ReplayN later requests for the same line (reps), the quadrants the way  *)
(* already owned when the entry was allocated (vsec, dsec), and the fetch. *)
(* One entry at a time is installed and replayed by the FSM st.            *)
(*                                                                         *)
(* Data is followed for one byte only: the byte of quadrant TQuad of line  *)
(* TLine that a request with val # None writes.  Everything else is Junk.  *)
(* The hardware treats all bytes alike, so the byte followed is arbitrary. *)
(***************************************************************************)
EXTENDS Naturals, Sequences, FiniteSets, FiniteSetsExt

CONSTANTS
  Lines,      \* line addresses
  SetOf,      \* the set index of each line
  Quads,      \* 128-bit quadrants of a line
  Ways,       \* ways of a set, numbers
  Entries,    \* MSHR entries, numbers
  ReplayN,    \* merges an entry holds
  TLine, TQuad, \* the line and quadrant of the byte that is followed
  None, Junk

ASSUME MshrAssumption == /\ TLine \in Lines /\ TQuad \in Quads
                         /\ Ways \subseteq Nat /\ Entries \subseteq Nat
                         /\ ReplayN \in Nat

VARIABLES
  ms,     \* the table
  st,     \* S_SCAN, S_INSTALL, S_PRSP, S_SNEXT, S_SWR, S_SRSP, S_FREE
  act,    \* the entry the FSM works on
  rk,     \* replay it has reached
  aval,   \* the followed byte in act_line
  inst,   \* registered install pulse to the arrays
  mrsp    \* response register

mshrVars == <<ms, st, act, rk, aval, inst, mrsp>>

Live == {e \in Entries : ms[e] # None}
Unissued == {e \in Live : ms[e].fetch = "wait"}
Issued == {e \in Live : ms[e].fetch = "issued"}
Filled == {e \in Live : ms[e].fetch = "done"}

\* merge_quad on the followed byte: rq writes it or leaves it as it was.
MergeQuad(old, rq) == IF rq.wr /\ rq.val # None THEN rq.val ELSE old

\* What a read returns for the followed byte.
ReadsByte(rq) == ~rq.wr /\ rq.line = TLine /\ rq.q = TQuad

\* A response in a response register.
Rsp(rq, v, e) == [id |-> rq.id, wr |-> rq.wr, err |-> e,
                  val |-> IF ReadsByte(rq) /\ ~e THEN v ELSE None,
                  ok |-> rq.ok]

\* bw_mask: the ways of set s that live entries claim.
BusyWays(s) == {ms[e].way : e \in {x \in Live : SetOf[ms[x].line] = s}}

\* lu_hit / lu_idx
LuMatch(l) == {e \in Live : ms[e].line = l}

\* idq2_vec: entries holding an unfreed request of this {source, id}.
IdVec(i) == {e \in Live : \/ ms[e].pri.id = i
                          \/ \E k \in 1 .. Len(ms[e].reps) : ms[e].reps[k].id = i}

alloc_ready == Live # Entries
merge_ready(e) == Len(ms[e].reps) < ReplayN /\ ~(st = "S_FREE" /\ e = act)

NewEntry(al) == [line |-> al.rq.line, way |-> al.way, pri |-> al.rq, reps |-> <<>>,
                 vsec |-> al.vsec, dsec |-> al.dsec,
                 fetch |-> "wait", val |-> Junk, err |-> FALSE]

MshrInit == /\ ms = [e \in Entries |-> None]
            /\ st = "S_SCAN" /\ act = Min(Entries) /\ rk = 0 /\ aval = Junk
            /\ inst = None /\ mrsp = None

\* The table after this edge: allocation, merge, AR accept, last R beat,
\* dirty-mask update and free.  al, mg are None or the request concerned;
\* iss and fill are None or the entry whose AR / RLAST is accepted; dv is the
\* byte DRAM holds; err says that the fill was answered with an error.
TableNext(al, mg, iss, dv, fill, err) ==
  LET free == Min(Entries \ Live)
  IN [e \in Entries |->
       IF al # None /\ e = free THEN NewEntry(al)
       ELSE IF ms[e] = None THEN None
       ELSE IF st = "S_FREE" /\ e = act THEN None
       ELSE [ms[e] EXCEPT
               !.reps = IF mg # None /\ mg.e = e THEN Append(@, mg.rq) ELSE @,
               !.fetch = IF iss = e THEN "issued" ELSE IF fill = e THEN "done" ELSE @,
               !.val = IF iss = e THEN (IF ms[e].line = TLine THEN dv ELSE Junk)
                       ELSE IF fill = e /\ err THEN Junk ELSE @,
               !.err = IF fill = e THEN err ELSE @,
               !.dsec = IF e # act \/ ms[e].err THEN @
                        ELSE IF st = "S_INSTALL" /\ ms[e].pri.wr THEN @ \cup {ms[e].pri.q}
                        ELSE IF st = "S_SWR" THEN @ \cup {ms[e].reps[rk + 1].q}
                        ELSE @]]

\* Fault: a failed fill is installed.
InstallAnyway(strb) ==
  inst' = [set |-> SetOf[ms[act].line], way |-> ms[act].way,
           line |-> ms[act].line, dsec |-> ms'[act].dsec, strb |-> strb]

\* The install pulse: S_INSTALL writes only the quadrants the way did not own,
\* S_SWR only the bytes of the write it replays.
Install(strb) ==
  inst' = IF ms[act].err THEN None
          ELSE [set |-> SetOf[ms[act].line], way |-> ms[act].way,
                line |-> ms[act].line, dsec |-> ms'[act].dsec, strb |-> strb]

\* Load the response register, then leave it when it is taken.
Respond(rq, mr, next, rk2) ==
  IF mrsp # None /\ mr
  THEN mrsp' = None /\ st' = next /\ rk' = rk2
  ELSE mrsp' = Rsp(rq, aval, ms[act].err) /\ UNCHANGED <<st, rk>>

FsmScan ==
  /\ st = "S_SCAN"
  /\ \/ /\ Filled = {} /\ UNCHANGED <<st, act, aval>>
     \/ \E e \in Filled : st' = "S_INSTALL" /\ act' = e /\ aval' = ms[e].val
  /\ inst' = None /\ UNCHANGED <<rk, mrsp>>

FsmInstall ==
  /\ st = "S_INSTALL"
  /\ Install(TQuad \notin ms[act].vsec)
  /\ aval' = IF ms[act].err THEN aval ELSE MergeQuad(aval, ms[act].pri)
  /\ st' = "S_PRSP" /\ rk' = 0 /\ UNCHANGED <<act, mrsp>>

FsmPrsp(mr) ==
  /\ st = "S_PRSP"
  /\ IF ms[act].pri.need
     THEN Respond(ms[act].pri, mr, "S_SNEXT", rk)
     ELSE st' = "S_SNEXT" /\ UNCHANGED <<mrsp, rk>>
  /\ inst' = None /\ UNCHANGED <<act, aval>>

\* Fault: the end of the list is taken to be the end of its storage.
FsmSnextStorage(mg) ==
  /\ st = "S_SNEXT"
  /\ st' = IF rk = ReplayN THEN "S_FREE"
           ELSE IF rk = Len(ms[act].reps) THEN "S_SNEXT"
           ELSE IF ms[act].reps[rk + 1].wr THEN "S_SWR" ELSE "S_SRSP"
  /\ inst' = None /\ UNCHANGED <<act, rk, aval, mrsp>>

\* A request merging on this very edge keeps the entry alive.
FsmSnext(mg) ==
  /\ st = "S_SNEXT"
  /\ st' = IF rk = Len(ms[act].reps)
           THEN IF mg # None /\ mg.e = act THEN "S_SNEXT" ELSE "S_FREE"
           ELSE IF ms[act].reps[rk + 1].wr THEN "S_SWR" ELSE "S_SRSP"
  /\ inst' = None /\ UNCHANGED <<act, rk, aval, mrsp>>

FsmSwr ==
  /\ st = "S_SWR"
  /\ LET rq == ms[act].reps[rk + 1]
     IN /\ Install(rq.val # None)
        /\ aval' = IF ms[act].err THEN aval ELSE MergeQuad(aval, rq)
        /\ st' = IF rq.need THEN "S_SRSP" ELSE "S_SNEXT"
        /\ rk' = IF rq.need THEN rk ELSE rk + 1
  /\ UNCHANGED <<act, mrsp>>

FsmSrsp(mr) ==
  /\ st = "S_SRSP"
  /\ Respond(ms[act].reps[rk + 1], mr, "S_SNEXT", rk + 1)
  /\ inst' = None /\ UNCHANGED <<act, aval>>

FsmFree ==
  /\ st = "S_FREE"
  /\ st' = "S_SCAN" /\ inst' = None /\ UNCHANGED <<act, rk, aval, mrsp>>

\* posedge clk of l2c_mshr.  mr is rsp_ready.
MshrEdge(al, mg, iss, dv, fill, err, mr) ==
  /\ ms' = TableNext(al, mg, iss, dv, fill, err)
  /\ \/ FsmScan \/ FsmInstall \/ FsmPrsp(mr) \/ FsmSnext(mg)
     \/ FsmSwr \/ FsmSrsp(mr) \/ FsmFree

\* The write whose response register is loaded on this edge, if any.
MshrLoads == IF mrsp # None THEN None
             ELSE IF st = "S_PRSP" /\ ms[act].pri.need THEN ms[act].pri
             ELSE IF st = "S_SRSP" THEN ms[act].reps[rk + 1] ELSE None
=============================================================================
