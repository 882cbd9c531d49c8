------------------------------- MODULE PramCdc -------------------------------
(***************************************************************************)
(* rtl/soc/pram_cdc.v: the four-phase handshake that carries one PRAM byte *)
(* between pram_sd (A, core clock) and rtc (B, peripheral clock).  Levels  *)
(* are 0 or 1.  The requester holds address, direction and data for as     *)
(* long as its request is up, so only the request, the acknowledge and the *)
(* byte read are registers here.                                           *)
(***************************************************************************)
EXTENDS Naturals

CONSTANT ResetByte   \* what rdata_b and a_rdata are cleared to

VARIABLES ca,        \* A side: [meta, sync, q, rdata], q is a_ack
          cb         \* B side: [meta, sync, q, ack, ready, rdata]

ca_rst == [meta |-> 0, sync |-> 0, q |-> 0, rdata |-> ResetByte]
cb_rst == [meta |-> 0, sync |-> 0, q |-> 0, ack |-> 0, ready |-> 0,
           rdata |-> ResetByte]

\* Fault: the acknowledge is taken after two flops, as the byte is captured.
a_ack_early == ca.sync = 1
a_ack == ca.q = 1

\* posedge a_clk: three flops for the acknowledge, the byte one flop earlier.
AckEdge == ca' = [meta |-> cb.ack, sync |-> ca.meta, q |-> ca.sync,
                  rdata |-> IF ca.sync = 1 THEN cb.rdata ELSE ca.rdata]

accept_b(b_ready) == cb.sync = 1 /\ cb.ack = 0 /\ b_ready = 1 /\ cb.ready = 1

req_b_fall == cb.sync = 0 /\ cb.q = 1

\* posedge b_clk out of reset.
ReqEdge(a_req, b_ready, b_rdata) ==
  LET take == accept_b(b_ready)
  IN cb' = [meta |-> a_req, sync |-> cb.meta, q |-> cb.sync, ready |-> b_ready,
            ack |-> IF take THEN 1 ELSE IF req_b_fall THEN 0 ELSE cb.ack,
            rdata |-> IF take THEN b_rdata ELSE cb.rdata]
=============================================================================
