------------------------------- MODULE RtcPram -------------------------------
(***************************************************************************)
(* The parameter RAM of rtl/mac/rtc.v and what reaches it: the Mac's       *)
(* serial writes, the sweep that puts the power-on image back, and the     *)
(* byte port of pram_cdc.  The serial shift protocol is reduced to the     *)
(* edge on which it commits a byte.                                        *)
(***************************************************************************)
EXTENDS Naturals

CONSTANTS PramLen,       \* bytes of PRAM (256)
          DefaultByte,   \* pram_reset_value, the same for every address
          NoWrite        \* no serial write commits on this edge

ASSUME PramLenAssumption == PramLen \in Nat \ {0}

VARIABLES pram, rc       \* rc: [meta, sync, q, active, addr, ext]

PramAddr == 0 .. (PramLen - 1)
DefaultPram == [i \in PramAddr |-> DefaultByte]

RtcInit == /\ pram = DefaultPram
           /\ rc = [meta |-> 0, sync |-> 0, q |-> 0, active |-> 0, addr |-> 0,
                    ext |-> DefaultByte]

pram_busy == rc.sync = 1 \/ rc.active = 1

\* A rising edge of pram_clear (re)starts the sweep at address 0.
Sweep == [active |-> IF rc.sync = 1 /\ rc.q = 0 THEN 1
                     ELSE IF rc.active = 1 /\ rc.addr = PramLen - 1 THEN 0
                     ELSE rc.active,
          addr |-> IF rc.sync = 1 /\ rc.q = 0 THEN 0
                   ELSE IF rc.active = 1 THEN (rc.addr + 1) % PramLen
                   ELSE rc.addr]

\* Ports A (sweep or serial) and B (byte port).  The byte port wins when both
\* write one address; a sweep shuts both writers out.
PramNext(ser, ext_we, ext_addr, ext_wdata) ==
  [i \in PramAddr |->
     IF rc.active = 1 /\ i = rc.addr THEN DefaultByte
     ELSE IF ext_we /\ ~pram_busy /\ i = ext_addr THEN ext_wdata
     ELSE IF ser # NoWrite /\ ~pram_busy /\ i = ser.addr THEN ser.val
     ELSE pram[i]]

\* posedge pb_clk.  clear is the level of the request for the defaults in the
\* core domain; pb_rst holds only its two synchronizer flops.
RtcEdge(pb_rst, clear, ser, ext_we, ext_addr, ext_wdata) ==
  /\ pram' = PramNext(ser, ext_we, ext_addr, ext_wdata)
  /\ rc' = [meta |-> IF pb_rst = 1 THEN 0 ELSE clear,
            sync |-> IF pb_rst = 1 THEN 0 ELSE rc.meta,
            q |-> rc.sync,
            active |-> Sweep.active, addr |-> Sweep.addr,
            ext |-> pram[ext_addr]]
=============================================================================
