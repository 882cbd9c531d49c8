------------------------------- MODULE PramSd -------------------------------
(***************************************************************************)
(* rtl/soc/pram_sd.v: saves the PRAM to one sector of the SD card, loads   *)
(* it back, and loads it once by itself when the boot is over.  A sector   *)
(* is a header cell, a checksum cell, the payload and a padding cell.  The *)
(* checksum of a sector is the sequence of cells it covers: no collisions. *)
(* `s' holds the module's registers, `sec_buf' its staging buffer.  An     *)
(* operator named after a state gives the registers after one core clock   *)
(* edge in that state.                                                     *)
(***************************************************************************)
EXTENDS PramCdc, RtcPram, Sequences

CONSTANTS ArbWait, CdcWait, DefaultHold   \* 2^ARB_WAIT_LOG2 and so on

VARIABLES s, sec_buf

HDR == 0
CK == 1
PAYLOAD_OFF == 2
WALK_END == PAYLOAD_OFF + PramLen
SectorLen == WALK_END + 1
Cells == 0 .. (SectorLen - 1)

NoCk == <<>>
Payload(sector) == [i \in PramAddr |-> sector[PAYLOAD_OFF + i]]

\* The checksum of a sector: every walked cell but the checksum itself.
CkOf(sector) == [k \in 1 .. (PramLen + 1) |->
                   IF k = 1 THEN sector[HDR] ELSE sector[PAYLOAD_OFF + k - 2]]

pram_sd_busy == s.st # "IDLE"
autoload_pending == s.armed = 1 \/ s.abusy = 1

s_rst == [st |-> "IDLE", op |-> "SAVE", idx |-> 0, armed |-> 1, abusy |-> 0,
          boot_q |-> 0, done |-> 0, res |-> "OK", dfl |-> 0,
          hdr |-> <<>>, ck |-> <<>>, arb |-> 0, cdc |-> 0, def |-> 0,
          sd_req |-> 0, req |-> 0, we |-> 0, addr |-> 0,
          wdata |-> DefaultByte, pram_default |-> 0]

\* Every accepted command clears the previous verdict.
Cleared(t) == [t EXCEPT !.done = 0, !.dfl = 0, !.res = "OK"]

\* The boot-time LOAD: once, on the first edge that sees boot_done rise.
autoload_fires(boot_done) ==
  s.armed = 1 /\ boot_done = 1 /\ s.boot_q = 0 /\ s.st = "IDLE"
Autoload(t, boot_done) ==
  IF autoload_fires(boot_done)
  THEN [Cleared(t) EXCEPT !.armed = 0, !.abusy = 1, !.op = "LOAD", !.arb = 0,
                          !.st = "ARB"]
  ELSE t

\* A write of CTRL, ignored unless idle.  It comes after the boot-time LOAD in
\* the process, so on the same edge its assignments are the ones that stay.
Command(t, cmd) ==
  IF cmd = "none" \/ s.st # "IDLE" THEN t
  ELSE CASE cmd \in {"SAVE", "SNAP"} ->
              [Cleared(t) EXCEPT !.op = cmd, !.idx = 0, !.st = "FILL"]
         [] cmd = "LOAD" ->
              [Cleared(t) EXCEPT !.op = cmd, !.arb = 0, !.st = "ARB"]
         [] OTHER -> [Cleared(t) EXCEPT !.res = "BAD_CMD", !.done = 1]

End(t, res) == [t EXCEPT !.res = res, !.st = "DONE"]

\* Header and padding; the payload window is skipped.
Fill(t) == CASE s.idx = CK -> [t EXCEPT !.idx = WALK_END]
             [] s.idx = SectorLen - 1 -> [t EXCEPT !.idx = 0, !.cdc = 0,
                                                   !.st = "SNAP_REQ"]
             [] OTHER -> [t EXCEPT !.idx = s.idx + 1]

SnapReq(t) == [t EXCEPT !.addr = s.idx, !.we = 0, !.req = 1, !.cdc = 0,
                        !.st = "SNAP_ACK"]

cdc_expired == s.cdc = CdcWait - 1
CdcTick(t) == [t EXCEPT !.cdc = (s.cdc + 1) % CdcWait]

SnapAck(t) ==
  CASE a_ack -> [t EXCEPT !.req = 0, !.cdc = 0, !.st = "SNAP_REL"]
    [] ~a_ack /\ cdc_expired -> End([t EXCEPT !.req = 0], "CDC_TIMEOUT")
    [] OTHER -> CdcTick(t)

StartWalk(t) == [t EXCEPT !.idx = 0, !.ck = <<>>, !.hdr = <<>>, !.st = "WALK"]

SnapRel(t) ==
  CASE ~a_ack /\ s.idx = PramLen - 1 -> StartWalk(t)
    [] ~a_ack /\ s.idx # PramLen - 1 -> [t EXCEPT !.idx = s.idx + 1,
                                                  !.st = "SNAP_REQ"]
    [] a_ack /\ cdc_expired -> End(t, "CDC_TIMEOUT")
    [] OTHER -> CdcTick(t)

\* One walked cell: the header is captured, the checksum folded (the three
\* states S_WALK_A, _L and _B only wait for the buffer's read port).
Walk(t) ==
  LET cell == sec_buf[s.idx]
      u == [t EXCEPT !.hdr = IF s.idx <= CK THEN Append(s.hdr, cell) ELSE s.hdr,
                     !.ck = IF s.idx # CK THEN Append(s.ck, cell) ELSE s.ck]
  IN IF s.idx = WALK_END - 1 THEN [u EXCEPT !.st = "CKST"]
                             ELSE [u EXCEPT !.idx = s.idx + 1]

\* S_CKST_HI and S_CKST_LO: the checksum goes into the staged header, or to
\* the verdict.
Ckst(t) == CASE s.op = "LOAD" -> [t EXCEPT !.st = "VERDICT"]
             [] s.op = "SNAP" -> End(t, "OK")
             [] OTHER -> [t EXCEPT !.arb = 0, !.st = "ARB"]

\* Fault: the wait for the grant has no bound.
ArbForever(t, boot_done, sd_gnt) ==
  CASE boot_done = 0 -> End(t, "NOT_BOOTED")
    [] boot_done = 1 /\ sd_gnt = 1 -> [t EXCEPT !.sd_req = 1, !.st = "SD_GO"]
    [] OTHER -> [t EXCEPT !.sd_req = 1]
Arb(t, boot_done, sd_gnt) ==
  CASE boot_done = 0 -> End(t, "NOT_BOOTED")
    [] boot_done = 1 /\ sd_gnt = 1 -> [t EXCEPT !.sd_req = 1, !.st = "SD_GO"]
    [] boot_done = 1 /\ sd_gnt = 0 /\ s.arb = ArbWait - 1 ->
         End([t EXCEPT !.sd_req = 0], "ARB_TIMEOUT")
    [] OTHER -> [t EXCEPT !.sd_req = 1, !.arb = s.arb + 1]

SdGo(t) == [t EXCEPT !.idx = 0, !.st = "SD_WAIT"]

\* ctrl is what sd_ctrl does on this edge: a byte, "done" or "error".
SdWait(t, ctrl) ==
  CASE ctrl = "done" -> [t EXCEPT !.st = "SD_REL"]
    [] ctrl = "error" -> [t EXCEPT !.res = "SD_ERR", !.st = "SD_REL"]
    [] OTHER -> t

ToDefault(t) == [t EXCEPT !.def = 0, !.st = "DEFAULT"]

SdRel(t) ==
  LET u == [t EXCEPT !.sd_req = 0]
  IN CASE s.op = "LOAD" /\ s.res # "OK" -> ToDefault(u)
       [] s.op = "LOAD" /\ s.res = "OK" -> StartWalk(u)
       [] OTHER -> [u EXCEPT !.st = "DONE"]

\* Fault: the verdict does not look at the checksum.
v_result_header == IF s.hdr[1] = "good" THEN "OK" ELSE "BAD_MAGIC"
v_result ==
  IF s.hdr = <<"zero", NoCk>> THEN "BLANK"
  ELSE CASE s.hdr[1] \in {"zero", "magic"} -> "BAD_MAGIC"
         [] s.hdr[1] = "version" -> "BAD_VERSION"
         [] s.hdr[1] = "length" -> "BAD_LENGTH"
         [] s.hdr[1] = "good" -> IF s.hdr[2] # s.ck THEN "BAD_CKSUM" ELSE "OK"

Verdict(t) ==
  LET u == [t EXCEPT !.res = v_result]
  IN IF v_result # "OK" THEN ToDefault(u)
     ELSE [u EXCEPT !.idx = 0, !.cdc = 0, !.st = "INST_REQ"]

\* S_INST_REQ and S_INST_L: the buffer's read port is pointed at the byte.
InstReq(t) == [t EXCEPT !.addr = s.idx, !.cdc = 0, !.st = "INST_ACK"]

InstAck(t) ==
  CASE s.req = 0 -> [CdcTick(t) EXCEPT !.wdata = sec_buf[PAYLOAD_OFF + s.idx],
                                       !.we = 1, !.req = 1]
    [] s.req = 1 /\ a_ack -> [CdcTick(t) EXCEPT !.req = 0, !.we = 0,
                                                !.st = "INST_REL"]
    [] s.req = 1 /\ ~a_ack /\ cdc_expired ->
         End([t EXCEPT !.req = 0, !.we = 0], "CDC_TIMEOUT")
    [] OTHER -> CdcTick(t)

InstRel(t) ==
  CASE ~a_ack /\ s.idx = PramLen - 1 -> End(t, "OK")
    [] ~a_ack /\ s.idx # PramLen - 1 -> [t EXCEPT !.idx = s.idx + 1,
                                                  !.st = "INST_REQ"]
    [] a_ack /\ cdc_expired -> End(t, "CDC_TIMEOUT")
    [] OTHER -> CdcTick(t)

Default(t) ==
  IF s.def = DefaultHold - 1
  THEN [t EXCEPT !.pram_default = 0, !.dfl = 1, !.st = "DONE"]
  ELSE [t EXCEPT !.pram_default = 1, !.dfl = 1, !.def = s.def + 1]

\* Fault: the hold of the CPU is left on.
DoneKeepsHold(t) == [t EXCEPT !.done = 1, !.sd_req = 0, !.req = 0, !.we = 0,
                              !.pram_default = 0, !.st = "IDLE"]
\* S_DONE also ends the hold of the CPU.
Done(t) == [t EXCEPT !.done = 1, !.sd_req = 0, !.req = 0, !.we = 0,
                     !.pram_default = 0, !.abusy = 0, !.st = "IDLE"]

Sequencer(t, boot_done, sd_gnt, ctrl) ==
  CASE s.st = "IDLE" -> t
    [] s.st = "FILL" -> Fill(t)
    [] s.st = "SNAP_REQ" -> SnapReq(t)
    [] s.st = "SNAP_ACK" -> SnapAck(t)
    [] s.st = "SNAP_REL" -> SnapRel(t)
    [] s.st = "WALK" -> Walk(t)
    [] s.st = "CKST" -> Ckst(t)
    [] s.st = "ARB" -> Arb(t, boot_done, sd_gnt)
    [] s.st = "SD_GO" -> SdGo(t)
    [] s.st = "SD_WAIT" -> SdWait(t, ctrl)
    [] s.st = "SD_REL" -> SdRel(t)
    [] s.st = "VERDICT" -> Verdict(t)
    [] s.st = "INST_REQ" -> InstReq(t)
    [] s.st = "INST_ACK" -> InstAck(t)
    [] s.st = "INST_REL" -> InstRel(t)
    [] s.st = "DEFAULT" -> Default(t)
    [] s.st = "DONE" -> Done(t)

\* The staging buffer's writers: fill, snapshot, checksum, sector read.
BufNext(rd) ==
  CASE s.st = "FILL" /\ s.idx = HDR -> [sec_buf EXCEPT ![HDR] = "good"]
    [] s.st = "FILL" /\ s.idx = CK -> [sec_buf EXCEPT ![CK] = NoCk]
    [] s.st = "FILL" /\ s.idx > CK -> [sec_buf EXCEPT ![s.idx] = 0]
    [] s.st = "SNAP_ACK" /\ a_ack ->
         [sec_buf EXCEPT ![PAYLOAD_OFF + s.idx] = ca.rdata]
    [] s.st = "CKST" /\ s.op # "LOAD" -> [sec_buf EXCEPT ![CK] = s.ck]
    [] s.st = "SD_WAIT" /\ s.op = "LOAD" /\ rd.valid /\ s.idx < SectorLen ->
         [sec_buf EXCEPT ![s.idx] = rd.cell]
    [] OTHER -> sec_buf

\* posedge clk out of reset.
PramSdEdge(cmd, boot_done, sd_gnt, ctrl, rd) ==
  LET t0 == [s EXCEPT !.boot_q = boot_done,
                      !.idx = IF s.st = "SD_WAIT" /\ s.op = "LOAD" /\ rd.valid
                                 /\ s.idx < SectorLen
                              THEN s.idx + 1 ELSE s.idx]
      t1 == Command(Autoload(t0, boot_done), cmd)
  IN /\ s' = Sequencer(t1, boot_done, sd_gnt, ctrl)
     /\ sec_buf' = BufNext(rd)
=============================================================================
