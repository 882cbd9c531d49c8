------------------------------ MODULE PramStore ------------------------------
(***************************************************************************)
(* PRAM persistence: pram_sd, pram_cdc, the PRAM of rtc, the SD grant of   *)
(* rtl/soc/fpga_top_sd.vh and the resets around them.  A behaviour is one  *)
(* of the Scenarios: what the card holds, how long the boot takes, and how *)
(* many host commands, Mac writes, zaps, resets, SD errors and power cuts  *)
(* may still come.                                                         *)
(*                                                                         *)
(* The clocks are interleaved: between two edges of the peripheral clock   *)
(* lie RatioMin to RatioMax core clock edges.                              *)
(***************************************************************************)
EXTENDS PramSd, FiniteSets

CONSTANTS RatioMin, RatioMax, HoldMax, Scenarios, Junk   \* 2^PRAM_HOLD_LOG2

\* The kinds of sector a card may come with.
ASSUME CardAssumption ==
  \A x \in Scenarios :
    x.card \in {"image", "blank", "cksum", "magic", "version", "length"}

VARIABLES card,      \* the PRAM sector of the SD card
          sd,        \* cells sd_ctrl has moved in this transfer
          sd_gnt,    \* pram_gnt_q
          scsi,      \* SCSI's sd_ctrl: "idle", "parked" or "wire"
          boot_done, frst, arst, brst,   \* boot_rom_loaded and the resets
          hold,      \* pram_hold_cnt, counts up to HoldMax
          zap,       \* jtag_pram_clear_eff, as peripheral edges still to come
          ph,        \* core edges since the last peripheral edge
          left,      \* what may still happen
          ghost      \* history read by the properties only

hwVars == <<ca, cb, pram, rc, s, sec_buf>>
vars == <<ca, cb, pram, rc, s, sec_buf, card, sd, sd_gnt, scsi, boot_done,
          frst, arst, brst, hold, zap, ph, left, ghost>>

ZapHold == PramLen

Sector(hdr, ck, payload) ==
  [c \in Cells |-> IF c = HDR THEN hdr ELSE IF c = CK THEN ck
                   ELSE IF c = WALK_END THEN 0 ELSE payload[c - PAYLOAD_OFF]]
Image(payload) ==
  Sector("good", <<"good">> \o [k \in 1 .. PramLen |-> payload[k - 1]], payload)
OldPram == [i \in PramAddr |-> 1]

\* What the card may hold when the power comes on.
Card(kind) ==
  CASE kind = "image" -> Image(OldPram)
    [] kind = "blank" -> Sector("zero", NoCk, DefaultPram)
    [] kind = "cksum" -> Sector("good", NoCk, OldPram)
    [] OTHER -> Sector(kind, NoCk, OldPram)

NewGhost(c) == [seen |-> [i \in PramAddr |-> {}],
                images |-> IF c[CK] = CkOf(c) /\ c[HDR] = "good"
                           THEN {Payload(c)} ELSE {},
                quiet |-> 0, resolved |-> 0]

Init == /\ ca = ca_rst /\ cb = cb_rst /\ RtcInit
        /\ s = s_rst /\ sec_buf = Sector("zero", NoCk, DefaultPram)
        /\ sd = 0 /\ sd_gnt = 0 /\ scsi = "idle"
        /\ boot_done = 0 /\ frst = 0 /\ arst = 0 /\ brst = 0
        /\ hold = 0 /\ zap = 0 /\ ph = 0
        /\ left \in Scenarios
        /\ card = Card(left.card)
        /\ ghost = NewGhost(card)

\* boot_rom_ready: the hold of the CPU is bounded, by a count that starts when
\* the reset ends.
cpu_runs == boot_done = 1 /\ (~autoload_pending \/ hold = HoldMax)
HoldEdge == hold' = IF frst = 1 THEN 0 ELSE IF hold < HoldMax THEN hold + 1
                    ELSE hold

\* Nothing is left in pram_cdc of a handshake that timed out.  Copying the ROM,
\* and filling a sector before its first handshake, take far longer than that.
drained == s.req = 0 /\ 1 \notin {cb.meta, cb.sync, cb.ack,
                                 ca.meta, ca.sync, ca.q}

\* boot_fsm raises rom_loaded when the ROM is copied, for which it needs the
\* SPI bus; soc_full_rst clears it.
BootEdge == boot_done' = IF frst = 0 /\ brst = 0 /\ s.sd_req = 0 /\ drained
                            /\ hold >= left.boot THEN 1 ELSE boot_done

\* A write that does not end well leaves the old sector, or a prefix of the
\* new one followed by the old cells or by the filler of an aborted block.
JunkSector == Sector("magic", <<Junk>>, [i \in PramAddr |-> Junk])
Torn == {card} \cup {[c \in Cells |-> IF c < k THEN sec_buf[c] ELSE rest[c]] :
                       k \in 0 .. sd, rest \in {card, JunkSector}}

\* sd_ctrl as pram_sd drives it: one cell per edge, then done; or an error.
sd_moves == IF s.st # "SD_WAIT" THEN {"none"}
            ELSE {IF sd < SectorLen THEN "cell" ELSE "done"}
                 \cup (IF left.err > 0 THEN {"error"} ELSE {})

SdCtrl(m) ==
  /\ sd' = CASE m = "cell" -> sd + 1 [] s.st = "SD_GO" -> 0 [] OTHER -> sd
  /\ card' \in CASE m = "done" /\ s.op = "SAVE" -> {sec_buf}
                 [] m = "error" /\ s.op = "SAVE" -> Torn
                 [] OTHER -> {card}

\* Fault: the grant does not wait for SCSI.
GrantEdgeEager ==
  sd_gnt' = IF (frst = 1 /\ ~pram_sd_busy) \/ s.sd_req = 0 THEN 0
            ELSE IF boot_done = 1 THEN 1 ELSE sd_gnt
\* The grant rises only while SCSI is idle and stays until the request goes.
GrantEdge ==
  sd_gnt' = IF (frst = 1 /\ ~pram_sd_busy) \/ s.sd_req = 0 THEN 0
            ELSE IF boot_done = 1 /\ scsi = "idle" THEN 1 ELSE sd_gnt

\* SCSI's own sd_ctrl: it parks until sd_spi_mux selects it.
ScsiEdge ==
  \/ scsi = "idle" /\ left.scsi > 0 /\ cpu_runs /\ scsi' = "parked"
  \/ scsi = "parked" /\ sd_gnt = 0 /\ boot_done = 1 /\ scsi' = "wire"
  \/ scsi = "wire" /\ scsi' = "idle"
  \/ scsi' = scsi

\* The host leaves the boot-time LOAD alone.
Commands == {"none"} \cup (IF left.cmd > 0 /\ ~autoload_pending /\ drained
                           THEN left.cmds ELSE {})

HistoryEdge ==
  LET g == ghost
      starts == s.st = "IDLE" /\ s'.st # "IDLE"
      at_cdc == s.st = "SNAP_REQ"
  IN ghost' =
       [seen |-> [i \in PramAddr |-> IF s.st = "DONE" THEN {}
                                     ELSE IF at_cdc /\ i = s.idx THEN {pram[i]}
                                     ELSE g.seen[i]],
        images |-> IF s.st = "CKST" /\ s.op = "SAVE"
                   THEN g.images \cup {Payload(sec_buf)} ELSE g.images,
        quiet |-> IF starts THEN IF zap = 0 /\ ~pram_busy THEN 1 ELSE 0
                  ELSE IF s.st = "DONE" THEN 0 ELSE g.quiet,
        resolved |-> IF s.st = "DONE" /\ s.op = "LOAD" THEN 1 ELSE g.resolved]

\* posedge core_clk.
CoreEdge ==
  \E cmd \in Commands, m \in sd_moves :
    /\ ph < RatioMax /\ ph' = ph + 1
    /\ IF arst = 1 THEN ca' = ca_rst ELSE AckEdge
    /\ IF frst = 1 /\ ~pram_sd_busy
       THEN /\ cmd = "none" /\ s' = s_rst /\ UNCHANGED sec_buf
            /\ ghost' = [ghost EXCEPT !.resolved = 0]
       ELSE /\ PramSdEdge(cmd, boot_done, sd_gnt, m,
                          [valid |-> m = "cell", cell |-> card[sd % SectorLen]])
            /\ HistoryEdge
    /\ SdCtrl(m) /\ GrantEdge /\ ScsiEdge /\ HoldEdge /\ BootEdge
    /\ left' = [left EXCEPT !.cmd = IF cmd = "none" THEN @ ELSE @ - 1,
                            !.err = IF m = "error" THEN @ - 1 ELSE @,
                            !.scsi = IF scsi = "idle" /\ scsi' = "parked"
                                     THEN @ - 1 ELSE @]
    /\ UNCHANGED <<cb, pram, rc, frst, arst, brst, zap>>

MacWrites == {NoWrite}
  \cup (IF left.mac > 0 /\ cpu_runs THEN [addr : PramAddr, val : {2}] ELSE {})

\* posedge pb_clk.
PbEdge ==
  \E ser \in MacWrites :
    LET ready == IF pram_busy THEN 0 ELSE 1
        clear == IF zap > 0 \/ s.pram_default = 1 THEN 1 ELSE 0
        ext_we == accept_b(ready) /\ brst = 0 /\ s.we = 1
    IN /\ ph >= RatioMin /\ ph' = 0
       /\ IF brst = 1 THEN cb' = cb_rst ELSE ReqEdge(s.req, ready, rc.ext)
       /\ RtcEdge(brst, clear, ser, ext_we, s.addr, s.wdata)
       /\ zap' = IF zap > 0 THEN zap - 1 ELSE 0
       /\ left' = [left EXCEPT !.mac = IF ser = NoWrite THEN @ ELSE @ - 1]
       /\ ghost' = [ghost EXCEPT
            !.seen = [i \in PramAddr |-> IF s.req = 1 /\ s.we = 0 /\ i = s.addr
                                         THEN @[i] \cup {pram'[i]} ELSE @[i]],
            !.quiet = IF ser # NoWrite THEN 0 ELSE @]
       /\ UNCHANGED <<ca, s, sec_buf, card, sd, sd_gnt, scsi, boot_done, frst,
                      arst, brst, hold>>

\* The JTAG one-shot that zaps the PRAM.
Zap == /\ left.zap > 0 /\ zap = 0
       /\ zap' = ZapHold
       /\ left' = [left EXCEPT !.zap = @ - 1]
       /\ ghost' = [ghost EXCEPT !.quiet = 0]
       /\ UNCHANGED <<hwVars, card, sd, sd_gnt, scsi, boot_done, frst, arst,
                      brst, hold, ph>>

\* A debug-full-reset (soc_full_rst alone), or the board reset, which also
\* resets both sides of pram_cdc.
Reset(board) == /\ left.rst > 0 /\ frst = 0 /\ brst = 0
                /\ frst' = 1 /\ boot_done' = 0
                /\ arst' = board /\ brst' = board
                /\ scsi' = "idle"
                /\ left' = [left EXCEPT !.rst = @ - 1]
                /\ UNCHANGED <<hwVars, card, sd, sd_gnt, hold, zap, ph, ghost>>

\* A board reset lasts until both sides have seen it; the core side comes out
\* of it no later than the peripheral side.
ResetEnds == /\ \/ /\ frst = 1 /\ hold = 0
                   /\ frst' = 0 /\ arst' = 0 /\ UNCHANGED brst
                   /\ arst = 1 => ca = ca_rst /\ cb = cb_rst
                \/ frst = 0 /\ brst = 1 /\ brst' = 0 /\ UNCHANGED <<frst, arst>>
             /\ UNCHANGED <<hwVars, card, sd, sd_gnt, scsi, boot_done, hold,
                            zap, ph, left, ghost>>

\* The power goes and comes back: the card keeps its sector, nothing else.
PowerCut == /\ left.cut > 0
            /\ left' = [left EXCEPT !.cut = @ - 1]
            /\ card' \in IF s.st = "SD_WAIT" /\ s.op = "SAVE" THEN Torn
                         ELSE {card}
            /\ ca' = ca_rst /\ cb' = cb_rst
            /\ pram' = DefaultPram
            /\ rc' = [meta |-> 0, sync |-> 0, q |-> 0, active |-> 0,
                      addr |-> 0, ext |-> DefaultByte]
            /\ s' = s_rst /\ sec_buf' = Sector("zero", NoCk, DefaultPram)
            /\ sd' = 0 /\ sd_gnt' = 0 /\ scsi' = "idle"
            /\ boot_done' = 0 /\ frst' = 0 /\ arst' = 0 /\ brst' = 0
            /\ hold' = 0 /\ zap' = 0 /\ ph' = 0
            /\ ghost' = [ghost EXCEPT !.quiet = 0, !.resolved = 0]

Next == \/ CoreEdge \/ PbEdge \/ Zap
        \/ \E board \in {0, 1} : Reset(board)
        \/ ResetEnds \/ PowerCut

Spec == Init /\ [][Next]_vars

\* The clocks run and resets end.
LiveSpec == Spec /\ WF_vars(CoreEdge \/ PbEdge) /\ WF_vars(ResetEnds)

-----------------------------------------------------------------------------
(* Properties *)

\* A SAVE that reports success has put a sector on the card that a LOAD will
\* accept, and each of its bytes was the PRAM's byte of that address at some
\* moment while the handshake for it was up (S_SNAP_ACK, pram_cdc).
SaveFaithful ==
  s.st = "DONE" /\ s.op = "SAVE" /\ s.res = "OK" =>
    /\ card[HDR] = "good" /\ card[CK] = CkOf(card)
    /\ \A i \in PramAddr : Payload(card)[i] \in ghost.seen[i]

\* A LOAD that reports success has installed the whole sector, and the sector
\* is one that some SAVE once staged as a whole: no mixture, whatever power
\* cuts and aborted writes did to the card (S_VERDICT, S_INST_*).
GoodLoad ==
  s.st = "DONE" /\ s.op = "LOAD" /\ s.res = "OK" =>
    /\ Payload(sec_buf) \in ghost.images
    /\ ghost.quiet = 1 => pram = Payload(sec_buf)

\* And a LOAD that could not use the sector ends with the defaults in place:
\* the hold of pram_default outlasts the sweep it asks for (S_DEFAULT).
LoadFaithful ==
  /\ GoodLoad
  /\ s.st = "DONE" /\ s.op = "LOAD"
     /\ s.res \in {"BLANK", "BAD_MAGIC", "BAD_VERSION", "BAD_LENGTH", "BAD_CKSUM", "SD_ERR"} =>
       pram = DefaultPram

\* The SPI bus is never taken from a SCSI transfer on the wire, and pram_sd
\* drives the card only while it holds the grant (pram_gnt_q).
GrantExclusive == /\ scsi = "wire" => sd_gnt = 0
                  /\ s.st \in {"SD_GO", "SD_WAIT"} => sd_gnt = 1

\* The Mac cannot read the PRAM before the boot-time LOAD has installed it
\* (pram_boot_hold).
CpuWaitsForLoad == cpu_runs => ghost.resolved = 1

\* No operation stays busy for ever, even with the peripheral side in reset,
\* and after the boot the self-issued LOAD ends, and with it the CPU's hold.
OperationsEnd == /\ []<>(~pram_sd_busy)
                 /\ []<>(boot_done = 0 \/ ~autoload_pending)
=============================================================================
