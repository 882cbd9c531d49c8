----------------------------- MODULE PramProofs -----------------------------
(***************************************************************************)
(* PRAM persistence, for every PRAM length, wait, clock ratio and scenario *)
(* of commands, Mac writes, zaps, resets, SD errors and power cuts.  Three *)
(* invariants, each resting on the one before:                             *)
(*   Inv      the sequencer, its staging buffer and the card: what each    *)
(*            state has established of the sector being made or read;      *)
(*   CdcInv   the handshake of pram_cdc between the two clocks, through    *)
(*            board resets that reach its sides at different times, and    *)
(*            the bytes a snapshot reads through it;                       *)
(*   InstInv  the bytes an installation writes through it.                 *)
(***************************************************************************)
EXTENDS PramStore, TLAPS

\* A leaf is Zenon's unless it names the SMT solver.
USE ZenonT(30)

\* The one fact of arithmetic that the levels need.
LEMMA ZeroOne == 0 # 1
  BY SMTT(60)

\* The registers of pram_sd.
Fields == DOMAIN s_rst

\* Its states.
States == {"IDLE", "FILL", "SNAP_REQ", "SNAP_ACK", "SNAP_REL", "WALK", "CKST", "ARB",
           "SD_GO", "SD_WAIT", "SD_REL", "VERDICT", "INST_REQ", "INST_ACK", "INST_REL",
           "DEFAULT", "DONE"}

\* What a header cell may hold.
Headers == {"good", "zero", "magic", "version", "length"}

\* The SD grant: never with SCSI on the wire, and held by whoever drives the
\* card.
Granted == /\ scsi = "wire" => sd_gnt = 0
           /\ s.st \in {"SD_GO", "SD_WAIT"} => sd_gnt = 1 /\ s.sd_req = 1
           /\ s.st = "ARB" /\ sd_gnt = 1 => s.sd_req = 1

\* A sector that a LOAD will accept.
Accepted(c) == c[HDR] = "good" /\ c[CK] = CkOf(c)

\* The payload a checksum covers.
Covered(x) == [i \in PramAddr |-> x[i + 2]]

\* A checksum that could pass is one over a payload some SAVE staged whole.
\* This is what a torn write cannot break: the checksum cell is the old
\* sector's, the new one's or the filler of an aborted block.
Known(x, im) == DOMAIN x = 1 .. (PramLen + 1) /\ x[1] = "good" => Covered(x) \in im

\* The first n cells have been read into the header capture and the checksum.
Walked(hdr, ck, n, buf) ==
  /\ hdr = [j \in 1 .. (IF n <= 2 THEN n ELSE 2) |-> buf[j - 1]]
  /\ ck = [j \in 1 .. (IF n <= 1 THEN n ELSE n - 1) |-> IF j = 1 THEN buf[HDR] ELSE buf[j]]

\* The whole sector has been read: the verdict sees its header and checksums.
Judged(hdr, ck, buf) == hdr[1] = buf[HDR] /\ hdr[2] = buf[CK] /\ ck = CkOf(buf)

\* What each state of the sequencer t knows of the staging buffer buf, of the
\* card c after n cells, and of the payloads im ever staged whole.
Stage(t, buf, c, n, im) ==
  /\ t.st = "FILL" => t.op # "LOAD" /\ (t.idx # HDR => buf[HDR] = "good")
  /\ t.st \in {"SNAP_REQ", "SNAP_ACK", "SNAP_REL"} => t.op # "LOAD" /\ buf[HDR] = "good"
  /\ t.st \in {"WALK", "CKST", "VERDICT"} =>
       IF t.op = "LOAD" THEN Known(buf[CK], im) ELSE buf[HDR] = "good"
  /\ t.st = "WALK" => t.idx < WALK_END /\ Walked(t.hdr, t.ck, t.idx, buf)
  /\ t.st = "CKST" => Judged(t.hdr, t.ck, buf)
  /\ t.st = "VERDICT" => t.op = "LOAD" /\ Judged(t.hdr, t.ck, buf)
  /\ t.st \in {"ARB", "SD_GO", "SD_WAIT", "SD_REL"} /\ t.op # "LOAD" =>
       t.op = "SAVE" /\ Accepted(buf) /\ Payload(buf) \in im
  /\ t.st = "SD_WAIT" /\ t.op = "LOAD" =>
       /\ t.idx = n /\ n <= SectorLen
       /\ \A i \in Cells : i < n => buf[i] = c[i]
  /\ t.st = "SD_REL" /\ t.res = "OK" => \A i \in Cells : buf[i] = c[i]
  /\ t.st \in {"INST_REQ", "INST_ACK", "INST_REL"} => t.op = "LOAD" /\ Payload(buf) \in im
  /\ t.st = "DEFAULT" => t.op = "LOAD" /\ t.res # "OK"
  /\ t.st = "DONE" /\ t.res = "OK" =>
       /\ t.op = "LOAD" => Payload(buf) \in im
       /\ t.op = "SAVE" => Accepted(c) /\ Payload(c) \in im

\* The types.
TypesOK ==
  /\ DOMAIN s = Fields /\ s.st \in States /\ s.op \in {"SAVE", "SNAP", "LOAD"} /\ s.idx \in Nat
  /\ s.sd_req \in {0, 1} /\ sd_gnt \in {0, 1}
  /\ DOMAIN sec_buf = Cells /\ sec_buf[HDR] \in Headers
  /\ DOMAIN card = Cells /\ card[HDR] \in Headers
  /\ sd \in Nat /\ DOMAIN ghost = {"seen", "images", "quiet", "resolved"}

\* The inductive invariant of the sequencer and the card.
Inv == /\ TypesOK /\ Granted /\ Known(card[CK], ghost.images)
       /\ Stage(s, sec_buf, card, sd, ghost.images)

-----------------------------------------------------------------------------
(* The steps of the sequencer                                              *)

\* One edge of the core clock out of reset, as the invariant sees it.
Edge(cmd, m) ==
  /\ Inv /\ m \in sd_moves
  /\ PramSdEdge(cmd, boot_done, sd_gnt, m,
                [valid |-> m = "cell", cell |-> card[sd % SectorLen]])
  /\ SdCtrl(m) /\ GrantEdge /\ HistoryEdge

\* The cell counter after this edge of a sector read.
Counted(m) == IF s.st = "SD_WAIT" /\ s.op = "LOAD" /\ m = "cell" /\ s.idx < SectorLen
              THEN s.idx + 1 ELSE s.idx

\* The registers as the sequencer's case statement finds them.
Latched(m) == [s EXCEPT !.boot_q = boot_done, !.idx = Counted(m)]

\* Busy, the edge is the step of the state alone.
LEMMA BusyEdge ==
  ASSUME NEW cmd, NEW m, Edge(cmd, m), s.st # "IDLE"
  PROVE  s' = Sequencer(Latched(m), boot_done, sd_gnt, m)
  BY Zenon DEF Edge, PramSdEdge, Latched, Counted, Command, Autoload, autoload_fires

\* Most of them are as they were.
LEMMA LatchedFields ==
  ASSUME NEW cmd, NEW m, Edge(cmd, m)
  PROVE  /\ DOMAIN Latched(m) = Fields /\ Latched(m).idx = Counted(m)
         /\ Latched(m).st = s.st /\ Latched(m).op = s.op /\ Latched(m).res = s.res
         /\ Latched(m).sd_req = s.sd_req
         /\ Latched(m).hdr = s.hdr /\ Latched(m).ck = s.ck
  BY DEF Edge, Inv, TypesOK, Latched, Fields, s_rst

\* A checksum covers the payload it was made from.
LEMMA CkCovers == ASSUME NEW b PROVE Covered(CkOf(b)) = Payload(b)
  BY PramLenAssumption, SMTT(60) DEF Covered, CkOf, Payload, PramAddr

\* An accepted sector is known exactly when its payload is.
LEMMA AcceptedIsKnown ==
  ASSUME NEW b, NEW im, Accepted(b)
  PROVE  Known(b[CK], im) <=> Payload(b) \in im
<1>1. DOMAIN CkOf(b) = 1 .. (PramLen + 1) /\ CkOf(b)[1] = "good"
  BY PramLenAssumption, SMTT(60) DEF CkOf, Accepted
<1> QED BY <1>1, CkCovers DEF Accepted, Known

\* Sectors with the same cells have the same header, payload and checksum.
LEMMA SameCells ==
  ASSUME NEW b, NEW c, \A i \in Cells : b[i] = c[i]
  PROVE  /\ b[HDR] = c[HDR] /\ b[CK] = c[CK]
         /\ Payload(b) = Payload(c) /\ CkOf(b) = CkOf(c)
  BY PramLenAssumption, SMTT(60) DEF Cells, HDR, CK, Payload, CkOf, SectorLen, WALK_END, PAYLOAD_OFF, PramAddr

\* The checksum has a cell.
LEMMA CkCell == CK \in Cells
  BY PramLenAssumption, SMTT(60) DEF CK, Cells, SectorLen, WALK_END, PAYLOAD_OFF

\* Storing the checksum does not change what it is over.
LEMMA CkStored ==
  ASSUME NEW b, NEW c, \A i \in Cells \ {CK} : c[i] = b[i]
  PROVE  /\ c[HDR] = b[HDR]
         /\ Payload(c) = Payload(b) /\ CkOf(c) = CkOf(b)
  BY PramLenAssumption, SMTT(60) DEF Cells, HDR, CK, Payload, CkOf, SectorLen, WALK_END, PAYLOAD_OFF, PramAddr

\* Append, as a function on an interval.
LEMMA Longer ==
  ASSUME NEW n \in Nat, NEW f, f = [j \in 1 .. n |-> f[j]], NEW e
  PROVE  Append(f, e) = [j \in 1 .. (n + 1) |-> IF j = n + 1 THEN e ELSE f[j]]
<1>1. f \in Seq({f[j] : j \in 1 .. n}) /\ Len(f) = n
  BY SMTT(60)
<1>2. f \in Seq({f[j] : j \in 1 .. n} \cup {e})
  BY <1>1, SMTT(60)
<1> QED BY <1>1, <1>2, SMTT(60)

\* The same for a new first element.
LEMMA Headed ==
  ASSUME NEW n \in Nat, NEW f, f = [j \in 1 .. n |-> f[j]], NEW e
  PROVE  <<e>> \o f = [j \in 1 .. (n + 1) |-> IF j = 1 THEN e ELSE f[j - 1]]
<1>1. f \in Seq({f[j] : j \in 1 .. n}) /\ Len(f) = n
  BY SMTT(60)
<1>2. f \in Seq({f[j] : j \in 1 .. n} \cup {e}) /\ <<e>> \in Seq({f[j] : j \in 1 .. n} \cup {e})
  BY <1>1, SMTT(60)
<1> QED BY <1>1, <1>2, SMTT(60)

\* One more cell walked.
LEMMA WalkOn ==
  ASSUME NEW n \in Nat, NEW hdr, NEW ck, NEW buf, Walked(hdr, ck, n, buf)
  PROVE  Walked(IF n <= CK THEN Append(hdr, buf[n]) ELSE hdr,
                IF n # CK THEN Append(ck, buf[n]) ELSE ck, n + 1, buf)
<1> DEFINE k == IF n <= 1 THEN n ELSE n - 1
           hdr2 == IF n <= CK THEN Append(hdr, buf[n]) ELSE hdr
           ck2 == IF n # CK THEN Append(ck, buf[n]) ELSE ck
<1> USE DEF HDR, CK
<1>1. hdr = [j \in 1 .. (IF n <= 2 THEN n ELSE 2) |-> buf[j - 1]]
  BY DEF Walked
<1>2. ck = [j \in 1 .. k |-> IF j = 1 THEN buf[0] ELSE buf[j]] /\ k \in Nat
  BY SMTT(60) DEF Walked
<1>3. hdr2 = [j \in 1 .. (IF n + 1 <= 2 THEN n + 1 ELSE 2) |-> buf[j - 1]]
  <2>1. CASE n <= 1
    <3>1. hdr2 = [j \in 1 .. (n + 1) |-> IF j = n + 1 THEN buf[n] ELSE hdr[j]]
      <4>1. hdr = [j \in 1 .. n |-> hdr[j]]
        BY <1>1, <2>1, SMTT(60)
      <4> QED BY <2>1, <4>1, Longer, SMTT(60)
    <3> QED BY <1>1, <2>1, <3>1, SMTT(60)
  <2>2. CASE n > 1
    BY <1>1, <2>2, SMTT(60)
  <2> QED BY <2>1, <2>2, SMTT(60)
<1>4. ck2 = [j \in 1 .. (IF n + 1 <= 1 THEN n + 1 ELSE n + 1 - 1) |->
               IF j = 1 THEN buf[HDR] ELSE buf[j]]
  <2>1. CASE n # 1
    <3>1. ck2 = [j \in 1 .. (k + 1) |-> IF j = k + 1 THEN buf[n] ELSE ck[j]]
      <4>1. ck = [j \in 1 .. k |-> ck[j]]
        BY <1>2
      <4> QED BY <1>2, <2>1, <4>1, Longer, SMTT(60)
    <3> QED BY <1>2, <2>1, <3>1, SMTT(60)
  <2>2. CASE n = 1
    BY <1>2, <2>2, SMTT(60)
  <2> QED BY <2>1, <2>2
<1>5. Walked(hdr2, ck2, n + 1, buf)
  <2> HIDE DEF hdr2, ck2
  <2> QED BY <1>3, <1>4, SMTT(60) DEF Walked
<1> QED BY <1>5, Zenon

\* The walk has then read the sector.
LEMMA WalkEnds ==
  ASSUME NEW hdr, NEW ck, NEW buf, Walked(hdr, ck, WALK_END, buf)
  PROVE  Judged(hdr, ck, buf)
<1>1. hdr = [j \in 1 .. 2 |-> buf[j - 1]]
  BY PramLenAssumption, SMTT(60) DEF Walked, WALK_END, PAYLOAD_OFF
<1>2. ck = [j \in 1 .. (PramLen + 1) |-> IF j = 1 THEN buf[HDR] ELSE buf[j]]
  BY PramLenAssumption, SMTT(60) DEF Walked, WALK_END, PAYLOAD_OFF
<1>3. ck = CkOf(buf)
  <2>1. \A j \in 1 .. (PramLen + 1) : PAYLOAD_OFF + j - 2 = j
    BY PramLenAssumption, SMTT(60) DEF PAYLOAD_OFF
  <2> QED BY <1>2, <2>1 DEF CkOf
<1> QED BY <1>1, <1>3, SMTT(60) DEF Judged, HDR, CK

\* What an idle edge may start.
LEMMA IdleEdge ==
  ASSUME NEW cmd, NEW m, Edge(cmd, m), s.st = "IDLE"
  PROVE  /\ DOMAIN s' = Fields /\ s'.idx \in Nat /\ s'.op \in {"SAVE", "SNAP", "LOAD"}
         /\ s'.sd_req = s.sd_req
         /\ \/ s'.st = "IDLE"
            \/ s'.st = "FILL" /\ s'.idx = HDR /\ s'.op # "LOAD"
            \/ s'.st = "ARB" /\ s'.op = "LOAD"
<1> DEFINE t == Autoload(Latched(m), boot_done)
<1>1. s' = Command(t, cmd)
  BY Zenon DEF Edge, PramSdEdge, Latched, Counted, Sequencer
<1>2. DOMAIN Latched(m) = Fields /\ Latched(m).idx \in Nat /\ Latched(m).op = s.op
      /\ Latched(m).st = "IDLE" /\ Latched(m).sd_req = s.sd_req
  BY LatchedFields, ZeroOne DEF Counted, Edge, Inv, TypesOK, Fields, s_rst
<1>3. /\ DOMAIN t = Fields /\ t.idx \in Nat /\ t.sd_req = s.sd_req
      /\ t.op \in {"SAVE", "SNAP", "LOAD"}
      /\ t.st = "IDLE" \/ (t.st = "ARB" /\ t.op = "LOAD")
  BY <1>2 DEF Autoload, Cleared, Edge, Inv, TypesOK, Fields, s_rst
<1> HIDE DEF t
<1> QED BY <1>1, <1>3 DEF Command, Cleared, Fields, s_rst, HDR

\* The walk starts over.
Rewound == s'.st = "WALK" /\ s'.idx = 0 /\ s'.hdr = <<>> /\ s'.ck = <<>>

\* The operation ends with an error.
Failed == s'.st = "DONE" /\ s'.res # "OK"

\* Where each state goes, and what it does to the registers on the way.
Staging ==
  /\ s.st = "FILL" => (s'.st = "FILL" /\ s'.idx # HDR) \/ s'.st = "SNAP_REQ"
  /\ s.st = "SNAP_REQ" => s'.st = "SNAP_ACK"
  /\ s.st = "SNAP_ACK" => s'.st \in {"SNAP_ACK", "SNAP_REL"} \/ Failed
  /\ s.st = "SNAP_REL" => s'.st \in {"SNAP_REL", "SNAP_REQ"} \/ Rewound \/ Failed

\* The walk, its checksum and the verdict.
Walking ==
  /\ s.st = "WALK" =>
       /\ s'.hdr = IF s.idx <= CK THEN Append(s.hdr, sec_buf[s.idx]) ELSE s.hdr
       /\ s'.ck = IF s.idx # CK THEN Append(s.ck, sec_buf[s.idx]) ELSE s.ck
       /\ IF s.idx = WALK_END - 1 THEN s'.st = "CKST" ELSE s'.st = "WALK" /\ s'.idx = s.idx + 1
  /\ s.st = "CKST" =>
       /\ s'.hdr = s.hdr /\ s'.ck = s.ck /\ s'.sd_req = s.sd_req
       /\ s'.st = IF s.op = "LOAD" THEN "VERDICT" ELSE IF s.op = "SNAP" THEN "DONE" ELSE "ARB"
  /\ s.st = "VERDICT" => IF v_result = "OK" THEN s'.st = "INST_REQ"
                         ELSE s'.st = "DEFAULT" /\ s'.res # "OK"

\* The grant and the transfer.
Transferring(m) ==
  /\ s.st = "ARB" => \/ sd_gnt = 1 /\ s'.st = "SD_GO" /\ s'.sd_req = 1
                     \/ s'.st = "ARB" /\ s'.sd_req = 1
                     \/ Failed
  /\ s.st = "SD_GO" => s'.st = "SD_WAIT" /\ s'.idx = 0 /\ s'.sd_req = s.sd_req
  /\ s.st = "SD_WAIT" =>
       IF m \in {"done", "error"}
       THEN s'.st = "SD_REL" /\ (s'.res = "OK" => m = "done")
       ELSE s'.st = "SD_WAIT" /\ s'.idx = Counted(m) /\ s'.sd_req = s.sd_req
  /\ s.st = "SD_REL" =>
       \/ s.op = "LOAD" /\ s.res # "OK" /\ s'.st = "DEFAULT" /\ s'.res = s.res
       \/ s.op = "LOAD" /\ s.res = "OK" /\ Rewound
       \/ s.op # "LOAD" /\ s'.st = "DONE" /\ s'.res = s.res

\* The installation, the defaults and the end.
Ending ==
  /\ s.st = "INST_REQ" => s'.st = "INST_ACK"
  /\ s.st = "INST_ACK" => s'.st \in {"INST_ACK", "INST_REL"} \/ Failed
  /\ s.st = "INST_REL" => s'.st \in {"INST_REL", "INST_REQ", "DONE"}
  /\ s.st = "DEFAULT" => s'.st \in {"DEFAULT", "DONE"} /\ s'.res = s.res
  /\ s.st = "DONE" => s'.st = "IDLE"

\* What no state changes.
Kept == DOMAIN s' = Fields /\ s'.op = s.op /\ s'.idx \in Nat /\ s'.sd_req \in {0, 1}

\* The sequencer's state graph.
LEMMA Graph ==
  ASSUME NEW cmd, NEW m, Edge(cmd, m), s.st # "IDLE"
  PROVE  Staging /\ Walking /\ Transferring(m) /\ Ending /\ Kept
<1> DEFINE t == Latched(m)
<1>1. s' = Sequencer(t, boot_done, sd_gnt, m)
  BY BusyEdge
<1>2. /\ DOMAIN t = Fields /\ t.idx = Counted(m) /\ t.st = s.st /\ t.op = s.op
      /\ t.res = s.res /\ t.sd_req = s.sd_req /\ t.hdr = s.hdr /\ t.ck = s.ck
  BY LatchedFields
<1>3. s.idx \in Nat /\ t.idx \in Nat /\ (s.st # "SD_WAIT" => t.idx = s.idx) /\ s.st \in States
      /\ s.sd_req \in {0, 1}
  BY <1>2, SMTT(60) DEF Edge, Inv, TypesOK, Counted
<1> HIDE DEF t
<1> USE DEF Fields, s_rst
<1>4. CASE s.st = "FILL"
  <2>1. s' = Fill(t)
    BY <1>1, <1>4, Zenon DEF Sequencer
  <2> QED BY <1>2, <1>3, <1>4, <2>1, PramLenAssumption, SMTT(60)
          DEF Fill, Staging, Walking, Transferring, Ending, Kept, HDR, CK, WALK_END, SectorLen,
              PAYLOAD_OFF
<1>5. CASE s.st = "SNAP_REQ"
  <2>1. s' = SnapReq(t)
    BY <1>1, <1>5, Zenon DEF Sequencer
  <2> QED BY <1>2, <1>3, <1>5, <2>1
          DEF SnapReq, Staging, Walking, Transferring, Ending, Kept
<1>6. CASE s.st = "SNAP_ACK"
  <2>1. s' = SnapAck(t)
    BY <1>1, <1>6, Zenon DEF Sequencer
  <2> QED BY <1>2, <1>3, <1>6, <2>1
          DEF SnapAck, End, CdcTick, Failed, Staging, Walking, Transferring, Ending, Kept
<1>7. CASE s.st = "SNAP_REL"
  <2>1. s' = SnapRel(t)
    BY <1>1, <1>7, Zenon DEF Sequencer
  <2> QED BY <1>2, <1>3, <1>7, <2>1, SMTT(60)
          DEF SnapRel, End, CdcTick, StartWalk, Failed, Rewound, Staging, Walking, Transferring,
              Ending, Kept
<1>8. CASE s.st = "WALK"
  <2>1. s' = Walk(t)
    BY <1>1, <1>8, Zenon DEF Sequencer
  <2> QED BY <1>2, <1>3, <1>8, <2>1, SMTT(60)
          DEF Walk, Staging, Walking, Transferring, Ending, Kept
<1>9. CASE s.st = "CKST"
  <2>1. s' = Ckst(t)
    BY <1>1, <1>9, Zenon DEF Sequencer
  <2> QED BY <1>2, <1>3, <1>9, <2>1
          DEF Ckst, End, Staging, Walking, Transferring, Ending, Kept
<1>10. CASE s.st = "VERDICT"
  <2>1. s' = Verdict(t)
    BY <1>1, <1>10, Zenon DEF Sequencer
  <2> QED BY <1>2, <1>3, <1>10, <2>1
          DEF Verdict, ToDefault, Staging, Walking, Transferring, Ending, Kept
<1>11. CASE s.st = "ARB"
  <2>1. s' = Arb(t, boot_done, sd_gnt)
    BY <1>1, <1>11, Zenon DEF Sequencer
  <2> QED BY <1>2, <1>3, <1>11, <2>1, ZeroOne
          DEF Arb, End, Failed, Staging, Walking, Transferring, Ending, Kept
<1>12. CASE s.st = "SD_GO"
  <2>1. s' = SdGo(t)
    BY <1>1, <1>12, Zenon DEF Sequencer
  <2> QED BY <1>2, <1>3, <1>12, <2>1
          DEF SdGo, Staging, Walking, Transferring, Ending, Kept
<1>13. CASE s.st = "SD_WAIT"
  <2>1. s' = SdWait(t, m)
    BY <1>1, <1>13, Zenon DEF Sequencer
  <2> QED BY <1>2, <1>3, <1>13, <2>1
          DEF SdWait, Staging, Walking, Transferring, Ending, Kept
<1>14. CASE s.st = "SD_REL"
  <2>1. s' = SdRel(t)
    BY <1>1, <1>14, Zenon DEF Sequencer
  <2> QED BY <1>2, <1>3, <1>14, <2>1
          DEF SdRel, ToDefault, StartWalk, Rewound, Staging, Walking, Transferring, Ending, Kept
<1>15. CASE s.st = "INST_REQ"
  <2>1. s' = InstReq(t)
    BY <1>1, <1>15, Zenon DEF Sequencer
  <2> QED BY <1>2, <1>3, <1>15, <2>1
          DEF InstReq, Staging, Walking, Transferring, Ending, Kept
<1>16. CASE s.st = "INST_ACK"
  <2>1. s' = InstAck(t)
    BY <1>1, <1>16, Zenon DEF Sequencer
  <2> QED BY <1>2, <1>3, <1>16, <2>1, ZeroOne
          DEF InstAck, End, CdcTick, Failed, Staging, Walking, Transferring, Ending, Kept
<1>17. CASE s.st = "INST_REL"
  <2>1. s' = InstRel(t)
    BY <1>1, <1>17, Zenon DEF Sequencer
  <2> QED BY <1>2, <1>3, <1>17, <2>1, SMTT(60)
          DEF InstRel, End, CdcTick, Staging, Walking, Transferring, Ending, Kept
<1>18. CASE s.st = "DEFAULT"
  <2>1. s' = Default(t)
    BY <1>1, <1>18, Zenon DEF Sequencer
  <2> QED BY <1>2, <1>3, <1>18, <2>1
          DEF Default, Staging, Walking, Transferring, Ending, Kept
<1>19. CASE s.st = "DONE"
  <2>1. s' = Done(t)
    BY <1>1, <1>19, Zenon DEF Sequencer
  <2> QED BY <1>2, <1>3, <1>19, <2>1
          DEF Done, Staging, Walking, Transferring, Ending, Kept
<1> QED BY <1>3, <1>4, <1>5, <1>6, <1>7, <1>8, <1>9, <1>10, <1>11, <1>12, <1>13, <1>14,
           <1>15, <1>16, <1>17, <1>18, <1>19 DEF States

-----------------------------------------------------------------------------
(* The sequencer and the card                                              *)

\* The grant edge keeps the SPI bus exclusive.
LEMMA GrantedEdge ==
  ASSUME NEW cmd, NEW m, Edge(cmd, m), ScsiEdge
  PROVE  Granted' /\ sd_gnt' \in {0, 1}
<1>1. TypesOK /\ Granted /\ GrantEdge
  BY DEF Edge, Inv
<1>2. sd_gnt' \in {0, 1} /\ (sd_gnt' = 1 => s.sd_req = 1)
  BY <1>1 DEF GrantEdge, TypesOK
<1>3. scsi' = "wire" => sd_gnt' = 0
  BY <1>1 DEF GrantEdge, ScsiEdge, Granted, TypesOK
<1>4. CASE s.st = "IDLE"
  BY <1>2, <1>3, <1>4, IdleEdge DEF Granted
<1>5. CASE s.st # "IDLE"
  <2>1. s.sd_req = 1 /\ sd_gnt = 1 => sd_gnt' = 1
    BY <1>1, <1>5 DEF GrantEdge, pram_sd_busy
  <2>2. Staging /\ Walking /\ Transferring(m) /\ Ending
    BY <1>5, Graph
  <2>3. s'.st \in {"SD_GO", "SD_WAIT"} => sd_gnt' = 1 /\ s'.sd_req = 1
    BY <1>1, <1>5, <2>1, <2>2
       DEF Staging, Walking, Transferring, Ending, Failed, Rewound, Granted, TypesOK, States
  <2>4. s'.st = "ARB" /\ sd_gnt' = 1 => s'.sd_req = 1
    BY <1>1, <1>2, <1>5, <2>2
       DEF Staging, Walking, Transferring, Ending, Failed, Rewound, TypesOK, States
  <2> QED BY <1>2, <1>3, <2>3, <2>4, Zenon DEF Granted
<1> QED BY <1>4, <1>5

\* What the edge does to the staging buffer.
Buffered(m) ==
  /\ DOMAIN sec_buf' = Cells /\ sec_buf'[HDR] \in Headers
  /\ s.st \notin {"FILL", "SNAP_ACK", "CKST", "SD_WAIT"} => sec_buf' = sec_buf
  /\ s.st = "FILL" => sec_buf'[HDR] = IF s.idx = HDR THEN "good" ELSE sec_buf[HDR]
  /\ s.st = "SNAP_ACK" => sec_buf'[HDR] = sec_buf[HDR]
  /\ s.st = "CKST" => sec_buf' = IF s.op = "LOAD" THEN sec_buf ELSE [sec_buf EXCEPT ![CK] = s.ck]
  /\ s.st = "SD_WAIT" =>
       sec_buf' = IF s.op = "LOAD" /\ m = "cell" THEN [sec_buf EXCEPT ![sd] = card[sd]] ELSE sec_buf

\* What an edge does to the staging buffer.
LEMMA BufferEdge ==
  ASSUME NEW cmd, NEW m, Edge(cmd, m)
  PROVE  Buffered(m)
<1> DEFINE rd == [valid |-> m = "cell", cell |-> card[sd % SectorLen]]
<1>1. /\ TypesOK /\ m \in sd_moves /\ sec_buf' = BufNext(rd)
      /\ Stage(s, sec_buf, card, sd, ghost.images)
  BY Zenon DEF Edge, Inv, PramSdEdge
<1>2. HDR \in Cells /\ CK \in Cells /\ HDR # CK /\ SectorLen \in Nat \ {0} /\ HDR = 0
      /\ Cells = 0 .. (SectorLen - 1)
  BY PramLenAssumption, SMTT(60) DEF HDR, CK, Cells, SectorLen, WALK_END, PAYLOAD_OFF
<1>0. (rd.valid <=> m = "cell") /\ rd.cell = card[sd % SectorLen]
  BY Zenon
<1> HIDE DEF rd
<1>3. CASE s.st = "FILL"
  BY <1>1, <1>2, <1>3, SMTT(60) DEF BufNext, Buffered, TypesOK, Headers
<1>4. CASE s.st = "SNAP_ACK"
  BY <1>1, <1>2, <1>4, SMTT(60) DEF BufNext, Buffered, TypesOK, PAYLOAD_OFF
<1>5. CASE s.st = "CKST"
  BY <1>1, <1>2, <1>5 DEF BufNext, Buffered, TypesOK
<1>6. CASE s.st = "SD_WAIT"
  <2>1. CASE s.op = "LOAD" /\ m = "cell"
    <3>1. s.idx = sd /\ sd < SectorLen /\ sd % SectorLen = sd /\ sd \in Nat
      BY <1>1, <1>2, <1>6, <2>1, SMTT(60) DEF Stage, sd_moves, TypesOK
    <3>2. sec_buf' = [sec_buf EXCEPT ![sd] = card[sd]]
      <4>1. rd.valid /\ s.idx < SectorLen /\ rd.cell = card[sd]
        BY <1>0, <2>1, <3>1
      <4>2. sec_buf' = [sec_buf EXCEPT ![s.idx] = rd.cell]
        BY <1>1, <1>6, <2>1, <4>1 DEF BufNext
      <4> QED BY <3>1, <4>1, <4>2
    <3> QED BY <1>1, <1>2, <1>6, <2>1, <3>1, <3>2 DEF Buffered, TypesOK
  <2>2. CASE ~(s.op = "LOAD" /\ m = "cell")
    BY <1>0, <1>1, <1>6, <2>2 DEF BufNext, Buffered, TypesOK
  <2> QED BY <2>1, <2>2
<1>7. CASE s.st \notin {"FILL", "SNAP_ACK", "CKST", "SD_WAIT"}
  BY <1>1, <1>7 DEF BufNext, Buffered, TypesOK
<1> QED BY <1>3, <1>4, <1>5, <1>6, <1>7

\* ... to the card and the count of cells moved ...
Carded(m) ==
  /\ s.st # "SD_WAIT" => m = "none" /\ card' = card
  /\ s.st = "SD_WAIT" => \/ m = "cell" /\ sd < SectorLen /\ card' = card
                         \/ m = "done" /\ sd >= SectorLen /\ s.op # "SAVE" /\ card' = card
                         \/ m = "done" /\ sd >= SectorLen /\ s.op = "SAVE" /\ card' = sec_buf
                         \/ m = "error" /\ s.op # "SAVE" /\ card' = card
                         \/ m = "error" /\ s.op = "SAVE" /\ card' \in Torn
  /\ sd' = IF m = "cell" THEN sd + 1 ELSE IF s.st = "SD_GO" THEN 0 ELSE sd

\* What an edge does to the card.
LEMMA CardEdge ==
  ASSUME NEW cmd, NEW m, Edge(cmd, m)
  PROVE  Carded(m)
<1>1. TypesOK /\ m \in sd_moves /\ SdCtrl(m)
  BY DEF Edge, Inv
<1>2. SectorLen \in Nat
  BY PramLenAssumption, SMTT(60) DEF SectorLen, WALK_END, PAYLOAD_OFF
<1>3. /\ s.st # "SD_WAIT" => m = "none"
      /\ s.st = "SD_WAIT" => \/ m = "cell" /\ sd < SectorLen
                             \/ m = "done" /\ sd >= SectorLen
                             \/ m = "error"
  BY <1>1, <1>2, SMTT(60) DEF sd_moves, TypesOK
<1> QED BY <1>1, <1>3 DEF SdCtrl, Carded

\* ... and to the images.
LEMMA ImageEdge ==
  ASSUME NEW cmd, NEW m, Edge(cmd, m)
  PROVE  /\ DOMAIN ghost' = {"seen", "images", "quiet", "resolved"}
         /\ ghost'.images = IF s.st = "CKST" /\ s.op = "SAVE"
                            THEN ghost.images \cup {Payload(sec_buf)} ELSE ghost.images
  BY DEF Edge, HistoryEdge

\* The cells of a sector.
LEMMA SectorCells ==
  ASSUME NEW h, NEW k, NEW p
  PROVE  /\ DOMAIN Sector(h, k, p) = Cells
         /\ Sector(h, k, p)[HDR] = h /\ Sector(h, k, p)[CK] = k
         /\ \A i \in PramAddr : Sector(h, k, p)[PAYLOAD_OFF + i] = p[i]
  BY PramLenAssumption, SMTT(60) DEF Sector, Cells, HDR, CK, SectorLen, WALK_END, PAYLOAD_OFF, PramAddr

\* The header and the checksum a torn write may leave.
LEMMA TornCells ==
  ASSUME NEW c \in Torn, DOMAIN card = Cells
  PROVE  /\ DOMAIN c = Cells
         /\ c[HDR] \in {sec_buf[HDR], card[HDR], "magic"}
         /\ c[CK] \in {sec_buf[CK], card[CK], <<Junk>>}
<1>1. CASE c = card
  BY <1>1
<1>2. CASE c # card
  <2> PICK k \in 0 .. sd, rest \in {card, JunkSector} :
             c = [i \in Cells |-> IF i < k THEN sec_buf[i] ELSE rest[i]]
    BY <1>2, SMTT(60) DEF Torn
  <2>1. HDR \in Cells /\ CK \in Cells
    BY PramLenAssumption, SMTT(60) DEF HDR, CK, Cells, SectorLen, WALK_END, PAYLOAD_OFF
  <2>2. rest[HDR] \in {card[HDR], "magic"} /\ rest[CK] \in {card[CK], <<Junk>>}
    <3>1. CASE rest = JunkSector
      BY <3>1, SectorCells, SMTT(60) DEF JunkSector
    <3>2. CASE rest = card
      BY <3>2
    <3> QED BY <3>1, <3>2
  <2> QED BY <2>1, <2>2, Zenon
<1> QED BY <1>1, <1>2

\* The checksums of the filler and of a blank card pass for nothing.
LEMMA ShortUnknown ==
  ASSUME NEW im, NEW x, x \in {NoCk, <<Junk>>}
  PROVE  Known(x, im)
<1>1. DOMAIN x = {} \/ DOMAIN x = {1}
  BY SMTT(60) DEF NoCk
<1>2. PramLen + 1 \in 1 .. (PramLen + 1) /\ PramLen + 1 # 1
  BY PramLenAssumption, SMTT(60)
<1> QED BY <1>1, <1>2 DEF Known

\* What is known stays known.
LEMMA KnownGrows ==
  ASSUME NEW x, NEW im, NEW more, Known(x, im), im \subseteq more
  PROVE  Known(x, more)
  BY DEF Known

\* The card's sector stays one whose checksum, if it is a good one, is known.
LEMMA CardKnown ==
  ASSUME NEW cmd, NEW m, Edge(cmd, m)
  PROVE  /\ DOMAIN card' = Cells /\ card'[HDR] \in Headers
         /\ Known(card'[CK], ghost'.images)
<1>1. TypesOK /\ Known(card[CK], ghost.images) /\ Stage(s, sec_buf, card, sd, ghost.images)
  BY DEF Edge, Inv
<1>2. Carded(m) /\ ghost.images \subseteq ghost'.images
  BY CardEdge, ImageEdge
<1>3. CASE card' = card
  BY <1>1, <1>2, <1>3, KnownGrows DEF TypesOK
<1>4. CASE card' # card
  <2>1. s.st = "SD_WAIT" /\ s.op = "SAVE" /\ (card' = sec_buf \/ card' \in Torn)
    BY <1>2, <1>4 DEF Carded
  <2>2. Accepted(sec_buf) /\ Payload(sec_buf) \in ghost.images
    BY <1>1, <2>1 DEF Stage
  <2>3. Known(sec_buf[CK], ghost.images)
    BY <2>2, AcceptedIsKnown
  <2>4. DOMAIN card' = Cells /\ card'[HDR] \in {sec_buf[HDR], card[HDR], "magic"}
        /\ card'[CK] \in {sec_buf[CK], card[CK], <<Junk>>}
    BY <1>1, <2>1, TornCells DEF TypesOK
  <2>5. Known(card'[CK], ghost.images)
    BY <1>1, <2>3, <2>4, ShortUnknown
  <2> QED BY <1>1, <1>2, <2>4, <2>5, KnownGrows DEF TypesOK, Headers
<1> QED BY <1>3, <1>4

\* An edge keeps the types.
LEMMA TypesEdge ==
  ASSUME NEW cmd, NEW m, Edge(cmd, m), ScsiEdge
  PROVE  TypesOK'
<1>1. TypesOK
  BY DEF Edge, Inv
<1>2. /\ DOMAIN s' = Fields /\ s'.st \in States /\ s'.op \in {"SAVE", "SNAP", "LOAD"}
      /\ s'.idx \in Nat /\ s'.sd_req \in {0, 1}
  <2>1. CASE s.st = "IDLE"
    BY <1>1, <2>1, IdleEdge DEF TypesOK, States
  <2>2. CASE s.st # "IDLE"
    <3>1. Staging /\ Walking /\ Transferring(m) /\ Ending /\ Kept
      BY <2>2, Graph
    <3>2. s'.st \in States
      BY <1>1, <2>2, <3>1
         DEF Staging, Walking, Transferring, Ending, Failed, Rewound, TypesOK, States
    <3> QED BY <1>1, <3>1, <3>2 DEF Kept, TypesOK
  <2> QED BY <2>1, <2>2
<1>3. sd' \in Nat
  BY <1>1, CardEdge, SMTT(60) DEF Carded, TypesOK
<1>4. DOMAIN sec_buf' = Cells /\ sec_buf'[HDR] \in Headers
  BY BufferEdge DEF Buffered
<1>5. sd_gnt' \in {0, 1}
  BY GrantedEdge
<1> QED BY <1>2, <1>3, <1>4, <1>5, CardKnown, ImageEdge DEF TypesOK

\* What the state after the edge knows.
After == Stage(s', sec_buf', card', sd', ghost'.images)

\* Idle, and the states that fill the staging buffer.
LEMMA StagingEdge ==
  ASSUME NEW cmd, NEW m, Edge(cmd, m),
         s.st \in {"IDLE", "FILL", "SNAP_REQ", "SNAP_ACK", "SNAP_REL"}
  PROVE  After
<1>1. Stage(s, sec_buf, card, sd, ghost.images) /\ Buffered(m) /\ s.op \in {"SAVE", "SNAP", "LOAD"}
  BY BufferEdge DEF Edge, Inv, TypesOK
<1>2. CASE s.st = "IDLE"
  BY <1>1, <1>2, IdleEdge DEF After, Stage
<1>3. CASE s.st # "IDLE"
  <2>1. Staging /\ Kept
    BY <1>3, Graph
  <2>2. s.op # "LOAD" /\ s'.op = s.op /\ sec_buf'[HDR] = "good"
    BY <1>1, <1>3, <2>1 DEF Stage, Buffered, Kept
  <2>3. CASE Rewound
    <3>1. Walked(s'.hdr, s'.ck, s'.idx, sec_buf')
      BY <2>3, SMTT(60) DEF Rewound, Walked
    <3>2. 0 < WALK_END
      BY PramLenAssumption, SMTT(60) DEF WALK_END, PAYLOAD_OFF
    <3> QED BY <2>2, <2>3, <3>1, <3>2 DEF After, Stage, Rewound
  <2>4. CASE ~Rewound
    BY <1>3, <2>1, <2>2, <2>4 DEF After, Stage, Staging, Failed
  <2> QED BY <2>3, <2>4
<1> QED BY <1>2, <1>3

\* The verdict is good only on a sector whose checksum agrees.
LEMMA GoodVerdict ==
  ASSUME s.hdr[1] \in Headers, v_result = "OK"
  PROVE  s.hdr[1] = "good" /\ s.hdr[2] = s.ck
  BY Zenon DEF v_result, Headers

\* The walk, its checksum and the verdict.
LEMMA WalkingEdge ==
  ASSUME NEW cmd, NEW m, Edge(cmd, m), s.st \in {"WALK", "CKST", "VERDICT"}
  PROVE  After
<1>1. TypesOK /\ Stage(s, sec_buf, card, sd, ghost.images) /\ Buffered(m)
  BY BufferEdge DEF Edge, Inv
<1>2. Walking /\ Kept /\ s'.op = s.op
  BY Graph DEF Kept
<1>3. s.st # "CKST" => sec_buf' = sec_buf /\ ghost'.images = ghost.images
  BY <1>1, ImageEdge DEF Buffered
<1>4. CASE s.st = "WALK"
  <2>1. s.idx \in Nat /\ s.idx < WALK_END /\ Walked(s.hdr, s.ck, s.idx, sec_buf)
    BY <1>1, <1>4 DEF TypesOK, Stage
  <2>2. Walked(s'.hdr, s'.ck, s.idx + 1, sec_buf)
    BY <1>2, <1>4, <2>1, WalkOn DEF Walking
  <2>3. CASE s.idx = WALK_END - 1
    <3>1. s.idx + 1 = WALK_END
      BY <2>1, <2>3, PramLenAssumption, SMTT(60) DEF WALK_END, PAYLOAD_OFF
    <3>2. Judged(s'.hdr, s'.ck, sec_buf)
      BY <2>2, <3>1, WalkEnds
    <3> QED BY <1>1, <1>2, <1>3, <1>4, <2>3, <3>2 DEF After, Stage, Walking
  <2>4. CASE s.idx # WALK_END - 1
    <3>1. s.idx + 1 < WALK_END
      BY <2>1, <2>4, PramLenAssumption, SMTT(60) DEF WALK_END, PAYLOAD_OFF
    <3> QED BY <1>1, <1>2, <1>3, <1>4, <2>2, <2>4, <3>1 DEF After, Stage, Walking
  <2> QED BY <2>3, <2>4
<1>5. CASE s.st = "CKST"
  <2>1. Judged(s.hdr, s.ck, sec_buf)
    BY <1>1, <1>5 DEF Stage
  <2>2. CASE s.op = "LOAD"
    <3>1. sec_buf' = sec_buf /\ ghost'.images = ghost.images
      BY <1>1, <1>5, <2>2, ImageEdge DEF Buffered
    <3> QED BY <1>1, <1>2, <1>5, <2>1, <2>2, <3>1 DEF After, Stage, Walking
  <2>3. CASE s.op = "SNAP"
    BY <1>2, <1>5, <2>3 DEF After, Stage, Walking
  <2>4. CASE s.op = "SAVE"
    <3>1. sec_buf' = [sec_buf EXCEPT ![CK] = s.ck] /\ DOMAIN sec_buf = Cells
      BY <1>1, <1>5, <2>4 DEF Buffered, TypesOK
    <3>2. /\ sec_buf'[HDR] = sec_buf[HDR] /\ sec_buf'[CK] = s.ck
          /\ Payload(sec_buf') = Payload(sec_buf) /\ CkOf(sec_buf') = CkOf(sec_buf)
      <4>1. sec_buf'[CK] = s.ck /\ \A i \in Cells \ {CK} : sec_buf'[i] = sec_buf[i]
        BY <3>1, CkCell
      <4> QED BY <4>1, CkStored
    <3>3. sec_buf[HDR] = "good"
      BY <1>1, <1>5, <2>4 DEF Stage
    <3>4. Accepted(sec_buf')
      BY <2>1, <3>2, <3>3 DEF Accepted, Judged
    <3>5. Payload(sec_buf') \in ghost'.images
      BY <1>5, <2>4, <3>2, ImageEdge
    <3> QED BY <1>2, <1>5, <2>4, <3>4, <3>5 DEF After, Stage, Walking
  <2> QED BY <1>1, <2>2, <2>3, <2>4 DEF TypesOK
<1>6. CASE s.st = "VERDICT"
  <2>1. s.op = "LOAD" /\ Known(sec_buf[CK], ghost.images) /\ Judged(s.hdr, s.ck, sec_buf)
    BY <1>1, <1>6 DEF Stage
  <2>2. CASE v_result = "OK"
    <3>1. sec_buf[HDR] = "good" /\ sec_buf[CK] = CkOf(sec_buf)
      BY <1>1, <2>1, <2>2, GoodVerdict DEF Judged, TypesOK
    <3>2. Payload(sec_buf) \in ghost.images
      BY <2>1, <3>1, AcceptedIsKnown DEF Accepted
    <3> QED BY <1>2, <1>3, <1>6, <2>1, <2>2, <3>2 DEF After, Stage, Walking
  <2>3. CASE v_result # "OK"
    BY <1>2, <1>6, <2>1, <2>3 DEF After, Stage, Walking
  <2> QED BY <2>2, <2>3
<1> QED BY <1>4, <1>5, <1>6

\* The transfer between the staging buffer and the card.
LEMMA TransferEdge ==
  ASSUME NEW cmd, NEW m, Edge(cmd, m), s.st \in {"ARB", "SD_GO", "SD_WAIT", "SD_REL"}
  PROVE  After
<1>1. /\ TypesOK /\ Known(card[CK], ghost.images)
      /\ Stage(s, sec_buf, card, sd, ghost.images) /\ Buffered(m) /\ Carded(m)
  BY BufferEdge, CardEdge DEF Edge, Inv
<1>2. Transferring(m) /\ Kept /\ s'.op = s.op
  BY Graph DEF Kept
<1>3. ghost'.images = ghost.images
  BY ImageEdge
<1>4. CASE s.st \in {"ARB", "SD_GO"}
  <2>1. sec_buf' = sec_buf /\ card' = card /\ (s.st = "SD_GO" => sd' = 0)
    BY <1>1, <1>4 DEF Buffered, Carded
  <2>2. 0 <= SectorLen /\ \A i \in Cells : ~(i < 0)
    BY PramLenAssumption, SMTT(60) DEF SectorLen, Cells, WALK_END, PAYLOAD_OFF
  <2> QED BY <1>1, <1>2, <1>3, <1>4, <2>1, <2>2 DEF After, Stage, Transferring, Failed
<1>5. CASE s.st = "SD_WAIT"
  <2>1. SectorLen \in Nat /\ Cells = 0 .. (SectorLen - 1) /\ sd \in Nat
    BY <1>1, PramLenAssumption, SMTT(60) DEF SectorLen, Cells, WALK_END, PAYLOAD_OFF, TypesOK
  <2>2. CASE s.op = "LOAD"
    <3>1. card' = card /\ s.idx = sd /\ sd <= SectorLen /\ \A i \in Cells : i < sd => sec_buf[i] = card[i]
      BY <1>1, <1>5, <2>2 DEF Carded, Stage
    <3>2. CASE m = "cell"
      <4>1. /\ sd < SectorLen /\ sd' = sd + 1 /\ s'.st = "SD_WAIT" /\ s'.idx = sd + 1
            /\ sec_buf' = [sec_buf EXCEPT ![sd] = card[sd]] /\ DOMAIN sec_buf = Cells
        BY <1>1, <1>2, <1>5, <2>2, <3>1, <3>2 DEF Carded, Transferring, Counted, Buffered, TypesOK
      <4>2. \A i \in Cells : i < sd + 1 => sec_buf'[i] = card[i]
        BY <2>1, <3>1, <4>1, SMTT(60)
      <4> QED BY <1>2, <2>1, <2>2, <3>1, <4>1, <4>2, SMTT(60) DEF After, Stage
    <3>3. CASE m = "done"
      <4>1. sec_buf' = sec_buf /\ s'.st = "SD_REL" /\ sd = SectorLen
        BY <1>1, <1>2, <1>5, <2>1, <3>1, <3>3, SMTT(60) DEF Carded, Transferring, Buffered
      <4>2. \A i \in Cells : sec_buf[i] = card[i]
        BY <2>1, <3>1, <4>1, SMTT(60)
      <4> QED BY <1>2, <2>2, <3>1, <4>1, <4>2 DEF After, Stage
    <3>4. CASE m = "error"
      BY <1>2, <1>5, <2>2, <3>4 DEF After, Stage, Transferring
    <3> QED BY <1>1, <1>5, <3>2, <3>3, <3>4 DEF Carded
  <2>3. CASE s.op # "LOAD"
    <3>1. sec_buf' = sec_buf /\ s.op = "SAVE" /\ Accepted(sec_buf) /\ Payload(sec_buf) \in ghost.images
      BY <1>1, <1>5, <2>3 DEF Buffered, Stage
    <3>2. /\ s'.st \in {"SD_WAIT", "SD_REL"}
          /\ s'.st = "SD_REL" /\ s'.res = "OK" => m = "done"
      BY <1>2, <1>5 DEF Transferring
    <3>3. m = "done" => card' = sec_buf
      BY <1>1, <1>5, <3>1 DEF Carded
    <3> QED BY <1>2, <1>3, <3>1, <3>2, <3>3 DEF After, Stage
  <2> QED BY <2>2, <2>3
<1>6. CASE s.st = "SD_REL"
  <2>1. sec_buf' = sec_buf /\ card' = card
    BY <1>1, <1>6 DEF Buffered, Carded
  <2>2. s.res = "OK" => \A i \in Cells : sec_buf[i] = card[i]
    BY <1>1, <1>6 DEF Stage
  <2>3. CASE s.op = "LOAD" /\ s.res = "OK"
    <3>1. Rewound /\ Known(sec_buf[CK], ghost.images)
      BY <1>1, <1>2, <1>6, <2>2, <2>3, SameCells DEF Transferring
    <3>2. 0 < WALK_END /\ Walked(s'.hdr, s'.ck, s'.idx, sec_buf)
      BY <3>1, PramLenAssumption, SMTT(60) DEF Rewound, Walked, WALK_END, PAYLOAD_OFF
    <3> QED BY <1>2, <1>3, <2>1, <2>3, <3>1, <3>2 DEF After, Stage, Rewound
  <2>4. CASE s.op = "LOAD" /\ s.res # "OK"
    BY <1>2, <1>6, <2>4 DEF After, Stage, Transferring
  <2>5. CASE s.op # "LOAD"
    <3>1. s'.st = "DONE" /\ s'.res = s.res /\ Accepted(sec_buf) /\ Payload(sec_buf) \in ghost.images
      BY <1>1, <1>2, <1>6, <2>5 DEF Transferring, Stage
    <3>2. s.res = "OK" => Accepted(card) /\ Payload(card) \in ghost.images
      BY <2>2, <3>1, SameCells DEF Accepted
    <3> QED BY <1>2, <1>3, <2>1, <2>5, <3>1, <3>2 DEF After, Stage
  <2> QED BY <2>3, <2>4, <2>5
<1> QED BY <1>4, <1>5, <1>6

\* Installing the sector, the default hold and the end.
LEMMA EndingEdge ==
  ASSUME NEW cmd, NEW m, Edge(cmd, m),
         s.st \in {"INST_REQ", "INST_ACK", "INST_REL", "DEFAULT", "DONE"}
  PROVE  After
<1>1. Stage(s, sec_buf, card, sd, ghost.images) /\ Buffered(m)
  BY BufferEdge DEF Edge, Inv
<1>2. Ending /\ Kept /\ s'.op = s.op
  BY Graph DEF Kept
<1>3. ghost'.images = ghost.images /\ sec_buf' = sec_buf
  BY <1>1, ImageEdge DEF Buffered
<1> QED BY <1>1, <1>2, <1>3 DEF After, Stage, Ending, Failed

\* An edge out of reset keeps the invariant.
LEMMA InvEdge ==
  ASSUME NEW cmd, NEW m, Edge(cmd, m), ScsiEdge
  PROVE  Inv'
<1>1. s.st \in States
  BY DEF Edge, Inv, TypesOK
<1>2. After
  BY <1>1, StagingEdge, WalkingEdge, TransferEdge, EndingEdge DEF States
<1>3. TypesOK' /\ Granted' /\ Known(card'[CK], ghost'.images)
  BY TypesEdge, GrantedEdge, CardKnown
<1> QED BY <1>2, <1>3 DEF Inv, After

\* A sequencer in reset.
LEMMA AtRest ==
  ASSUME NEW buf, NEW c, NEW n, NEW im
  PROVE  /\ Stage(s_rst, buf, c, n, im) /\ DOMAIN s_rst = Fields /\ s_rst.st = "IDLE"
         /\ s_rst.op \in {"SAVE", "SNAP", "LOAD"} /\ s_rst.idx \in Nat /\ s_rst.sd_req = 0
  BY DEF Stage, s_rst, Fields

\* An edge of the core clock, in reset or out of it.
LEMMA CoreStep ==
  ASSUME Inv, CoreEdge
  PROVE  Inv'
<1>1. PICK cmd \in Commands, m \in sd_moves :
        /\ IF frst = 1 /\ ~pram_sd_busy
           THEN /\ cmd = "none" /\ s' = s_rst /\ UNCHANGED sec_buf
                /\ ghost' = [ghost EXCEPT !.resolved = 0]
           ELSE /\ PramSdEdge(cmd, boot_done, sd_gnt, m,
                              [valid |-> m = "cell", cell |-> card[sd % SectorLen]])
                /\ HistoryEdge
        /\ SdCtrl(m) /\ GrantEdge /\ ScsiEdge
  BY Zenon DEF CoreEdge
<1>2. CASE frst = 1 /\ ~pram_sd_busy
  <2>1. TypesOK /\ Known(card[CK], ghost.images) /\ s.st = "IDLE"
    BY <1>2 DEF Inv, pram_sd_busy
  <2>2. m = "none" /\ card' = card /\ sd' = sd /\ sec_buf' = sec_buf /\ sd_gnt' = 0 /\ s' = s_rst
    BY <1>1, <1>2, <2>1 DEF sd_moves, SdCtrl, GrantEdge
  <2>3. DOMAIN ghost' = {"seen", "images", "quiet", "resolved"} /\ ghost'.images = ghost.images
    BY <1>1, <1>2, <2>1 DEF TypesOK
  <2>4. TypesOK'
    BY <2>1, <2>2, <2>3, AtRest DEF TypesOK, States
  <2>5. Granted'
    BY <2>2, AtRest DEF Granted
  <2>6. After
    BY <2>2, AtRest DEF After
  <2> QED BY <2>1, <2>2, <2>3, <2>4, <2>5, <2>6 DEF Inv, After
<1>3. CASE ~(frst = 1 /\ ~pram_sd_busy)
  <2>1. Edge(cmd, m)
    BY <1>1, <1>3, Zenon DEF Edge
  <2> QED BY <1>1, <2>1, InvEdge
<1> QED BY <1>2, <1>3

\* The other clock, the zap and the resets touch neither card nor sequencer.
LEMMA QuietStep ==
  ASSUME Inv, PbEdge \/ Zap \/ (\E board \in {0, 1} : Reset(board)) \/ ResetEnds \/ UNCHANGED vars
  PROVE  Inv'
<1>1. /\ UNCHANGED <<s, sec_buf, card, sd, sd_gnt>> /\ (scsi' = scsi \/ scsi' = "idle")
  <2>1. CASE PbEdge
    BY <2>1, Zenon DEF PbEdge
  <2>2. CASE ~PbEdge
    BY <2>2 DEF Zap, Reset, ResetEnds, vars, hwVars
  <2> QED BY <2>1, <2>2
<1>2. /\ DOMAIN ghost' = {"seen", "images", "quiet", "resolved"}
      /\ ghost'.images = ghost.images
  <2>1. DOMAIN ghost = {"seen", "images", "quiet", "resolved"}
    BY DEF Inv, TypesOK
  <2>2. CASE PbEdge
    <3>1. PICK f, g : ghost' = [ghost EXCEPT !.seen = f, !.quiet = g]
      BY <2>2, Zenon DEF PbEdge
    <3> QED BY <2>1, <3>1
  <2>3. CASE Zap
    BY <2>1, <2>3 DEF Zap
  <2>4. CASE ghost' = ghost
    BY <2>1, <2>4
  <2> QED BY <2>2, <2>3, <2>4 DEF Reset, ResetEnds, vars
<1> QED BY <1>1, <1>2 DEF Inv, TypesOK, Granted

\* The sector a torn write leaves is known: its checksum is the old sector's,
\* the new one's or no good one.
LEMMA CutStep ==
  ASSUME Inv, PowerCut
  PROVE  Inv'
<1>1. TypesOK /\ Known(card[CK], ghost.images) /\ Stage(s, sec_buf, card, sd, ghost.images)
  BY DEF Inv
<1>2. /\ s' = s_rst /\ sec_buf' = Sector("zero", NoCk, DefaultPram) /\ sd' = 0 /\ sd_gnt' = 0
      /\ scsi' = "idle" /\ ghost' = [ghost EXCEPT !.quiet = 0, !.resolved = 0]
      /\ card' \in IF s.st = "SD_WAIT" /\ s.op = "SAVE" THEN Torn ELSE {card}
  BY DEF PowerCut
<1>3. DOMAIN ghost' = {"seen", "images", "quiet", "resolved"} /\ ghost'.images = ghost.images
  BY <1>1, <1>2 DEF TypesOK
<1>4. DOMAIN card' = Cells /\ card'[HDR] \in Headers /\ Known(card'[CK], ghost.images)
  <2>1. CASE card' = card
    BY <1>1, <2>1 DEF TypesOK
  <2>2. CASE card' # card
    <3>1. s.st = "SD_WAIT" /\ s.op = "SAVE" /\ card' \in Torn
      BY <1>2, <2>2
    <3>2. Known(sec_buf[CK], ghost.images) /\ sec_buf[HDR] \in Headers
      BY <1>1, <3>1, AcceptedIsKnown DEF Stage, TypesOK
    <3>3. Known(<<Junk>>, ghost.images)
      BY ShortUnknown
    <3> QED BY <1>1, <3>1, <3>2, <3>3, TornCells DEF TypesOK, Headers
  <2> QED BY <2>1, <2>2
<1>5. DOMAIN sec_buf' = Cells /\ sec_buf'[HDR] = "zero"
  BY <1>2, SectorCells, SMTT(60)
<1>6. TypesOK'
  BY <1>1, <1>2, <1>3, <1>4, <1>5, AtRest DEF TypesOK, States, Headers
<1>7. Granted'
  BY <1>2, AtRest DEF Granted
<1>8. After
  BY <1>2, AtRest DEF After
<1> QED BY <1>3, <1>4, <1>6, <1>7, <1>8 DEF Inv, After

\* Every step keeps the invariant.
LEMMA NextInv ==
  ASSUME Inv, [Next]_vars
  PROVE  Inv'
  BY CoreStep, QuietStep, CutStep DEF Next

\* A card of any kind starts as a known one.
LEMMA StartInv == Init => Inv
<1> SUFFICES ASSUME Init PROVE Inv
  OBVIOUS
<1>1. /\ s = s_rst /\ sec_buf = Sector("zero", NoCk, DefaultPram) /\ sd = 0 /\ sd_gnt = 0
      /\ scsi = "idle" /\ card = Card(left.card) /\ ghost = NewGhost(card)
      /\ left.card \in {"image", "blank", "cksum", "magic", "version", "length"}
  BY CardAssumption DEF Init
<1>2. DOMAIN ghost = {"seen", "images", "quiet", "resolved"}
      /\ ghost.images = IF card[CK] = CkOf(card) /\ card[HDR] = "good" THEN {Payload(card)} ELSE {}
  BY <1>1 DEF NewGhost
<1>3. DOMAIN card = Cells /\ card[HDR] \in Headers /\ Known(card[CK], ghost.images)
  <2>1. CASE left.card = "image"
    <3> DEFINE f == [j \in 1 .. PramLen |-> OldPram[j - 1]]
               k == <<"good">> \o f
    <3>1. card = Sector("good", k, OldPram)
      BY <1>1, <2>1, Zenon DEF Card, Image
    <3>2. card[HDR] = "good" /\ card[CK] = k /\ DOMAIN card = Cells
          /\ \A i \in PramAddr : card[PAYLOAD_OFF + i] = OldPram[i]
      <4> HIDE DEF k
      <4> QED BY <3>1, SectorCells, SMTT(60)
    <3>3. Payload(card) = [i \in PramAddr |-> OldPram[i]]
      BY <3>2, Zenon DEF Payload
    <3>4. k = CkOf(card)
      <4>1. k = [j \in 1 .. (PramLen + 1) |-> IF j = 1 THEN "good" ELSE f[j - 1]]
        <5>1. f = [j \in 1 .. PramLen |-> f[j]]
          OBVIOUS
        <5> HIDE DEF f
        <5> QED BY <5>1, Headed, PramLenAssumption, SMTT(60)
      <4>2. \A j \in 2 .. (PramLen + 1) : f[j - 1] = card[PAYLOAD_OFF + j - 2]
        BY <3>2, PramLenAssumption, SMTT(60) DEF PAYLOAD_OFF, PramAddr
      <4> HIDE DEF k, f
      <4> QED BY <3>2, <4>1, <4>2, PramLenAssumption, SMTT(60) DEF CkOf
    <3>5. Accepted(card) /\ Payload(card) \in ghost.images
      <4> HIDE DEF k
      <4> QED BY <1>2, <3>2, <3>4 DEF Accepted
    <3>6. Known(card[CK], ghost.images)
      BY <3>5, AcceptedIsKnown
    <3>7. card[HDR] \in Headers
      BY <3>2 DEF Headers
    <3> QED BY <3>2, <3>6, <3>7
  <2>2. CASE left.card # "image"
    <3>1. PICK h \in Headers, p \in {OldPram, DefaultPram} : card = Sector(h, NoCk, p)
      BY <1>1, <2>2, Zenon DEF Card, Headers
    <3> QED BY <3>1, SectorCells, ShortUnknown, SMTT(60)
  <2> QED BY <2>1, <2>2
<1>4. DOMAIN sec_buf = Cells /\ sec_buf[HDR] = "zero"
  BY <1>1, SectorCells, SMTT(60)
<1>5. Stage(s, sec_buf, card, sd, ghost.images)
  BY <1>1, AtRest
<1>6. TypesOK
  BY <1>1, <1>2, <1>3, <1>4, AtRest DEF TypesOK, States, Headers
<1> QED BY <1>1, <1>3, <1>5, <1>6, AtRest DEF Inv, Granted

-----------------------------------------------------------------------------
(* The handshake of pram_cdc, and the bytes a snapshot reads through it    *)

\* A level.
Bit == {0, 1}

\* The types of the handshake.
HandshakeTypes ==
  /\ DOMAIN ca = {"meta", "sync", "q", "rdata"} /\ ca.meta \in Bit /\ ca.sync \in Bit /\ ca.q \in Bit
  /\ DOMAIN cb = {"meta", "sync", "q", "ack", "ready", "rdata"}
  /\ cb.meta \in Bit /\ cb.sync \in Bit /\ cb.q \in Bit /\ cb.ack \in Bit
  /\ s.req \in Bit /\ s.armed \in Bit /\ arst \in Bit /\ brst \in Bit
  /\ DOMAIN ghost.seen = PramAddr

\* Nothing is in flight.
Still == s.req = 0 /\ cb.meta = 0 /\ cb.sync = 0 /\ cb.ack = 0 /\ ca.meta = 0 /\ ca.sync = 0 /\ ca.q = 0

\* The core side is held in reset, and what it reads is its own zeros.
Cut == arst = 1 /\ ca = ca_rst

\* The board reset has reached one side at least.
Broken == arst = 1 /\ (ca = ca_rst \/ cb = cb_rst)

\* A request on its way there, its acknowledge on its way back: each flop is
\* up only if the one before it is.
Rising == /\ ca.q = 1 => ca.sync = 1
          /\ ca.sync = 1 => ca.meta = 1
          /\ ca.meta = 1 => cb.ack = 1
          /\ cb.ack = 1 => cb.sync = 1
          /\ cb.sync = 1 => cb.meta = 1

\* The same for the release.
Falling == /\ cb.meta = 1 => cb.sync = 1
           /\ cb.sync = 1 => cb.ack = 1
           /\ cb.ack = 1 => ca.meta = 1 /\ (cb.sync = 0 => cb.q = 1)
           /\ ca.meta = 1 => ca.sync = 1
           /\ ca.sync = 1 => ca.q = 1

\* The states between two handshakes.
Apart == {"FILL", "SNAP_REQ", "WALK", "CKST", "ARB", "SD_GO", "SD_WAIT", "SD_REL", "VERDICT", "INST_REQ"}

\* How the three resets and the boot go together.
Resets == /\ arst = 1 => brst = 1 /\ frst = 1
          /\ brst = 1 /\ arst = 0 => cb = cb_rst
          /\ frst = 1 => boot_done = 0

\* The boot-time LOAD fires only with nothing in flight.
Armed == s.armed = 1 => s.st = "IDLE" /\ (boot_done = 1 => Still \/ (Cut /\ s.req = 0))

\* Where the handshake is, by the state of the sequencer.
Linked == /\ s.st \in Apart => Still \/ (Cut /\ s.req = 0)
          /\ s.st = "INST_ACK" /\ s.req = 0 => Still \/ Cut
          /\ s.st = "INST_ACK" /\ s.req = 1 => Broken \/ Rising
          /\ s.st = "SNAP_ACK" => s.req = 1 /\ (Broken \/ Rising)
          /\ s.st \in {"SNAP_REL", "INST_REL"} => s.req = 0 /\ (Broken \/ Falling)

\* x was the PRAM's byte while the handshake for it was up.
Fresh(x) == x \in ghost.seen[s.idx]

\* The byte on its way through pram_cdc is fresh at every flop it has
\* reached.
Read == /\ s.st \in {"SNAP_REQ", "SNAP_ACK", "SNAP_REL"} => s.idx \in PramAddr
        /\ s.st = "SNAP_ACK" =>
             /\ s.addr = s.idx /\ s.we = 0 /\ Fresh(pram[s.idx])
             /\ cb.meta = 1 /\ ~Cut => Fresh(rc.ext)
             /\ cb.ack = 1 /\ ~Cut => Fresh(cb.rdata)
             /\ ca.q = 1 => Fresh(ca.rdata)

\* Byte i of the staged payload was the PRAM's while its handshake was up.
Staged(i) == sec_buf[PAYLOAD_OFF + i] \in ghost.seen[i]

\* How much of the payload is staged so, by the state of the sequencer.
Snapped == /\ s.st \in {"SNAP_REQ", "SNAP_ACK"} => \A i \in PramAddr : i < s.idx => Staged(i)
           /\ s.st = "SNAP_REL" => \A i \in PramAddr : i <= s.idx => Staged(i)
           /\ s.st \in {"WALK", "CKST", "ARB", "SD_GO", "SD_WAIT", "SD_REL"} /\ s.op # "LOAD" =>
                \A i \in PramAddr : Staged(i)
           /\ s.st = "DONE" /\ s.op = "SAVE" /\ s.res = "OK" =>
                \A i \in PramAddr : card[PAYLOAD_OFF + i] \in ghost.seen[i]

\* The inductive invariant of the handshake and of the snapshot.
CdcInv == HandshakeTypes /\ Resets /\ Armed /\ Linked /\ Read /\ Snapped

\* What a busy edge does to the registers of the handshake.
Asking ==
  /\ s.st = "SNAP_REQ" => s'.req = 1 /\ s'.we = 0 /\ s'.addr = s.idx /\ s'.idx = s.idx
  /\ s.st = "SNAP_ACK" =>
       \/ ca.q = 1 /\ s'.st = "SNAP_REL" /\ s'.req = 0 /\ s'.idx = s.idx
       \/ /\ ca.q # 1 /\ s'.st = "SNAP_ACK" /\ s'.req = s.req /\ s'.we = s.we /\ s'.addr = s.addr
          /\ s'.idx = s.idx
       \/ s'.st = "DONE" /\ s'.res # "OK" /\ s'.req = 0
  /\ s.st = "SNAP_REL" =>
       /\ s'.req = s.req
       /\ \/ ca.q # 1 /\ s'.st = "WALK" /\ s.idx = PramLen - 1
          \/ ca.q # 1 /\ s'.st = "SNAP_REQ" /\ s.idx # PramLen - 1 /\ s'.idx = s.idx + 1
          \/ ca.q = 1 /\ s'.st = "SNAP_REL" /\ s'.idx = s.idx
          \/ s'.st = "DONE" /\ s'.res # "OK"
  /\ s.st = "INST_REQ" => s'.st = "INST_ACK" /\ s'.req = s.req
  /\ s.st = "INST_ACK" =>
       \/ s.req = 0 /\ s'.st = "INST_ACK" /\ s'.req = 1
       \/ s.req = 1 /\ ca.q = 1 /\ s'.st = "INST_REL" /\ s'.req = 0
       \/ s.req # 0 /\ ca.q # 1 /\ s'.st = "INST_ACK" /\ s'.req = s.req
       \/ s'.st = "DONE" /\ s'.req = 0
  /\ s.st = "INST_REL" =>
       /\ s'.req = s.req
       /\ \/ ca.q # 1 /\ s'.st = "INST_REQ"
          \/ ca.q = 1 /\ s'.st = "INST_REL"
          \/ s'.st = "DONE"
  /\ s.st = "FILL" /\ s'.st = "SNAP_REQ" => s'.idx = 0
  /\ s.st \in (Apart \ {"SNAP_REQ"}) \cup {"DEFAULT"} => s'.req = s.req
  /\ s.st = "DONE" => s'.req = 0
  /\ s'.armed = s.armed

\* What a busy edge does to the registers an installation uses.
Placing ==
  /\ s'.pram_default = s.pram_default \/ s'.pram_default = 0 \/ s'.st = "DEFAULT"
  /\ s.st = "DEFAULT" /\ s'.st # "DEFAULT" => s'.pram_default = 0
  /\ s.st # "INST_ACK" => s'.we = 0 \/ s'.we = s.we
  /\ s.st = "VERDICT" /\ s'.st = "INST_REQ" => s'.idx = 0
  /\ s.st = "INST_REQ" => s'.addr = s.idx /\ s'.idx = s.idx
  /\ s.st = "INST_ACK" =>
       /\ s'.st = "INST_ACK" => /\ s'.addr = s.addr /\ s'.idx = s.idx
                                /\ IF s.req = 0 THEN s'.we = 1 /\ s'.wdata = sec_buf[PAYLOAD_OFF + s.idx]
                                   ELSE s'.we = s.we /\ s'.wdata = s.wdata
       /\ s'.st # "INST_ACK" => s'.we = 0
       /\ s'.st = "INST_REL" => s'.idx = s.idx /\ s.req = 1 /\ ca.q = 1
  /\ s.st = "INST_REL" =>
       /\ s'.st = "INST_REL" => s'.idx = s.idx
       /\ s'.st = "INST_REQ" => s'.idx = s.idx + 1 /\ s.idx # PramLen - 1
       /\ s'.st = "DONE" /\ s'.res = "OK" => s.idx = PramLen - 1

\* The case statement finds the handshake registers as they were.
LEMMA LatchedHandshake ==
  ASSUME NEW cmd, NEW m, Edge(cmd, m)
  PROVE  /\ Latched(m).req = s.req /\ Latched(m).we = s.we /\ Latched(m).addr = s.addr
         /\ Latched(m).armed = s.armed /\ Latched(m).wdata = s.wdata
         /\ Latched(m).pram_default = s.pram_default
  BY DEF Edge, Inv, TypesOK, Latched, Fields, s_rst

\* A busy edge, state by state.
LEMMA AskingEdge ==
  ASSUME NEW cmd, NEW m, Edge(cmd, m), s.st # "IDLE", s.req \in Bit
  PROVE  Asking /\ Placing
<1> DEFINE t == Latched(m)
<1>1. s' = Sequencer(t, boot_done, sd_gnt, m)
  BY BusyEdge
<1>2. /\ DOMAIN t = Fields /\ t.idx = Counted(m) /\ t.st = s.st /\ t.op = s.op
      /\ t.req = s.req /\ t.we = s.we /\ t.addr = s.addr /\ t.armed = s.armed
      /\ t.wdata = s.wdata /\ t.pram_default = s.pram_default
  BY LatchedFields, LatchedHandshake
<1>3. s.idx \in Nat /\ t.idx \in Nat /\ (s.st # "SD_WAIT" => t.idx = s.idx) /\ s.st \in States
  BY <1>2, SMTT(60) DEF Edge, Inv, TypesOK, Counted
<1> HIDE DEF t
<1> USE DEF Fields, s_rst
<1>4. CASE s.st = "FILL"
  <2>1. s' = Fill(t)
    BY <1>1, <1>4, Zenon DEF Sequencer
  <2> QED BY <1>2, <1>3, <1>4, <2>1, SMTT(60) DEF Fill, Asking, Placing, Apart
<1>5. CASE s.st = "SNAP_REQ"
  <2>1. s' = SnapReq(t)
    BY <1>1, <1>5, Zenon DEF Sequencer
  <2> QED BY <1>2, <1>3, <1>5, <2>1 DEF SnapReq, Asking, Placing, Apart
<1>6. CASE s.st = "SNAP_ACK"
  <2>1. s' = SnapAck(t)
    BY <1>1, <1>6, Zenon DEF Sequencer
  <2> QED BY <1>2, <1>3, <1>6, <2>1 DEF SnapAck, End, CdcTick, a_ack, Asking, Placing, Apart
<1>7. CASE s.st = "SNAP_REL"
  <2>1. s' = SnapRel(t)
    BY <1>1, <1>7, Zenon DEF Sequencer
  <2> QED BY <1>2, <1>3, <1>7, <2>1 DEF SnapRel, End, CdcTick, StartWalk, a_ack, Asking, Placing, Apart
<1>8. CASE s.st = "INST_REQ"
  <2>1. s' = InstReq(t)
    BY <1>1, <1>8, Zenon DEF Sequencer
  <2> QED BY <1>2, <1>3, <1>8, <2>1 DEF InstReq, Asking, Placing, Apart
<1>9. CASE s.st = "INST_ACK"
  <2>1. s' = InstAck(t)
    BY <1>1, <1>9, Zenon DEF Sequencer
  <2> QED BY <1>2, <1>3, <1>9, <2>1, ZeroOne DEF InstAck, End, CdcTick, a_ack, Asking, Placing, Apart, Bit
<1>10. CASE s.st = "INST_REL"
  <2>1. s' = InstRel(t)
    BY <1>1, <1>10, Zenon DEF Sequencer
  <2> QED BY <1>2, <1>3, <1>10, <2>1 DEF InstRel, End, CdcTick, a_ack, Asking, Placing, Apart
<1>11. CASE s.st = "DONE"
  <2>1. s' = Done(t)
    BY <1>1, <1>11, Zenon DEF Sequencer
  <2> QED BY <1>2, <1>3, <1>11, <2>1 DEF Done, Asking, Placing, Apart
<1>12. CASE s.st = "WALK"
  <2>1. s' = Walk(t)
    BY <1>1, <1>12, Zenon DEF Sequencer
  <2> QED BY <1>2, <1>3, <1>12, <2>1 DEF Walk, Asking, Placing, Apart
<1>13. CASE s.st = "CKST"
  <2>1. s' = Ckst(t)
    BY <1>1, <1>13, Zenon DEF Sequencer
  <2> QED BY <1>2, <1>3, <1>13, <2>1 DEF Ckst, End, Asking, Placing, Apart
<1>14. CASE s.st = "VERDICT"
  <2>1. s' = Verdict(t)
    BY <1>1, <1>14, Zenon DEF Sequencer
  <2> QED BY <1>2, <1>3, <1>14, <2>1 DEF Verdict, ToDefault, Asking, Placing, Apart
<1>15. CASE s.st = "SD_REL"
  <2>1. s' = SdRel(t)
    BY <1>1, <1>15, Zenon DEF Sequencer
  <2> QED BY <1>2, <1>3, <1>15, <2>1 DEF SdRel, ToDefault, StartWalk, Asking, Placing, Apart
<1>16. CASE s.st = "ARB"
  <2>1. s' = Arb(t, boot_done, sd_gnt)
    BY <1>1, <1>16, Zenon DEF Sequencer
  <2> QED BY <1>2, <1>3, <1>16, <2>1 DEF Arb, End, Asking, Placing, Apart
<1>17. CASE s.st = "SD_GO"
  <2>1. s' = SdGo(t)
    BY <1>1, <1>17, Zenon DEF Sequencer
  <2> QED BY <1>2, <1>3, <1>17, <2>1 DEF SdGo, Asking, Placing, Apart
<1>18. CASE s.st = "SD_WAIT"
  <2>1. s' = SdWait(t, m)
    BY <1>1, <1>18, Zenon DEF Sequencer
  <2> QED BY <1>2, <1>3, <1>18, <2>1 DEF SdWait, Asking, Placing, Apart
<1>19. CASE s.st = "DEFAULT"
  <2>1. s' = Default(t)
    BY <1>1, <1>19, Zenon DEF Sequencer
  <2> QED BY <1>2, <1>3, <1>19, <2>1 DEF Default, Asking, Placing, Apart
<1> QED BY <1>3, <1>4, <1>5, <1>6, <1>7, <1>8, <1>9, <1>10, <1>11, <1>12, <1>13, <1>14, <1>15,
           <1>16, <1>17, <1>18, <1>19 DEF States

\* Leaving the idle state takes a handshake at rest.
LEMMA WakingEdge ==
  ASSUME NEW cmd \in Commands, NEW m, Edge(cmd, m), s.st = "IDLE", s.armed \in Bit
  PROVE  /\ s'.req = s.req /\ s'.armed \in {0, s.armed}
         /\ s'.we = s.we /\ s'.pram_default = s.pram_default
         /\ s'.st # "IDLE" => /\ s'.armed = 0
                              /\ (s.armed = 1 /\ boot_done = 1) \/ drained
<1> DEFINE t == Autoload(Latched(m), boot_done)
<1>1. s' = Command(t, cmd)
  BY Zenon DEF Edge, PramSdEdge, Latched, Counted, Sequencer
<1>2. /\ DOMAIN Latched(m) = Fields /\ Latched(m).st = "IDLE" /\ Latched(m).req = s.req
      /\ Latched(m).armed = s.armed /\ Latched(m).we = s.we
      /\ Latched(m).pram_default = s.pram_default
  BY LatchedFields, LatchedHandshake
<1>3. DOMAIN t = Fields /\ t.req = s.req /\ t.we = s.we /\ t.pram_default = s.pram_default
      /\ \/ t.armed = s.armed /\ t.st = "IDLE"
         \/ t.armed = 0 /\ s.armed = 1 /\ boot_done = 1
  BY <1>2 DEF Autoload, autoload_fires, Cleared, Fields, s_rst
<1>4. cmd # "none" => drained /\ s.armed # 1
  BY DEF Commands, autoload_pending
<1>5. s'.req = t.req /\ s'.armed = t.armed /\ s'.we = t.we /\ s'.pram_default = t.pram_default
      /\ (cmd = "none" => s' = t)
  <2> HIDE DEF t
  <2> QED BY <1>1, <1>3 DEF Command, Cleared, Fields, s_rst
<1> HIDE DEF t
<1> QED BY <1>3, <1>4, <1>5 DEF Bit

\* An edge of the core clock out of reset, as the handshake sees it.
Ticked(cmd, m) ==
  /\ Edge(cmd, m) /\ cmd \in Commands /\ CdcInv
  /\ IF arst = 1 THEN ca' = ca_rst ELSE AckEdge
  /\ BootEdge /\ UNCHANGED <<cb, pram, rc, frst, arst, brst>>

\* The acknowledge moves on by one flop; in reset it is gone.
Acked == /\ DOMAIN ca' = {"meta", "sync", "q", "rdata"}
         /\ ca'.meta \in Bit /\ ca'.sync \in Bit /\ ca'.q \in Bit
         /\ arst = 1 => Cut' /\ Broken' /\ ca'.q = 0
         /\ arst = 0 => /\ ca'.meta = cb.ack /\ ca'.sync = ca.meta /\ ca'.q = ca.sync
                        /\ ca.sync = 1 => ca'.rdata = cb.rdata
                        /\ ~Cut /\ ~Broken

\* Every edge of the core clock moves the acknowledge so.
LEMMA AckedEdge ==
  ASSUME NEW cmd, NEW m, Ticked(cmd, m)
  PROVE  Acked
  BY SMTT(60) DEF Ticked, CdcInv, HandshakeTypes, Acked, AckEdge, Cut, Broken, ca_rst, Bit

\* A busy edge keeps the handshake in order.
LEMMA BusyTick ==
  ASSUME NEW cmd, NEW m, Ticked(cmd, m), s.st # "IDLE"
  PROVE  Linked' /\ Armed' /\ s'.req \in Bit /\ s'.armed \in Bit
<1>1. /\ Acked /\ Asking /\ Staging /\ Walking /\ Transferring(m) /\ Ending
      /\ HandshakeTypes /\ Armed /\ Linked /\ s.st \in States
      /\ cb' = cb /\ arst' = arst
  BY AckedEdge, AskingEdge, Graph DEF Ticked, CdcInv, Edge, Inv, TypesOK, HandshakeTypes
<1>2. s.armed = 0 /\ s'.armed = 0
  BY <1>1 DEF Asking, Armed, HandshakeTypes, Bit
<1>3. Armed' /\ s'.armed \in Bit
  BY <1>2, ZeroOne DEF Armed, Bit
<1>4. s'.req \in Bit
  BY <1>1 DEF Asking, HandshakeTypes, Bit, States, Apart
<1>5. CASE s.st \in Apart \ {"SNAP_REQ", "INST_REQ"}
  <2>1. s'.req = 0 /\ s'.st \in Apart \cup {"DEFAULT", "DONE"}
    BY <1>1, <1>5 DEF Asking, Linked, Still, Staging, Walking, Transferring, Rewound, Failed, Apart
  <2>2. Still' \/ Cut'
    BY <1>1, <1>5, <2>1 DEF Linked, Still, Acked, HandshakeTypes, Bit
  <2> QED BY <1>3, <1>4, <2>1, <2>2 DEF Linked, Apart
<1>6. CASE s.st \in {"SNAP_REQ", "INST_REQ"}
  <2>1. /\ s.st = "SNAP_REQ" => s'.st = "SNAP_ACK" /\ s'.req = 1
        /\ s.st = "INST_REQ" => s'.st = "INST_ACK" /\ s'.req = 0
    BY <1>1, <1>6 DEF Asking, Linked, Still, Staging, Apart
  <2>2. Cut' \/ (Rising' /\ (s'.req = 0 => Still'))
    BY <1>1, <1>6 DEF Linked, Still, Rising, Acked, HandshakeTypes, Bit, Apart
  <2> QED BY <1>3, <1>4, <1>6, <2>1, <2>2 DEF Linked, Apart, Cut, Broken
<1>7. CASE s.st \in {"SNAP_ACK", "INST_ACK"}
  <2>1. CASE s'.st = "DONE"
    BY <1>3, <1>4, <2>1 DEF Linked, Apart
  <2>2. CASE s.req = 0
    <3>1. (s'.st = "INST_ACK" /\ s'.req = 1) \/ s'.st = "DONE"
      BY <1>1, <1>7, <2>2, ZeroOne DEF Asking, Linked
    <3>2. Broken' \/ Rising'
      BY <1>1, <1>7, <2>2 DEF Linked, Still, Rising, Acked, HandshakeTypes, Bit
    <3> QED BY <1>3, <1>4, <2>1, <3>1, <3>2, ZeroOne DEF Linked, Apart
  <2>3. CASE s.req = 1 /\ ca.q = 1 /\ s'.st # "DONE"
    <3>1. s'.st \in {"SNAP_REL", "INST_REL"} /\ s'.req = 0
      BY <1>1, <1>7, <2>3, ZeroOne DEF Asking
    <3>2. Broken' \/ Falling'
      BY <1>1, <1>7, <2>3 DEF Linked, Rising, Falling, Acked, HandshakeTypes, Bit
    <3> QED BY <1>3, <1>4, <3>1, <3>2 DEF Linked, Apart
  <2>4. CASE s.req = 1 /\ ca.q # 1 /\ s'.st # "DONE"
    <3>1. s'.st = s.st /\ s'.req = 1
      BY <1>1, <1>7, <2>4 DEF Asking
    <3>2. Broken' \/ Rising'
      BY <1>1, <1>7, <2>4 DEF Linked, Rising, Acked, HandshakeTypes, Bit
    <3> QED BY <1>3, <1>4, <1>7, <3>1, <3>2, ZeroOne DEF Linked, Apart
  <2> QED BY <1>1, <2>1, <2>2, <2>3, <2>4 DEF HandshakeTypes, Bit
<1>8. CASE s.st \in {"SNAP_REL", "INST_REL"}
  <2>1. s'.req = 0
    BY <1>1, <1>8 DEF Asking, Linked
  <2>2. CASE s'.st = "DONE"
    BY <1>3, <1>4, <2>2 DEF Linked, Apart
  <2>3. CASE ca.q # 1 /\ s'.st # "DONE"
    <3>1. s'.st \in Apart
      BY <1>1, <1>8, <2>3 DEF Asking, Apart
    <3>2. Still' \/ Cut'
      BY <1>1, <1>8, <2>1, <2>3 DEF Linked, Still, Falling, Acked, HandshakeTypes, Bit
    <3> QED BY <1>3, <1>4, <2>1, <3>1, <3>2 DEF Linked, Apart
  <2>4. CASE ca.q = 1 /\ s'.st # "DONE"
    <3>1. s'.st \in {"SNAP_REL", "INST_REL"}
      BY <1>1, <1>8, <2>4 DEF Asking
    <3>2. Broken' \/ Falling'
      BY <1>1, <1>8, <2>4 DEF Linked, Falling, Acked, HandshakeTypes, Bit
    <3> QED BY <1>3, <1>4, <2>1, <3>1, <3>2 DEF Linked, Apart
  <2> QED BY <2>2, <2>3, <2>4
<1>9. CASE s.st \in {"DEFAULT", "DONE"}
  <2>1. s'.st \in {"DEFAULT", "DONE", "IDLE"}
    BY <1>1, <1>9 DEF Ending
  <2> QED BY <1>3, <1>4, <2>1 DEF Linked, Apart
<1> QED BY <1>1, <1>5, <1>6, <1>7, <1>8, <1>9 DEF States, Apart

\* So does an idle one.
LEMMA IdleTick ==
  ASSUME NEW cmd, NEW m, Ticked(cmd, m), s.st = "IDLE"
  PROVE  Linked' /\ Armed' /\ s'.req \in Bit /\ s'.armed \in Bit
<1>1. /\ Acked /\ HandshakeTypes /\ Armed /\ cb' = cb /\ arst' = arst
      /\ s'.req = s.req /\ s'.armed \in {0, s.armed} /\ BootEdge
      /\ s'.st # "IDLE" => s'.armed = 0 /\ ((s.armed = 1 /\ boot_done = 1) \/ drained)
      /\ s'.st \in {"IDLE", "FILL", "ARB"}
  BY AckedEdge, WakingEdge, IdleEdge DEF Ticked, CdcInv, HandshakeTypes
<1>2. drained => Still
  BY <1>1 DEF drained, Still, HandshakeTypes, Bit
<1>3. Still \/ (Cut /\ s.req = 0) => s'.req = 0 /\ (Still' \/ Cut')
  BY <1>1 DEF Still, Acked, HandshakeTypes, Bit
<1>4. s'.st # "IDLE" => Still \/ (Cut /\ s.req = 0)
  BY <1>1, <1>2 DEF Armed
<1>5. s'.armed = 1 /\ boot_done' = 1 => Still \/ (Cut /\ s.req = 0)
  BY <1>1, <1>2 DEF Armed, BootEdge, HandshakeTypes, Bit
<1>6. Armed'
  BY <1>1, <1>3, <1>5, ZeroOne DEF Armed
<1>7. Linked'
  BY <1>1, <1>3, <1>4 DEF Linked, Apart
<1> QED BY <1>1, <1>6, <1>7 DEF HandshakeTypes, Bit

\* What an edge does to the bytes seen.
SeenKept == /\ DOMAIN ghost'.seen = PramAddr
            /\ s.st = "SNAP_REQ" /\ s.idx \in PramAddr => ghost'.seen[s.idx] = {pram[s.idx]}
            /\ \A i \in PramAddr : s.st # "DONE" /\ ~(s.st = "SNAP_REQ" /\ i = s.idx) =>
                                   ghost'.seen[i] = ghost.seen[i]

\* The history edge does so.
LEMMA SeenEdge ==
  ASSUME NEW cmd, NEW m, Edge(cmd, m)
  PROVE  SeenKept
<1>1. ghost'.seen = [i \in PramAddr |-> IF s.st = "DONE" THEN {}
                                       ELSE IF s.st = "SNAP_REQ" /\ i = s.idx THEN {pram[i]}
                                       ELSE ghost.seen[i]]
  BY DEF Edge, HistoryEdge
<1> QED BY <1>1 DEF SeenKept

\* What an edge does to the staged bytes.
PayloadKept(m) ==
  /\ s.st \in {"SNAP_REQ", "SNAP_REL", "WALK", "CKST", "ARB", "SD_GO", "SD_REL"}
     \/ (s.st = "SD_WAIT" /\ s.op # "LOAD") \/ (s.st = "SNAP_ACK" /\ ca.q # 1) =>
       \A i \in PramAddr : sec_buf'[PAYLOAD_OFF + i] = sec_buf[PAYLOAD_OFF + i]
  /\ s.st = "SNAP_ACK" /\ ca.q = 1 /\ s.idx \in PramAddr =>
       \A i \in PramAddr : sec_buf'[PAYLOAD_OFF + i] = IF i = s.idx THEN ca.rdata
                                                     ELSE sec_buf[PAYLOAD_OFF + i]

\* The buffer's writers do so.
LEMMA PayloadEdge ==
  ASSUME NEW cmd, NEW m, Edge(cmd, m)
  PROVE  PayloadKept(m)
<1>1. Buffered(m) /\ DOMAIN sec_buf = Cells /\ PramLen \in Nat \ {0}
  BY BufferEdge, PramLenAssumption DEF Edge, Inv, TypesOK
<1>2. \A i \in PramAddr : PAYLOAD_OFF + i \in Cells /\ PAYLOAD_OFF + i # CK
  BY <1>1, SMTT(60) DEF Cells, SectorLen, WALK_END, PAYLOAD_OFF, CK, PramAddr
<1>3. CASE s.st = "SNAP_ACK"
  <2> DEFINE rd == [valid |-> m = "cell", cell |-> card[sd % SectorLen]]
  <2>1. sec_buf' = BufNext(rd)
    BY Zenon DEF Edge, PramSdEdge
  <2> HIDE DEF rd
  <2>2. sec_buf' = IF ca.q = 1 THEN [sec_buf EXCEPT ![PAYLOAD_OFF + s.idx] = ca.rdata] ELSE sec_buf
    BY <1>3, <2>1 DEF BufNext, a_ack
  <2> QED BY <1>1, <1>2, <1>3, <2>2, SMTT(60) DEF PayloadKept, PramAddr, PAYLOAD_OFF
<1>4. CASE s.st = "CKST"
  BY <1>1, <1>2, <1>4 DEF Buffered, PayloadKept
<1>5. CASE s.st \notin {"SNAP_ACK", "CKST"}
  BY <1>1, <1>5 DEF Buffered, PayloadKept
<1> QED BY <1>3, <1>4, <1>5

\* An edge of the core clock keeps the byte in flight fresh.
LEMMA ReadTick ==
  ASSUME NEW cmd, NEW m, Ticked(cmd, m)
  PROVE  Read'
<1>1. /\ Acked /\ SeenKept /\ HandshakeTypes /\ Linked /\ Read /\ Stage(s, sec_buf, card, sd, ghost.images)
      /\ cb' = cb /\ arst' = arst /\ pram' = pram /\ rc' = rc /\ s.st \in States
      /\ PramLen \in Nat \ {0}
  BY AckedEdge, SeenEdge, PramLenAssumption DEF Ticked, CdcInv, Edge, Inv, TypesOK
<1>2. CASE s.st = "IDLE"
  <2>1. s'.st \in {"IDLE", "FILL", "ARB"}
    BY <1>2, IdleEdge DEF Ticked
  <2> QED BY <2>1 DEF Read
<1>3. CASE s.st # "IDLE"
  <2>1. Asking /\ Staging /\ Walking /\ Transferring(m) /\ Ending
    BY <1>1, <1>3, AskingEdge, Graph DEF Ticked, HandshakeTypes
  <2>2. s'.st = "SNAP_REQ" => s.st \in {"FILL", "SNAP_REL"} /\ s'.idx \in PramAddr
    BY <1>1, <1>3, <2>1, SMTT(60)
       DEF Asking, Staging, Walking, Transferring, Ending, Rewound, Failed, States, Read, PramAddr
  <2>3. s'.st = "SNAP_REL" => s.st \in {"SNAP_ACK", "SNAP_REL"} /\ s'.idx = s.idx
    BY <1>1, <1>3, <2>1
       DEF Asking, Staging, Walking, Transferring, Ending, Rewound, Failed, States
  <2>4. s'.st = "SNAP_ACK" => s.st = "SNAP_REQ" \/ (s.st = "SNAP_ACK" /\ ca.q # 1)
    BY <1>1, <1>3, <2>1
       DEF Asking, Staging, Walking, Transferring, Ending, Rewound, Failed, States
  <2>5. CASE s.st = "SNAP_REQ"
    <3>1. /\ s'.st = "SNAP_ACK" /\ s'.idx = s.idx /\ s.idx \in PramAddr /\ s'.addr = s.idx /\ s'.we = 0
          /\ ghost'.seen[s.idx] = {pram[s.idx]}
      BY <1>1, <2>1, <2>5 DEF Asking, Staging, Read, SeenKept
    <3>2. Cut' \/ (cb.meta = 0 /\ cb.ack = 0)
      BY <1>1, <2>5 DEF Linked, Still, Acked, HandshakeTypes, Bit, Apart
    <3>3. ca'.q = 0
      BY <1>1, <2>5 DEF Linked, Still, Acked, HandshakeTypes, Bit, Apart
    <3> QED BY <1>1, <3>1, <3>2, <3>3, ZeroOne DEF Read, Fresh
  <2>6. CASE s.st = "SNAP_ACK" /\ s'.st = "SNAP_ACK"
    <3>1. /\ s'.idx = s.idx /\ s.idx \in PramAddr /\ s'.addr = s.addr /\ s'.we = s.we
          /\ ghost'.seen[s.idx] = ghost.seen[s.idx]
      BY <1>1, <2>1, <2>6 DEF Asking, Read, SeenKept
    <3>2. ~Cut' => arst = 0 /\ ~Cut /\ Rising
      BY <1>1, <2>6 DEF Linked, Acked, HandshakeTypes, Bit
    <3>3. ca'.q = 1 => ca'.rdata = cb.rdata /\ cb.ack = 1 /\ ~Cut
      BY <1>1, <2>6 DEF Linked, Rising, Acked, HandshakeTypes, Bit
    <3> QED BY <1>1, <2>6, <3>1, <3>2, <3>3 DEF Read, Fresh
  <2> QED BY <1>1, <2>2, <2>3, <2>4, <2>5, <2>6 DEF Read
<1> QED BY <1>2, <1>3

\* It stages a fresh byte.
LEMMA SnappedTick ==
  ASSUME NEW cmd, NEW m, Ticked(cmd, m)
  PROVE  Snapped'
<1>1. /\ PayloadKept(m) /\ SeenKept /\ HandshakeTypes /\ Read /\ Snapped /\ Carded(m)
      /\ Stage(s, sec_buf, card, sd, ghost.images) /\ s.st \in States /\ s.idx \in Nat
      /\ PramLen \in Nat \ {0} /\ s.op \in {"SAVE", "SNAP", "LOAD"}
  BY PayloadEdge, SeenEdge, CardEdge, PramLenAssumption DEF Ticked, CdcInv, Edge, Inv, TypesOK
<1>2. CASE s.st = "IDLE"
  <2>1. s'.st \in {"IDLE", "FILL", "ARB"} /\ (s'.st = "ARB" => s'.op = "LOAD")
    BY <1>2, IdleEdge DEF Ticked
  <2> QED BY <2>1 DEF Snapped
<1>3. CASE s.st # "IDLE"
  <2>1. Asking /\ Staging /\ Walking /\ Transferring(m) /\ Ending /\ s'.op = s.op
    BY <1>1, <1>3, AskingEdge, Graph DEF Ticked, HandshakeTypes, Kept
  <2>2. CASE s.st = "FILL"
    BY <1>1, <2>1, <2>2, SMTT(60) DEF Staging, Asking, Snapped, PramAddr
  <2>3. CASE s.st = "SNAP_REQ"
    <3>1. s'.st = "SNAP_ACK" /\ s'.idx = s.idx /\ s.idx \in PramAddr
      BY <1>1, <2>1, <2>3 DEF Staging, Asking, Read
    <3>2. \A i \in PramAddr : i < s.idx => Staged(i)'
      BY <1>1, <2>3, SMTT(60) DEF Snapped, Staged, SeenKept, PayloadKept, PramAddr
    <3> QED BY <3>1, <3>2 DEF Snapped
  <2>4. CASE s.st = "SNAP_ACK"
    <3>1. \A i \in PramAddr : i < s.idx => Staged(i)'
      BY <1>1, <2>4, SMTT(60) DEF Snapped, Staged, SeenKept, PayloadKept, PramAddr, Read
    <3>2. \A i \in PramAddr : ca.q = 1 /\ i = s.idx => Staged(i)'
      <4>1. ca.q = 1 => /\ sec_buf'[PAYLOAD_OFF + s.idx] = ca.rdata
                        /\ ghost'.seen[s.idx] = ghost.seen[s.idx] /\ ca.rdata \in ghost.seen[s.idx]
        BY <1>1, <2>4 DEF SeenKept, PayloadKept, Read, Fresh
      <4> QED BY <4>1 DEF Staged
    <3>3. \A i \in PramAddr : ca.q = 1 /\ i <= s.idx => i < s.idx \/ i = s.idx
      BY <1>1, SMTT(60) DEF PramAddr
    <3> QED BY <2>1, <2>4, <3>1, <3>2, <3>3 DEF Asking, Snapped
  <2>5. CASE s.st = "SNAP_REL"
    <3>1. \A i \in PramAddr : i <= s.idx => Staged(i)'
      BY <1>1, <2>5 DEF Snapped, Staged, SeenKept, PayloadKept
    <3>2. \A i \in PramAddr : i < s.idx + 1 => i <= s.idx
      BY <1>1, SMTT(60) DEF PramAddr
    <3>3. s.idx = PramLen - 1 => \A i \in PramAddr : i <= s.idx
      BY <1>1, SMTT(60) DEF PramAddr
    <3> QED BY <2>1, <2>5, <3>1, <3>2, <3>3 DEF Asking, Snapped
  <2>6. CASE s.st \in {"WALK", "CKST", "ARB", "SD_GO", "SD_WAIT", "SD_REL"} /\ s.op # "LOAD"
    <3>1. \A i \in PramAddr : Staged(i)'
      BY <1>1, <2>6 DEF Snapped, Staged, SeenKept, PayloadKept
    <3>2. s'.st \in {"WALK", "CKST", "ARB", "SD_GO", "SD_WAIT", "SD_REL", "DONE"}
      BY <1>1, <2>1, <2>6 DEF Walking, Transferring, Failed, Stage
    <3>3. s'.st = "DONE" /\ s.op = "SAVE" /\ s'.res = "OK" =>
            /\ \A i \in Cells : sec_buf[i] = card[i]
            /\ card' = card /\ sec_buf' = sec_buf
      <4>1. s'.st = "DONE" /\ s.op = "SAVE" /\ s'.res = "OK" => s.st = "SD_REL" /\ s.res = "OK"
        BY <1>1, <2>1, <2>6 DEF Walking, Transferring, Failed, Stage
      <4>2. s.st = "SD_REL" => card' = card /\ sec_buf' = sec_buf
        BY <1>1, BufferEdge DEF Carded, Buffered, Ticked
      <4> QED BY <1>1, <4>1, <4>2 DEF Stage
    <3>4. \A i \in PramAddr : PAYLOAD_OFF + i \in Cells
      BY <1>1, SMTT(60) DEF Cells, SectorLen, WALK_END, PAYLOAD_OFF, PramAddr
    <3>5. s'.st = "DONE" /\ s.op = "SAVE" /\ s'.res = "OK" =>
            \A i \in PramAddr : card'[PAYLOAD_OFF + i] \in ghost'.seen[i]
      BY <3>1, <3>3, <3>4 DEF Staged
    <3> QED BY <2>1, <3>1, <3>2, <3>5 DEF Snapped
  <2>7. CASE s.op = "LOAD" /\ s.st \notin {"FILL", "SNAP_REQ", "SNAP_ACK", "SNAP_REL"}
    BY <1>1, <1>3, <2>1, <2>7
       DEF Staging, Walking, Transferring, Ending, Rewound, Failed, States, Snapped
  <2>8. CASE s.st \in {"VERDICT", "INST_REQ", "INST_ACK", "INST_REL", "DEFAULT", "DONE"} /\ s.op # "LOAD"
    BY <1>1, <2>1, <2>8 DEF Stage, Ending, Snapped
  <2> QED BY <1>1, <1>3, <2>2, <2>3, <2>4, <2>5, <2>6, <2>7, <2>8 DEF States
<1> QED BY <1>2, <1>3

\* Out of reset, an edge of the core clock keeps the handshake in order.
LEMMA TickCdc ==
  ASSUME NEW cmd, NEW m, Ticked(cmd, m)
  PROVE  CdcInv'
<1>1. Linked' /\ Armed' /\ s'.req \in Bit /\ s'.armed \in Bit
  BY BusyTick, IdleTick
<1>2. Acked /\ SeenKept /\ HandshakeTypes /\ Resets
      /\ cb' = cb /\ arst' = arst /\ brst' = brst /\ frst' = frst /\ BootEdge
  BY AckedEdge, SeenEdge DEF Ticked, CdcInv
<1>3. HandshakeTypes'
  BY <1>1, <1>2 DEF HandshakeTypes, Acked, SeenKept
<1>4. Resets'
  BY <1>2 DEF Resets, BootEdge
<1> QED BY <1>1, <1>3, <1>4, ReadTick, SnappedTick DEF CdcInv

\* In reset the sequencer is put back, and the autoload waits for the boot.
LEMMA RestCdc ==
  ASSUME Inv, CdcInv, frst = 1, s' = s_rst, BootEdge,
         IF arst = 1 THEN ca' = ca_rst ELSE AckEdge,
         ghost' = [ghost EXCEPT !.resolved = 0],
         UNCHANGED <<cb, pram, rc, frst, arst, brst>>
  PROVE  CdcInv'
<1>1. /\ s'.st = "IDLE" /\ s'.req = 0 /\ s'.armed = 1 /\ boot_done' = 0
      /\ DOMAIN ca' = {"meta", "sync", "q", "rdata"}
      /\ ca'.meta \in Bit /\ ca'.sync \in Bit /\ ca'.q \in Bit
  BY SMTT(60) DEF CdcInv, HandshakeTypes, Resets, BootEdge, AckEdge, ca_rst, s_rst, Bit
<1>2. ghost'.seen = ghost.seen
  BY DEF Inv, TypesOK
<1>3. HandshakeTypes'
  BY <1>1, <1>2 DEF CdcInv, HandshakeTypes, Bit
<1>4. Resets'
  BY <1>1 DEF CdcInv, Resets
<1> QED BY <1>1, <1>3, <1>4, ZeroOne DEF CdcInv, Armed, Linked, Read, Snapped, Apart

\* An edge of the core clock, in reset or out of it.
LEMMA CoreCdc ==
  ASSUME Inv, CdcInv, CoreEdge
  PROVE  CdcInv'
<1>1. PICK cmd \in Commands, m \in sd_moves :
        /\ IF arst = 1 THEN ca' = ca_rst ELSE AckEdge
        /\ IF frst = 1 /\ ~pram_sd_busy
           THEN /\ s' = s_rst
                /\ ghost' = [ghost EXCEPT !.resolved = 0]
           ELSE /\ PramSdEdge(cmd, boot_done, sd_gnt, m,
                              [valid |-> m = "cell", cell |-> card[sd % SectorLen]])
                /\ HistoryEdge
        /\ SdCtrl(m) /\ GrantEdge /\ BootEdge
        /\ UNCHANGED <<cb, pram, rc, frst, arst, brst>>
  BY Zenon DEF CoreEdge
<1>2. CASE frst = 1 /\ ~pram_sd_busy
  BY <1>1, <1>2, RestCdc
<1>3. CASE ~(frst = 1 /\ ~pram_sd_busy)
  <2>1. Edge(cmd, m)
    BY <1>1, <1>3, Zenon DEF Edge
  <2>2. Ticked(cmd, m)
    BY <1>1, <2>1, Zenon DEF Ticked
  <2> QED BY <2>2, TickCdc
<1> QED BY <1>2, <1>3

\* An edge of the peripheral clock, as the handshake sees it.
Taken ==
  /\ DOMAIN cb' = {"meta", "sync", "q", "ack", "ready", "rdata"}
  /\ cb'.meta \in Bit /\ cb'.sync \in Bit /\ cb'.q \in Bit /\ cb'.ack \in Bit
  /\ brst = 1 => cb' = cb_rst /\ cb'.meta = 0 /\ cb'.sync = 0 /\ cb'.ack = 0
  /\ brst = 0 => /\ cb'.meta = s.req /\ cb'.sync = cb.meta /\ cb'.q = cb.sync
                 /\ \/ cb'.ack = 1 /\ cb'.rdata = rc.ext /\ cb.sync = 1 /\ cb.ack = 0
                    \/ cb'.ack = 0 /\ cb.sync = 0 /\ cb.q = 1
                    \/ cb'.ack = cb.ack /\ cb'.rdata = cb.rdata /\ ~(cb.sync = 0 /\ cb.q = 1)

\* And what it adds to the history.
PbTicked ==
  /\ Taken /\ rc'.ext = pram[s.addr]
  /\ DOMAIN ghost'.seen = PramAddr
  /\ \A i \in PramAddr : /\ ghost.seen[i] \subseteq ghost'.seen[i]
                         /\ s.req = 1 /\ s.we = 0 /\ i = s.addr => pram'[i] \in ghost'.seen[i]
  /\ UNCHANGED <<ca, s, sec_buf, card, boot_done, frst, arst, brst>>

\* Every edge of the peripheral clock does so.
LEMMA PbEdgeTaken ==
  ASSUME Inv, CdcInv, PbEdge
  PROVE  PbTicked
<1> DEFINE ready == IF pram_busy THEN 0 ELSE 1
<1>1. /\ IF brst = 1 THEN cb' = cb_rst ELSE ReqEdge(s.req, ready, rc.ext)
      /\ UNCHANGED <<ca, s, sec_buf, card, boot_done, frst, arst, brst>>
      /\ \E clear, ser, ext_we : RtcEdge(brst, clear, ser, ext_we, s.addr, s.wdata)
      /\ \E quiet : ghost' = [ghost EXCEPT
             !.seen = [i \in PramAddr |-> IF s.req = 1 /\ s.we = 0 /\ i = s.addr
                                          THEN @[i] \cup {pram'[i]} ELSE @[i]],
             !.quiet = quiet]
  BY Zenon DEF PbEdge
<1>2. rc'.ext = pram[s.addr]
  BY <1>1, SMTT(60) DEF RtcEdge
<1>3. HandshakeTypes /\ DOMAIN ghost = {"seen", "images", "quiet", "resolved"}
  BY DEF CdcInv, Inv, TypesOK
<1>4. ghost'.seen = [i \in PramAddr |-> IF s.req = 1 /\ s.we = 0 /\ i = s.addr
                                       THEN ghost.seen[i] \cup {pram'[i]} ELSE ghost.seen[i]]
  BY <1>1, <1>3
<1>5. Taken
  <2>1. CASE brst = 1
    BY <1>1, <2>1, SMTT(60) DEF Taken, cb_rst, Bit
  <2>2. CASE brst # 1
    BY <1>1, <1>3, <2>2, SMTT(60) DEF Taken, ReqEdge, accept_b, req_b_fall, HandshakeTypes, Bit
  <2> QED BY <2>1, <2>2
<1> QED BY <1>1, <1>2, <1>4, <1>5 DEF PbTicked

\* It keeps the handshake in order.
LEMMA PbLinked ==
  ASSUME CdcInv, PbTicked
  PROVE  /\ HandshakeTypes' /\ Resets' /\ Armed' /\ Linked'
<1>1. HandshakeTypes /\ Resets /\ Armed /\ Linked /\ Taken /\ DOMAIN ghost'.seen = PramAddr
      /\ ca' = ca /\ s' = s /\ boot_done' = boot_done /\ frst' = frst /\ arst' = arst /\ brst' = brst
  BY DEF CdcInv, PbTicked
<1>2. HandshakeTypes'
  BY <1>1 DEF HandshakeTypes, Taken
<1>3. Resets'
  BY <1>1 DEF Resets, Taken
<1>4. Still => Still'
  BY <1>1 DEF Still, Taken, HandshakeTypes, Bit
<1>5. Cut => Cut'
  BY <1>1 DEF Cut
<1>6. Broken => Broken'
  BY <1>1 DEF Broken, Resets, Taken
<1>7. Rising /\ s.req = 1 => Rising' \/ Broken'
  <2>1. CASE brst = 1
    <3>1. arst = 1 \/ (cb.ack = 0 /\ cb.sync = 0)
      BY <1>1, <2>1, SMTT(60) DEF Resets, HandshakeTypes, Bit, cb_rst
    <3> QED BY <1>1, <2>1, <3>1 DEF Rising, Broken, Taken, HandshakeTypes, Bit
  <2>2. CASE brst = 0
    BY <1>1, <2>2 DEF Rising, Taken, HandshakeTypes, Bit
  <2> QED BY <1>1, <2>1, <2>2 DEF HandshakeTypes, Bit
<1>8. Falling /\ s.req = 0 => Falling'
  BY <1>1 DEF Falling, Resets, Taken, HandshakeTypes, Bit, cb_rst
<1>9. Armed'
  BY <1>1, <1>4, <1>5 DEF Armed
<1>10. Linked'
  BY <1>1, <1>4, <1>5, <1>6, <1>7, <1>8 DEF Linked
<1> QED BY <1>2, <1>3, <1>9, <1>10

\* It hands over a fresh byte.
LEMMA PbSeen ==
  ASSUME CdcInv, PbTicked
  PROVE  Read' /\ Snapped'
<1>1. /\ HandshakeTypes /\ Resets /\ Linked /\ Read /\ Snapped /\ Taken /\ rc'.ext = pram[s.addr]
      /\ \A i \in PramAddr : /\ ghost.seen[i] \subseteq ghost'.seen[i]
                             /\ s.req = 1 /\ s.we = 0 /\ i = s.addr => pram'[i] \in ghost'.seen[i]
      /\ ca' = ca /\ s' = s /\ sec_buf' = sec_buf /\ card' = card /\ arst' = arst /\ brst' = brst
  BY DEF CdcInv, PbTicked
<1>4. \A i \in PramAddr : Staged(i) => Staged(i)'
  BY <1>1 DEF Staged
<1>5. \A i \in PramAddr : card[PAYLOAD_OFF + i] \in ghost.seen[i] => card[PAYLOAD_OFF + i] \in ghost'.seen[i]
  BY <1>1
<1>6. Snapped'
  BY <1>1, <1>4, <1>5 DEF Snapped
<1>2. CASE s.st = "SNAP_ACK"
  <2>1. /\ s.idx \in PramAddr /\ s.addr = s.idx /\ s.we = 0 /\ s.req = 1 /\ Fresh(pram[s.idx])
        /\ Broken \/ Rising
    BY <1>1, <1>2 DEF Read, Linked
  <2>2. pram'[s.idx] \in ghost'.seen[s.idx] /\ rc'.ext \in ghost'.seen[s.idx]
        /\ ghost.seen[s.idx] \subseteq ghost'.seen[s.idx]
    BY <1>1, <2>1 DEF Fresh
  <2>3. cb'.ack = 1 /\ ~Cut => cb'.rdata \in ghost'.seen[s.idx]
    <3>1. brst = 0 \/ cb'.ack = 0
      BY <1>1 DEF Taken, HandshakeTypes, Bit
    <3>2. CASE brst = 0 /\ ~Cut /\ cb'.ack = 1
      <4>1. Rising
        BY <1>1, <2>1, <3>2, ZeroOne DEF Broken, Resets, HandshakeTypes, Bit
      <4> QED BY <1>1, <1>2, <2>2, <3>2, <4>1, ZeroOne DEF Taken, Rising, Read, Fresh
    <3> QED BY <1>1, <3>1, <3>2, ZeroOne
  <2>4. ca.q = 1 => ca.rdata \in ghost'.seen[s.idx]
    BY <1>1, <1>2, <2>2 DEF Read, Fresh
  <2>5. Cut' <=> Cut
    BY <1>1 DEF Cut
  <2> QED BY <1>1, <1>2, <2>1, <2>2, <2>3, <2>4, <1>6, <2>5 DEF Read, Fresh
<1>3. CASE s.st # "SNAP_ACK"
  BY <1>1, <1>3, <1>6 DEF Read
<1> QED BY <1>2, <1>3

\* The two together.
LEMMA PbCdc ==
  ASSUME Inv, CdcInv, PbEdge
  PROVE  CdcInv'
  BY PbEdgeTaken, PbLinked, PbSeen DEF CdcInv

\* The zap, the start and the end of a reset: the registers stay.
LEMMA ResetCdc ==
  ASSUME Inv, CdcInv,
         Zap \/ (\E board \in {0, 1} : Reset(board)) \/ ResetEnds \/ UNCHANGED vars
  PROVE  CdcInv'
<1>1. /\ UNCHANGED <<ca, cb, pram, rc, s, sec_buf, card>> /\ ghost'.seen = ghost.seen
  <2>1. CASE Zap
    <3>1. ghost' = [ghost EXCEPT !.quiet = 0] /\ UNCHANGED hwVars /\ card' = card
      BY <2>1 DEF Zap
    <3> QED BY <3>1 DEF hwVars, Inv, TypesOK
  <2>2. CASE ~Zap
    BY <2>2 DEF Reset, ResetEnds, vars, hwVars
  <2> QED BY <2>1, <2>2
<1>2. HandshakeTypes /\ Resets /\ Armed /\ Linked /\ Read /\ Snapped
  BY DEF CdcInv
<1>3. Snapped'
  BY <1>1, <1>2 DEF Snapped, Staged
<1>4. CASE UNCHANGED <<boot_done, frst, arst, brst>>
  <2>1. boot_done' = boot_done /\ frst' = frst /\ arst' = arst /\ brst' = brst
    BY <1>4
  <2>2. HandshakeTypes' /\ Resets' /\ Armed'
    BY <1>1, <1>2, <2>1 DEF HandshakeTypes, Resets, Armed, Still, Cut
  <2>3. Linked'
    BY <1>1, <1>2, <2>1 DEF Linked, Still, Cut, Broken, Rising, Falling
  <2>4. Read'
    BY <1>1, <1>2, <2>1 DEF Read, Cut, Fresh
  <2> QED BY <1>3, <2>2, <2>3, <2>4 DEF CdcInv
<1>5. CASE \E board \in {0, 1} : Reset(board)
  <2>1. /\ arst = 0 /\ brst = 0 /\ frst' = 1 /\ boot_done' = 0 /\ arst' = brst' /\ arst' \in Bit
    BY <1>2, <1>5 DEF Reset, Resets, HandshakeTypes, Bit
  <2>2. HandshakeTypes' /\ Resets' /\ Armed'
    <3>1. HandshakeTypes'
      BY <1>1, <1>2, <2>1 DEF HandshakeTypes
    <3>2. Resets'
      BY ZeroOne, <2>1 DEF Resets
    <3>3. Armed'
      BY ZeroOne, <1>1, <1>2, <2>1 DEF Armed
    <3> QED BY <3>1, <3>2, <3>3
  <2>5. ~Cut /\ ~Broken
    BY ZeroOne, <2>1 DEF Cut, Broken
  <2>3. Linked'
    BY <1>1, <1>2, <2>5 DEF Linked, Still, Rising, Falling
  <2>4. Read'
    BY <1>1, <1>2, <2>5 DEF Read, Fresh
  <2> QED BY <1>3, <2>2, <2>3, <2>4 DEF CdcInv
<1>6. CASE ResetEnds
  <2>1. CASE frst = 0 /\ arst' = arst /\ frst' = frst /\ brst' = 0 /\ boot_done' = boot_done
    <3>1. arst = 0
      BY <1>2, <2>1 DEF Resets, HandshakeTypes, Bit
    <3>2. ~Cut /\ ~Broken
      BY ZeroOne, <3>1 DEF Cut, Broken
    <3>3. HandshakeTypes' /\ Resets' /\ Armed'
      <4>1. HandshakeTypes'
        BY <1>1, <1>2, <2>1 DEF HandshakeTypes, Bit
      <4>2. Resets'
        BY ZeroOne, <1>2, <2>1, <3>1 DEF Resets
      <4>3. Armed'
        BY <1>1, <1>2, <2>1, <3>2 DEF Armed, Still
      <4> QED BY <4>1, <4>2, <4>3
    <3>4. Linked'
      BY <1>1, <1>2, <3>2 DEF Linked, Still, Rising, Falling
    <3>5. Read'
      BY <1>1, <1>2, <3>2 DEF Read, Fresh
    <3> QED BY <1>3, <3>3, <3>4, <3>5 DEF CdcInv
  <2>2. CASE /\ frst' = 0 /\ arst' = 0 /\ brst' = brst /\ boot_done' = boot_done
             /\ arst = 1 => ca = ca_rst /\ cb = cb_rst
    <3>1. arst = 0 \/ (ca.meta = 0 /\ ca.sync = 0 /\ ca.q = 0 /\ cb = cb_rst
                       /\ cb.meta = 0 /\ cb.sync = 0 /\ cb.ack = 0)
      BY <1>2, <2>2, SMTT(60) DEF HandshakeTypes, Bit, ca_rst, cb_rst
    <3>2. HandshakeTypes' /\ Resets'
      <4>1. HandshakeTypes'
        BY <1>1, <1>2, <2>2 DEF HandshakeTypes, Bit
      <4>2. Resets'
        BY ZeroOne, <1>1, <1>2, <2>2, <3>1 DEF Resets
      <4> QED BY <4>1, <4>2
    <3>3. Armed'
      BY <1>1, <1>2, <2>2, <3>1 DEF Armed, Still, Cut
    <3>4. Linked'
      BY <1>1, <1>2, <2>2, <3>1 DEF Linked, Still, Cut, Broken, Rising, Falling
    <3>5. Read'
      BY <1>1, <1>2, <2>2, <3>1 DEF Read, Cut, Fresh
    <3> QED BY <1>3, <3>2, <3>3, <3>4, <3>5 DEF CdcInv
  <2> QED BY <1>6, <2>1, <2>2 DEF ResetEnds
<1> QED BY <1>4, <1>5, <1>6 DEF Zap, vars

\* At power-on nothing is in flight.
LEMMA PowerOn ==
  ASSUME NEW x, x = s_rst
  PROVE  x.st = "IDLE" /\ x.req = 0 /\ x.armed = 1
  BY DEF s_rst

\* The power goes and comes back.
LEMMA PowerCdc ==
  ASSUME Inv, CdcInv, PowerCut
  PROVE  CdcInv'
<1>1. /\ s'.st = "IDLE" /\ s'.req = 0 /\ s'.armed = 1
      /\ ca' = ca_rst /\ cb' = cb_rst /\ boot_done' = 0 /\ frst' = 0 /\ arst' = 0 /\ brst' = 0
  BY PowerOn DEF PowerCut
<1>2. ghost'.seen = ghost.seen
  <2>1. ghost' = [ghost EXCEPT !.quiet = 0, !.resolved = 0]
    BY DEF PowerCut
  <2> QED BY <2>1 DEF Inv, TypesOK
<1>3. HandshakeTypes'
  BY <1>1, <1>2 DEF CdcInv, HandshakeTypes, Bit, ca_rst, cb_rst
<1> QED BY <1>1, <1>3, ZeroOne DEF CdcInv, Resets, Armed, Linked, Read, Snapped, Apart

\* At the start nothing is in flight.
LEMMA StartCdc == Init => CdcInv
<1> SUFFICES ASSUME Init PROVE CdcInv
  OBVIOUS
<1>1. /\ s.st = "IDLE" /\ s.req = 0 /\ s.armed = 1
      /\ ca = ca_rst /\ cb = cb_rst /\ boot_done = 0 /\ frst = 0 /\ arst = 0 /\ brst = 0
      /\ DOMAIN ghost.seen = PramAddr
  BY PowerOn DEF Init, NewGhost
<1>2. HandshakeTypes
  BY <1>1 DEF HandshakeTypes, Bit, ca_rst, cb_rst
<1> QED BY <1>1, <1>2, ZeroOne DEF CdcInv, Resets, Armed, Linked, Read, Snapped, Apart

\* Every step keeps the invariant of the handshake.
LEMMA NextCdc ==
  ASSUME Inv, CdcInv, [Next]_vars
  PROVE  CdcInv'
  BY CoreCdc, PbCdc, ResetCdc, PowerCdc DEF Next

-----------------------------------------------------------------------------
(* The bytes a LOAD installs                                               *)

\* No sweep is running or about to.
Calm == rc.meta = 0 /\ rc.sync = 0 /\ rc.active = 0

\* Byte i of the sector is in the PRAM.
Put(i) == pram[i] = sec_buf[PAYLOAD_OFF + i]

\* A quiet operation meets no zap, and the defaults are asked for only in
\* S_DEFAULT.
Hushed == /\ rc.meta \in Bit /\ rc.sync \in Bit /\ rc.active \in Bit
          /\ pram = [i \in PramAddr |-> pram[i]]
          /\ ghost.quiet = 1 => zap = 0
          /\ s.st # "DEFAULT" => s.pram_default = 0

\* The request of an installation holds its byte and its address.
Held == /\ s.we = 1 => s.st = "INST_ACK" /\ s.req = 1
        /\ s.st \in {"INST_REQ", "INST_ACK", "INST_REL"} => s.idx \in PramAddr
        /\ s.st = "INST_ACK" => s.addr = s.idx
        /\ s.st = "INST_ACK" /\ s.req = 1 => s.we = 1 /\ s.wdata = sec_buf[PAYLOAD_OFF + s.idx]

\* Once the request has been seen, the clear that came before it has drained;
\* once it is acknowledged, the byte is in place.
Placed == s.st = "INST_ACK" /\ s.req = 1 =>
            /\ cb.meta = 1 /\ ~Cut => rc.meta = 0
            /\ cb.sync = 1 /\ ~Cut => rc.meta = 0 /\ rc.sync = 0
            /\ cb.ack = 1 /\ ~Cut => Calm /\ Put(s.idx)
            /\ ca.q = 1 => Calm /\ Put(s.idx)

\* How much of the sector is in place, by the state of the sequencer.
Installed == /\ s.st \in {"INST_REQ", "INST_ACK"} =>
                  (s.idx > 0 => Calm) /\ \A i \in PramAddr : i < s.idx => Put(i)
             /\ s.st = "INST_REL" => Calm /\ \A i \in PramAddr : i <= s.idx => Put(i)
             /\ s.st = "DONE" /\ s.op = "LOAD" /\ s.res = "OK" => Calm /\ \A i \in PramAddr : Put(i)

\* The inductive invariant of an installation.
InstInv == Hushed /\ Held /\ (ghost.quiet = 1 => Placed /\ Installed)

\* The history of an operation: the quiet it started in.
LEMMA QuietEdge ==
  ASSUME NEW cmd, NEW m, Edge(cmd, m)
  PROVE  /\ s.st # "IDLE" /\ ghost'.quiet = 1 => ghost.quiet = 1 /\ s.st # "DONE"
         /\ ghost'.quiet = 1 => ghost.quiet = 1 \/ zap = 0
<1>1. ghost'.quiet = IF s.st = "IDLE" /\ s'.st # "IDLE" THEN IF zap = 0 /\ ~pram_busy THEN 1 ELSE 0
                    ELSE IF s.st = "DONE" THEN 0 ELSE ghost.quiet
  BY DEF Edge, HistoryEdge
<1> QED BY <1>1, ZeroOne

\* A busy edge of the core clock.
LEMMA InstBusy ==
  ASSUME NEW cmd, NEW m, Ticked(cmd, m), s.st # "IDLE", InstInv, zap' = zap
  PROVE  InstInv'
<1>1. /\ Acked /\ Asking /\ Placing /\ Staging /\ Walking /\ Transferring(m) /\ Ending /\ Kept
      /\ HandshakeTypes /\ Linked /\ s.st \in States /\ s.op \in {"SAVE", "SNAP", "LOAD"}
      /\ Stage(s, sec_buf, card, sd, ghost.images)
      /\ cb' = cb /\ arst' = arst /\ pram' = pram /\ rc' = rc
      /\ PramLen \in Nat \ {0} /\ s.idx \in Nat
  BY AckedEdge, AskingEdge, Graph, PramLenAssumption
     DEF Ticked, CdcInv, Edge, Inv, TypesOK, HandshakeTypes
<1>2. /\ ghost'.quiet = 1 => ghost.quiet = 1 /\ s.st # "DONE"
      /\ Hushed /\ Held /\ (ghost.quiet = 1 => Placed /\ Installed)
  BY QuietEdge DEF Ticked, InstInv
<1>3. Hushed'
  BY <1>1, <1>2 DEF Hushed, Placing
<1>4. s.st \in {"VERDICT", "INST_REQ", "INST_ACK", "INST_REL"} => sec_buf' = sec_buf
  <2>1. s.st = "VERDICT" => s.op = "LOAD"
    BY <1>1 DEF Stage
  <2> QED BY <2>1, BufferEdge DEF Buffered, Ticked
<1>5. s'.st = "INST_REQ" => s.st \in {"VERDICT", "INST_REL"}
  BY <1>1 DEF Staging, Walking, Transferring, Ending, Rewound, Failed, States
<1>6. s'.st = "INST_ACK" => s.st \in {"INST_REQ", "INST_ACK"}
  BY <1>1 DEF Staging, Walking, Transferring, Ending, Rewound, Failed, States
<1>7. s'.st = "INST_REL" => s.st \in {"INST_ACK", "INST_REL"}
  BY <1>1 DEF Staging, Walking, Transferring, Ending, Rewound, Failed, States
<1>8. s'.st = "DONE" /\ s'.op = "LOAD" /\ s'.res = "OK" => s.st = "INST_REL" /\ s.idx = PramLen - 1
  BY <1>1 DEF Staging, Walking, Transferring, Ending, Rewound, Failed, States, Kept, Stage, Placing
<1>9. Held'
  <2>1. s'.we = 1 => s'.st = "INST_ACK" /\ s'.req = 1
    BY ZeroOne, <1>1, <1>2 DEF Held, Placing, Asking, HandshakeTypes, Bit
  <2>2. s'.st = "INST_REQ" => s'.idx \in PramAddr
    <3>1. s'.st = "INST_REQ" =>
            s'.idx = 0 \/ (s.idx \in PramAddr /\ s'.idx = s.idx + 1 /\ s.idx # PramLen - 1)
      BY <1>1, <1>2, <1>5 DEF Held, Placing
    <3> QED BY <3>1, PramLenAssumption, SMTT(60) DEF PramAddr
  <2>3. s'.st = "INST_ACK" => /\ s'.idx \in PramAddr /\ s'.addr = s'.idx
                              /\ s'.req = 1 => s'.we = 1 /\ s'.wdata = sec_buf'[PAYLOAD_OFF + s'.idx]
    <3>1. CASE s.st = "INST_REQ"
      BY ZeroOne, <1>1, <1>2, <3>1 DEF Held, Placing, Asking, Linked, Apart, Still
    <3>2. CASE s.st = "INST_ACK"
      BY <1>1, <1>2, <1>4, <3>2 DEF Held, Placing, Asking, HandshakeTypes, Bit
    <3> QED BY <1>6, <3>1, <3>2
  <2>4. s'.st = "INST_REL" => s'.idx \in PramAddr
    BY <1>1, <1>2, <1>7 DEF Held, Placing
  <2> QED BY <2>1, <2>2, <2>3, <2>4 DEF Held
<1>10. ASSUME ghost'.quiet = 1 PROVE Placed'
  <2> SUFFICES ASSUME s'.st = "INST_ACK", s'.req = 1 PROVE Placed'
    BY DEF Placed
  <2>1. CASE s.st = "INST_ACK" /\ s.req = 1
    <3>1. /\ s'.idx = s.idx /\ sec_buf' = sec_buf /\ Placed
      BY <1>1, <1>2, <1>4, <1>10, <2>1 DEF Placing
    <3>2. ~Cut' => arst = 0 /\ ~Cut /\ Rising
      BY <1>1, <2>1 DEF Linked, Acked, HandshakeTypes, Bit
    <3>3. ca'.q = 1 => cb.ack = 1 /\ ~Cut
      BY <1>1, <2>1 DEF Linked, Rising, Acked, HandshakeTypes, Bit
    <3> QED BY <1>1, <2>1, <3>1, <3>2, <3>3 DEF Placed, Put, Calm
  <2>2. CASE ~(s.st = "INST_ACK" /\ s.req = 1)
    <3>1. s.st = "INST_ACK" /\ s.req = 0
      BY ZeroOne, <1>1, <1>6, <2>2 DEF Asking, Linked, Apart, Still, HandshakeTypes, Bit
    <3>2. Cut' \/ (cb.meta = 0 /\ cb.sync = 0 /\ cb.ack = 0)
      BY <1>1, <3>1 DEF Linked, Still, Acked, HandshakeTypes, Bit
    <3>3. ca'.q = 0
      BY <1>1, <3>1 DEF Linked, Still, Acked, HandshakeTypes, Bit
    <3> QED BY ZeroOne, <1>1, <3>2, <3>3 DEF Placed
  <2> QED BY <2>1, <2>2
<1>11. ASSUME ghost'.quiet = 1 PROVE Installed'
  <2>1. Placed /\ Installed
    BY <1>2, <1>11
  <2>2. s'.st = "INST_REQ" => /\ s'.idx > 0 => Calm
                              /\ \A i \in PramAddr : i < s'.idx => Put(i) /\ sec_buf' = sec_buf
    <3>1. CASE s.st = "VERDICT"
      <4>1. s'.st = "INST_REQ" => s'.idx = 0
        BY <1>1, <3>1 DEF Placing
      <4> QED BY <4>1, SMTT(60) DEF PramAddr
    <3>2. CASE s.st = "INST_REL"
      <4>1. s'.st = "INST_REQ" => s'.idx = s.idx + 1
        BY <1>1, <3>2 DEF Placing
      <4>2. \A i \in PramAddr : i < s.idx + 1 => i <= s.idx
        BY <1>1, SMTT(60) DEF PramAddr
      <4> QED BY <1>4, <2>1, <3>2, <4>1, <4>2 DEF Installed
    <3> QED BY <1>5, <3>1, <3>2
  <2>3. s'.st = "INST_ACK" => /\ s'.idx = s.idx /\ sec_buf' = sec_buf /\ (s.idx > 0 => Calm)
                              /\ \A i \in PramAddr : i < s.idx => Put(i)
    BY <1>1, <1>4, <1>6, <2>1 DEF Placing, Installed
  <2>4. s'.st = "INST_REL" => /\ s'.idx = s.idx /\ sec_buf' = sec_buf /\ Calm
                              /\ \A i \in PramAddr : i <= s.idx => Put(i)
    <3>1. CASE s.st = "INST_ACK"
      <4>1. \A i \in PramAddr : i <= s.idx => i < s.idx \/ i = s.idx
        BY <1>1, SMTT(60) DEF PramAddr
      <4> QED BY <1>1, <1>4, <2>1, <3>1, <4>1 DEF Placing, Placed, Installed
    <3>2. CASE s.st = "INST_REL"
      BY <1>1, <1>4, <2>1, <3>2 DEF Placing, Installed
    <3> QED BY <1>7, <3>1, <3>2
  <2>5. s'.st = "DONE" /\ s'.op = "LOAD" /\ s'.res = "OK" =>
          Calm /\ sec_buf' = sec_buf /\ \A i \in PramAddr : Put(i)
    <3>1. s.idx = PramLen - 1 => \A i \in PramAddr : i <= s.idx
      BY <1>1, SMTT(60) DEF PramAddr
    <3> QED BY <1>4, <1>8, <2>1, <3>1 DEF Installed
  <2>6. (Calm => Calm') /\ \A i \in PramAddr : Put(i) /\ sec_buf' = sec_buf => Put(i)'
    BY <1>1 DEF Calm, Put
  <2> QED BY <2>2, <2>3, <2>4, <2>5, <2>6 DEF Installed
<1> QED BY <1>3, <1>9, <1>10, <1>11 DEF InstInv

\* A sequencer that installs nothing.
LEMMA InstIdle ==
  ASSUME Hushed', ~(s'.we = 1),
         s'.st \notin {"INST_REQ", "INST_ACK", "INST_REL", "DONE"}
  PROVE  InstInv'
  BY DEF InstInv, Held, Placed, Installed

\* An edge of the core clock, in reset or out of it.
LEMMA InstCore ==
  ASSUME Inv, CdcInv, InstInv, CoreEdge
  PROVE  InstInv'
<1>1. PICK cmd \in Commands, m \in sd_moves :
        /\ IF arst = 1 THEN ca' = ca_rst ELSE AckEdge
        /\ IF frst = 1 /\ ~pram_sd_busy
           THEN /\ s' = s_rst
                /\ ghost' = [ghost EXCEPT !.resolved = 0]
           ELSE /\ PramSdEdge(cmd, boot_done, sd_gnt, m,
                              [valid |-> m = "cell", cell |-> card[sd % SectorLen]])
                /\ HistoryEdge
        /\ SdCtrl(m) /\ GrantEdge /\ BootEdge
        /\ UNCHANGED <<cb, pram, rc, frst, arst, brst>> /\ zap' = zap
  BY Zenon DEF CoreEdge
<1>2. Hushed /\ Held /\ DOMAIN ghost = {"seen", "images", "quiet", "resolved"}
      /\ HandshakeTypes
  BY DEF InstInv, Inv, TypesOK, CdcInv
<1>3. CASE frst = 1 /\ ~pram_sd_busy
  <2>1. s'.st = "IDLE" /\ s'.we = 0 /\ s'.pram_default = 0
    BY <1>1, <1>3, SMTT(60) DEF s_rst
  <2>2. ghost'.quiet = ghost.quiet
    BY <1>1, <1>2, <1>3
  <2>3. Hushed'
    BY <1>1, <1>2, <2>1, <2>2 DEF Hushed
  <2> QED BY <2>1, <2>3, InstIdle, ZeroOne
<1>4. CASE ~(frst = 1 /\ ~pram_sd_busy)
  <2>1. Edge(cmd, m)
    BY <1>1, <1>4, Zenon DEF Edge
  <2>2. Ticked(cmd, m)
    BY <1>1, <2>1, Zenon DEF Ticked
  <2>3. CASE s.st = "IDLE"
    <3>1. s'.we = s.we /\ s'.pram_default = s.pram_default /\ s'.st \in {"IDLE", "FILL", "ARB"}
      BY <1>2, <2>1, <2>3, WakingEdge, IdleEdge DEF HandshakeTypes
    <3>2. ghost'.quiet = 1 => ghost.quiet = 1 \/ zap = 0
      BY <2>1, QuietEdge
    <3>3. Hushed'
      BY <1>1, <1>2, <2>3, <3>1, <3>2 DEF Hushed
    <3>4. ~(s'.we = 1)
      BY <1>2, <2>3, <3>1 DEF Held
    <3> QED BY <3>1, <3>3, <3>4, InstIdle
  <2>4. CASE s.st # "IDLE"
    BY <1>1, <2>2, <2>4, InstBusy
  <2> QED BY <2>3, <2>4
<1> QED BY <1>3, <1>4

\* An edge of the peripheral clock, as the PRAM sees it.
Swept ==
  /\ rc'.meta \in Bit /\ rc'.sync \in Bit /\ rc'.active \in Bit
  /\ pram' = [i \in PramAddr |-> pram'[i]]
  /\ ghost'.quiet = 1 =>
       /\ ghost.quiet = 1
       /\ s.st # "DEFAULT" => rc'.meta = 0
       /\ rc.meta = 0 => rc'.sync = 0
       /\ rc.sync = 0 /\ rc.active = 0 => rc'.active = 0
       /\ \A i \in PramAddr : rc.active = 0 /\ ~(s.we = 1 /\ i = s.addr) => pram'[i] = pram[i]
       /\ s.we = 1 /\ brst = 0 /\ cb.ack = 0 /\ cb'.ack = 1 =>
            /\ rc.sync = 0 /\ rc.active = 0
            /\ \A i \in PramAddr : i = s.addr => pram'[i] = s.wdata
       /\ \A i \in PramAddr : rc.active = 0 => pram'[i] = pram[i] \/ (i = s.addr /\ s.we = 1 /\ pram'[i] = s.wdata)

\* Every edge of the peripheral clock does so.
LEMMA PbSwept ==
  ASSUME Inv, CdcInv, InstInv, PbEdge
  PROVE  Swept /\ (ghost'.quiet = 1 => zap' = 0)
<1>1. PICK ser \in MacWrites :
        LET ready == IF pram_busy THEN 0 ELSE 1
            clear == IF zap > 0 \/ s.pram_default = 1 THEN 1 ELSE 0
            ext_we == accept_b(ready) /\ brst = 0 /\ s.we = 1
        IN /\ IF brst = 1 THEN cb' = cb_rst ELSE ReqEdge(s.req, ready, rc.ext)
           /\ RtcEdge(brst, clear, ser, ext_we, s.addr, s.wdata)
           /\ zap' = IF zap > 0 THEN zap - 1 ELSE 0
           /\ ghost' = [ghost EXCEPT
                !.seen = [i \in PramAddr |-> IF s.req = 1 /\ s.we = 0 /\ i = s.addr
                                             THEN @[i] \cup {pram'[i]} ELSE @[i]],
                !.quiet = IF ser # NoWrite THEN 0 ELSE @]
  BY Zenon DEF PbEdge
<1> DEFINE ready == IF pram_busy THEN 0 ELSE 1
           clear == IF zap > 0 \/ s.pram_default = 1 THEN 1 ELSE 0
           ext_we == accept_b(ready) /\ brst = 0 /\ s.we = 1
<1>2. Hushed /\ HandshakeTypes /\ DOMAIN ghost = {"seen", "images", "quiet", "resolved"}
  BY DEF InstInv, CdcInv, Inv, TypesOK
<1>3. ghost'.quiet = IF ser # NoWrite THEN 0 ELSE ghost.quiet
  BY <1>1, <1>2
<1>4. ghost'.quiet = 1 => ser = NoWrite /\ ghost.quiet = 1 /\ zap = 0
  BY <1>2, <1>3, ZeroOne DEF Hushed
<1>5. ghost'.quiet = 1 => zap' = 0 /\ (s.st # "DEFAULT" => clear = 0)
  BY <1>1, <1>2, <1>4, SMTT(60) DEF Hushed
<1>6. clear \in Bit
  BY DEF Bit
<1>7. /\ rc'.meta = (IF brst = 1 THEN 0 ELSE clear) /\ rc'.sync = (IF brst = 1 THEN 0 ELSE rc.meta)
      /\ rc'.active = Sweep.active
      /\ pram' = PramNext(ser, ext_we, s.addr, s.wdata)
  <2> HIDE DEF clear, ext_we
  <2>1. RtcEdge(brst, clear, ser, ext_we, s.addr, s.wdata)
    BY <1>1, Zenon DEF clear, ext_we
  <2> QED BY <2>1 DEF RtcEdge
<1> HIDE DEF clear
<1>8. rc'.active \in Bit /\ (rc.sync = 0 /\ rc.active = 0 => rc'.active = 0)
  BY <1>2, <1>7 DEF Sweep, Hushed, Bit
<1>9. brst = 0 /\ cb.ack = 0 /\ cb'.ack = 1 => accept_b(ready) /\ rc.sync = 0 /\ rc.active = 0
  <2>1. brst # 1 => ReqEdge(s.req, ready, rc.ext)
    BY <1>1, Zenon
  <2>2. brst = 0 /\ cb.ack = 0 /\ cb'.ack = 1 => accept_b(ready)
    <3> HIDE DEF ready
    <3> QED BY <2>1, SMTT(60) DEF ReqEdge
  <2>3. accept_b(ready) => rc.sync = 0 /\ rc.active = 0
    BY <1>2 DEF accept_b, pram_busy, Hushed, Bit
  <2> QED BY <2>2, <2>3
<1> HIDE DEF ready, ext_we
<1>10. ghost'.quiet = 1 =>
         \A i \in PramAddr : rc.active = 0 =>
            pram'[i] = IF ext_we /\ ~pram_busy /\ i = s.addr THEN s.wdata ELSE pram[i]
  BY <1>4, <1>7, ZeroOne DEF PramNext
<1>11. ext_we => s.we = 1
  BY DEF ext_we
<1>12. s.we = 1 /\ brst = 0 /\ cb.ack = 0 /\ cb'.ack = 1 => ext_we /\ ~pram_busy
  BY <1>9, ZeroOne DEF ext_we, pram_busy
<1>13. pram' = [i \in PramAddr |-> pram'[i]]
  BY <1>7 DEF PramNext
<1> QED BY <1>2, <1>4, <1>5, <1>6, <1>7, <1>8, <1>9, <1>10, <1>11, <1>12, <1>13
        DEF Swept, Hushed, Bit

\* It puts the byte in place, and takes none away.
LEMMA InstPb ==
  ASSUME Inv, CdcInv, InstInv, PbEdge
  PROVE  InstInv'
<1>1. /\ Swept /\ (ghost'.quiet = 1 => zap' = 0) /\ Taken
      /\ ca' = ca /\ s' = s /\ sec_buf' = sec_buf /\ arst' = arst
      /\ HandshakeTypes /\ Resets /\ Linked /\ Hushed /\ Held
      /\ ghost.quiet = 1 => Placed /\ Installed
  BY PbSwept, PbEdgeTaken DEF PbTicked, CdcInv, InstInv
<1>2. Hushed' /\ Held'
  BY <1>1 DEF Hushed, Held, Swept
<1>3. ASSUME ghost'.quiet = 1, s.st # "DEFAULT" PROVE Calm => Calm'
  BY <1>1, <1>3 DEF Swept, Calm
<1>4. ASSUME ghost'.quiet = 1, NEW i \in PramAddr, s.we = 1 => i # s.addr \/ s.wdata = sec_buf[PAYLOAD_OFF + i]
      PROVE  Calm /\ Put(i) => Put(i)'
  BY <1>1, <1>4 DEF Swept, Calm, Put
<1>5. ASSUME ghost'.quiet = 1, s.st = "INST_ACK", s.req = 1 PROVE Placed'
  <2>1. /\ Placed /\ s.idx \in PramAddr /\ s.addr = s.idx /\ s.we = 1
        /\ s.wdata = sec_buf[PAYLOAD_OFF + s.idx] /\ (Broken \/ Rising)
    BY <1>1, <1>5 DEF Swept, Held, Linked
  <2>2. (Calm => Calm') /\ (Calm /\ Put(s.idx) => Put(s.idx)')
    BY <1>1, <1>3, <1>4, <1>5, <2>1 DEF Put
  <2>3. Cut' <=> Cut
    BY <1>1 DEF Cut
  <2>4. brst = 0 => Rising
    BY <1>1, <2>1, ZeroOne DEF Broken, Resets, HandshakeTypes, Bit
  <2>5. CASE Cut \/ brst = 1
    <3>1. cb'.meta = 1 \/ cb'.sync = 1 \/ cb'.ack = 1 => Cut
      BY <1>1, <2>5, ZeroOne DEF Taken, HandshakeTypes, Bit
    <3> QED BY <1>1, <1>5, <2>1, <2>2, <2>3, <3>1 DEF Placed
  <2>6. CASE ~Cut /\ brst = 0
    <3>1. rc'.meta = 0
      BY <1>1, <1>5 DEF Swept
    <3>2. cb'.sync = 1 => rc'.sync = 0
      BY <1>1, <1>5, <2>1, <2>6 DEF Swept, Taken, Placed
    <3>3. cb'.ack = 1 => Calm' /\ Put(s.idx)'
      <4>1. CASE cb.ack = 1
        BY <1>1, <1>5, <2>1, <2>2, <2>6, <4>1 DEF Placed
      <4>2. CASE cb.ack = 0 /\ cb'.ack = 1
        <5>1. cb.sync = 1 /\ rc.sync = 0 /\ rc.active = 0 /\ pram'[s.idx] = s.wdata
          BY <1>1, <1>5, <2>1, <2>6, <4>2 DEF Swept, Taken, HandshakeTypes, Bit
        <5>2. rc.meta = 0
          BY <1>1, <1>5, <2>1, <2>6, <5>1 DEF Placed
        <5>3. Calm'
          BY <1>1, <1>3, <1>5, <5>1, <5>2 DEF Calm
        <5>4. Put(s.idx)'
          BY <1>1, <2>1, <5>1 DEF Put
        <5> QED BY <5>3, <5>4
      <4> QED BY <1>1, <4>1, <4>2 DEF HandshakeTypes, Bit
    <3>4. ca'.q = 1 => Calm' /\ Put(s.idx)'
      BY <1>1, <1>5, <2>1, <2>2 DEF Placed
    <3> QED BY <1>1, <3>1, <3>2, <3>3, <3>4 DEF Placed
  <2> QED BY <1>1, <2>5, <2>6 DEF HandshakeTypes, Bit
<1>6. ASSUME ghost'.quiet = 1 PROVE Installed'
  <2>1. Installed /\ (s.we = 1 => s.st = "INST_ACK" /\ s.addr = s.idx)
    BY <1>1, <1>6 DEF Swept, Held
  <2>2. s.st \in {"INST_REQ", "INST_ACK"} => /\ s.idx > 0 => Calm'
                                           /\ \A i \in PramAddr : i < s.idx => Put(i)'
    <3>1. s.st \in {"INST_REQ", "INST_ACK"} => (s.idx > 0 => Calm')
      BY <1>3, <1>6, <2>1 DEF Installed
    <3>2. ASSUME s.st \in {"INST_REQ", "INST_ACK"}, NEW i \in PramAddr, i < s.idx PROVE Put(i)'
      <4>1. s.idx \in PramAddr /\ s.idx > 0 /\ i # s.idx
        BY <1>1, <3>2, PramLenAssumption, SMTT(60) DEF Held, PramAddr
      <4> QED BY <1>4, <1>6, <2>1, <3>2, <4>1 DEF Installed
    <3> QED BY <3>1, <3>2
  <2>3. s.st = "INST_REL" => Calm' /\ \A i \in PramAddr : i <= s.idx => Put(i)'
    BY <1>3, <1>4, <1>6, <2>1 DEF Installed
  <2>4. s.st = "DONE" /\ s.op = "LOAD" /\ s.res = "OK" => Calm' /\ \A i \in PramAddr : Put(i)'
    BY <1>3, <1>4, <1>6, <2>1 DEF Installed
  <2> QED BY <1>1, <2>2, <2>3, <2>4 DEF Installed
<1>7. ASSUME ghost'.quiet = 1 PROVE Placed'
  BY <1>1, <1>5, <1>7 DEF Placed
<1> QED BY <1>2, <1>6, <1>7 DEF InstInv

\* The zap, the start and the end of a reset.
LEMMA InstReset ==
  ASSUME Inv, CdcInv, InstInv,
         Zap \/ (\E board \in {0, 1} : Reset(board)) \/ ResetEnds \/ UNCHANGED vars
  PROVE  InstInv'
<1>1. /\ UNCHANGED <<ca, cb, pram, rc, s, sec_buf>>
      /\ ghost'.quiet = 1 => ghost.quiet = 1 /\ zap' = zap
  <2>1. CASE Zap
    <3>1. ghost' = [ghost EXCEPT !.quiet = 0] /\ UNCHANGED hwVars
      BY <2>1 DEF Zap
    <3>2. ghost'.quiet = 0
      BY <3>1 DEF Inv, TypesOK
    <3> QED BY <3>1, <3>2, ZeroOne DEF hwVars
  <2>2. CASE ~Zap
    BY <2>2 DEF Reset, ResetEnds, vars, hwVars
  <2> QED BY <2>1, <2>2
<1>2. HandshakeTypes /\ Resets /\ Hushed /\ Held /\ (ghost.quiet = 1 => Placed /\ Installed)
  BY DEF CdcInv, InstInv
<1>3. Hushed' /\ Held' /\ (ghost'.quiet = 1 => Installed')
  BY <1>1, <1>2 DEF Hushed, Held, Installed, Calm, Put
<1>4. ~Cut' => ~Cut \/ (cb.meta = 0 /\ cb.sync = 0 /\ cb.ack = 0)
  <2>1. CASE arst' = arst
    BY <1>1, <2>1 DEF Cut
  <2>2. CASE \E board \in {0, 1} : Reset(board)
    <3>1. arst = 0
      BY <1>2, <2>2 DEF Reset, Resets, HandshakeTypes, Bit
    <3> QED BY <3>1, ZeroOne DEF Cut
  <2>3. CASE ResetEnds /\ arst' # arst
    <3>1. arst = 1 => cb = cb_rst
      BY <2>3 DEF ResetEnds
    <3> QED BY <3>1, SMTT(60) DEF Cut, cb_rst
  <2> QED BY <2>1, <2>2, <2>3 DEF Zap, vars
<1>5. ghost'.quiet = 1 => Placed'
  BY <1>1, <1>2, <1>4, ZeroOne DEF Placed, Calm, Put
<1> QED BY <1>3, <1>5 DEF InstInv

\* The power goes and comes back.
LEMMA InstPower ==
  ASSUME Inv, PowerCut
  PROVE  InstInv'
<1>1. /\ s'.st = "IDLE" /\ s'.we = 0 /\ s'.pram_default = 0
      /\ rc'.meta = 0 /\ rc'.sync = 0 /\ rc'.active = 0 /\ pram' = DefaultPram /\ zap' = 0
  BY DEF PowerCut, s_rst
<1>2. Hushed'
  BY <1>1 DEF Hushed, DefaultPram, Bit
<1> QED BY <1>1, <1>2, InstIdle, ZeroOne

\* At the start nothing is installed.
LEMMA StartInst == Init => InstInv
<1> SUFFICES ASSUME Init PROVE InstInv
  OBVIOUS
<1>1. /\ s.st = "IDLE" /\ s.we = 0 /\ s.pram_default = 0
      /\ rc.meta = 0 /\ rc.sync = 0 /\ rc.active = 0 /\ pram = DefaultPram /\ zap = 0
  BY DEF Init, RtcInit, s_rst
<1> QED BY <1>1, ZeroOne DEF InstInv, Hushed, Held, Placed, Installed, DefaultPram, Bit

\* Every step keeps the invariant of an installation.
LEMMA NextInst ==
  ASSUME Inv, CdcInv, InstInv, [Next]_vars
  PROVE  InstInv'
  BY InstCore, InstPb, InstReset, InstPower DEF Next

-----------------------------------------------------------------------------
(* What the invariants give                                                *)

\* A sector the verdict would accept holds a payload that some SAVE staged
\* whole, or the card came with.
CardOldOrSaved == card[HDR] = "good" /\ card[CK] = CkOf(card) => Payload(card) \in ghost.images

\* The invariant of the sequencer and the card holds, for every PRAM length,
\* wait, clock ratio and scenario of commands, resets, errors and power cuts.
THEOREM PramInvariant == Spec => []Inv
  BY StartInv, NextInv, PTL DEF Spec

\* pram_gnt_q never takes the SPI bus from a SCSI transfer on the wire, and
\* pram_sd drives the card only while it holds the grant.
THEOREM SdNeverShared == Spec => []GrantExclusive
<1>1. Inv => GrantExclusive
  BY DEF Inv, Granted, GrantExclusive
<1> QED BY <1>1, PramInvariant, PTL

\* Whatever an aborted write or a power cut in S_SD_WAIT leaves on the card, a
\* sector that S_VERDICT would accept is one some SAVE staged as a whole, or
\* the one the card came with.
THEOREM NoTornSectorLoads == Spec => []CardOldOrSaved
<1>1. Inv => CardOldOrSaved
  BY AcceptedIsKnown DEF Inv, CardOldOrSaved, Accepted
<1> QED BY <1>1, PramInvariant, PTL

\* A SAVE that reports success has left a sector on the card that a LOAD will
\* accept, and each of its bytes was the PRAM's byte while the handshake of
\* S_SNAP_ACK through pram_cdc was up for it, whatever the two clocks, the
\* resets, zaps and the Mac's writes did meanwhile.
THEOREM SavesWhatItRead == Spec => []SaveFaithful
<1>1. Init => Inv /\ CdcInv
  BY StartInv, StartCdc
<1>2. Inv /\ CdcInv /\ [Next]_vars => (Inv /\ CdcInv)'
  BY NextInv, NextCdc
<1>3. Inv /\ CdcInv => SaveFaithful
  <2> SUFFICES ASSUME Inv, CdcInv, s.st = "DONE", s.op = "SAVE", s.res = "OK"
               PROVE  /\ card[HDR] = "good" /\ card[CK] = CkOf(card)
                      /\ \A i \in PramAddr : Payload(card)[i] \in ghost.seen[i]
    BY DEF SaveFaithful
  <2>1. card[HDR] = "good" /\ card[CK] = CkOf(card)
    BY DEF Inv, Stage, Accepted
  <2>2. \A i \in PramAddr : Payload(card)[i] = card[PAYLOAD_OFF + i]
    BY DEF Payload
  <2>3. \A i \in PramAddr : card[PAYLOAD_OFF + i] \in ghost.seen[i]
    BY DEF CdcInv, Snapped
  <2> QED BY <2>1, <2>2, <2>3
<1> QED BY <1>1, <1>2, <1>3, PTL DEF Spec

\* A LOAD that reports success has staged a payload some SAVE once staged as a
\* whole, and unless a zap or a write of the Mac came during it, or a sweep was
\* under way when it started, that payload is what the PRAM now holds: every
\* byte written by S_INST_ACK through pram_cdc is in place and none was swept.
THEOREM LoadInstallsTheSector == Spec => []GoodLoad
<1>1. Init => Inv /\ CdcInv /\ InstInv
  BY StartInv, StartCdc, StartInst
<1>2. Inv /\ CdcInv /\ InstInv /\ [Next]_vars => (Inv /\ CdcInv /\ InstInv)'
  BY NextInv, NextCdc, NextInst
<1>3. Inv /\ CdcInv /\ InstInv => GoodLoad
  <2> SUFFICES ASSUME Inv, InstInv, s.st = "DONE", s.op = "LOAD", s.res = "OK"
               PROVE  /\ Payload(sec_buf) \in ghost.images
                      /\ ghost.quiet = 1 => pram = Payload(sec_buf)
    BY DEF GoodLoad
  <2>1. Payload(sec_buf) \in ghost.images
    BY DEF Inv, Stage
  <2>2. ASSUME ghost.quiet = 1 PROVE pram = Payload(sec_buf)
    <3>1. pram = [i \in PramAddr |-> pram[i]] /\ \A i \in PramAddr : pram[i] = sec_buf[PAYLOAD_OFF + i]
      BY <2>2 DEF InstInv, Hushed, Installed, Put
    <3> QED BY <3>1 DEF Payload
  <2> QED BY <2>1, <2>2
<1> QED BY <1>1, <1>2, <1>3, PTL DEF Spec
=============================================================================
