----------------------------- MODULE AsyncFifo -----------------------------
(***************************************************************************)
(* rtl/board/async_fifo.v: the dual-clock FIFO of every AXI crossing, with *)
(* the request/acknowledge handshake that couples the resets of its two    *)
(* sides.  The write side "w" and the read side "r" have the same          *)
(* registers, mirrored, so both are the record st[s].  Pointers are        *)
(* positions on a ring of 2*Depth; what a flop samples while a pointer     *)
(* moves is a mix of the Gray codes of the two positions.  `stop' is       *)
(* wr_full_r on the write side and rd_empty_r on the read side.            *)
(***************************************************************************)
EXTENDS Integers

CONSTANTS
  Depth,        \* entries, a power of two
  REQ_MIN_HOLD, \* ticks a reset request is held at least
  Scenarios     \* clocks and resets, one choice of which a behaviour lives in: the
                \* side with the faster clock (fast), how many of its ticks may pass
                \* from one tick of the other to the next (gaps), and for how many
                \* ticks each side's raw reset is high, once (len)

Side == {"w", "r"}
VARIABLES scn,    \* the scenario, never changed
          st,     \* the registers of the two sides
          ahead,  \* ticks of the fast clock since the last of the slow one
          pulses, \* raw reset ticks left
          held    \* entries written since the last write-side clear, not read
vars == <<scn, st, ahead, pulses, held>>

Ptr == 0 .. 2 * Depth - 1
Inc(p) == (p + 1) % (2 * Depth)
Occ(x, y) == (x - y + 2 * Depth) % (2 * Depth)
Far(s) == IF s = "w" THEN "r" ELSE "w"

\* What may be sampled of a pointer that goes from old to new.
GrayBit(p, k) == ((p \div 2 ^ k) + (p \div 2 ^ (k + 1))) % 2
Torn(old, new) == {p \in Ptr : \A k \in 0 .. 3 : GrayBit(p, k) \in {GrayBit(old, k), GrayBit(new, k)}}

----------------------------------------------------------------------------
\* One clock edge of side s.  raw is its reset input, en its wr_en or rd_en.

Eng(s, raw) == raw \/ st[s].req \/ st[s].far2
Ack(s, raw) == st[s].ack2 /\ Eng(s, raw)
\* When the acknowledge pipe runs; it is cleared otherwise.
\* Fault: only for a side's own request, not for a relayed one.
OpenOwn(s, raw) == st[s].req
Open(s, raw) == Eng(s, raw)
Take(s, raw, en) == en /\ ~st[s].stop /\ ~Eng(s, raw)
PtrNext(s, raw, en) == IF Take(s, raw, en) THEN Inc(st[s].ptr) ELSE st[s].ptr
PtrEdge(s, raw, en) == IF Ack(s, raw) THEN 0 ELSE PtrNext(s, raw, en)
\* Fault: a relayed request is latched as one's own.
ReqEdgeRelayed(s, raw) == \/ raw \/ st[s].far2 \/ st[s].hold < REQ_MIN_HOLD
                          \/ (st[s].req /\ ~Ack(s, raw))
ReqEdge(s, raw) == raw \/ st[s].hold < REQ_MIN_HOLD \/ (st[s].req /\ ~Ack(s, raw))

\* The three things sampled from the other side: pointer, request, engagement.
Edge(s, raw, en, p, q, e) ==
  LET me == st[s]
      eng == Eng(s, raw)
      nxt == PtrNext(s, raw, en)
  IN [ptr |-> PtrEdge(s, raw, en),
      view1 |-> IF eng THEN 0 ELSE p,
      view2 |-> IF eng THEN 0 ELSE me.view1,
      stop |-> IF eng THEN s = "r"
               ELSE IF s = "w" THEN Occ(nxt, me.view2) = Depth ELSE nxt = me.view2,
      req |-> ReqEdge(s, raw),
      hold |-> IF raw THEN 0 ELSE IF me.hold < REQ_MIN_HOLD THEN me.hold + 1 ELSE me.hold,
      far1 |-> q,
      far2 |-> me.far1,
      eng_r |-> eng,
      ack1 |-> Open(s, raw) /\ e,
      ack2 |-> Open(s, raw) /\ me.ack1]

\* What the environment asks of a side on one edge.
Inputs(s) == {i \in [raw : BOOLEAN, en : BOOLEAN] :
                /\ i.raw => pulses[s] > 0
                /\ pulses[s] \in 1 .. (scn.len[s] - 1) => i.raw
                /\ i.en => (~i.raw /\ ~st[s].stop /\ ~Eng(s, FALSE))}

Count(s, i) == pulses' = [pulses EXCEPT ![s] = IF i.raw THEN @ - 1 ELSE @]
Moved(s, i, sign) == IF Take(s, i.raw, i.en) THEN sign ELSE 0
HeldNext(w, r) ==
  IF Ack("w", w.raw) THEN 0 ELSE held + Moved("w", w, 1) + Moved("r", r, -1)
Idle == [raw |-> FALSE, en |-> FALSE]

\* One clock rises alone: its flops see settled values.
Tick(s) == \E i \in Inputs(s) :
  /\ IF s = scn.fast THEN ahead' = ahead + 1 /\ \E g \in scn.gaps : ahead < g
     ELSE ahead' = 0 /\ ahead \in scn.gaps
  /\ UNCHANGED scn
  /\ st' = [st EXCEPT ![s] = Edge(s, i.raw, i.en, st[Far(s)].ptr, st[Far(s)].req, st[Far(s)].eng_r)]
  /\ Count(s, i)
  /\ held' = IF s = "w" THEN HeldNext(i, Idle) ELSE held + Moved("r", i, -1)

\* Both clocks rise together: a flop gets the old value, the new one or a mix.
BothTick == \E w \in Inputs("w"), r \in Inputs("r") :
  LET wp == PtrEdge("w", w.raw, w.en)
      rp == PtrEdge("r", r.raw, r.en)
  IN \E pw \in Torn(st["r"].ptr, rp), pr \in Torn(st["w"].ptr, wp),
        qw \in {st["r"].req, ReqEdge("r", r.raw)}, qr \in {st["w"].req, ReqEdge("w", w.raw)},
        ew \in {st["r"].eng_r, Eng("r", r.raw)}, er \in {st["w"].eng_r, Eng("w", w.raw)} :
       /\ st' = [w |-> Edge("w", w.raw, w.en, pw, qw, ew),
                 r |-> Edge("r", r.raw, r.en, pr, qr, er)]
       /\ UNCHANGED scn /\ ahead + 1 \in scn.gaps /\ ahead' = 0
       /\ pulses' = [w |-> IF w.raw THEN pulses["w"] - 1 ELSE pulses["w"],
                     r |-> IF r.raw THEN pulses["r"] - 1 ELSE pulses["r"]]
       /\ held' = HeldNext(w, r)

\* After power-up: both resets long over.
Init == /\ scn \in Scenarios
        /\ st = [s \in Side |->
              [ptr |-> 0, view1 |-> 0, view2 |-> 0, stop |-> s = "r", req |-> FALSE,
               hold |-> REQ_MIN_HOLD, far1 |-> FALSE, far2 |-> FALSE, eng_r |-> FALSE,
               ack1 |-> FALSE, ack2 |-> FALSE]]
        /\ ahead = 0 /\ pulses = scn.len /\ held = 0

Next == Tick("w") \/ Tick("r") \/ BothTick
Spec == Init /\ [][Next]_vars
LiveSpec == Spec /\ WF_vars(Tick("w") \/ BothTick) /\ WF_vars(Tick("r") \/ BothTick)

----------------------------------------------------------------------------
Engaged(s) == Eng(s, FALSE)

\* Whatever resets came on whichever side, once neither side is engaged the
\* distance of the pointers is the number of entries written since and not yet
\* read: nothing old comes back, nothing new is lost, nothing overwritten.
FifoIntact == /\ held \in 0 .. Depth
              /\ ~Engaged("w") /\ ~Engaged("r") => Occ(st["w"].ptr, st["r"].ptr) = held

\* Every reset ends: an engaged side comes back to work.
ResetEnds == \A s \in Side : []<>~Engaged(s)
=============================================================================
