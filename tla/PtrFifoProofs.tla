--------------------------- MODULE PtrFifoProofs ---------------------------
(***************************************************************************)
(* The pointer-level FIFO is safe for every depth and every interleaving   *)
(* of the two clocks.  The inductive invariant is TypeOK /\ SampleOrder:   *)
(* the six pointers stand around the ring in a fixed order and the whole   *)
(* span is at most one lap, so each side's stale view errs on its own      *)
(* safe side (the writer sees the ring at least as full, the reader at     *)
(* least as empty, as it is).                                              *)
(***************************************************************************)
EXTENDS PtrFifo, SequenceTheorems, TLAPS

\* Leaves may take the solver up to a minute.
USE SMTT(60)

\* Moving a pointer keeps it on the ring, and every pointer names a slot.
LEMMA IncFacts ==
  ASSUME NEW p \in Ptr
  PROVE /\ Inc(p) \in Ptr
        /\ Slot(p) \in 0 .. (Depth - 1)
BY DepthAssumption DEF Ptr, Inc, Slot

\* The order of SampleOrder for arbitrary positions.
Chain(w, a, b, r, c, d) ==
  /\ Occ(w, d) = Occ(w, a) + Occ(a, b) + Occ(b, r) + Occ(r, c) + Occ(c, d)
  /\ Occ(w, d) <= Depth

\* A write-side edge: the writer may advance when it is not a lap ahead of d,
\* and its samples of r move up to any t between r and c.
LEMMA WriterMoves ==
  ASSUME NEW w \in Ptr, NEW a \in Ptr, NEW b \in Ptr, NEW r \in Ptr,
         NEW c \in Ptr, NEW d \in Ptr, NEW t \in Ptr, NEW w2 \in Ptr,
         Chain(w, a, b, r, c, d),
         w2 = w \/ (w2 = Inc(w) /\ Occ(w, d) # Depth),
         Occ(r, t) + Occ(t, c) = Occ(r, c)
  PROVE Chain(w2, a, b, r, t, c)
BY DepthAssumption DEF Chain, Occ, Ptr, Inc

\* A read-side edge.
LEMMA ReaderMoves ==
  ASSUME NEW w \in Ptr, NEW a \in Ptr, NEW b \in Ptr, NEW r \in Ptr,
         NEW c \in Ptr, NEW d \in Ptr, NEW s \in Ptr, NEW r2 \in Ptr,
         Chain(w, a, b, r, c, d),
         r2 = r \/ (r2 = Inc(r) /\ r # b),
         Occ(w, s) + Occ(s, a) = Occ(w, a)
  PROVE Chain(w, s, a, r2, c, d)
BY DepthAssumption DEF Chain, Occ, Ptr, Inc

\* Between a pointer that has just moved and an older sample lie both its
\* old and its new position.
LEMMA Straddle ==
  ASSUME NEW w \in Ptr, NEW w2 \in Ptr, NEW a \in Ptr,
         w2 = w \/ (w2 = Inc(w) /\ Occ(w, a) < Depth)
  PROVE /\ Occ(w2, w) + Occ(w, a) = Occ(w2, a)
        /\ Occ(w2, w2) + Occ(w2, a) = Occ(w2, a)
BY DepthAssumption DEF Occ, Ptr, Inc

\* Any sample between w and b may replace a.
LEMMA Resample ==
  ASSUME NEW w \in Ptr, NEW a \in Ptr, NEW b \in Ptr, NEW r \in Ptr,
         NEW c \in Ptr, NEW d \in Ptr, Chain(w, a, b, r, c, d)
  PROVE Chain(w, w, b, r, c, d)
BY DepthAssumption DEF Chain, Occ, Ptr

IInv == TypeOK /\ SampleOrder

\* SampleOrder, now and after the step, is the order of six positions.
LEMMA SampleOrderIsChain ==
  /\ SampleOrder <=> Chain(wr, wr_rd_a, wr_rd_b, rd, rd_wr_a, rd_wr_b)
  /\ SampleOrder' <=> Chain(wr', wr_rd_a', wr_rd_b', rd', rd_wr_a', rd_wr_b')
BY DEF SampleOrder, Chain, Occ

\* Power-up: all pointers at zero.
LEMMA InitIInv == PtrInit => IInv
BY DepthAssumption DEF PtrInit, IInv, TypeOK, SampleOrder, Occ, Ptr

\* What a write-side edge does to the registers it owns.
LEMMA WrEdgeEffect ==
  ASSUME TypeOK, NEW d \in Data \cup {NoData}, NEW s \in Ptr, WrEdge(d, s)
  PROVE /\ mem' \in [0 .. (Depth - 1) -> Data \cup {NoData}]
        /\ wr' \in Ptr /\ rd_wr_a' \in Ptr /\ rd_wr_b' \in Ptr
        /\ arst = 1 => UNCHANGED wrVars
        /\ arst # 1 => /\ wr' = wr \/ (wr' = Inc(wr) /\ ~wr_full)
                       /\ rd_wr_a' = s /\ rd_wr_b' = rd_wr_a
BY IncFacts, DataAssumption DEF TypeOK, WrEdge, wrVars

\* What a read-side edge does to the registers it owns.
LEMMA RdEdgeEffect ==
  ASSUME TypeOK, NEW en \in {0, 1}, NEW s \in Ptr, RdEdge(en, s)
  PROVE /\ taken' \in Data \cup {NoData}
        /\ rd' \in Ptr /\ wr_rd_a' \in Ptr /\ wr_rd_b' \in Ptr
        /\ arst = 1 => UNCHANGED rdVars
        /\ arst # 1 => /\ rd' = rd \/ (rd' = Inc(rd) /\ ~rd_empty)
                       /\ wr_rd_a' = s /\ wr_rd_b' = wr_rd_a
BY IncFacts DEF TypeOK, RdEdge, rdVars

\* A write-side edge alone.
LEMMA WrTickIInv == IInv /\ WrTick => IInv'
<1> SUFFICES ASSUME IInv, WrTick PROVE IInv'
  OBVIOUS
<1> PICK d \in Data \cup {NoData} : WrEdge(d, rd)
  BY DEF WrTick
<1>1. UNCHANGED <<rd, wr_rd_a, wr_rd_b, taken, arst>>
  BY DEF WrTick, rdVars
<1>2. TypeOK'
  BY <1>1, WrEdgeEffect, ZenonT(60) DEF IInv, TypeOK
<1>3. CASE arst = 1
  BY <1>1, <1>2, <1>3, WrEdgeEffect DEF IInv, TypeOK, SampleOrder, wrVars
<1>4. CASE arst # 1
  <2>1. wr' = wr \/ (wr' = Inc(wr) /\ Occ(wr, rd_wr_b) # Depth)
    BY <1>4, WrEdgeEffect, ZenonT(60) DEF IInv, TypeOK, wr_full
  <2>2. Occ(rd, rd) + Occ(rd, rd_wr_a) = Occ(rd, rd_wr_a)
    BY Straddle DEF IInv, TypeOK
  <2>3. Chain(wr', wr_rd_a, wr_rd_b, rd, rd, rd_wr_a)
    BY <1>2, <2>1, <2>2, SampleOrderIsChain, WriterMoves, ZenonT(60) DEF IInv, TypeOK
  <2>4. QED
    BY <1>1, <1>2, <1>4, <2>3, WrEdgeEffect, SampleOrderIsChain, ZenonT(60)
      DEF IInv, TypeOK
<1>5. QED BY <1>3, <1>4

\* A read-side edge alone.
LEMMA RdTickIInv == IInv /\ RdTick => IInv'
<1> SUFFICES ASSUME IInv, RdTick PROVE IInv'
  OBVIOUS
<1> PICK en \in {0, 1} : RdEdge(en, wr)
  BY DEF RdTick
<1>1. UNCHANGED <<wr, rd_wr_a, rd_wr_b, mem, arst>>
  BY DEF RdTick, wrVars
<1>2. TypeOK'
  BY <1>1, RdEdgeEffect DEF IInv, TypeOK
<1>3. CASE arst = 1
  BY <1>1, <1>2, <1>3, RdEdgeEffect DEF IInv, TypeOK, SampleOrder, rdVars
<1>4. CASE arst # 1
  <2>1. rd' = rd \/ (rd' = Inc(rd) /\ rd # wr_rd_b)
    BY <1>4, RdEdgeEffect DEF IInv, TypeOK, rd_empty
  <2>2. Occ(wr, wr) + Occ(wr, wr_rd_a) = Occ(wr, wr_rd_a)
    BY Straddle DEF IInv, TypeOK
  <2>3. Chain(wr, wr, wr_rd_a, rd', rd_wr_a, rd_wr_b)
    BY <1>2, <2>1, <2>2, SampleOrderIsChain, ReaderMoves, ZenonT(60) DEF IInv, TypeOK
  <2>4. QED
    BY <1>1, <1>2, <1>4, <2>3, RdEdgeEffect, SampleOrderIsChain
      DEF IInv, TypeOK
<1>5. QED BY <1>3, <1>4

\* Both edges at once: the reader moves against the old write pointer, the
\* writer follows with either sample of the read pointer, and the reader's
\* sample of the write pointer may then be the new one.
LEMMA BothTickIInv == IInv /\ BothTick => IInv'
<1> SUFFICES ASSUME IInv, BothTick PROVE IInv'
  OBVIOUS
<1> PICK d \in Data \cup {NoData}, en \in {0, 1},
         sw \in {rd, Inc(rd)}, sr \in {wr, Inc(wr)} :
           /\ WrEdge(d, sw) /\ RdEdge(en, sr)
           /\ sw \in {rd, rd'} /\ sr \in {wr, wr'}
           /\ UNCHANGED arst
  BY DEF BothTick
<1>1. sw \in Ptr /\ sr \in Ptr
  BY IncFacts DEF IInv, TypeOK
<1>2. TypeOK'
  BY <1>1, WrEdgeEffect, RdEdgeEffect, ZenonT(60) DEF IInv, TypeOK
<1>3. CASE arst = 1
  BY <1>1, <1>2, <1>3, WrEdgeEffect, RdEdgeEffect, ZenonT(60)
    DEF IInv, TypeOK, SampleOrder, wrVars, rdVars
<1>4. CASE arst # 1
  <2>1. /\ rd_wr_a' = sw /\ rd_wr_b' = rd_wr_a
        /\ wr_rd_a' = sr /\ wr_rd_b' = wr_rd_a
    BY <1>1, <1>4, WrEdgeEffect, RdEdgeEffect, ZenonT(60) DEF IInv, TypeOK
  <2>2. wr' = wr \/ (wr' = Inc(wr) /\ Occ(wr, rd_wr_b) # Depth)
    BY <1>1, <1>4, WrEdgeEffect DEF IInv, TypeOK, wr_full
  <2>3. rd' = rd \/ (rd' = Inc(rd) /\ rd # wr_rd_b)
    BY <1>1, <1>4, RdEdgeEffect DEF IInv, TypeOK, rd_empty
  <2>4. Occ(wr, wr) + Occ(wr, wr_rd_a) = Occ(wr, wr_rd_a)
    BY Straddle DEF IInv, TypeOK
  <2>5. Chain(wr, wr, wr_rd_a, rd', rd_wr_a, rd_wr_b)
    BY <1>2, <2>3, <2>4, SampleOrderIsChain, ReaderMoves, ZenonT(60) DEF IInv, TypeOK
  <2>6. Occ(rd, rd_wr_a) < Depth \/ rd' = rd
    BY <2>3, SampleOrderIsChain, DepthAssumption
      DEF IInv, TypeOK, Chain, Occ, Ptr
  <2>7. Occ(rd', sw) + Occ(sw, rd_wr_a) = Occ(rd', rd_wr_a)
    BY <1>2, <2>3, <2>6, Straddle DEF IInv, TypeOK
  <2>8. Chain(wr', wr, wr_rd_a, rd', sw, rd_wr_a)
    BY <1>1, <1>2, <2>2, <2>5, <2>7, WriterMoves, ZenonT(60) DEF IInv, TypeOK
  <2>9. Chain(wr', wr', wr_rd_a, rd', sw, rd_wr_a)
    BY <1>1, <1>2, <2>8, Resample, ZenonT(60) DEF IInv, TypeOK
  <2>10. Chain(wr', wr_rd_a', wr_rd_b', rd', rd_wr_a', rd_wr_b')
    BY <2>1, <2>8, <2>9
  <2>11. QED BY <1>2, <2>10, SampleOrderIsChain DEF IInv
<1>5. QED BY <1>3, <1>4

\* No edge of either clock and no reset breaks the order.
LEMMA NextIInv == IInv /\ [PtrNext]_vars => IInv'
<1> SUFFICES ASSUME IInv, [PtrNext]_vars PROVE IInv'
  OBVIOUS
<1>1. CASE ResetOn
  BY <1>1, DepthAssumption DEF ResetOn, IInv, TypeOK, SampleOrder, Occ, Ptr
<1>2. CASE ResetOff
  BY <1>2 DEF ResetOff, IInv, TypeOK, SampleOrder, wrVars, rdVars
<1>3. CASE UNCHANGED vars
  BY <1>3 DEF vars, IInv, TypeOK, SampleOrder
<1>4. QED
  BY <1>1, <1>2, <1>3, WrTickIInv, RdTickIInv, BothTickIInv DEF PtrNext

\* Every register stays in its range and the pointers and their samples keep
\* their order around the ring, for every depth.
THEOREM PointerOrder == PtrSpec => [](TypeOK /\ SampleOrder)
<1>1. QED BY InitIInv, NextIInv, PTL DEF PtrSpec, IInv

\* In that order a full test errs towards full and an empty test towards empty.
LEMMA OrderIsSafe == IInv => NoOverrun /\ NoUnderrun
BY DepthAssumption
  DEF IInv, TypeOK, SampleOrder, NoOverrun, NoUnderrun, Occ, Ptr, rd_empty

\* No write lands on an unread slot and no take happens on an empty ring, for
\* every depth and whatever the phases of the two clocks.
THEOREM NoOverrunNoUnderrun == PtrSpec => [](NoOverrun /\ NoUnderrun)
<1>1. QED BY InitIInv, NextIInv, OrderIsSafe, PTL DEF PtrSpec

-----------------------------------------------------------------------------
(***************************************************************************)
(* The ring implements the bounded queue, for every depth and every data   *)
(* set.  The queue is read off the ring; the argument is how it changes    *)
(* when a pointer moves, and that a write never touches a slot the queue   *)
(* is read from.                                                           *)
(***************************************************************************)

\* What a slot may hold, and the memories.
Bytes == Data \cup {NoData}
Mem == [0 .. (Depth - 1) -> Bytes]

\* The position i - 1 steps after r, and the queue as a function of the two
\* pointers and the memory.
At(r, i) == IF r + i - 1 >= 2 * Depth THEN r + i - 1 - 2 * Depth ELSE r + i - 1
Q(w, r, m) == [i \in 1 .. Occ(w, r) |-> m[Slot(At(r, i))]]

\* The queue is a sequence as long as the pointers are apart.
LEMMA QSeq ==
  ASSUME NEW w \in Ptr, NEW r \in Ptr, NEW m \in Mem
  PROVE /\ Occ(w, r) \in Nat
        /\ \A i \in 1 .. Occ(w, r) : At(r, i) \in Ptr
        /\ Q(w, r, m) \in Seq(Bytes)
        /\ Len(Q(w, r, m)) = Occ(w, r)
<1>1. Occ(w, r) \in Nat
  BY DepthAssumption DEF Occ, Ptr
<1>2. \A i \in 1 .. Occ(w, r) : At(r, i) \in Ptr
  BY <1>1, DepthAssumption DEF Occ, Ptr, At
<1>3. \A i \in 1 .. Occ(w, r) : m[Slot(At(r, i))] \in Bytes
  BY <1>2, IncFacts DEF Mem
<1>4. Q(w, r, m) \in [1 .. Occ(w, r) -> Bytes]
  BY <1>3 DEF Q
<1>5. QED BY <1>1, <1>2, <1>4

\* Distances after a move of either pointer.
LEMMA OccMoves ==
  ASSUME NEW w \in Ptr, NEW r \in Ptr
  PROVE /\ Occ(w, r) < Depth => Occ(Inc(w), r) = Occ(w, r) + 1
        /\ w # r => Occ(w, Inc(r)) = Occ(w, r) - 1 /\ Occ(w, r) > 0
        /\ Occ(w, r) = 0 <=> w = r
BY DepthAssumption DEF Occ, Ptr, Inc

\* The slot at the write pointer is the one after the queue, and none of its
\* own while the ring is not full.
LEMMA WriteSlot ==
  ASSUME NEW w \in Ptr, NEW r \in Ptr, Occ(w, r) < Depth
  PROVE /\ At(r, Occ(w, r) + 1) = w
        /\ \A i \in 1 .. Occ(w, r) : Slot(At(r, i)) # Slot(w)
<1>1. At(r, Occ(w, r) + 1) = w
  BY DepthAssumption DEF Occ, Ptr, At
<1>2. ASSUME NEW i \in 1 .. Occ(w, r) PROVE Slot(At(r, i)) # Slot(w)
  BY <1>2, DepthAssumption DEF Occ, Ptr, At, Slot
<1>3. QED BY <1>1, <1>2

\* A write that moves the write pointer appends its byte.
LEMMA QPut ==
  ASSUME NEW w \in Ptr, NEW r \in Ptr, NEW m \in Mem, NEW d \in Bytes,
         Occ(w, r) < Depth
  PROVE Q(Inc(w), r, [m EXCEPT ![Slot(w)] = d]) = Append(Q(w, r, m), d)
<1> DEFINE n == Occ(w, r)
           m2 == [m EXCEPT ![Slot(w)] = d]
           q == Q(w, r, m)
           q2 == Q(Inc(w), r, m2)
<1>1. m2 \in Mem /\ Slot(w) \in 0 .. (Depth - 1)
  BY IncFacts DEF Mem
<1>2. n \in Nat /\ Occ(Inc(w), r) = n + 1 /\ Inc(w) \in Ptr
  BY QSeq, OccMoves, IncFacts
<1>3. q \in Seq(Bytes) /\ Len(q) = n /\ q2 \in Seq(Bytes) /\ Len(q2) = n + 1
  BY <1>1, <1>2, QSeq
<1>4. ASSUME NEW i \in 1 .. n PROVE q2[i] = q[i]
  <2>1. Slot(At(r, i)) # Slot(w) /\ Slot(At(r, i)) \in 0 .. (Depth - 1)
    BY WriteSlot, QSeq, IncFacts
  <2>2. q2[i] = m2[Slot(At(r, i))] /\ q[i] = m[Slot(At(r, i))]
    BY <1>2 DEF Q
  <2>3. QED BY <2>1, <2>2 DEF Mem
<1>5. q2[n + 1] = d
  <2>1. q2[n + 1] = m2[Slot(At(r, n + 1))]
    BY <1>2 DEF Q
  <2>2. QED BY <1>1, <2>1, WriteSlot DEF Mem
<1> HIDE DEF n, m2, q, q2
<1>6. /\ Append(q, d) \in Seq(Bytes) /\ Len(Append(q, d)) = n + 1
      /\ \A i \in 1 .. n : Append(q, d)[i] = q[i]
      /\ Append(q, d)[n + 1] = d
  BY <1>2, <1>3, AppendProperties
<1>7. \A i \in 1 .. (n + 1) : q2[i] = Append(q, d)[i]
  BY <1>2, <1>4, <1>5, <1>6
<1>8. q2 = Append(q, d)
  BY <1>3, <1>6, <1>7, SeqEqual
<1>9. QED BY <1>8, ZenonT(60) DEF n, m2, q, q2

\* A read takes the byte at the read pointer off the head.
LEMMA QGet ==
  ASSUME NEW w \in Ptr, NEW r \in Ptr, NEW m \in Mem, w # r
  PROVE /\ Q(w, r, m) # <<>>
        /\ Head(Q(w, r, m)) = m[Slot(r)]
        /\ Q(w, Inc(r), m) = Tail(Q(w, r, m))
<1> DEFINE n == Occ(w, r)
           q == Q(w, r, m)
           q2 == Q(w, Inc(r), m)
<1>1. n \in Nat /\ n > 0 /\ Occ(w, Inc(r)) = n - 1 /\ Inc(r) \in Ptr
  BY QSeq, OccMoves, IncFacts
<1>2. q \in Seq(Bytes) /\ Len(q) = n /\ q2 \in Seq(Bytes) /\ Len(q2) = n - 1
  BY <1>1, QSeq
<1>3. q[1] = m[Slot(r)]
  <2>1. At(r, 1) = r
    BY DepthAssumption DEF At, Ptr
  <2>2. QED BY <1>1, <2>1 DEF Q
<1>4. ASSUME NEW i \in 1 .. (n - 1) PROVE q2[i] = q[i + 1]
  <2>1. At(Inc(r), i) = At(r, i + 1)
    BY <1>1, <1>4, DepthAssumption DEF At, Inc, Ptr, Occ
  <2>2. q2[i] = m[Slot(At(Inc(r), i))] /\ q[i + 1] = m[Slot(At(r, i + 1))]
    BY <1>1 DEF Q
  <2>3. QED BY <2>1, <2>2
<1> HIDE DEF n, q, q2
<1>5. /\ q # <<>> /\ Head(q) = q[1] /\ Tail(q) \in Seq(Bytes) /\ Len(Tail(q)) = n - 1
      /\ \A i \in 1 .. (n - 1) : Tail(q)[i] = q[i + 1]
  BY <1>1, <1>2, HeadTailProperties
<1>6. q2 = Tail(q)
  BY <1>1, <1>2, <1>4, <1>5, SeqEqual
<1>7. QED BY <1>3, <1>5, <1>6 DEF n, q, q2

-----------------------------------------------------------------------------
\* In reset both pointers stand at zero: the memory port still writes there,
\* but the queue is empty.
ResetIsEmpty == arst = 1 => wr = 0 /\ rd = 0
RInv == IInv /\ ResetIsEmpty

\* Power-up satisfies the invariant.
LEMMA InitRInv == PtrInit => RInv
BY InitIInv DEF PtrInit, RInv, ResetIsEmpty

\* A reset clears both pointers, and in reset no edge moves one.
LEMMA NextRInv == RInv /\ [PtrNext]_vars => RInv'
<1> SUFFICES ASSUME RInv, [PtrNext]_vars PROVE RInv'
  OBVIOUS
<1>1. IInv'
  BY NextIInv DEF RInv
<1>2. CASE WrTick
  BY <1>1, <1>2 DEF RInv, ResetIsEmpty, WrTick, WrEdge, wrVars, rdVars
<1>3. CASE RdTick
  BY <1>1, <1>3 DEF RInv, ResetIsEmpty, RdTick, RdEdge, wrVars, rdVars
<1>4. CASE BothTick
  BY <1>1, <1>4 DEF RInv, ResetIsEmpty, BothTick, WrEdge, RdEdge, wrVars, rdVars
<1>5. CASE ResetOn
  BY <1>1, <1>5 DEF RInv, ResetIsEmpty, ResetOn
<1>6. CASE ResetOff
  BY <1>1, <1>6 DEF RInv, ResetIsEmpty, ResetOff
<1>7. CASE UNCHANGED vars
  BY <1>1, <1>7 DEF RInv, ResetIsEmpty, vars
<1>8. QED BY <1>2, <1>3, <1>4, <1>5, <1>6, <1>7 DEF PtrNext

\* The queue of the refinement, now and after the step.
LEMMA QueueIsQ == queue = Q(wr, rd, mem) /\ queue' = Q(wr', rd', mem')
BY DEF queue, Q, At, Occ, Slot

\* A write that is taken finds room, a read that is taken finds an entry.
LEMMA Room == IInv => /\ ~wr_full => Occ(wr, rd) < Depth
                      /\ ~rd_empty => wr # rd
                      /\ Occ(wr, rd) <= Depth
BY OrderIsSafe, DepthAssumption
  DEF IInv, TypeOK, SampleOrder, wr_full, NoOverrun, NoUnderrun, Occ, Ptr

\* Equal pointers are an empty queue, whatever the memory holds.
LEMMA EmptyQ == ASSUME NEW w \in Ptr, NEW m PROVE Q(w, w, m) = <<>>
<1>1. Occ(w, w) = 0
  BY DEF Occ, Ptr
<1>2. QED BY <1>1 DEF Q

\* A write-side edge out of reset is a put of its byte, or leaves the queue.
LEMMA WriterStep ==
  ASSUME RInv, arst # 1, NEW d \in Bytes, NEW s, WrEdge(d, s)
  PROVE \/ /\ d \in Data /\ Occ(wr, rd) < Depth
           /\ wr' = Inc(wr) /\ mem' = [mem EXCEPT ![Slot(wr)] = d]
        \/ wr' = wr /\ mem' = mem
BY Room DEF RInv, WrEdge, Bytes

\* A read-side edge out of reset is a get of the head, or leaves the queue.
LEMMA ReaderStep ==
  ASSUME RInv, arst # 1, NEW en \in {0, 1}, NEW s, RdEdge(en, s)
  PROVE \/ wr # rd /\ rd' = Inc(rd) /\ taken' = mem[Slot(rd)]
        \/ rd' = rd /\ taken' = taken
BY Room DEF RInv, RdEdge

\* What the two sides do to the queue together.
LEMMA Moves ==
  ASSUME RInv,
         \/ \E d \in Data : /\ Occ(wr, rd) < Depth /\ wr' = Inc(wr)
                            /\ mem' = [mem EXCEPT ![Slot(wr)] = d]
         \/ wr' = wr /\ mem' = mem,
         \/ wr # rd /\ rd' = Inc(rd) /\ taken' = mem[Slot(rd)]
         \/ rd' = rd /\ taken' = taken
  PROVE Abstract!FifoNext \/ UNCHANGED <<queue, taken>>
<1>0. wr \in Ptr /\ rd \in Ptr /\ mem \in Mem /\ Inc(rd) \in Ptr
  BY IncFacts DEF RInv, IInv, TypeOK, Mem, Bytes
<1>1. Len(queue) = Occ(wr, rd)
  BY <1>0, QSeq, QueueIsQ
<1>2. ASSUME NEW d \in Data, Occ(wr, rd) < Depth, wr' = Inc(wr),
             mem' = [mem EXCEPT ![Slot(wr)] = d]
      PROVE Abstract!FifoNext
  <2>1. d \in Bytes
    BY DEF Bytes
  <2>2. CASE rd' = rd /\ taken' = taken
    <3>1. queue' = Append(queue, d)
      BY <1>0, <1>2, <2>1, <2>2, QPut, QueueIsQ, ZenonT(60)
    <3>2. QED BY <1>1, <1>2, <2>2, <3>1 DEF Abstract!FifoNext, Abstract!Put
  <2>3. CASE wr # rd /\ rd' = Inc(rd) /\ taken' = mem[Slot(rd)]
    <3>1. Occ(wr, Inc(rd)) < Depth
      BY <1>0, <1>2, <2>3, QSeq, OccMoves, DepthAssumption
    <3>2. Q(wr', rd', mem') = Append(Q(wr, Inc(rd), mem), d)
      BY <1>0, <1>2, <2>1, <2>3, <3>1, QPut, ZenonT(60)
    <3>3. queue # <<>> /\ Head(queue) = mem[Slot(rd)] /\ Q(wr, Inc(rd), mem) = Tail(queue)
      BY <1>0, <2>3, QGet, QueueIsQ
    <3>4. queue' = Append(Tail(queue), d)
      BY <3>2, <3>3, QueueIsQ
    <3>5. QED
      BY <1>1, <1>2, <2>3, <3>3, <3>4 DEF Abstract!FifoNext, Abstract!PutGet
  <2>4. QED BY <2>2, <2>3
<1>3. ASSUME wr' = wr, mem' = mem
      PROVE Abstract!FifoNext \/ UNCHANGED <<queue, taken>>
  <2>1. CASE rd' = rd /\ taken' = taken
    BY <1>3, <2>1, QueueIsQ
  <2>2. CASE wr # rd /\ rd' = Inc(rd) /\ taken' = mem[Slot(rd)]
    <3>1. queue # <<>> /\ Head(queue) = mem[Slot(rd)] /\ queue' = Tail(queue)
      BY <1>0, <1>3, <2>2, QGet, QueueIsQ
    <3>2. QED BY <2>2, <3>1 DEF Abstract!FifoNext, Abstract!Get
  <2>3. QED BY <2>1, <2>2
<1>4. QED BY <1>2, <1>3

\* Every step of the registers is a step of the queue, or none.
LEMMA StepImplements ==
  RInv /\ [PtrNext]_vars => [Abstract!FifoNext]_(Abstract!fifoVars)
<1> SUFFICES ASSUME RInv, [PtrNext]_vars
             PROVE Abstract!FifoNext \/ UNCHANGED <<queue, taken>>
  BY DEF Abstract!fifoVars
<1>0. wr \in Ptr /\ rd \in Ptr
  BY DEF RInv, IInv, TypeOK
<1>1. CASE arst # 1 /\ WrTick
  <2>1. PICK d \in Bytes : WrEdge(d, rd) /\ UNCHANGED <<rd, taken>>
    BY <1>1 DEF WrTick, rdVars, Bytes
  <2>2. QED BY <1>1, <2>1, WriterStep, Moves
<1>2. CASE arst # 1 /\ RdTick
  <2>1. PICK en \in {0, 1} : RdEdge(en, wr) /\ UNCHANGED <<wr, mem>>
    BY <1>2 DEF RdTick, wrVars
  <2>2. QED BY <1>2, <2>1, ReaderStep, Moves
<1>3. CASE arst # 1 /\ BothTick
  <2>1. PICK d \in Bytes, en \in {0, 1}, s \in {rd, Inc(rd)}, t \in {wr, Inc(wr)} :
               WrEdge(d, s) /\ RdEdge(en, t)
    BY <1>3 DEF BothTick, Bytes
  <2>2. QED BY <1>3, <2>1, WriterStep, ReaderStep, Moves
<1>4. CASE arst = 1 /\ (WrTick \/ RdTick \/ BothTick)
  <2>1. wr = 0 /\ rd = 0 /\ wr' = 0 /\ rd' = 0 /\ taken' = taken
    BY <1>4 DEF RInv, ResetIsEmpty, WrTick, RdTick, BothTick, WrEdge, RdEdge, wrVars, rdVars
  <2>2. QED BY <1>0, <2>1, EmptyQ, QueueIsQ
<1>5. CASE ResetOn
  <2>1. queue' = <<>>
    BY <1>5, EmptyQ, QueueIsQ, DepthAssumption DEF ResetOn, Ptr
  <2>2. QED BY <1>5, <2>1 DEF ResetOn, Abstract!FifoNext, Abstract!Flush
<1>6. CASE ResetOff
  BY <1>6, QueueIsQ DEF ResetOff, wrVars, rdVars
<1>7. CASE UNCHANGED vars
  BY <1>7, QueueIsQ DEF vars
<1>8. QED
  BY <1>1, <1>2, <1>3, <1>4, <1>5, <1>6, <1>7 DEF PtrNext

\* The power-up state is the empty queue.
LEMMA InitImplements == PtrInit => Abstract!FifoInit
<1> SUFFICES ASSUME PtrInit PROVE Abstract!FifoInit
  OBVIOUS
<1>1. wr = rd /\ wr \in Ptr
  BY DepthAssumption DEF PtrInit, Ptr
<1>2. QED BY <1>1, EmptyQ, QueueIsQ DEF PtrInit, Abstract!FifoInit

\* sd_async_byte_fifo at pointer level is a bounded queue, for every depth and
\* whatever the phases of the clocks: nothing is lost, doubled or reordered.
THEOREM RingIsQueue == PtrSpec => ImplementsFifo
<1>1. QED
  BY InitRInv, NextRInv, InitImplements, StepImplements, PTL
    DEF PtrSpec, ImplementsFifo, Abstract!FifoSpec
=============================================================================
