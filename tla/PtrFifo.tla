------------------------------- MODULE PtrFifo -------------------------------
(***************************************************************************)
(* rtl/soc/sd_async_byte_fifo.v with its Gray-coded pointers replaced by   *)
(* the positions they encode.  Each side sees the other's pointer through  *)
(* two synchronizer flops, so what it acts on is always an older value of  *)
(* the pointer; a sample taken while the pointer moves resolves to the old *)
(* or to the new position (SdByteFifo shows that this is all a torn Gray   *)
(* sample can be).  Positions run over 0 .. 2*Depth-1: the extra wrap bit  *)
(* tells a full ring from an empty one.                                    *)
(***************************************************************************)
EXTENDS Naturals, Sequences

CONSTANTS Data, Depth, NoData

ASSUME DepthAssumption == Depth \in Nat \ {0}
ASSUME DataAssumption == NoData \notin Data

VARIABLES wr, rd_wr_a, rd_wr_b,   \* write clock: own pointer, view of rd
          rd, wr_rd_a, wr_rd_b,   \* read clock: own pointer, view of wr
          mem, arst, taken

wrVars == <<wr, rd_wr_a, rd_wr_b>>
rdVars == <<rd, wr_rd_a, wr_rd_b>>
vars == <<wr, rd_wr_a, rd_wr_b, rd, wr_rd_a, wr_rd_b, mem, arst, taken>>

Ptr == 0 .. (2 * Depth - 1)
Slot(p) == IF p >= Depth THEN p - Depth ELSE p
Inc(p) == IF p = 2 * Depth - 1 THEN 0 ELSE p + 1

\* Distance from y forward to x around the ring of 2*Depth positions.
Occ(x, y) == IF x >= y THEN x - y ELSE x + 2 * Depth - y

wr_full == Occ(wr, rd_wr_b) = Depth
rd_empty == rd = wr_rd_b

PtrInit == /\ wr = 0 /\ rd_wr_a = 0 /\ rd_wr_b = 0
           /\ rd = 0 /\ wr_rd_a = 0 /\ wr_rd_b = 0
           /\ mem \in [0 .. (Depth - 1) -> {NoData}]
           /\ arst = 0
           /\ taken = NoData

\* Fault: the entry is written where the next pointer will point.
WrEdgeNextSlot(d, s) ==
  LET take == d # NoData /\ ~wr_full
  IN /\ mem' = IF take THEN [mem EXCEPT ![Slot(Inc(wr))] = d] ELSE mem
     /\ IF arst = 1
        THEN UNCHANGED wrVars
        ELSE /\ wr' = IF take THEN Inc(wr) ELSE wr
             /\ rd_wr_a' = s
             /\ rd_wr_b' = rd_wr_a

\* posedge wr_clk.  d = NoData is wr_en low; s is the sampled read pointer.
\* The memory port is outside the reset process, so it also writes in reset.
WrEdge(d, s) ==
  LET take == d # NoData /\ ~wr_full
  IN /\ mem' = IF take THEN [mem EXCEPT ![Slot(wr)] = d] ELSE mem
     /\ IF arst = 1
        THEN UNCHANGED wrVars
        ELSE /\ wr' = IF take THEN Inc(wr) ELSE wr
             /\ rd_wr_a' = s
             /\ rd_wr_b' = rd_wr_a

\* posedge rd_clk.  en is rd_en; s is the sampled write pointer.
RdEdge(en, s) ==
  IF arst = 1
  THEN UNCHANGED <<rdVars, taken>>
  ELSE LET take == en = 1 /\ ~rd_empty
       IN /\ rd' = IF take THEN Inc(rd) ELSE rd
          /\ taken' = IF take THEN mem[Slot(rd)] ELSE taken
          /\ wr_rd_a' = s
          /\ wr_rd_b' = wr_rd_a

WrTick == \E d \in Data \cup {NoData} :
            WrEdge(d, rd) /\ UNCHANGED <<rdVars, taken, arst>>

RdTick == \E en \in {0, 1} :
            RdEdge(en, wr) /\ UNCHANGED <<wrVars, mem, arst>>

\* Both clocks rise together: each sample resolves to old or new.
BothTick == \E d \in Data \cup {NoData}, en \in {0, 1} :
              \E sw \in {rd, Inc(rd)}, sr \in {wr, Inc(wr)} :
                /\ WrEdge(d, sw) /\ RdEdge(en, sr)
                /\ sw \in {rd, rd'} /\ sr \in {wr, wr'}
                /\ UNCHANGED arst

\* Fault: the synchronizer flops are left out of the reset.
ResetPointersOnly == /\ arst' = 1
                     /\ wr' = 0 /\ rd' = 0 /\ taken' = NoData
                     /\ UNCHANGED <<rd_wr_a, rd_wr_b, wr_rd_a, wr_rd_b, mem>>

\* posedge arst clears both sides' pointers at once; the taken ghost goes too.
ResetOn == /\ arst' = 1
           /\ wr' = 0 /\ rd_wr_a' = 0 /\ rd_wr_b' = 0
           /\ rd' = 0 /\ wr_rd_a' = 0 /\ wr_rd_b' = 0
           /\ taken' = NoData
           /\ UNCHANGED mem

ResetOff == arst = 1 /\ arst' = 0 /\ UNCHANGED <<wrVars, rdVars, mem, taken>>

PtrNext == WrTick \/ RdTick \/ BothTick \/ ResetOn \/ ResetOff

PtrSpec == PtrInit /\ [][PtrNext]_vars

-----------------------------------------------------------------------------
(* Properties *)

\* Every pointer and every sample of one stays on the ring of 2*Depth
\* positions (sd_async_byte_fifo's ADDR_W+1 bit pointers).
TypeOK == /\ wr \in Ptr /\ rd_wr_a \in Ptr /\ rd_wr_b \in Ptr
          /\ rd \in Ptr /\ wr_rd_a \in Ptr /\ wr_rd_b \in Ptr
          /\ mem \in [0 .. (Depth - 1) -> Data \cup {NoData}]
          /\ arst \in {0, 1}
          /\ taken \in Data \cup {NoData}

\* Going backwards around the ring one meets, in this order, the write
\* pointer, the read side's two samples of it, the read pointer, and the
\* write side's two samples of that: what a side acts on is never ahead of
\* the truth, and the whole span still fits in one lap.
SampleOrder ==
  /\ Occ(wr, rd_wr_b) = Occ(wr, wr_rd_a) + Occ(wr_rd_a, wr_rd_b)
                        + Occ(wr_rd_b, rd) + Occ(rd, rd_wr_a)
                        + Occ(rd_wr_a, rd_wr_b)
  /\ Occ(wr, rd_wr_b) <= Depth

\* The ring never holds more than Depth unread entries, so a write never
\* lands on a slot the reader has yet to read (sd_async_byte_fifo wr_full).
NoOverrun == Occ(wr, rd) <= Depth

\* A side that reports "not empty" really has an unread entry, however stale
\* its view of the write pointer is (sd_async_byte_fifo rd_empty).
NoUnderrun == ~rd_empty => wr # rd

queue == [i \in 1 .. Occ(wr, rd) |->
            mem[Slot(IF rd + i - 1 >= 2 * Depth THEN rd + i - 1 - 2 * Depth
                                                ELSE rd + i - 1)]]

Abstract == INSTANCE BoundedFifo

\* The two-clock FIFO implements the bounded queue: whatever the phase of the
\* clocks, entries come out in order, once each, with the data written.
ImplementsFifo == Abstract!FifoSpec
=============================================================================
