----------------------------- MODULE SdByteFifo -----------------------------
(***************************************************************************)
(* rtl/soc/sd_async_byte_fifo.v register by register: binary and Gray      *)
(* pointers on both sides and the two synchronizer flops per direction.    *)
(* A flop that samples a Gray register while it changes captures each bit  *)
(* as it was or as it becomes, independently: Torn is every such sample.   *)
(***************************************************************************)
EXTENDS Naturals, Sequences

CONSTANTS AddrW, Data, NoData

VARIABLES wr_bin, wr_gray, rd_gray_wr_a, rd_gray_wr_b,
          rd_bin, rd_gray, wr_gray_rd_a, wr_gray_rd_b,
          mem, arst, taken

wrRegs == <<wr_bin, wr_gray, rd_gray_wr_a, rd_gray_wr_b>>
rdRegs == <<rd_bin, rd_gray, wr_gray_rd_a, wr_gray_rd_b>>
vars == <<wr_bin, wr_gray, rd_gray_wr_a, rd_gray_wr_b,
          rd_bin, rd_gray, wr_gray_rd_a, wr_gray_rd_b, mem, arst, taken>>

DEPTH == 2 ^ AddrW
Bits == 0 .. AddrW
Codes == [Bits -> {0, 1}]

\* Fault: the pointers cross in binary.
Binary(b) == [k \in Bits |-> (b \div 2 ^ k) % 2]
\* (b >> 1) ^ b, bit by bit.
Gray(b) == [k \in Bits |-> ((b \div 2 ^ k) + (b \div 2 ^ (k + 1))) % 2]

\* Every value a flop may capture while a register moves from old to new.
Torn(old, new) == {g \in Codes : \A k \in Bits : g[k] \in {old[k], new[k]}}

\* {~g[ADDR_W:ADDR_W-1], g[ADDR_W-2:0]}
FullCode(g) == [k \in Bits |-> IF k >= AddrW - 1 THEN 1 - g[k] ELSE g[k]]

wr_full == wr_gray = FullCode(rd_gray_wr_b)
rd_empty == rd_gray = wr_gray_rd_b
Bump(b) == (b + 1) % (2 * DEPTH)

Init == /\ wr_bin = 0 /\ rd_bin = 0
        /\ wr_gray = Gray(0) /\ rd_gray_wr_a = Gray(0) /\ rd_gray_wr_b = Gray(0)
        /\ rd_gray = Gray(0) /\ wr_gray_rd_a = Gray(0) /\ wr_gray_rd_b = Gray(0)
        /\ mem = [i \in 0 .. (DEPTH - 1) |-> NoData]
        /\ arst = 0
        /\ taken = NoData

\* posedge wr_clk: the memory port, then (out of reset) the pointer process.
WrEdge(d, sample) ==
  LET take == d # NoData /\ ~wr_full
      nxt == IF take THEN Bump(wr_bin) ELSE wr_bin
  IN /\ mem' = IF take THEN [mem EXCEPT ![wr_bin % DEPTH] = d] ELSE mem
     /\ IF arst = 1
        THEN UNCHANGED wrRegs
        ELSE /\ rd_gray_wr_a' = sample
             /\ rd_gray_wr_b' = rd_gray_wr_a
             /\ wr_bin' = nxt
             /\ wr_gray' = Gray(nxt)


\* posedge rd_clk.
RdEdge(en, sample) ==
  LET take == en = 1 /\ ~rd_empty
      nxt == IF take THEN Bump(rd_bin) ELSE rd_bin
  IN IF arst = 1
     THEN UNCHANGED <<rdRegs, taken>>
     ELSE /\ wr_gray_rd_a' = sample
          /\ wr_gray_rd_b' = wr_gray_rd_a
          /\ rd_bin' = nxt
          /\ rd_gray' = Gray(nxt)
          /\ taken' = IF take THEN mem[rd_bin % DEPTH] ELSE taken

WrTick == \E d \in Data \cup {NoData} :
            WrEdge(d, rd_gray) /\ UNCHANGED <<rdRegs, taken, arst>>

RdTick == \E en \in {0, 1} :
            RdEdge(en, wr_gray) /\ UNCHANGED <<wrRegs, mem, arst>>

\* The two posedges coincide: each side's first flop may capture a torn code.
BothTick == \E d \in Data \cup {NoData}, en \in {0, 1} :
            \E sw \in Torn(rd_gray, Gray(Bump(rd_bin))),
               sr \in Torn(wr_gray, Gray(Bump(wr_bin))) :
              /\ WrEdge(d, sw) /\ RdEdge(en, sr)
              /\ sw \in Torn(rd_gray, rd_gray')
              /\ sr \in Torn(wr_gray, wr_gray')
              /\ UNCHANGED arst

\* posedge arst.
ResetOn == /\ arst' = 1
           /\ wr_bin' = 0 /\ rd_bin' = 0
           /\ wr_gray' = Gray(0) /\ rd_gray_wr_a' = Gray(0)
           /\ rd_gray_wr_b' = Gray(0)
           /\ rd_gray' = Gray(0) /\ wr_gray_rd_a' = Gray(0)
           /\ wr_gray_rd_b' = Gray(0)
           /\ taken' = NoData
           /\ UNCHANGED mem

ResetOff == arst = 1 /\ arst' = 0 /\ UNCHANGED <<wrRegs, rdRegs, mem, taken>>

Next == WrTick \/ RdTick \/ BothTick \/ ResetOn \/ ResetOff

Spec == Init /\ [][Next]_vars

\* Both clocks run for ever and the environment may keep arst low: only the
\* edges are fair, never what the endpoints ask for.
LiveSpec == Spec /\ WF_vars(WrTick) /\ WF_vars(RdTick) /\ WF_vars(ResetOff)

-----------------------------------------------------------------------------
(* Properties *)

Bin(g) == CHOOSE b \in 0 .. (2 * DEPTH - 1) : Gray(b) = g

Pointers == INSTANCE PtrFifo
  WITH Depth <- DEPTH,
       wr <- wr_bin, rd_wr_a <- Bin(rd_gray_wr_a), rd_wr_b <- Bin(rd_gray_wr_b),
       rd <- rd_bin, wr_rd_a <- Bin(wr_gray_rd_a), wr_rd_b <- Bin(wr_gray_rd_b)

\* A torn Gray sample is the pointer before or after the move and nothing
\* else, and the full and empty comparisons of codes decide the distances
\* they stand for: the Gray-coded FIFO implements the pointer-level one.
ImplementsPointers == Pointers!PtrSpec

\* An entry written does not wait for ever unseen: again and again the ring is
\* empty, or the reader is offered something, or a reset has come.
WrittenBecomesVisible == []<>(wr_bin = rd_bin \/ ~rd_empty \/ arst = 1)

\* A free slot does not stay unseen by the writer for ever.
FreedBecomesWritable ==
  []<>(Pointers!Occ(wr_bin, rd_bin) = DEPTH \/ ~wr_full \/ arst = 1)
=============================================================================
