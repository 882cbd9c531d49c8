---------------------------- MODULE MCCrossings ----------------------------
(***************************************************************************)
(* The devices that carry data between two clocks, checked side by side:   *)
(* a behaviour belongs to one device, `dev', and the registers of the      *)
(* others stand still.                                                     *)
(***************************************************************************)
EXTENDS PtrFifo

CONSTANTS AddrW, AsyncDepth, REQ_MIN_HOLD, AsyncScenarios, SdData

VARIABLES dev,
          wr_bin, wr_gray, rd_gray_wr_a, rd_gray_wr_b,
          rd_bin, rd_gray, wr_gray_rd_a, wr_gray_rd_b, sd_mem, sd_arst, sd_taken,
          scn, st, ahead, pulses, held

Sd == INSTANCE SdByteFifo WITH Data <- SdData, mem <- sd_mem, arst <- sd_arst, taken <- sd_taken
Async == INSTANCE AsyncFifo WITH Depth <- AsyncDepth, Scenarios <- AsyncScenarios

sdVars == <<wr_bin, wr_gray, rd_gray_wr_a, rd_gray_wr_b,
            rd_bin, rd_gray, wr_gray_rd_a, wr_gray_rd_b, sd_mem, sd_arst, sd_taken>>
asyncVars == <<scn, st, ahead, pulses, held>>
allVars == <<dev, vars, sdVars, asyncVars>>

Sc(f, g, w, r) == [fast |-> f, gaps |-> g, len |-> [w |-> w, r |-> r]]
\* The slow side resets for a tick or two; both reset at equal rates; the fast
\* side resets for long enough.
HeldScenarios ==
  {Sc("w", {3, 4}, 0, 1), Sc("r", {5}, 2, 0), Sc("w", {1}, 1, 1), Sc("r", {2}, 0, 8)}
\* The fast side resets for one tick.
PulseScenarios == {Sc("r", {2}, 0, 1)}

Init == /\ dev \in {"ptr", "sd", "async"}
        /\ PtrInit /\ Sd!Init /\ Async!Init
        /\ dev # "async" => scn = CHOOSE s \in AsyncScenarios : TRUE

PtrStep == dev = "ptr" /\ PtrNext /\ UNCHANGED <<dev, sdVars, asyncVars>>
SdStep(A) == dev = "sd" /\ A /\ UNCHANGED <<dev, vars, asyncVars>>
AsyncStep(A) == dev = "async" /\ A /\ UNCHANGED <<dev, vars, sdVars>>
Next == PtrStep \/ SdStep(Sd!Next) \/ AsyncStep(Async!Next)
Spec == Init /\ [][Next]_allVars

\* Every clock runs for ever, and a reset is released; what the endpoints ask
\* for is never fair.
LiveSpec == /\ Spec
            /\ WF_allVars(SdStep(Sd!WrTick)) /\ WF_allVars(SdStep(Sd!RdTick))
            /\ WF_allVars(SdStep(Sd!ResetOff))
            /\ WF_allVars(AsyncStep(Async!Next))

----------------------------------------------------------------------------
\* sd_async_byte_fifo: a torn Gray sample is the pointer before or after the
\* move, and the comparisons of codes decide the distances they stand for.
SdImplementsPointers == Sd!ImplementsPointers


\* async_fifo: after any reset, once neither side is engaged, exactly the
\* entries written since and not yet read are between the pointers.
AsyncIntact == Async!FifoIntact

\* async_fifo: a side engaged by a reset comes back to work.
AsyncResetEnds == Async!ResetEnds
=============================================================================
