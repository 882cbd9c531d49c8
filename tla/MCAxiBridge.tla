----------------------------- MODULE MCAxiBridge -----------------------------
(* Instances of AxiBridge for TLC. *)
EXTENDS AxiBridge

\* Writes only and reads only (the two directions share nothing but the
\* recovery event), with two resets where the second may overtake the drain
\* of the first, and for writes with one and more traffic around it.
BridgeScenarios == {[beats |-> <<2, 1>>, reads |-> <<>>, resets |-> 2],
                    [beats |-> <<2, 1, 2>>, reads |-> <<>>, resets |-> 1],
                    [beats |-> <<>>, reads |-> <<2, 1>>, resets |-> 2]}
=============================================================================
