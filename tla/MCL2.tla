-------------------------------- MODULE MCL2 --------------------------------
(* Requests that meet in one set (L0, L1, L2), or in one of two (M0, M1).    *)
EXTENDS L2Ctrl

CONSTANTS L0, L1, L2, M0, M1

Indexed == [l \in {L0, L1, L2, M0, M1} |-> IF l \in {M0, M1} THEN 2 ELSE 1]

Op(l, kind, quad, v, i) ==
  [line |-> l, kind |-> kind, wr |-> kind # "read", q |-> quad, val |-> v,
   id |-> i, need |-> TRUE, illegal |-> FALSE]
Scenario(ops, stalls, errs) == [ops |-> ops, stalls |-> stalls, errs |-> errs]

\* Reads, whole-quadrant and partial writes of one line, and a line in its way.
MixedOps == {Op(L0, "read", 1, None, 1), Op(L0, "quad", 1, 1, 3), Op(L0, "part", 1, 0, 2),
             Op(L1, "read", 1, None, 1)}
\* A second quadrant: lines that are valid in part.
PartialOps == MixedOps \cup {Op(L0, "read", 2, None, 1)}
\* Full-line writes, bursts the door marks illegal, writes nobody waits for.
ErrorOps == {Op(L0, "read", 1, None, 1), Op(L0, "part", 1, 1, 2), Op(L0, "line", 1, 0, 3),
             [Op(L1, "read", 1, None, 1) EXCEPT !.illegal = TRUE],
             [Op(L1, "part", 1, None, 3) EXCEPT !.need = FALSE]}
DataScenarios == {Scenario(MixedOps, {"hit"}, FALSE), Scenario(PartialOps, {"mshr"}, FALSE),
                  Scenario(ErrorOps, {}, TRUE)}

\* Which way a miss may take.
WaysOps == {Op(L0, "read", 1, None, 1), Op(L1, "read", 1, None, 2), Op(L2, "quad", 1, None, 2)}
\* Two requesters of one line, and a line beside it.
CopiesOps == {Op(L0, "read", 1, None, 1), Op(L0, "read", 1, None, 2),
              Op(L0, "quad", 1, None, 3), Op(L2, "quad", 1, None, 3)}
WayScenarios == {Scenario(WaysOps, {}, FALSE), Scenario(CopiesOps, {}, FALSE)}

\* Few requests, for liveness; and writes only, so that every line leaves dirty.
LiveOps == {Op(L0, "read", 1, None, 1), Op(L0, "part", 1, 1, 2), Op(L1, "quad", 1, None, 2)}
EvictOps == {Op(l, "quad", 1, IF l = L0 THEN 1 ELSE None, 1) : l \in {L0, L1, M0, M1}}
LiveScenarios == {Scenario(LiveOps, {}, FALSE), Scenario(EvictOps, {}, FALSE)}

\* Evictions in different sets on successive cycles, and a read of a line that
\* has just left.
WindowOps == {Op(L0, "quad", 1, 1, 1), Op(L0, "read", 1, None, 2), Op(L1, "quad", 1, None, 1),
              Op(M0, "quad", 1, None, 1), Op(M1, "quad", 1, None, 1)}
WindowScenarios == {Scenario(WindowOps, {}, FALSE)}
=============================================================================
