-------------------------- MODULE MCVhddReadahead --------------------------
(* Small volumes and a few requests: sequential, overlapping, oversized.    *)
EXTENDS VhddReadahead

Read(l, c) == [wr |-> FALSE, multi |-> c > 1, lba |-> l, count |-> c]
Write(l, c) == [wr |-> TRUE, multi |-> c > 1, lba |-> l, count |-> c]

Scenario(eager, adaptive, ops, sizes, maxVer) ==
  [eager |-> eager, adaptive |-> adaptive, ops |-> ops, sizes |-> sizes, maxVer |-> maxVer]

\* Writes, foreign writers and requests between them; the shapes and lengths of
\* runs on media of two sizes.
CacheScenarios ==
  {Scenario(FALSE, FALSE, {Read(0, 1), Read(1, 1), Read(2, 1), Write(0, 2)}, {3}, 2),
   Scenario(FALSE, TRUE, {Read(0, 1), Read(0, 2), Read(2, 1), Read(0, 3)}, {3, 2}, 1)}
\* A request on the cycle a new medium appears.
SwapScenarios == {Scenario(TRUE, FALSE, {Read(0, 1), Read(3, 1)}, {4, 2}, 1)}
=============================================================================
