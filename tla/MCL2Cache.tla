----------------------------- MODULE MCL2Cache -----------------------------
(***************************************************************************)
(* The L2 controller in two shapes on the same registers; a behaviour      *)
(* belongs to one of them, `dev'.  "data" follows a byte through one way   *)
(* and one miss entry; "ways" lets three lines of a set compete for the    *)
(* ways and the miss entries.                                              *)
(***************************************************************************)
EXTENDS MCL2

CONSTANTS WayLines, WayQuads, WayWays, WayEntries, WayLoads

VARIABLE dev

Two == INSTANCE L2Ctrl WITH Lines <- WayLines, Quads <- WayQuads, Ways <- WayWays,
                            Entries <- WayEntries, Scenarios <- WayLoads

CacheInit == \/ dev = "data" /\ Init
             \/ dev = "ways" /\ Two!Init
CacheNext == \/ dev = "data" /\ Next /\ UNCHANGED dev
             \/ dev = "ways" /\ Two!Next /\ UNCHANGED dev
CacheSpec == CacheInit /\ [][CacheNext]_<<dev, vars>>

----------------------------------------------------------------------------
\* l2c_ctrl: a read returns the followed byte as of a write accepted before it,
\* never older than the last write acknowledged before it was accepted.
DataReadsCurrent == dev = "data" => ReadsCurrent

\* l2c_ctrl: a line whose dirty copy is on its way to DRAM is not being fetched
\* from DRAM.
DataNoFetchOfLeavingLine == dev = "data" => NoFetchOfLeavingLine

\* l2c_ctrl: with no write of the byte pending, its value is where a reader will
\* look for it: in the cache, else with the leaving copy, else in DRAM.
DataByteHasHome == dev = "data" => ByteHasHome

\* l2c_ctrl: no two entries of the miss table claim one way, whatever the age of
\* the victim choice each allocation used.
WaysClaimsDisjoint == dev = "ways" => Two!ClaimsDisjoint

\* l2c_ctrl: a line is valid in one way at most, and has one miss entry at most.
WaysOneCopyPerLine == dev = "ways" => Two!OneCopyPerLine
=============================================================================
