--------------------------- MODULE VhddReadahead ---------------------------
(***************************************************************************)
(* rtl/soc/vhdd_readahead.v: the read-ahead cache between the SCSI target  *)
(* (master) and the disk (provider).  One Tick is one edge of clk.  A FILL *)
(* machine streams a run of blocks from the provider into one of two ways; *)
(* a REQUEST machine serves the master out of a way, possibly the one that *)
(* is still filling.  A byte is the block it comes from and the version of *)
(* that block it carries; a write of the master, a swap of the medium and  *)
(* a writer behind inval make new versions.  fill_ptr always equals the    *)
(* filling way's way_bytes and is not kept.  A register that nobody reads  *)
(* before it is next loaded is Held at zero meanwhile.                     *)
(***************************************************************************)
EXTENDS Naturals, FiniteSets

CONSTANTS
  BlkBytes,         \* bytes of a block
  BLOCKS_PER_WAY,   \* blocks a way holds
  LbaSpace,         \* block numbers are below this (2^32 in the code)
  WdogMax,          \* all-ones value of serve_wdog
  Scenarios,        \* builds and environments, one of which a behaviour lives in:
                    \* ADAPTIVE_READAHEAD (adaptive), the requests of the master
                    \* (ops), the capacities a medium may have (sizes), the
                    \* bound on versions of a block (maxVer), and whether the
                    \* master may ask on the very cycle of a swap (eager)
  None

\* vhdd.vh: a request is of at least one block, and of one block unless multi.
Requests == [wr : BOOLEAN, multi : BOOLEAN, lba : Nat, count : Nat]
Jobs == [wr : BOOLEAN, lba : Nat, n : Nat, k : Nat]
Bytes == [lba : Nat, ver : Nat]
ASSUME ReadaheadAssumption ==
  /\ BlkBytes \in Nat \ {0} /\ BLOCKS_PER_WAY \in Nat \ {0} /\ LbaSpace \in Nat
  /\ \A s \in Scenarios :
       /\ s.adaptive \in BOOLEAN /\ s.sizes \subseteq 1 .. LbaSpace
       /\ \A x \in s.ops : x \in Requests /\ x.count > 0 /\ (x.multi \/ x.count = 1)
  /\ None \notin Requests \cup Jobs \cup Bytes \cup {"done", "error"}

VARIABLES
  scn,                 \* the scenario, never changed
  way_valid, way_base, way_bytes, lru, last_num_lbas, cache_mem,
  fst, f_lba, f_count, f_way, f_poison,
  rq, pend_pass, serve_way, serve_off, serve_left, serve_wdog,
  done_r, err_r, rd_valid_r, serve_q,
  num_lbas, inval,     \* inputs: capacity; 0 low, 1 first high cycle, 2 held
  req,                 \* the master's request, held until the next one
  prov,                \* the provider's job, or None
  ver, floor,          \* versions on the medium now / when req was made
  sent, out, stale,    \* bytes the master has; the last one; was any too old
  fin                  \* how req ended, on the cycle after

fillVars == <<way_valid, way_base, way_bytes, lru, last_num_lbas, cache_mem,
              fst, f_lba, f_count, f_way, f_poison>>
reqVars == <<rq, pend_pass, serve_way, serve_off, serve_left, serve_wdog,
             done_r, err_r, rd_valid_r, serve_q>>
envVars == <<num_lbas, inval, req, prov, ver, floor, sent, out, stale, fin>>
vars == <<scn, fillVars, reqVars, envVars>>

Way == {0, 1}
WAY_BYTES == BLOCKS_PER_WAY * BlkBytes
NoByte == [lba |-> LbaSpace, ver |-> 0]
Held(read, v, zero) == IF read THEN v ELSE zero
Smaller(x, y) == IF x < y THEN x ELSE y
Larger(x, y) == IF x > y THEN x ELSE y

medium_changed == num_lbas # last_num_lbas
cache_kill == inval # 0 \/ medium_changed
fill_active == fst # "F_IDLE"
prov_busy_any == fill_active \/ prov # None

----------------------------------------------------------------------------
\* Decisions about a request x, the one in flight or the one starting now.

\* Blocks present in a way, and the extent test of one way.
Blocks(w) == way_bytes[w] \div BlkBytes
InWay(x, w) == x.lba >= way_base[w] /\ x.lba - way_base[w] < BLOCKS_PER_WAY
Need(x, w) == x.lba - way_base[w] + x.count
Hit(x, w) == way_valid[w] /\ InWay(x, w) /\ Need(x, w) <= Blocks(w)

\* A write voids every way it overlaps; an extent that wraps or is empty all.
write_blocks(x) == IF x.multi THEN x.count ELSE 1
write_kill(go, w) ==
  /\ go # None /\ go.wr
  /\ LET end == go.lba + write_blocks(go)
     IN \/ write_blocks(go) = 0 \/ end >= LbaSpace
        \/ go.lba < way_base[w] + BLOCKS_PER_WAY /\ end > way_base[w]

\* The extent is inside the run that is still arriving.
\* Fault: a run voided while it arrives still answers.
hit_fly_poisoned(x, go) ==
  fill_active /\ ~cache_kill /\ ~write_kill(go, f_way) /\ InWay(x, f_way) /\ Need(x, f_way) <= f_count
hit_fly(x, go) == /\ fill_active /\ ~f_poison /\ ~cache_kill /\ ~write_kill(go, f_way)
                  /\ InWay(x, f_way) /\ Need(x, f_way) <= f_count
hit_any(x, go) == Hit(x, 0) \/ Hit(x, 1) \/ hit_fly(x, go)
hit_way(x) == IF Hit(x, 0) THEN 0 ELSE IF Hit(x, 1) THEN 1 ELSE f_way

\* The length of the run a miss fetches; lbas_left wraps like the subtraction.
follows_run(x) == \E w \in Way : way_valid[w] /\ x.lba = way_base[w] + Blocks(w)
desired_fetch(x) == IF ~scn.adaptive \/ follows_run(x) THEN BLOCKS_PER_WAY
                    ELSE Larger(x.count, Smaller(BLOCKS_PER_WAY, 2))
lbas_left(x) == (num_lbas + LbaSpace - x.lba) % LbaSpace
fetch_len(x) == Smaller(lbas_left(x), desired_fetch(x))
cacheable(x) == /\ ~x.wr /\ x.count # 0 /\ x.count <= BLOCKS_PER_WAY
                /\ x.lba < num_lbas /\ fetch_len(x) >= x.count

----------------------------------------------------------------------------
\* Serve engine.  rdy is rd_ready.

\* Fault: the serve does not look at the fill frontier.
serve_avail_any == TRUE
serve_avail == serve_off < way_bytes[serve_way]
owed == rq = "R_SERVE" /\ serve_left # 0
serve_re(rdy) == owed /\ rdy /\ serve_avail
\* Fault: the request ends when its last byte is due, taken or not.
last_due(rdy) == owed /\ serve_left = 1
last_taken(rdy) == serve_re(rdy) /\ serve_left = 1
\* Fault: a serve does not notice that its fill has ended short.
serve_never_dead == FALSE
serve_dead == owed /\ ~serve_avail /\ ~fill_active
serve_stall(rdy) == owed /\ serve_avail /\ ~rdy

\* x is the request being decided on: the one starting (go) or the one held.
Deciding(go) == IF go # None THEN go ELSE req
serve_start(go) ==
  LET x == Deciding(go)
  IN \/ rq = "R_IDLE" /\ go # None /\ cacheable(x) /\ (hit_any(x, go) \/ ~prov_busy_any)
     \/ rq = "R_WAIT" /\ ~prov_busy_any /\ ~pend_pass
fill_start(go) == serve_start(go) /\ ~hit_any(Deciding(go), go)

----------------------------------------------------------------------------
\* The provider (contract rtl/vhdd.vh).  pe is what it does on this cycle:
\* nothing, one byte of a read, done, or done with error.

ByteOf == [lba |-> prov.lba + prov.k \div BlkBytes,
           ver |-> ver[prov.lba + prov.k \div BlkBytes]]
p_rd_ready(rdy) == IF rq = "R_PASS" THEN rdy ELSE TRUE
Events(rdy) ==
  {"quiet"} \cup
  (IF prov = None THEN {}
   ELSE {"error"} \cup
        (IF prov.wr \/ prov.k = prov.n * BlkBytes THEN {"done"}
         ELSE IF p_rd_ready(rdy) /\ prov.lba + prov.k \div BlkBytes < num_lbas
         THEN {"byte"} ELSE {}))
p_done(pe) == pe \in {"done", "error"}

ProviderEdge(pe) ==
  prov' = IF fst = "F_ISSUE" THEN [wr |-> FALSE, lba |-> f_lba, n |-> f_count, k |-> 0]
          ELSE IF rq = "R_PASSGO"
          THEN [wr |-> req.wr, lba |-> req.lba, k |-> 0,
                n |-> IF req.multi THEN req.count ELSE 1]
          ELSE IF p_done(pe) THEN None
          ELSE IF pe = "byte" THEN [prov EXCEPT !.k = @ + 1] ELSE prov

----------------------------------------------------------------------------
fill_we(pe) == fst = "F_FILL" /\ pe = "byte" /\ way_bytes[f_way] < WAY_BYTES

\* Fault: a run is kept although it was voided while it arrived.
KeepPoisoned(go, pe) == /\ fst = "F_FILL" /\ pe = "done"
                        /\ ~cache_kill /\ ~write_kill(go, f_way) /\ Blocks(f_way) # 0
\* A run is kept if it ended cleanly and nothing voided it on the way.
Keep(go, pe) == /\ fst = "F_FILL" /\ pe = "done" /\ ~f_poison
                /\ ~cache_kill /\ ~write_kill(go, f_way) /\ Blocks(f_way) # 0

FillEdge(go, pe) ==
  LET x == Deciding(go)
      launch == fill_start(go)
      byHit == serve_start(go) /\ ~launch
      filling == fst' # "F_IDLE"
      \* Somebody may still read this way.
      live(w) == way_valid'[w] \/ (filling /\ f_way' = w) \/ (rq' = "R_SERVE" /\ serve_way' = w)
  IN /\ last_num_lbas' = num_lbas
     /\ way_valid' = [w \in Way |->
          IF launch /\ w = lru THEN FALSE
          ELSE IF Keep(go, pe) /\ w = f_way THEN TRUE
          ELSE way_valid[w] /\ ~cache_kill /\ ~write_kill(go, w)]
     /\ lru' = IF byHit THEN 1 - hit_way(x)
               ELSE IF Keep(go, pe) THEN 1 - f_way ELSE lru
     /\ fst' = IF launch THEN "F_ISSUE" ELSE IF fst = "F_ISSUE" THEN "F_FILL"
               ELSE IF fst = "F_FILL" /\ p_done(pe) THEN "F_IDLE" ELSE fst
     /\ f_lba' = Held(filling, IF launch THEN x.lba ELSE f_lba, 0)
     /\ f_count' = Held(filling, IF launch THEN fetch_len(x) ELSE f_count, 0)
     /\ f_way' = Held(filling, IF launch THEN lru ELSE f_way, 0)
     /\ f_poison' = (filling /\ ~launch /\ (f_poison \/ cache_kill \/ write_kill(go, f_way)))
     /\ way_base' = [w \in Way |-> Held(live(w), IF launch /\ w = lru THEN x.lba ELSE way_base[w], 0)]
     /\ way_bytes' = [w \in Way |-> Held(live(w),
          IF launch /\ w = lru THEN 0
          ELSE IF fill_we(pe) /\ w = f_way THEN way_bytes[w] + 1 ELSE way_bytes[w], 0)]
     /\ cache_mem' = [w \in Way |-> [k \in 0 .. WAY_BYTES - 1 |-> Held(k < way_bytes'[w],
          IF fill_we(pe) /\ w = f_way /\ k = way_bytes[w] THEN ByteOf ELSE cache_mem[w][k], NoByte)]]

RqNext(go, rdy, pe) ==
  LET start == IF serve_start(go) THEN "R_SERVE" ELSE "R_WAIT"
  IN CASE rq = "R_IDLE" -> IF go = None THEN "R_IDLE"
                           ELSE IF cacheable(go) THEN start
                           ELSE IF prov_busy_any THEN "R_WAIT" ELSE "R_PASSGO"
       [] rq = "R_WAIT" -> IF prov_busy_any THEN "R_WAIT"
                           ELSE IF pend_pass THEN "R_PASSGO" ELSE "R_SERVE"
       [] rq = "R_PASSGO" -> "R_PASS"
       [] rq = "R_PASS" -> IF p_done(pe) THEN "R_IDLE" ELSE "R_PASS"
       [] rq = "R_SERVE" -> IF \/ serve_dead \/ cache_kill
                               \/ serve_stall(rdy) /\ serve_wdog = WdogMax
                            THEN "R_ERR"
                            ELSE IF last_taken(rdy) THEN "R_FIN"
                            ELSE "R_SERVE"
       [] OTHER -> "R_IDLE"     \* R_FIN, R_ERR

RequestEdge(go, rdy, pe) ==
  LET x == Deciding(go)
      byHit == hit_any(x, go)
  IN /\ rq' = RqNext(go, rdy, pe)
     /\ done_r' = (rq \in {"R_FIN", "R_ERR"})
     /\ err_r' = IF rq = "R_IDLE" THEN FALSE ELSE err_r \/ rq' = "R_ERR"
     /\ rd_valid_r' = serve_re(rdy)
     /\ serve_q' = Held(serve_re(rdy), cache_mem[serve_way][serve_off], NoByte)
     /\ pend_pass' = IF rq = "R_IDLE" /\ go # None
                     THEN IF ~cacheable(go) THEN TRUE
                          ELSE IF rq' = "R_WAIT" THEN FALSE ELSE pend_pass
                     ELSE pend_pass /\ ~(rq = "R_PASS" /\ p_done(pe))
     /\ IF serve_start(go)
        THEN /\ serve_way' = IF byHit THEN hit_way(x) ELSE lru
             /\ serve_off' = IF byHit THEN (x.lba - way_base[hit_way(x)]) * BlkBytes ELSE 0
             /\ serve_left' = x.count * BlkBytes
             /\ serve_wdog' = 0
        ELSE LET serving == rq' = "R_SERVE"
                 took == IF serve_re(rdy) THEN 1 ELSE 0
             IN /\ serve_way' = Held(serving, serve_way, 0)
                /\ serve_off' = Held(serving, serve_off + took, 0)
                /\ serve_left' = Held(serving, serve_left - took, 0)
                /\ serve_wdog' = Held(serving /\ serve_stall(rdy), serve_wdog + 1, 0)

----------------------------------------------------------------------------
\* The master's side of the seam, and the history of its request.

busy == rq # "R_IDLE" \/ done_r
Seen(pe) == IF rq = "R_PASS" THEN (IF pe = "byte" THEN ByteOf ELSE None)
            ELSE IF rd_valid_r THEN serve_q ELSE None
Ended(pe) == IF rq = "R_PASS" THEN (IF p_done(pe) THEN pe ELSE None)
             ELSE IF done_r THEN (IF err_r THEN "error" ELSE "done") ELSE None

Older(b) == b = NoByte \/ b.ver < floor[b.lba]
NoReq == [wr |-> FALSE, multi |-> FALSE, lba |-> 0, count |-> 0]
MasterEdge(go, pe) ==
  /\ req' = Held(busy, req, IF go # None THEN go ELSE NoReq)
  /\ floor' = Held(busy, floor, IF go # None THEN ver ELSE ver')
  /\ sent' = Held(busy, IF Seen(pe) # None THEN sent + 1 ELSE sent, 0)
  /\ out' = Held(busy /\ Seen(pe) # None, [pos |-> sent, byte |-> Seen(pe)], None)
  /\ stale' = (busy /\ (stale \/ (Seen(pe) # None /\ Older(Seen(pe)))))
  /\ fin' = Ended(pe)

\* New versions: the blocks of a write that has ended (any part of them when it
\* failed), or every block, by a new medium or by a writer behind inval.
\* maxVer bounds them; a write that is under way has its version reserved.
Bump(S) == ver' = [l \in DOMAIN ver |-> IF l \in S THEN ver[l] + 1 ELSE ver[l]]
Extent(lba, n) == lba .. (lba + n - 1)
Room(S, n) == \A l \in S : ver[l] + n <= scn.maxVer
Writing == (busy /\ req.wr) \/ (prov # None /\ prov.wr)
BumpAll == Room(DOMAIN ver, IF Writing THEN 2 ELSE 1) /\ Bump(DOMAIN ver)

WriteEnds(pe) == p_done(pe) /\ prov.wr
MediumEdge(go, pe) ==
  \/ /\ num_lbas' = num_lbas
     /\ inval' \in (IF inval = 1 THEN {2} ELSE {0, inval})
     /\ IF ~WriteEnds(pe) THEN UNCHANGED ver
        ELSE IF pe = "done" THEN Bump(Extent(prov.lba, prov.n))
        ELSE \E S \in SUBSET Extent(prov.lba, prov.n) : Bump(S)
  \/ /\ ~WriteEnds(pe) /\ (go # None => ~go.wr) /\ BumpAll
     /\ \/ num_lbas' = num_lbas /\ inval' = (IF inval = 0 THEN 1 ELSE 2)
        \/ inval = 0 /\ inval' = 0 /\ num_lbas' \in scn.sizes \ {num_lbas}

\* A request the master may make: inside the volume, and in the bound.
Issuable == {x \in scn.ops : /\ ~busy /\ x.lba + x.count <= num_lbas
                             /\ scn.eager \/ ~medium_changed
                             /\ x.wr => ~Writing /\ Room(Extent(x.lba, write_blocks(x)), 1)}

\* rd_ready matters only when a byte could be taken.
Looked == (owed /\ serve_avail) \/ rq = "R_PASS"

Tick == \E go \in Issuable \cup {None} :
        \E rdy \in (IF Looked THEN BOOLEAN ELSE {TRUE}) : \E pe \in Events(rdy) :
          /\ UNCHANGED scn /\ RequestEdge(go, rdy, pe) /\ FillEdge(go, pe)
          /\ MediumEdge(go, pe) /\ ProviderEdge(pe) /\ MasterEdge(go, pe)

Init == /\ scn \in Scenarios
        /\ way_valid = [w \in Way |-> FALSE] /\ way_base = [w \in Way |-> 0]
        /\ way_bytes = [w \in Way |-> 0] /\ lru = 0
        /\ num_lbas \in scn.sizes /\ last_num_lbas = 0
        /\ cache_mem = [w \in Way |-> [k \in 0 .. WAY_BYTES - 1 |-> NoByte]]
        /\ fst = "F_IDLE" /\ f_lba = 0 /\ f_count = 0 /\ f_way = 0 /\ f_poison = FALSE
        /\ rq = "R_IDLE" /\ pend_pass = FALSE /\ serve_way = 0 /\ serve_off = 0
        /\ serve_left = 0 /\ serve_wdog = 0 /\ done_r = FALSE /\ err_r = FALSE
        /\ rd_valid_r = FALSE /\ serve_q = NoByte
        /\ inval = 0 /\ prov = None /\ req = NoReq
        /\ ver = [l \in 0 .. LbaSpace - 1 |-> 0] /\ floor = ver
        /\ sent = 0 /\ out = None /\ stale = FALSE /\ fin = None

\* rst: the master restarts too and forgets its request; the provider goes on
\* with its job, or is reset with us and drops it (a write half done).
Reset ==
  /\ way_valid' = [w \in Way |-> FALSE] /\ way_base' = [w \in Way |-> 0]
  /\ way_bytes' = [w \in Way |-> 0] /\ lru' = 0 /\ last_num_lbas' = 0
  /\ cache_mem' = [w \in Way |-> [k \in 0 .. WAY_BYTES - 1 |-> NoByte]]
  /\ fst' = "F_IDLE" /\ f_lba' = 0 /\ f_count' = 0 /\ f_way' = 0 /\ f_poison' = FALSE
  /\ rq' = "R_IDLE" /\ pend_pass' = FALSE /\ serve_way' = 0 /\ serve_off' = 0
  /\ serve_left' = 0 /\ serve_wdog' = 0 /\ done_r' = FALSE /\ err_r' = FALSE
  /\ rd_valid_r' = FALSE /\ serve_q' = NoByte
  /\ req' = NoReq /\ sent' = 0 /\ out' = None /\ stale' = FALSE /\ fin' = None
  /\ \/ prov' = prov /\ UNCHANGED ver
     \/ /\ prov # None /\ prov' = None
        /\ \E S \in SUBSET (IF prov.wr THEN Extent(prov.lba, prov.n) ELSE {}) : Bump(S)
  /\ floor' = ver'
  /\ UNCHANGED <<scn, num_lbas, inval>>

Next == Tick \/ Reset
Spec == Init /\ [][Next]_vars

\* The clock runs, and the provider ends every job (vhdd.vh, bounded response).
LiveSpec == Spec /\ WF_vars(Tick) /\ []<>(prov = None)

----------------------------------------------------------------------------
\* A read that ends without error has handed over no byte older than the block
\* was when the master asked: no write, swap or foreign writer that came before
\* the request is undone by a cached or an arriving copy.
ServedFresh == fin = "done" => ~stale

\* The bytes of a read arrive in order, from the blocks asked for.
ServedInOrder == out # None => out.byte.lba = req.lba + out.pos \div BlkBytes

\* A read that ends without error has delivered every byte, one that ends with
\* error or is still running no byte too many.
GoodMeansAll == /\ sent <= req.count * BlkBytes
                /\ fin = "done" /\ ~req.wr => sent = req.count * BlkBytes

\* What the tags promise: a valid way, and the arrived part of a run nothing has
\* voided, hold the current versions of consecutive blocks.
HoldsRun(w) == \A k \in 0 .. way_bytes[w] - 1 :
                 LET l == way_base[w] + k \div BlkBytes
                 IN cache_mem[w][k] = [lba |-> l, ver |-> ver[l]]
ValidMeansCurrent ==
  ~cache_kill => /\ \A w \in Way : way_valid[w] => HoldsRun(w)
                 /\ fill_active /\ ~f_poison => HoldsRun(f_way)

\* Every request ends, however long the master withholds rd_ready.
EveryRequestEnds == []<>(rq = "R_IDLE")
=============================================================================
