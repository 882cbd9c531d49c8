------------------------ MODULE VhddReadaheadProofs ------------------------
(***************************************************************************)
(* The read-ahead cache keeps its promises for every way size, block size, *)
(* disk size, request and schedule: a valid way holds the medium's bytes,  *)
(* a read's bytes come in order and are all there when it ends well, and   *)
(* none of them is older than the request that asked for it.               *)
(***************************************************************************)
EXTENDS VhddReadahead, TLAPS

\* A leaf is Zenon's unless it names the SMT solver: most are first-order, and
\* the ones with arithmetic are kept apart.
USE ZenonT(60)

-----------------------------------------------------------------------------
(* Arithmetic of blocks and bytes.                                         *)

\* The quotient is the only number of whole blocks that fit.
LEMMA DivUnique ==
  ASSUME NEW b \in Nat \ {0}, NEW n \in Nat, NEW q \in Nat, q * b <= n, n < (q + 1) * b
  PROVE  n \div b = q
  BY SMTT(60)

\* Byte n lies in block n \div b.
LEMMA DivBounds ==
  ASSUME NEW b \in Nat \ {0}, NEW n \in Nat
  PROVE  /\ n \div b \in Nat /\ (n \div b) * b <= n /\ n < ((n \div b) + 1) * b
  BY SMTT(60)

\* Skipping a whole blocks of a run moves every byte's block by a.
LEMMA DivShift ==
  ASSUME NEW b \in Nat \ {0}, NEW n \in Nat, NEW a \in Nat
  PROVE  /\ (a * b + n) \div b = a + n \div b
  <1> DEFINE q == n \div b
  <1>1. q \in Nat /\ q * b <= n /\ n < (q + 1) * b
    BY DivBounds
  <1> HIDE DEF q
  <1>2. (a + q) * b = a * b + q * b /\ (a + q + 1) * b = a * b + (q + 1) * b
    BY <1>1, SMTT(60)
  <1>3. a * b \in Nat /\ q * b \in Nat /\ (q + 1) * b \in Nat
    BY <1>1, SMTT(60)
  <1>4. (a + q) * b <= a * b + n /\ a * b + n < (a + q + 1) * b
    BY <1>1, <1>2, <1>3, SMTT(60)
  <1>5. (a * b + n) \div b = a + q
    BY <1>1, <1>3, <1>4, DivUnique, SMTT(60)
  <1> QED BY <1>5 DEF q

\* More blocks are not fewer bytes.
LEMMA TimesMonotone ==
  ASSUME NEW b \in Nat, NEW m \in Nat, NEW n \in Nat, m <= n
  PROVE  m * b <= n * b
  BY SMTT(60)

\* A byte of the first n blocks lies in one of them.
LEMMA DivBelow ==
  ASSUME NEW b \in Nat \ {0}, NEW n \in Nat, NEW k \in Nat, k < n * b
  PROVE  k \div b < n
  <1> DEFINE q == k \div b
  <1>1. q \in Nat /\ q * b <= k
    BY DivBounds
  <1> HIDE DEF q
  <1>2. SUFFICES ASSUME n <= q PROVE FALSE
    BY <1>1, SMTT(60) DEF q
  <1>3. n * b <= q * b /\ n * b \in Nat /\ q * b \in Nat
    BY <1>1, <1>2, TimesMonotone, SMTT(60)
  <1> QED BY <1>1, <1>3, SMTT(60)

\* The two readings of a bound on naturals.
LEMMA NotBelow ==
  ASSUME NEW a \in Nat, NEW b \in Nat, a <= b
  PROVE  b >= a /\ ~(b < a)
  BY SMTT(60)

\* A part is no larger than the whole.
LEMMA SumBounds ==
  ASSUME NEW a \in Nat, NEW b \in Nat
  PROVE  0 <= a /\ a <= a /\ a <= a + b
  BY SMTT(60)

\* A distance in blocks is a natural number of bytes.
LEMMA Scaled ==
  ASSUME NEW a \in Nat, NEW b \in Nat, a <= b
  PROVE  (b - a) * BlkBytes \in Nat
  <1>1. b - a \in Nat
    BY SMTT(60)
  <1> QED BY <1>1, ReadaheadAssumption, SMTT(60)

\* The fields of a byte, and where a byte of the medium lies.
LEMMA ByteFields ==
  ASSUME NEW l, NEW v, NEW b, b = [lba |-> l, ver |-> v]
  PROVE  b.lba = l /\ b.ver = v
  BY SMTT(60)

\* A byte of the medium is not the filler.
LEMMA ByteFacts ==
  ASSUME NEW b \in Bytes
  PROVE  /\ b.lba \in Nat /\ b.ver \in Nat
         /\ b.lba < LbaSpace => b.lba \in 0 .. LbaSpace - 1 /\ b # NoByte
  BY ReadaheadAssumption, SMTT(60) DEF Bytes, NoByte

-----------------------------------------------------------------------------
(* The inductive invariant.                                                *)

TypeOK ==
  /\ scn \in Scenarios
  /\ way_valid \in [Way -> BOOLEAN] /\ way_base \in [Way -> Nat]
  /\ way_bytes \in [Way -> 0 .. WAY_BYTES] /\ lru \in Way
  /\ cache_mem \in [Way -> [0 .. WAY_BYTES - 1 -> Bytes]]
  /\ num_lbas \in 1 .. LbaSpace /\ inval \in 0 .. 2
  /\ fst \in {"F_IDLE", "F_ISSUE", "F_FILL"} /\ f_lba \in Nat /\ f_count \in Nat
  /\ f_way \in Way /\ f_poison \in BOOLEAN
  /\ rq \in {"R_IDLE", "R_WAIT", "R_PASSGO", "R_PASS", "R_SERVE", "R_FIN", "R_ERR"}
  /\ pend_pass \in BOOLEAN /\ serve_way \in Way /\ serve_off \in Nat /\ serve_left \in Nat
  /\ done_r \in BOOLEAN /\ err_r \in BOOLEAN /\ rd_valid_r \in BOOLEAN
  /\ serve_q \in Bytes
  /\ req \in Requests /\ req.lba < LbaSpace /\ prov \in Jobs \cup {None}
  /\ ver \in [0 .. LbaSpace - 1 -> Nat] /\ floor \in [0 .. LbaSpace - 1 -> Nat]
  /\ sent \in Nat /\ stale \in BOOLEAN /\ fin \in {None, "done", "error"}

\* A way whose contents somebody may read, and one the tags answer for.
Live(w) == \/ way_valid[w]
           \/ fill_active /\ f_way = w
           \/ rq = "R_SERVE" /\ serve_way = w
Claimed(w) == way_valid[w] \/ (fill_active /\ ~f_poison /\ f_way = w)

\* Blocks x .. x + n - 1 are outside the extent of way w.
Apart(x, n, w) == x >= way_base[w] + BLOCKS_PER_WAY \/ x + n <= way_base[w]

\* The provider works for the fill, for the request that is passed through, or
\* for a master that was reset; the fill it works for is the filling way's.
Control ==
  /\ fst = "F_ISSUE" => prov = None /\ way_bytes[f_way] = 0
  /\ fst = "F_FILL" => /\ prov # None /\ ~prov.wr /\ prov.lba = f_lba /\ prov.n = f_count
                       /\ prov.k = way_bytes[f_way]
  /\ fill_active => /\ f_lba = way_base[f_way] /\ f_count <= BLOCKS_PER_WAY
                    /\ ~way_valid[f_way] /\ rq \notin {"R_PASSGO", "R_PASS"}
  /\ prov # None => prov.k <= prov.n * BlkBytes /\ (prov.wr => prov.k = 0)
  /\ rq = "R_PASSGO" => prov = None
  /\ rq = "R_PASS" => /\ prov # None /\ (prov.wr <=> req.wr) /\ prov.lba = req.lba
                      /\ prov.n = write_blocks(req) /\ sent = prov.k
  /\ rq # "R_IDLE" => req.count > 0 /\ (req.multi \/ req.count = 1)
  /\ rq = "R_WAIT" /\ ~pend_pass => ~req.wr /\ req.count <= BLOCKS_PER_WAY
  /\ rq \in {"R_WAIT", "R_PASSGO"} => sent = 0
  /\ inval = 2 => \A w \in Way : ~way_valid[w]

\* A write that may still change the medium is apart from what the tags answer for.
Writes ==
  /\ prov # None /\ prov.wr =>
       fst = "F_IDLE" /\ \A w \in Way : way_valid[w] => Apart(prov.lba, prov.n, w)
  /\ rq \in {"R_WAIT", "R_PASSGO"} /\ req.wr =>
       \A w \in Way : Claimed(w) => Apart(req.lba, write_blocks(req), w)

\* Every byte of a live way is where the tag says.
InPlace(w) ==
  \A k \in 0 .. way_bytes[w] - 1 :
    cache_mem[w][k].lba = way_base[w] + k \div BlkBytes /\ cache_mem[w][k].lba < LbaSpace
Places == \A w \in Way : Live(w) => InPlace(w)

\* The bytes the serve has taken out of its way: the one on rd_data included.
Taken == sent + (IF rd_valid_r THEN 1 ELSE 0)
Counts ==
  /\ rq \in {"R_IDLE", "R_WAIT", "R_PASSGO", "R_PASS"} => ~rd_valid_r
  /\ rq # "R_IDLE" => ~done_r
  /\ rq \notin {"R_IDLE", "R_ERR"} => ~err_r
  /\ rq = "R_SERVE" => /\ serve_left > 0 /\ Taken + serve_left = req.count * BlkBytes
                       /\ way_base[serve_way] <= req.lba
                       /\ serve_off = (req.lba - way_base[serve_way]) * BlkBytes + Taken
  /\ rq = "R_FIN" => rd_valid_r /\ Taken = req.count * BlkBytes
  /\ rq = "R_ERR" => err_r /\ Taken <= req.count * BlkBytes
  /\ rq = "R_IDLE" /\ done_r /\ ~err_r => sent = req.count * BlkBytes
  /\ fin # None => rq = "R_IDLE" /\ ~done_r
  /\ rd_valid_r => serve_q.lba = req.lba + sent \div BlkBytes /\ serve_q.lba < LbaSpace

\* How many bytes have left the way, by whether one is on rd_data.
LEMMA TakenIs ==
  ASSUME TypeOK
  PROVE  /\ Taken \in Nat /\ sent \in Nat
         /\ ~rd_valid_r => Taken = sent
         /\ rd_valid_r => Taken = sent + 1
  <1>1. sent \in Nat
    BY DEF TypeOK
  <1> QED BY <1>1, SMTT(60) DEF Taken

-----------------------------------------------------------------------------
(* What the wires of a cycle are.                                          *)

\* A request that is put to the cache is legal and finds the cache idle.
LEMMA GoFacts ==
  ASSUME TypeOK, NEW go \in Issuable \cup {None}
  PROVE  go # None => /\ go \in Requests /\ go.count > 0 /\ (go.multi \/ go.count = 1)
                      /\ go.lba + go.count <= num_lbas /\ go.lba < LbaSpace
                      /\ rq = "R_IDLE" /\ ~done_r
                      /\ scn.eager \/ ~medium_changed
  <1>1. CASE go = None
    BY <1>1
  <1>2. CASE go \in Issuable
    <2>1. go \in scn.ops /\ ~busy /\ go.lba + go.count <= num_lbas
          /\ (scn.eager \/ ~medium_changed)
      BY <1>2 DEF Issuable
    <2>2. go \in Requests /\ go.count > 0 /\ (go.multi \/ go.count = 1)
      BY <2>1, ReadaheadAssumption DEF TypeOK
    <2>3. go.lba < LbaSpace
      BY <2>1, <2>2, ReadaheadAssumption, SMTT(60) DEF TypeOK, Requests
    <2>4. rq = "R_IDLE" /\ ~done_r
      BY <2>1 DEF busy
    <2> QED BY <2>1, <2>2, <2>3, <2>4
  <1> QED BY <1>1, <1>2

\* The provider speaks only while it has a job, and in the terms of that job.
LEMMA EventFacts ==
  ASSUME TypeOK, NEW rdy \in BOOLEAN, NEW pe \in Events(rdy)
  PROVE  /\ pe \in {"quiet", "byte", "done", "error"}
         /\ pe # "quiet" => prov # None
         /\ pe = "byte" => /\ ~prov.wr /\ prov.k # prov.n * BlkBytes
                           /\ prov.lba + prov.k \div BlkBytes < num_lbas
         /\ pe = "done" => prov.wr \/ prov.k = prov.n * BlkBytes
  BY DEF Events

\* The request that is decided on is one the master made.
LEMMA DecidingFacts ==
  ASSUME TypeOK, NEW go \in Issuable \cup {None}
  PROVE  Deciding(go) \in Requests /\ Deciding(go).lba < LbaSpace
  BY GoFacts DEF Deciding, TypeOK

\* A serve starts for the request that arrives, or for the one that waits; a
\* fill only with it, and only if the provider is free.
LEMMA ServeStartFacts ==
  ASSUME TypeOK, NEW go \in Issuable \cup {None}, serve_start(go)
  PROVE  /\ rq \in {"R_IDLE", "R_WAIT"}
         /\ rq = "R_IDLE" => go # None /\ Deciding(go) = go /\ cacheable(go)
         /\ rq = "R_WAIT" => go = None /\ Deciding(go) = req /\ ~pend_pass /\ ~prov_busy_any
         /\ fill_start(go) => ~fill_active /\ prov = None
  BY GoFacts DEF serve_start, fill_start, Deciding, prov_busy_any

\* A hit names a way that covers the first block and is valid or filling.
LEMMA HitWayFacts ==
  ASSUME TypeOK, NEW go \in Issuable \cup {None}, NEW x, hit_any(x, go)
  PROVE  /\ hit_way(x) \in Way
         /\ InWay(x, hit_way(x))
         /\ \/ way_valid[hit_way(x)]
            \/ hit_way(x) = f_way /\ hit_fly(x, go)
  BY DEF hit_any, hit_way, Hit, hit_fly, TypeOK, Way

\* A fill never asks for more than a way holds.
LEMMA FetchLenType ==
  ASSUME TypeOK, NEW x \in Requests, x.lba < LbaSpace
  PROVE  /\ fetch_len(x) \in Nat
         /\ x.count <= BLOCKS_PER_WAY => fetch_len(x) <= BLOCKS_PER_WAY
  <1>1. lbas_left(x) \in Nat
    <2>1. x.lba \in Nat /\ num_lbas \in 1 .. LbaSpace
      BY DEF TypeOK, Requests
    <2> QED BY <2>1, ReadaheadAssumption, SMTT(60) DEF lbas_left
  <1>2. desired_fetch(x) \in Nat
        /\ (x.count <= BLOCKS_PER_WAY => desired_fetch(x) <= BLOCKS_PER_WAY)
    BY ReadaheadAssumption, SMTT(60) DEF desired_fetch, Requests, Larger, Smaller
  <1> QED BY <1>1, <1>2, ReadaheadAssumption, SMTT(60) DEF fetch_len, Smaller

\* The byte the provider hands over lies on the medium and is current.
LEMMA ByteOfType ==
  ASSUME TypeOK, prov # None, prov.lba + prov.k \div BlkBytes < num_lbas
  PROVE  ByteOf \in Bytes /\ ByteOf.lba < LbaSpace
         /\ ByteOf.lba = prov.lba + prov.k \div BlkBytes /\ ByteOf.ver = ver[ByteOf.lba]
  <1> DEFINE l == prov.lba + prov.k \div BlkBytes
  <1>1. prov \in Jobs
    BY DEF TypeOK
  <1>2. prov.k \div BlkBytes \in Nat
    BY <1>1, DivBounds, ReadaheadAssumption DEF Jobs
  <1>3. l \in Nat /\ l < LbaSpace
    <2>1. prov.lba \in Nat /\ l < num_lbas
      BY <1>1 DEF Jobs
    <2>2. num_lbas \in 1 .. LbaSpace
      BY DEF TypeOK
    <2> HIDE DEF l
    <2>3. l \in Nat
      BY <1>2, <2>1, SMTT(60) DEF l
    <2> QED BY <2>1, <2>2, <2>3, ReadaheadAssumption, SMTT(60)
  <1> HIDE DEF l
  <1>4. ver[l] \in Nat
    BY <1>3, ReadaheadAssumption, SMTT(60) DEF TypeOK
  <1>5. ByteOf = [lba |-> l, ver |-> ver[l]]
    BY DEF ByteOf, l
  <1>6. ByteOf.lba = l /\ ByteOf.ver = ver[l]
    BY <1>5
  <1> QED BY <1>3, <1>4, <1>5, <1>6 DEF Bytes, l

-----------------------------------------------------------------------------
(* Types.                                                                  *)

\* The size of a way is a natural number.
LEMMA WayBytesNat == WAY_BYTES \in Nat
  BY ReadaheadAssumption, SMTT(60) DEF WAY_BYTES

\* Every cell of the cache memory holds a byte.
LEMMA CacheByteType ==
  ASSUME TypeOK, NEW w \in Way, NEW k \in 0 .. WAY_BYTES - 1
  PROVE  cache_mem[w][k] \in Bytes
  <1>1. cache_mem \in [Way -> [0 .. WAY_BYTES - 1 -> Bytes]]
    BY DEF TypeOK
  <1>2. cache_mem[w] \in [0 .. WAY_BYTES - 1 -> Bytes]
    BY <1>1
  <1> QED BY <1>2

\* An edge of the fill engine keeps the types.
LEMMA FillTypes ==
  ASSUME TypeOK, NEW go \in Issuable \cup {None}, NEW rdy \in BOOLEAN,
         NEW pe \in Events(rdy), FillEdge(go, pe)
  PROVE  /\ way_valid' \in [Way -> BOOLEAN] /\ way_base' \in [Way -> Nat]
         /\ way_bytes' \in [Way -> 0 .. WAY_BYTES] /\ lru' \in Way
         /\ cache_mem' \in [Way -> [0 .. WAY_BYTES - 1 -> Bytes]]
         /\ fst' \in {"F_IDLE", "F_ISSUE", "F_FILL"} /\ f_lba' \in Nat /\ f_count' \in Nat
         /\ f_way' \in Way /\ f_poison' \in BOOLEAN
  <1> DEFINE x == Deciding(go)
  <1>1. x \in Requests /\ x.lba < LbaSpace /\ x.lba \in Nat
    BY DecidingFacts DEF Requests
  <1>2. fetch_len(x) \in Nat
    BY <1>1, FetchLenType
  <1>3. serve_start(go) /\ ~fill_start(go) => hit_way(x) \in Way
    BY HitWayFacts DEF fill_start
  <1> HIDE DEF x
  <1>4. way_valid' \in [Way -> BOOLEAN]
    BY DEF FillEdge, TypeOK
  <1>5. way_base' \in [Way -> Nat]
    BY <1>1 DEF FillEdge, TypeOK, Held, x
  <1>6. way_bytes' \in [Way -> 0 .. WAY_BYTES]
    BY WayBytesNat, SMTT(60) DEF FillEdge, TypeOK, Held, fill_we
  <1>7. lru' \in Way
    BY <1>3, SMTT(60) DEF FillEdge, TypeOK, Way, x
  <1>8. cache_mem' \in [Way -> [0 .. WAY_BYTES - 1 -> Bytes]]
    <2>1. fill_we(pe) => ByteOf \in Bytes
      BY EventFacts, ByteOfType DEF fill_we
    <2>2. NoByte \in Bytes
      BY ReadaheadAssumption DEF NoByte, Bytes
    <2> DEFINE new(w, k) == Held(k < way_bytes'[w],
                 IF fill_we(pe) /\ w = f_way /\ k = way_bytes[w] THEN ByteOf
                 ELSE cache_mem[w][k], NoByte)
    <2>3. ASSUME NEW w \in Way, NEW k \in 0 .. WAY_BYTES - 1 PROVE new(w, k) \in Bytes
      BY <2>1, <2>2, CacheByteType DEF Held
    <2>4. cache_mem' = [w \in Way |-> [k \in 0 .. WAY_BYTES - 1 |-> new(w, k)]]
      BY DEF FillEdge
    <2> HIDE DEF new
    <2> QED BY <2>3, <2>4
  <1>9. f_lba' \in Nat /\ f_count' \in Nat
    BY <1>1, <1>2 DEF FillEdge, TypeOK, Held, x
  <1>10. f_way' \in Way
    BY DEF FillEdge, TypeOK, Held, Way
  <1>11. fst' \in {"F_IDLE", "F_ISSUE", "F_FILL"} /\ f_poison' \in BOOLEAN
    BY DEF FillEdge, TypeOK
  <1> QED BY <1>4, <1>5, <1>6, <1>7, <1>8, <1>9, <1>10, <1>11

\* An edge of the request engine keeps the types.
LEMMA RequestTypes ==
  ASSUME TypeOK, NEW go \in Issuable \cup {None}, NEW rdy \in BOOLEAN,
         NEW pe \in Events(rdy), RequestEdge(go, rdy, pe)
  PROVE  /\ rq' \in {"R_IDLE", "R_WAIT", "R_PASSGO", "R_PASS", "R_SERVE", "R_FIN", "R_ERR"}
         /\ pend_pass' \in BOOLEAN /\ serve_way' \in Way
         /\ serve_off' \in Nat /\ serve_left' \in Nat
         /\ done_r' \in BOOLEAN /\ err_r' \in BOOLEAN /\ rd_valid_r' \in BOOLEAN
         /\ serve_q' \in Bytes
  <1> DEFINE x == Deciding(go)
             h == hit_way(x)
  <1>1. x \in Requests /\ x.lba \in Nat /\ x.count \in Nat
    BY DecidingFacts DEF Requests
  <1>2. hit_any(x, go) => h \in Way /\ x.lba >= way_base[h]
    BY HitWayFacts DEF InWay
  <1>3. hit_any(x, go) => (x.lba - way_base[h]) * BlkBytes \in Nat
    <2>1. ASSUME hit_any(x, go) PROVE way_base[h] \in Nat
      BY <1>2, <2>1 DEF TypeOK
    <2>2. ASSUME hit_any(x, go) PROVE way_base[h] <= x.lba
      BY <1>1, <1>2, <2>1, <2>2, SMTT(60)
    <2> QED BY <1>1, <2>1, <2>2, Scaled
  <1>4. x.count * BlkBytes \in Nat
    BY <1>1, ReadaheadAssumption, SMTT(60)
  <1> HIDE DEF x, h
  <1>5. rq' \in {"R_IDLE", "R_WAIT", "R_PASSGO", "R_PASS", "R_SERVE", "R_FIN", "R_ERR"}
    BY DEF RequestEdge, RqNext, TypeOK
  <1>6. serve_way' \in Way
    BY <1>2 DEF RequestEdge, TypeOK, Held, Way, x, h
  <1>7. serve_off' \in Nat
    BY <1>3, SMTT(60) DEF RequestEdge, TypeOK, Held, x, h
  <1>8. serve_left' \in Nat
    BY <1>4, SMTT(60) DEF RequestEdge, TypeOK, Held, serve_re, owed, x
  <1>9. serve_q' \in Bytes
    <2>1. NoByte \in Bytes
      BY ReadaheadAssumption DEF NoByte, Bytes
    <2>2. serve_re(rdy) => serve_off \in 0 .. WAY_BYTES - 1
      BY WayBytesNat, SMTT(60) DEF serve_re, serve_avail, TypeOK
    <2>3. serve_re(rdy) => cache_mem[serve_way][serve_off] \in Bytes
      BY <2>2, CacheByteType DEF TypeOK
    <2>4. serve_q' = Held(serve_re(rdy), cache_mem[serve_way][serve_off], NoByte)
      BY DEF RequestEdge
    <2> QED BY <2>1, <2>3, <2>4 DEF Held
  <1>10. done_r' \in BOOLEAN /\ err_r' \in BOOLEAN /\ rd_valid_r' \in BOOLEAN
    <2>1. done_r' = TRUE \/ done_r' = FALSE
      BY SMTT(60) DEF RequestEdge
    <2>2. rd_valid_r' \in BOOLEAN
      BY DEF RequestEdge, serve_re
    <2>3. err_r' \in BOOLEAN
      BY DEF RequestEdge, TypeOK
    <2> QED BY <2>1, <2>2, <2>3
  <1>11. pend_pass' \in BOOLEAN
    BY DEF RequestEdge, TypeOK
  <1> QED BY <1>5, <1>6, <1>7, <1>8, <1>9, <1>10, <1>11

\* A change of some blocks only raises their versions.
LEMMA BumpType ==
  ASSUME TypeOK, NEW S, Bump(S)
  PROVE  /\ ver' \in [0 .. LbaSpace - 1 -> Nat]
         /\ \A l \in 0 .. LbaSpace - 1 : /\ ver[l] <= ver'[l]
                                         /\ l \notin S => ver'[l] = ver[l]
  <1> DEFINE D == 0 .. LbaSpace - 1
  <1>1. ver \in [D -> Nat] /\ DOMAIN ver = D
    BY DEF TypeOK
  <1> HIDE DEF D
  <1>2. ver' = [l \in D |-> IF l \in S THEN ver[l] + 1 ELSE ver[l]]
    BY <1>1 DEF Bump
  <1>3. ver' \in [D -> Nat]
        /\ \A l \in D : ver[l] <= ver'[l] /\ (l \notin S => ver'[l] = ver[l])
    BY <1>1, <1>2, SMTT(60)
  <1> QED BY <1>3 DEF D

\* Versions only grow; they change for the blocks of a write that ends, or for
\* all blocks with a kill.
LEMMA MediumFacts ==
  ASSUME TypeOK, NEW go \in Issuable \cup {None}, NEW rdy \in BOOLEAN,
         NEW pe \in Events(rdy), MediumEdge(go, pe), last_num_lbas' = num_lbas
  PROVE  /\ num_lbas' \in 1 .. LbaSpace /\ inval' \in 0 .. 2
         /\ ver' \in [0 .. LbaSpace - 1 -> Nat]
         /\ \A l \in 0 .. LbaSpace - 1 : ver[l] <= ver'[l]
         /\ \/ ver' = ver
            \/ cache_kill'
            \/ /\ prov # None /\ prov.wr
               /\ \A l \in 0 .. LbaSpace - 1 :
                    l \notin Extent(prov.lba, prov.n) => ver'[l] = ver[l]
         /\ inval' = 2 => inval # 0
         /\ inval = 1 => inval' = 2
  <1>1. CASE /\ num_lbas' = num_lbas
             /\ inval' \in (IF inval = 1 THEN {2} ELSE {0, inval})
             /\ IF ~WriteEnds(pe) THEN UNCHANGED ver
                ELSE IF pe = "done" THEN Bump(Extent(prov.lba, prov.n))
                ELSE \E S \in SUBSET Extent(prov.lba, prov.n) : Bump(S)
    <2>1. num_lbas' \in 1 .. LbaSpace /\ inval' \in 0 .. 2 /\ (inval' = 2 => inval # 0)
          /\ (inval = 1 => inval' = 2)
      BY <1>1, SMTT(60) DEF TypeOK
    <2>2. CASE ~WriteEnds(pe)
      <3>1. ver' = ver
        BY <1>1, <2>2
      <3>2. \A l \in 0 .. LbaSpace - 1 : ver[l] \in Nat
        BY DEF TypeOK
      <3>3. ver' \in [0 .. LbaSpace - 1 -> Nat]
        BY <3>1 DEF TypeOK
      <3> QED BY <2>1, <3>1, <3>2, <3>3, SMTT(60)
    <2>3. CASE WriteEnds(pe)
      <3>1. PICK S \in SUBSET Extent(prov.lba, prov.n) : Bump(S)
        BY <1>1, <2>3
      <3>2. prov # None /\ prov.wr
        BY <2>3, EventFacts DEF WriteEnds, p_done
      <3> QED BY <2>1, <3>1, <3>2, BumpType
    <2> QED BY <2>2, <2>3
  <1>2. CASE /\ BumpAll
             /\ \/ num_lbas' = num_lbas /\ inval' = (IF inval = 0 THEN 1 ELSE 2)
                \/ inval = 0 /\ inval' = 0 /\ num_lbas' \in scn.sizes \ {num_lbas}
    <2>1. Bump(DOMAIN ver)
      BY <1>2 DEF BumpAll
    <2>2. num_lbas' \in 1 .. LbaSpace
      BY <1>2, ReadaheadAssumption DEF TypeOK
    <2>3. cache_kill' /\ inval' \in 0 .. 2 /\ (inval' = 2 => inval # 0)
          /\ (inval = 1 => inval' = 2)
      BY <1>2, SMTT(60) DEF TypeOK, cache_kill, medium_changed
    <2> QED BY <2>1, <2>2, <2>3, BumpType
  <1> QED BY <1>1, <1>2 DEF MediumEdge

\* A provider's next job is a job.
LEMMA ProviderTypes ==
  ASSUME TypeOK, NEW rdy \in BOOLEAN, NEW pe \in Events(rdy), ProviderEdge(pe)
  PROVE  prov' \in Jobs \cup {None}
  <1>1. CASE fst = "F_ISSUE"
    <2>1. prov' = [wr |-> FALSE, lba |-> f_lba, n |-> f_count, k |-> 0]
      BY <1>1 DEF ProviderEdge
    <2> QED BY <2>1 DEF TypeOK, Jobs
  <1>2. CASE fst # "F_ISSUE" /\ rq = "R_PASSGO"
    <2>1. prov' = [wr |-> req.wr, lba |-> req.lba, k |-> 0,
                   n |-> IF req.multi THEN req.count ELSE 1]
      BY <1>2 DEF ProviderEdge
    <2>2. req.wr \in BOOLEAN /\ req.lba \in Nat /\ req.count \in Nat
      BY DEF TypeOK, Requests
    <2>3. (IF req.multi THEN req.count ELSE 1) \in Nat
      BY <2>2
    <2> QED BY <2>1, <2>2, <2>3 DEF Jobs
  <1>3. CASE fst # "F_ISSUE" /\ rq # "R_PASSGO"
    <2>1. CASE ~p_done(pe) /\ pe = "byte"
      <3>1. prov' = [prov EXCEPT !.k = @ + 1]
        BY <1>3, <2>1 DEF ProviderEdge
      <3>2. prov \in Jobs
        BY <2>1, EventFacts DEF TypeOK
      <3> QED BY <3>1, <3>2, SMTT(60) DEF Jobs
    <2>2. CASE p_done(pe) \/ pe # "byte"
      BY <1>3, <2>2 DEF ProviderEdge, TypeOK
    <2> QED BY <2>1, <2>2
  <1> QED BY <1>1, <1>2, <1>3

\* The master's bookkeeping keeps its types.
LEMMA MasterTypes ==
  ASSUME TypeOK, NEW go \in Issuable \cup {None}, NEW rdy \in BOOLEAN,
         NEW pe \in Events(rdy), MasterEdge(go, pe), ver' \in [0 .. LbaSpace - 1 -> Nat]
  PROVE  /\ req' \in Requests /\ req'.lba < LbaSpace
         /\ floor' \in [0 .. LbaSpace - 1 -> Nat]
         /\ sent' \in Nat /\ stale' \in BOOLEAN /\ fin' \in {None, "done", "error"}
  <1>1. NoReq \in Requests /\ NoReq.lba < LbaSpace
    BY ReadaheadAssumption, SMTT(60) DEF NoReq, Requests, TypeOK
  <1>2. req \in Requests /\ req.lba < LbaSpace
    BY DEF TypeOK
  <1>3. req' \in Requests /\ req'.lba < LbaSpace
    BY <1>1, <1>2, GoFacts DEF MasterEdge, Held
  <1>4. floor' = floor \/ floor' = ver \/ floor' = ver'
    BY DEF MasterEdge, Held
  <1>5. floor' \in [0 .. LbaSpace - 1 -> Nat]
    BY <1>4 DEF TypeOK
  <1>6. sent' \in Nat
    BY SMTT(60) DEF MasterEdge, Held, TypeOK
  <1>7. stale' = TRUE \/ stale' = FALSE
    BY DEF MasterEdge
  <1>8. fin' \in {None, "done", "error"}
    BY EventFacts DEF MasterEdge, Ended, p_done
  <1> QED BY <1>3, <1>5, <1>6, <1>7, <1>8

Edge(go, rdy, pe) ==
  /\ UNCHANGED scn /\ RequestEdge(go, rdy, pe) /\ FillEdge(go, pe)
  /\ MediumEdge(go, pe) /\ ProviderEdge(pe) /\ MasterEdge(go, pe)

\* A clock edge keeps the types.
LEMMA TickType ==
  ASSUME TypeOK, NEW go \in Issuable \cup {None}, NEW rdy \in BOOLEAN,
         NEW pe \in Events(rdy), Edge(go, rdy, pe)
  PROVE  TypeOK'
  <1>1. last_num_lbas' = num_lbas
    BY DEF Edge, FillEdge
  <1>2. num_lbas' \in 1 .. LbaSpace /\ inval' \in 0 .. 2 /\ ver' \in [0 .. LbaSpace - 1 -> Nat]
    BY <1>1, MediumFacts DEF Edge
  <1>3. scn' \in Scenarios
    BY DEF Edge, TypeOK
  <1>4. /\ way_valid' \in [Way -> BOOLEAN] /\ way_base' \in [Way -> Nat]
        /\ way_bytes' \in [Way -> 0 .. WAY_BYTES] /\ lru' \in Way
        /\ cache_mem' \in [Way -> [0 .. WAY_BYTES - 1 -> Bytes]]
        /\ fst' \in {"F_IDLE", "F_ISSUE", "F_FILL"} /\ f_lba' \in Nat /\ f_count' \in Nat
        /\ f_way' \in Way /\ f_poison' \in BOOLEAN
    BY FillTypes DEF Edge
  <1>5. /\ rq' \in {"R_IDLE", "R_WAIT", "R_PASSGO", "R_PASS", "R_SERVE", "R_FIN", "R_ERR"}
        /\ pend_pass' \in BOOLEAN /\ serve_way' \in Way
        /\ serve_off' \in Nat /\ serve_left' \in Nat
        /\ done_r' \in BOOLEAN /\ err_r' \in BOOLEAN /\ rd_valid_r' \in BOOLEAN
        /\ serve_q' \in Bytes
    BY RequestTypes DEF Edge
  <1>6. prov' \in Jobs \cup {None}
    BY ProviderTypes DEF Edge
  <1>7. /\ req' \in Requests /\ req'.lba < LbaSpace
        /\ floor' \in [0 .. LbaSpace - 1 -> Nat]
        /\ sent' \in Nat /\ stale' \in BOOLEAN /\ fin' \in {None, "done", "error"}
    BY <1>2, MasterTypes DEF Edge
  <1> QED BY <1>2, <1>3, <1>4, <1>5, <1>6, <1>7 DEF TypeOK

\* A reset lets an abandoned write change its extent and nothing else.
LEMMA ResetVer ==
  ASSUME TypeOK, Reset
  PROVE  /\ ver' \in [0 .. LbaSpace - 1 -> Nat]
         /\ prov' = prov \/ prov' = None
  <1>1. CASE prov' = prov /\ UNCHANGED ver
    BY <1>1 DEF TypeOK
  <1>2. CASE prov' = None /\ \E S : Bump(S)
    BY <1>2, BumpType
  <1> QED BY <1>1, <1>2 DEF Reset

\* A reset keeps the types.
LEMMA ResetType ==
  ASSUME TypeOK, Reset
  PROVE  TypeOK'
  <1>1. NoByte \in Bytes /\ NoReq \in Requests /\ NoReq.lba < LbaSpace
    BY ReadaheadAssumption, SMTT(60) DEF NoReq, NoByte, Bytes, Requests, TypeOK
  <1>2. ver' \in [0 .. LbaSpace - 1 -> Nat] /\ prov' \in Jobs \cup {None}
    BY ResetVer DEF TypeOK
  <1>3. /\ way_valid' \in [Way -> BOOLEAN] /\ way_base' \in [Way -> Nat]
        /\ way_bytes' \in [Way -> 0 .. WAY_BYTES] /\ lru' \in Way
    BY WayBytesNat, SMTT(60) DEF Reset, Way
  <1>4. cache_mem' \in [Way -> [0 .. WAY_BYTES - 1 -> Bytes]]
    BY <1>1 DEF Reset
  <1>5. floor' \in [0 .. LbaSpace - 1 -> Nat]
    BY <1>2 DEF Reset
  <1>6. scn' \in Scenarios /\ num_lbas' \in 1 .. LbaSpace /\ inval' \in 0 .. 2
    BY DEF Reset, TypeOK
  <1>7. req' \in Requests /\ req'.lba < LbaSpace /\ serve_q' \in Bytes
    BY <1>1 DEF Reset
  <1>8. f_way' \in Way /\ serve_way' \in Way
    BY DEF Reset, Way
  <1>9. f_lba' \in Nat /\ f_count' \in Nat /\ serve_off' \in Nat /\ serve_left' \in Nat
        /\ sent' \in Nat /\ inval' \in 0 .. 2
    BY DEF Reset, TypeOK
  <1>10. /\ f_poison' \in BOOLEAN /\ pend_pass' \in BOOLEAN /\ done_r' \in BOOLEAN
         /\ err_r' \in BOOLEAN /\ rd_valid_r' \in BOOLEAN /\ stale' \in BOOLEAN
    BY DEF Reset
  <1>11. /\ fst' \in {"F_IDLE", "F_ISSUE", "F_FILL"} /\ fin' \in {None, "done", "error"}
         /\ rq' \in {"R_IDLE", "R_WAIT", "R_PASSGO", "R_PASS", "R_SERVE", "R_FIN", "R_ERR"}
    BY DEF Reset
  <1> QED BY <1>2, <1>3, <1>4, <1>5, <1>6, <1>7, <1>8, <1>9, <1>10, <1>11 DEF TypeOK

\* The types hold when the system comes up.
LEMMA InitType == Init => TypeOK
  <1> SUFFICES ASSUME Init PROVE TypeOK
    OBVIOUS
  <1>1. scn \in Scenarios /\ num_lbas \in 1 .. LbaSpace
    BY ReadaheadAssumption DEF Init
  <1>2. NoByte \in Bytes /\ NoReq \in Requests /\ NoReq.lba < LbaSpace
    BY <1>1, ReadaheadAssumption, SMTT(60) DEF NoReq, NoByte, Bytes, Requests
  <1>3. /\ way_valid \in [Way -> BOOLEAN] /\ way_base \in [Way -> Nat]
        /\ way_bytes \in [Way -> 0 .. WAY_BYTES] /\ lru \in Way
    BY WayBytesNat, SMTT(60) DEF Init, Way
  <1>4. cache_mem \in [Way -> [0 .. WAY_BYTES - 1 -> Bytes]]
    BY <1>2 DEF Init
  <1>5. ver \in [0 .. LbaSpace - 1 -> Nat] /\ floor \in [0 .. LbaSpace - 1 -> Nat]
    BY DEF Init
  <1>6. f_way \in Way /\ serve_way \in Way /\ req \in Requests /\ req.lba < LbaSpace
        /\ serve_q \in Bytes
    BY <1>2 DEF Init, Way
  <1>7. prov \in Jobs \cup {None}
    BY DEF Init
  <1>9. f_lba \in Nat /\ f_count \in Nat /\ serve_off \in Nat /\ serve_left \in Nat
        /\ sent \in Nat /\ inval \in 0 .. 2
    BY SMTT(60) DEF Init
  <1>10. /\ f_poison \in BOOLEAN /\ pend_pass \in BOOLEAN /\ done_r \in BOOLEAN
         /\ err_r \in BOOLEAN /\ rd_valid_r \in BOOLEAN /\ stale \in BOOLEAN
    BY DEF Init
  <1>11. /\ fst \in {"F_IDLE", "F_ISSUE", "F_FILL"} /\ fin \in {None, "done", "error"}
         /\ rq \in {"R_IDLE", "R_WAIT", "R_PASSGO", "R_PASS", "R_SERVE", "R_FIN", "R_ERR"}
    BY DEF Init
  <1> QED BY <1>1, <1>3, <1>4, <1>5, <1>6, <1>7, <1>9, <1>10, <1>11 DEF TypeOK

-----------------------------------------------------------------------------
(* What an edge does to the fill, to a way, and to the request.            *)

\* When the fill engine moves, and where to.
LEMMA FillAfter ==
  ASSUME TypeOK, NEW go \in Issuable \cup {None}, NEW rdy \in BOOLEAN,
         NEW pe \in Events(rdy), Edge(go, rdy, pe)
  PROVE  /\ fst' = "F_ISSUE" <=> fill_start(go)
         /\ fst' = "F_FILL" => \/ fst = "F_ISSUE"
                               \/ fst = "F_FILL" /\ ~p_done(pe)
         /\ fill_start(go) => /\ fst = "F_IDLE" /\ prov = None
                              /\ f_lba' = Deciding(go).lba /\ f_way' = lru
                              /\ f_count' = fetch_len(Deciding(go)) /\ ~f_poison'
         /\ fill_active' /\ ~fill_start(go) =>
              /\ fill_active /\ f_lba' = f_lba /\ f_count' = f_count /\ f_way' = f_way
              /\ ~f_poison' => ~f_poison /\ ~cache_kill /\ ~write_kill(go, f_way)
  <1>1. fill_start(go) => fst = "F_IDLE" /\ prov = None
    BY ServeStartFacts DEF fill_start, fill_active
  <1>2. /\ fst' = "F_ISSUE" <=> fill_start(go)
        /\ fst' = "F_FILL" => \/ fst = "F_ISSUE"
                              \/ fst = "F_FILL" /\ ~p_done(pe)
    BY <1>1 DEF Edge, FillEdge, TypeOK
  <1>3. fill_start(go) => /\ f_lba' = Deciding(go).lba /\ f_way' = lru
                          /\ f_count' = fetch_len(Deciding(go)) /\ ~f_poison'
    <2>1. fill_start(go) => /\ f_lba' = Deciding(go).lba /\ f_way' = lru
                            /\ f_count' = fetch_len(Deciding(go))
      BY <1>2 DEF Edge, FillEdge, Held
    <2>2. fill_start(go) => ~f_poison'
      BY DEF Edge, FillEdge
    <2> QED BY <2>1, <2>2
  <1>4. ASSUME fill_active', ~fill_start(go)
        PROVE  /\ fill_active /\ f_lba' = f_lba /\ f_count' = f_count /\ f_way' = f_way
               /\ ~f_poison' => ~f_poison /\ ~cache_kill /\ ~write_kill(go, f_way)
    <2>1. fill_active /\ f_lba' = f_lba /\ f_count' = f_count /\ f_way' = f_way
      BY <1>4 DEF Edge, FillEdge, Held, fill_active
    <2>2. ~f_poison' => ~f_poison /\ ~cache_kill /\ ~write_kill(go, f_way)
      BY <1>4 DEF Edge, FillEdge, fill_active
    <2> QED BY <2>1, <2>2
  <1> QED BY <1>1, <1>2, <1>3, <1>4

\* What happens to the tag and the length of one way.
LEMMA WayAfter ==
  ASSUME TypeOK, NEW go \in Issuable \cup {None}, NEW rdy \in BOOLEAN,
         NEW pe \in Events(rdy), Edge(go, rdy, pe), NEW w \in Way
  PROVE  /\ way_valid'[w] => /\ ~(fill_start(go) /\ w = lru)
                             /\ ~cache_kill /\ ~write_kill(go, w)
                             /\ \/ way_valid[w]
                                \/ w = f_way /\ Keep(go, pe)
         /\ Live(w)' =>
              /\ way_base'[w] = IF fill_start(go) /\ w = lru THEN Deciding(go).lba
                                ELSE way_base[w]
              /\ way_bytes'[w] = IF fill_start(go) /\ w = lru THEN 0
                                 ELSE IF fill_we(pe) /\ w = f_way THEN way_bytes[w] + 1
                                 ELSE way_bytes[w]
         /\ \A k \in 0 .. way_bytes'[w] - 1 :
              cache_mem'[w][k] = IF fill_we(pe) /\ w = f_way /\ k = way_bytes[w] THEN ByteOf
                                 ELSE cache_mem[w][k]
  <1>1. way_valid'[w] => /\ ~(fill_start(go) /\ w = lru)
                         /\ ~cache_kill /\ ~write_kill(go, w)
                         /\ \/ way_valid[w]
                            \/ w = f_way /\ Keep(go, pe)
    <2>1. way_valid'[w] = IF fill_start(go) /\ w = lru THEN FALSE
                          ELSE IF Keep(go, pe) /\ w = f_way THEN TRUE
                          ELSE way_valid[w] /\ ~cache_kill /\ ~write_kill(go, w)
      BY DEF Edge, FillEdge
    <2> QED BY <2>1 DEF Keep
  <1>2. ASSUME Live(w)'
        PROVE  /\ way_base'[w] = IF fill_start(go) /\ w = lru THEN Deciding(go).lba
                                 ELSE way_base[w]
               /\ way_bytes'[w] = IF fill_start(go) /\ w = lru THEN 0
                                  ELSE IF fill_we(pe) /\ w = f_way THEN way_bytes[w] + 1
                                  ELSE way_bytes[w]
    BY <1>2 DEF Edge, FillEdge, Held, Live, fill_active
  <1>3. ASSUME NEW k \in 0 .. way_bytes'[w] - 1
        PROVE  cache_mem'[w][k] = IF fill_we(pe) /\ w = f_way /\ k = way_bytes[w] THEN ByteOf
                                  ELSE cache_mem[w][k]
    <2>1. way_bytes'[w] \in 0 .. WAY_BYTES
      BY FillTypes DEF Edge
    <2>2. k \in 0 .. WAY_BYTES - 1 /\ k < way_bytes'[w]
      BY <2>1, WayBytesNat, SMTT(60)
    <2>3. cache_mem'[w][k] = Held(k < way_bytes'[w],
             IF fill_we(pe) /\ w = f_way /\ k = way_bytes[w] THEN ByteOf
             ELSE cache_mem[w][k], NoByte)
      BY <2>2 DEF Edge, FillEdge
    <2> QED BY <2>2, <2>3 DEF Held
  <1> QED BY <1>1, <1>2, <1>3

\* From where each state of the request engine is entered.
LEMMA RequestAfter ==
  ASSUME TypeOK, NEW go \in Issuable \cup {None}, NEW rdy \in BOOLEAN,
         NEW pe \in Events(rdy), Edge(go, rdy, pe)
  PROVE  /\ rq' = "R_IDLE" => \/ rq = "R_IDLE" /\ go = None
                              \/ rq = "R_PASS" /\ p_done(pe)
                              \/ rq \in {"R_FIN", "R_ERR"}
         /\ rq' = "R_WAIT" => \/ rq = "R_WAIT"
                              \/ rq = "R_IDLE" /\ go # None
         /\ rq' = "R_PASSGO" => /\ ~prov_busy_any
                                /\ \/ rq = "R_WAIT" /\ pend_pass
                                   \/ rq = "R_IDLE" /\ go # None /\ ~cacheable(go)
         /\ rq' = "R_PASS" => rq = "R_PASSGO" \/ (rq = "R_PASS" /\ ~p_done(pe))
         /\ rq' = "R_SERVE" => \/ serve_start(go)
                               \/ rq = "R_SERVE" /\ ~cache_kill /\ ~last_taken(rdy)
         /\ rq' = "R_FIN" => rq = "R_SERVE" /\ ~cache_kill /\ last_taken(rdy)
         /\ rq' = "R_ERR" => rq = "R_SERVE"
         /\ serve_start(go) => rq' = "R_SERVE" /\ rq \in {"R_IDLE", "R_WAIT"}
  <1>1. rq' = RqNext(go, rdy, pe)
    BY DEF Edge, RequestEdge
  <1>2. go # None => rq = "R_IDLE"
    BY GoFacts
  <1>3. serve_start(go) => /\ rq \in {"R_IDLE", "R_WAIT"}
                           /\ rq = "R_IDLE" => go # None /\ cacheable(go)
                           /\ rq = "R_WAIT" => ~pend_pass /\ ~prov_busy_any
    BY ServeStartFacts
  <1>4. rq = "R_WAIT" /\ ~prov_busy_any /\ ~pend_pass => serve_start(go)
    BY DEF serve_start
  <1> QED BY <1>1, <1>2, <1>3, <1>4 DEF RqNext, TypeOK

\* The byte the master sees: the provider's on a pass, rd_data otherwise.
LEMMA SeenFacts ==
  ASSUME TypeOK, NEW rdy \in BOOLEAN, NEW pe \in Events(rdy)
  PROVE  /\ rq = "R_PASS" /\ pe = "byte" => Seen(pe) = ByteOf /\ Seen(pe) # None
         /\ rq = "R_PASS" /\ pe # "byte" => Seen(pe) = None
         /\ rq # "R_PASS" /\ rd_valid_r => Seen(pe) = serve_q /\ Seen(pe) # None
         /\ rq # "R_PASS" /\ ~rd_valid_r => Seen(pe) = None
  <1>1. pe = "byte" => ByteOf \in Bytes
    BY EventFacts, ByteOfType
  <1>2. serve_q \in Bytes
    BY DEF TypeOK
  <1> QED BY <1>1, <1>2, ReadaheadAssumption DEF Seen

\* What the master records, inside and outside of a request.
LEMMA MasterAfter ==
  ASSUME TypeOK, NEW go \in Issuable \cup {None}, NEW rdy \in BOOLEAN,
         NEW pe \in Events(rdy), Edge(go, rdy, pe)
  PROVE  /\ rq # "R_IDLE" \/ done_r =>
              /\ busy /\ go = None /\ req' = req /\ floor' = floor
              /\ sent' = IF Seen(pe) # None THEN sent + 1 ELSE sent
              /\ stale' => stale \/ (Seen(pe) # None /\ Older(Seen(pe)))
         /\ rq = "R_IDLE" /\ ~done_r =>
              /\ ~busy /\ sent' = 0 /\ ~stale' /\ fin' = None
              /\ req' = (IF go # None THEN go ELSE NoReq)
              /\ floor' = (IF go # None THEN ver ELSE ver')
         /\ rq # "R_PASS" /\ ~done_r => fin' = None
         /\ rq = "R_PASS" => fin' = IF p_done(pe) THEN pe ELSE None
         /\ rq # "R_PASS" /\ done_r => fin' = IF err_r THEN "error" ELSE "done"
  <1>1. rq # "R_IDLE" \/ done_r => busy /\ go = None
    BY GoFacts DEF busy
  <1>2. rq = "R_IDLE" /\ ~done_r => ~busy
    BY DEF busy
  <1>3. busy => /\ req' = req /\ floor' = floor
                /\ sent' = IF Seen(pe) # None THEN sent + 1 ELSE sent
    BY DEF Edge, MasterEdge, Held
  <1>4. busy => (stale' => stale \/ (Seen(pe) # None /\ Older(Seen(pe))))
    BY DEF Edge, MasterEdge
  <1>5. ~busy => /\ sent' = 0 /\ req' = (IF go # None THEN go ELSE NoReq)
                 /\ floor' = (IF go # None THEN ver ELSE ver')
    BY DEF Edge, MasterEdge, Held
  <1>6. ~busy => ~stale'
    BY DEF Edge, MasterEdge
  <1>7. fin' = Ended(pe)
    BY DEF Edge, MasterEdge
  <1> QED BY <1>1, <1>2, <1>3, <1>4, <1>5, <1>6, <1>7 DEF Ended

\* When the provider takes a job, goes on with it and drops it.
LEMMA ProviderAfter ==
  ASSUME TypeOK, NEW go \in Issuable \cup {None}, NEW rdy \in BOOLEAN,
         NEW pe \in Events(rdy), Edge(go, rdy, pe)
  PROVE  /\ fst = "F_ISSUE" =>
              /\ prov' # None /\ ~prov'.wr /\ prov'.lba = f_lba /\ prov'.n = f_count
              /\ prov'.k = 0
         /\ fst # "F_ISSUE" /\ rq = "R_PASSGO" =>
              /\ prov' # None /\ (prov'.wr <=> req.wr) /\ prov'.lba = req.lba
              /\ prov'.n = write_blocks(req) /\ prov'.k = 0
         /\ fst # "F_ISSUE" /\ rq # "R_PASSGO" =>
              /\ p_done(pe) => prov' = None
              /\ pe = "byte" => /\ prov' # None /\ (prov'.wr <=> prov.wr) /\ prov'.lba = prov.lba
                                /\ prov'.n = prov.n /\ prov'.k = prov.k + 1
              /\ pe = "quiet" => prov' = prov
  <1>1. fst = "F_ISSUE" =>
              /\ prov' # None /\ ~prov'.wr /\ prov'.lba = f_lba /\ prov'.n = f_count
              /\ prov'.k = 0
    <2> DEFINE job == [wr |-> FALSE, lba |-> f_lba, n |-> f_count, k |-> 0]
    <2>1. fst = "F_ISSUE" => prov' = job
      BY DEF Edge, ProviderEdge
    <2>2. job \in Jobs
      BY DEF TypeOK, Jobs
    <2>3. ~job.wr
      OBVIOUS
    <2>4. job.lba = f_lba /\ job.n = f_count /\ job.k = 0
      OBVIOUS
    <2> HIDE DEF job
    <2> QED BY <2>1, <2>2, <2>3, <2>4, ReadaheadAssumption
  <1>2. fst # "F_ISSUE" /\ rq = "R_PASSGO" =>
              /\ prov' # None /\ (prov'.wr <=> req.wr) /\ prov'.lba = req.lba
              /\ prov'.n = write_blocks(req) /\ prov'.k = 0
    <2> DEFINE job == [wr |-> req.wr, lba |-> req.lba, k |-> 0,
                       n |-> IF req.multi THEN req.count ELSE 1]
    <2>1. fst # "F_ISSUE" /\ rq = "R_PASSGO" => prov' = job
      BY DEF Edge, ProviderEdge
    <2>2. job \in Jobs
      <3>1. req.wr \in BOOLEAN /\ req.lba \in Nat /\ req.count \in Nat
        BY DEF TypeOK, Requests
      <3>2. (IF req.multi THEN req.count ELSE 1) \in Nat
        BY <3>1
      <3> QED BY <3>1, <3>2 DEF Jobs
    <2>3. job.wr <=> req.wr
      OBVIOUS
    <2>4. job.lba = req.lba /\ job.n = write_blocks(req) /\ job.k = 0
      BY DEF write_blocks
    <2> HIDE DEF job
    <2> QED BY <2>1, <2>2, <2>3, <2>4, ReadaheadAssumption
  <1>3. ASSUME fst # "F_ISSUE", rq # "R_PASSGO"
        PROVE  /\ p_done(pe) => prov' = None
               /\ pe = "byte" => /\ prov' # None /\ (prov'.wr <=> prov.wr) /\ prov'.lba = prov.lba
                                 /\ prov'.n = prov.n /\ prov'.k = prov.k + 1
               /\ pe = "quiet" => prov' = prov
    <2>1. (p_done(pe) => prov' = None) /\ (pe = "quiet" => prov' = prov)
      BY <1>3 DEF Edge, ProviderEdge, p_done
    <2>2. ASSUME pe = "byte"
          PROVE  /\ prov' # None /\ (prov'.wr <=> prov.wr) /\ prov'.lba = prov.lba
                 /\ prov'.n = prov.n /\ prov'.k = prov.k + 1
      <3>1. prov' = [prov EXCEPT !.k = @ + 1]
        BY <1>3, <2>2 DEF Edge, ProviderEdge, p_done
      <3>2. prov \in Jobs
        BY <2>2, EventFacts DEF TypeOK
      <3>3. prov' \in Jobs
        BY <3>1, <3>2, SMTT(60) DEF Jobs
      <3> QED BY <3>1, <3>2, <3>3, ReadaheadAssumption DEF Jobs
    <2> QED BY <2>1, <2>2
  <1> QED BY <1>1, <1>2, <1>3

\* What the serve registers hold after the edge.
LEMMA ServeAfter ==
  ASSUME TypeOK, NEW go \in Issuable \cup {None}, NEW rdy \in BOOLEAN,
         NEW pe \in Events(rdy), Edge(go, rdy, pe)
  PROVE  /\ serve_start(go) =>
              LET x == Deciding(go)
              IN /\ serve_way' = IF hit_any(x, go) THEN hit_way(x) ELSE lru
                 /\ serve_off' = IF hit_any(x, go)
                                 THEN (x.lba - way_base[hit_way(x)]) * BlkBytes ELSE 0
                 /\ serve_left' = x.count * BlkBytes
         /\ ~serve_start(go) /\ rq' = "R_SERVE" =>
              /\ serve_way' = serve_way
              /\ serve_off' = serve_off + (IF serve_re(rdy) THEN 1 ELSE 0)
              /\ serve_left' = serve_left - (IF serve_re(rdy) THEN 1 ELSE 0)
         /\ rd_valid_r' <=> serve_re(rdy)
         /\ serve_re(rdy) => serve_q' = cache_mem[serve_way][serve_off]
         /\ done_r' <=> rq \in {"R_FIN", "R_ERR"}
         /\ err_r' <=> rq # "R_IDLE" /\ (err_r \/ rq' = "R_ERR")
         /\ rq' = "R_WAIT" /\ ~pend_pass' =>
              IF rq = "R_IDLE" THEN go # None => cacheable(go) ELSE rq = "R_WAIT" => ~pend_pass
  <1>1. serve_start(go) =>
              LET x == Deciding(go)
              IN /\ serve_way' = IF hit_any(x, go) THEN hit_way(x) ELSE lru
                 /\ serve_off' = IF hit_any(x, go)
                                 THEN (x.lba - way_base[hit_way(x)]) * BlkBytes ELSE 0
                 /\ serve_left' = x.count * BlkBytes
    BY DEF Edge, RequestEdge
  <1>2. ~serve_start(go) /\ rq' = "R_SERVE" =>
              /\ serve_way' = serve_way
              /\ serve_off' = serve_off + (IF serve_re(rdy) THEN 1 ELSE 0)
              /\ serve_left' = serve_left - (IF serve_re(rdy) THEN 1 ELSE 0)
    BY DEF Edge, RequestEdge, Held
  <1>3. rd_valid_r' <=> serve_re(rdy)
    BY DEF Edge, RequestEdge
  <1>4. serve_re(rdy) => serve_q' = cache_mem[serve_way][serve_off]
    BY DEF Edge, RequestEdge, Held
  <1>5. done_r' <=> rq \in {"R_FIN", "R_ERR"}
    BY DEF Edge, RequestEdge
  <1>6. err_r' <=> rq # "R_IDLE" /\ (err_r \/ rq' = "R_ERR")
    BY DEF Edge, RequestEdge
  <1>7. rq' = "R_WAIT" /\ ~pend_pass' =>
          IF rq = "R_IDLE" THEN go # None => cacheable(go) ELSE rq = "R_WAIT" => ~pend_pass
    BY DEF Edge, RequestEdge
  <1> QED BY <1>1, <1>2, <1>3, <1>4, <1>5, <1>6, <1>7

-----------------------------------------------------------------------------
(* An edge keeps the invariant.                                            *)

\* The fill of the next cycle.
LEMMA FillStep ==
  ASSUME TypeOK, Control, NEW go \in Issuable \cup {None}, NEW rdy \in BOOLEAN,
         NEW pe \in Events(rdy), Edge(go, rdy, pe)
  PROVE  /\ fst' = "F_ISSUE" => prov' = None /\ way_bytes'[f_way'] = 0
         /\ fst' = "F_FILL" => /\ prov' # None /\ ~prov'.wr /\ prov'.lba = f_lba'
                               /\ prov'.n = f_count' /\ prov'.k = way_bytes'[f_way']
         /\ fill_active' => /\ f_lba' = way_base'[f_way'] /\ f_count' <= BLOCKS_PER_WAY
                            /\ ~way_valid'[f_way'] /\ rq' \notin {"R_PASSGO", "R_PASS"}
  <1>0. TypeOK'
    BY TickType
  <1>1. /\ f_way \in Way /\ f_way' \in Way /\ lru \in Way
        /\ fst' \in {"F_IDLE", "F_ISSUE", "F_FILL"}
    BY <1>0 DEF TypeOK
  <1>2. fill_active' => Live(f_way)'
    BY DEF Live
  <1>3. CASE fill_start(go)
    <2>1. fst = "F_IDLE" /\ prov = None /\ f_way' = lru /\ f_lba' = Deciding(go).lba
          /\ f_count' = fetch_len(Deciding(go)) /\ fst' = "F_ISSUE"
      BY <1>3, FillAfter
    <2>2. rq \in {"R_IDLE", "R_WAIT"} /\ rq' = "R_SERVE"
      BY <1>3, RequestAfter DEF fill_start
    <2>3. pe = "quiet"
      BY <2>1, EventFacts
    <2>4. prov' = None
      BY <2>1, <2>2, <2>3, ProviderAfter
    <2>5. way_bytes'[lru] = 0 /\ way_base'[lru] = Deciding(go).lba /\ ~way_valid'[lru]
      BY <1>1, <1>2, <1>3, <2>1, WayAfter, SMTT(60) DEF fill_active
    <2>6. Deciding(go).count <= BLOCKS_PER_WAY
      BY <1>3, ServeStartFacts DEF fill_start, cacheable, Control
    <2>7. f_count' <= BLOCKS_PER_WAY
      BY <2>1, <2>6, DecidingFacts, FetchLenType
    <2> QED BY <2>1, <2>2, <2>4, <2>5, <2>7
  <1>4. CASE ~fill_start(go) /\ fill_active'
    <2>1. /\ fill_active /\ f_lba' = f_lba /\ f_count' = f_count /\ f_way' = f_way
          /\ fst' = "F_FILL" /\ (fst = "F_ISSUE" \/ (fst = "F_FILL" /\ ~p_done(pe)))
      <3>1. fst' = "F_FILL"
        BY <1>1, <1>4, FillAfter DEF fill_active
      <3> QED BY <1>4, <3>1, FillAfter
    <2>2. ~Keep(go, pe)
      BY <2>1 DEF Keep, p_done
    <2>3. f_lba = way_base[f_way] /\ f_count <= BLOCKS_PER_WAY /\ ~way_valid[f_way]
          /\ rq \notin {"R_PASSGO", "R_PASS"}
      BY <2>1 DEF Control
    <2>4. ~way_valid'[f_way]
      BY <1>1, <2>2, <2>3, WayAfter
    <2>5. /\ way_base'[f_way] = way_base[f_way]
          /\ way_bytes'[f_way] = IF fill_we(pe) THEN way_bytes[f_way] + 1 ELSE way_bytes[f_way]
      BY <1>1, <1>2, <1>4, <2>1, WayAfter, SMTT(60)
    <2>6. rq' \notin {"R_PASSGO", "R_PASS"}
      BY <2>1, <2>3, RequestAfter DEF prov_busy_any
    <2>7. CASE fst = "F_ISSUE"
      <3>1. prov = None /\ way_bytes[f_way] = 0 /\ pe = "quiet"
        BY <2>7, EventFacts DEF Control
      <3>2. way_bytes'[f_way] = 0
        BY <2>5, <3>1 DEF fill_we
      <3>3. prov' # None /\ ~prov'.wr /\ prov'.lba = f_lba /\ prov'.n = f_count
            /\ prov'.k = 0
        BY <2>7, ProviderAfter
      <3> QED BY <2>1, <2>3, <2>4, <2>5, <2>6, <3>2, <3>3
    <2>8. CASE fst = "F_FILL" /\ ~p_done(pe)
      <3>1. /\ prov # None /\ ~prov.wr /\ prov.lba = f_lba /\ prov.n = f_count
            /\ prov.k = way_bytes[f_way] /\ prov.k <= prov.n * BlkBytes
        BY <2>8 DEF Control
      <3>2. pe = "byte" \/ pe = "quiet"
        BY <2>8, EventFacts DEF p_done
      <3>3. CASE pe = "quiet"
        <4>1. prov' = prov
          BY <2>3, <2>8, <3>3, ProviderAfter
        <4>2. way_bytes'[f_way] = way_bytes[f_way]
          BY <2>5, <3>3 DEF fill_we
        <4> QED BY <2>1, <2>3, <2>4, <2>5, <2>6, <3>1, <4>1, <4>2
      <3>4. CASE pe = "byte"
        <4>1. /\ prov' # None /\ (prov'.wr <=> prov.wr) /\ prov'.lba = prov.lba
              /\ prov'.n = prov.n /\ prov'.k = prov.k + 1
          BY <2>3, <2>8, <3>4, ProviderAfter
        <4>2. prov.k # prov.n * BlkBytes
          BY <3>4, EventFacts
        <4>3. prov.n * BlkBytes <= WAY_BYTES /\ prov.n * BlkBytes \in Nat
          BY <2>3, <3>1, TimesMonotone, ReadaheadAssumption, SMTT(60) DEF TypeOK, WAY_BYTES
        <4>4. prov.k \in Nat
          BY <3>1 DEF TypeOK, Jobs
        <4>5. way_bytes[f_way] < WAY_BYTES
          BY <3>1, <4>2, <4>3, <4>4, WayBytesNat, SMTT(60)
        <4>6. way_bytes'[f_way] = way_bytes[f_way] + 1
          BY <2>5, <2>8, <3>4, <4>5 DEF fill_we
        <4> QED BY <2>1, <2>3, <2>4, <2>5, <2>6, <3>1, <4>1, <4>6
      <3> QED BY <3>2, <3>3, <3>4
    <2> QED BY <2>1, <2>7, <2>8
  <1>5. CASE ~fill_start(go) /\ ~fill_active'
    BY <1>5 DEF fill_active
  <1> QED BY <1>3, <1>4, <1>5

\* The provider's job of the next cycle, and the request that waits for it.
LEMMA ControlStep ==
  ASSUME TypeOK, Control, Counts, NEW go \in Issuable \cup {None}, NEW rdy \in BOOLEAN,
         NEW pe \in Events(rdy), Edge(go, rdy, pe)
  PROVE  Control'
  <1>0. TypeOK'
    BY TickType
  <1>1. prov' # None => prov'.k <= prov'.n * BlkBytes /\ (prov'.wr => prov'.k = 0)
    <2>1. prov' # None => prov' \in Jobs
      BY <1>0 DEF TypeOK
    <2>2. prov' # None => prov'.n * BlkBytes \in Nat /\ prov'.k \in Nat
      BY <2>1, ReadaheadAssumption, SMTT(60) DEF Jobs
    <2>3. CASE fst = "F_ISSUE" \/ rq = "R_PASSGO"
      <3>1. prov'.k = 0
        BY <2>3, ProviderAfter
      <3> QED BY <2>2, <3>1, SMTT(60)
    <2>4. CASE fst # "F_ISSUE" /\ rq # "R_PASSGO"
      <3>1. CASE p_done(pe)
        BY <2>4, <3>1, ProviderAfter
      <3>2. CASE pe = "quiet"
        BY <2>4, <3>2, ProviderAfter, SMTT(60) DEF Control
      <3>3. CASE pe = "byte"
        <4>1. prov # None /\ ~prov.wr /\ prov.k # prov.n * BlkBytes
              /\ prov.k <= prov.n * BlkBytes
          BY <3>3, EventFacts DEF Control
        <4>2. (prov'.wr <=> prov.wr) /\ prov'.n = prov.n /\ prov'.k = prov.k + 1 /\ prov' # None
          BY <2>4, <3>3, ProviderAfter
        <4>3. prov.k \in Nat
          BY <4>1 DEF TypeOK, Jobs
        <4>4. prov'.k <= prov'.n * BlkBytes
          BY <2>2, <4>1, <4>2, <4>3, SMTT(60)
        <4>5. ~prov'.wr
          BY <4>1, <4>2
        <4> QED BY <4>4, <4>5
      <3> QED BY <3>1, <3>2, <3>3, EventFacts DEF p_done
    <2> QED BY <2>3, <2>4
  <1>2. rq' = "R_PASSGO" => prov' = None
    <2> SUFFICES ASSUME rq' = "R_PASSGO" PROVE prov' = None
      OBVIOUS
    <2>1. fst = "F_IDLE" /\ prov = None /\ rq # "R_PASSGO"
      BY RequestAfter DEF prov_busy_any, fill_active
    <2> QED BY <2>1, EventFacts, ProviderAfter
  <1>3. rq' = "R_PASS" => /\ prov' # None /\ (prov'.wr <=> req'.wr) /\ prov'.lba = req'.lba
                          /\ prov'.n = write_blocks(req') /\ sent' = prov'.k
    <2>1. CASE rq = "R_PASSGO"
      <3>1. fst # "F_ISSUE" /\ sent = 0 /\ ~rd_valid_r
        BY <2>1 DEF Control, Counts, fill_active
      <3>2. req' = req /\ sent' = sent
        BY <2>1, <3>1, MasterAfter, SeenFacts
      <3> QED BY <2>1, <3>1, <3>2, ProviderAfter
    <2>2. CASE rq = "R_PASS" /\ ~p_done(pe)
      <3>1. /\ fst # "F_ISSUE" /\ prov # None /\ (prov.wr <=> req.wr) /\ prov.lba = req.lba
            /\ prov.n = write_blocks(req) /\ sent = prov.k
        BY <2>2 DEF Control, fill_active
      <3>2. req' = req /\ sent' = IF Seen(pe) # None THEN sent + 1 ELSE sent
        BY <2>2, MasterAfter
      <3>3. CASE pe = "byte"
        BY <2>2, <3>1, <3>2, <3>3, SeenFacts, ProviderAfter
      <3>4. CASE pe = "quiet"
        BY <2>2, <3>1, <3>2, <3>4, SeenFacts, ProviderAfter
      <3> QED BY <2>2, <3>3, <3>4, EventFacts DEF p_done
    <2> QED BY <2>1, <2>2, RequestAfter
  <1>4. rq' # "R_IDLE" => req'.count > 0 /\ (req'.multi \/ req'.count = 1)
    <2>1. CASE rq # "R_IDLE"
      BY <2>1, MasterAfter DEF Control
    <2>2. CASE rq = "R_IDLE" /\ go # None
      BY <2>2, GoFacts, MasterAfter
    <2>3. CASE rq = "R_IDLE" /\ go = None
      BY <2>3 DEF Edge, RequestEdge, RqNext
    <2> QED BY <2>1, <2>2, <2>3
  <1>5. rq' = "R_WAIT" /\ ~pend_pass' => ~req'.wr /\ req'.count <= BLOCKS_PER_WAY
    <2>1. CASE rq = "R_WAIT"
      BY <2>1, MasterAfter, ServeAfter DEF Control
    <2>2. CASE rq = "R_IDLE" /\ go # None
      BY <2>2, GoFacts, MasterAfter, ServeAfter DEF cacheable
    <2> QED BY <2>1, <2>2, RequestAfter
  <1>6. rq' \in {"R_WAIT", "R_PASSGO"} => sent' = 0
    <2>1. CASE rq = "R_WAIT"
      BY <2>1, MasterAfter, SeenFacts DEF Control, Counts
    <2>2. CASE rq = "R_IDLE" /\ go # None
      BY <2>2, GoFacts, MasterAfter
    <2> QED BY <2>1, <2>2, RequestAfter
  <1>7. inval' = 2 => \A w \in Way : ~way_valid'[w]
    <2>1. inval' = 2 => inval # 0
      BY MediumFacts DEF Edge, FillEdge
    <2>2. inval' = 2 => cache_kill
      BY <2>1 DEF cache_kill
    <2> QED BY <2>2, WayAfter
  <1> QED BY <1>1, <1>2, <1>3, <1>4, <1>5, <1>6, <1>7, FillStep DEF Control, write_blocks, fill_active

\* What the tags answer for in the next cycle: a run just launched, with no byte
\* yet, or something they answered for in this one that nothing has voided.
LEMMA ClaimedStep ==
  ASSUME TypeOK, NEW go \in Issuable \cup {None}, NEW rdy \in BOOLEAN,
         NEW pe \in Events(rdy), Edge(go, rdy, pe), NEW w \in Way, Claimed(w)'
  PROVE  \/ fill_start(go) /\ w = lru /\ way_bytes'[w] = 0
         \/ /\ ~(fill_start(go) /\ w = lru)
            /\ Claimed(w) /\ ~cache_kill /\ ~write_kill(go, w)
            /\ way_base'[w] = way_base[w]
            /\ way_bytes'[w] = IF fill_we(pe) /\ w = f_way THEN way_bytes[w] + 1
                               ELSE way_bytes[w]
  <1>1. Live(w)'
    BY DEF Claimed, Live
  <1>2. CASE fill_start(go) /\ w = lru
    BY <1>1, <1>2, WayAfter, SMTT(60)
  <1>3. CASE ~(fill_start(go) /\ w = lru)
    <2>1. CASE way_valid'[w]
      <3>1. Claimed(w) /\ ~cache_kill /\ ~write_kill(go, w)
        BY <2>1, WayAfter DEF Claimed, Keep, fill_active
      <3> QED BY <1>1, <1>3, <3>1, WayAfter, SMTT(60)
    <2>2. CASE fill_active' /\ ~f_poison' /\ f_way' = w
      <3>1. ~fill_start(go)
        BY <1>3, <2>2, FillAfter
      <3>2. Claimed(w) /\ ~cache_kill /\ ~write_kill(go, w)
        BY <2>2, <3>1, FillAfter DEF Claimed
      <3> QED BY <1>1, <1>3, <3>2, WayAfter, SMTT(60)
    <2> QED BY <2>1, <2>2 DEF Claimed
  <1> QED BY <1>2, <1>3

\* An edge keeps a pending write apart from what the tags answer for.
LEMMA WritesStep ==
  ASSUME TypeOK, Control, Writes, NEW go \in Issuable \cup {None}, NEW rdy \in BOOLEAN,
         NEW pe \in Events(rdy), Edge(go, rdy, pe)
  PROVE  Writes'
  <1>1. ASSUME prov' # None, prov'.wr
        PROVE  fst' = "F_IDLE" /\ \A w \in Way : way_valid'[w] => Apart(prov.lba, prov.n, w)'
    <2>1. fst # "F_ISSUE"
      <3>1. fst = "F_ISSUE" => ~prov'.wr
        BY ProviderAfter
      <3> QED BY <1>1, <3>1
    <2>2. CASE rq = "R_PASSGO"
      <3>1. fst = "F_IDLE" /\ ~fill_start(go)
        BY <2>2, RequestAfter DEF Control, fill_active, fill_start
      <3>2. fst' = "F_IDLE"
        BY <3>1 DEF Edge, FillEdge
      <3>3. (prov'.wr <=> req.wr) /\ prov'.lba = req.lba /\ prov'.n = write_blocks(req)
        BY <2>1, <2>2, ProviderAfter
      <3>4. req.wr
        BY <1>1, <3>3
      <3>5. ASSUME NEW w \in Way, way_valid'[w] PROVE Apart(prov.lba, prov.n, w)'
        <4>1. Claimed(w)'
          BY <3>5 DEF Claimed
        <4>2. Claimed(w) /\ way_base'[w] = way_base[w]
          BY <3>1, <4>1, ClaimedStep
        <4>3. Apart(req.lba, write_blocks(req), w)
          BY <2>2, <3>4, <4>2 DEF Writes
        <4> QED BY <3>3, <4>2, <4>3 DEF Apart
      <3> QED BY <3>2, <3>5
    <2>3. CASE rq # "R_PASSGO"
      <3>1. prov # None /\ ~p_done(pe)
            /\ (prov'.wr <=> prov.wr) /\ prov'.lba = prov.lba /\ prov'.n = prov.n
        BY <1>1, <2>1, <2>3, ProviderAfter, EventFacts DEF p_done
      <3>2. prov.wr
        BY <1>1, <3>1
      <3>3. fst = "F_IDLE" /\ ~fill_start(go)
        BY <3>1, <3>2, FillAfter DEF Writes
      <3>4. fst' = "F_IDLE"
        BY <3>3 DEF Edge, FillEdge
      <3>5. ASSUME NEW w \in Way, way_valid'[w] PROVE Apart(prov.lba, prov.n, w)'
        <4>1. Claimed(w)'
          BY <3>5 DEF Claimed
        <4>2. Claimed(w) /\ way_base'[w] = way_base[w]
          BY <3>3, <4>1, ClaimedStep
        <4>3. way_valid[w]
          BY <3>3, <4>2 DEF Claimed, fill_active
        <4>4. Apart(prov.lba, prov.n, w)
          BY <3>1, <3>2, <4>3 DEF Writes
        <4> QED BY <3>1, <4>2, <4>4 DEF Apart
      <3> QED BY <3>4, <3>5
    <2> QED BY <2>2, <2>3
  <1>2. ASSUME rq' \in {"R_WAIT", "R_PASSGO"}, req'.wr, NEW w \in Way, Claimed(w)'
        PROVE  Apart(req.lba, write_blocks(req), w)'
    <2>1. ~fill_start(go)
      BY <1>2, RequestAfter DEF fill_start
    <2>2. Claimed(w) /\ ~write_kill(go, w) /\ way_base'[w] = way_base[w]
      BY <1>2, <2>1, ClaimedStep
    <2>3. CASE rq = "R_WAIT"
      <3>1. req' = req
        BY <2>3, MasterAfter
      <3>2. Apart(req.lba, write_blocks(req), w)
        BY <1>2, <2>2, <2>3, <3>1 DEF Writes
      <3> QED BY <2>2, <3>1, <3>2 DEF Apart, write_blocks
    <2>4. CASE rq = "R_IDLE" /\ go # None
      <3>1. req' = go /\ go \in Requests
        BY <2>4, GoFacts, MasterAfter
      <3>2. /\ go.lba \in Nat /\ go.count \in Nat /\ way_base[w] \in Nat
            /\ BLOCKS_PER_WAY \in Nat
        BY <3>1, ReadaheadAssumption DEF TypeOK, Requests
      <3>3. Apart(go.lba, write_blocks(go), w)
        BY <1>2, <2>2, <2>4, <3>1, <3>2, SMTT(60) DEF write_kill, Apart, write_blocks
      <3> QED BY <2>2, <3>1, <3>3 DEF Apart, write_blocks
    <2> QED BY <1>2, <2>3, <2>4, RequestAfter
  <1> QED BY <1>1, <1>2 DEF Writes

\* What can be read in the next cycle was readable in this one, or is a run just
\* launched, with no byte yet.
LEMMA LiveStep ==
  ASSUME TypeOK, NEW go \in Issuable \cup {None}, NEW rdy \in BOOLEAN,
         NEW pe \in Events(rdy), Edge(go, rdy, pe), NEW w \in Way, Live(w)'
  PROVE  \/ fill_start(go) /\ w = lru /\ way_bytes'[w] = 0
         \/ /\ ~(fill_start(go) /\ w = lru)
            /\ Live(w) /\ way_base'[w] = way_base[w]
            /\ way_bytes'[w] = IF fill_we(pe) /\ w = f_way THEN way_bytes[w] + 1
                               ELSE way_bytes[w]
  <1>1. CASE fill_start(go) /\ w = lru
    BY <1>1, WayAfter
  <1>2. CASE ~(fill_start(go) /\ w = lru)
    <2>1. Live(w)
      <3>1. CASE way_valid'[w]
        BY <3>1, WayAfter DEF Live, Keep, fill_active
      <3>2. CASE fill_active' /\ f_way' = w
        <4>1. ~fill_start(go)
          BY <1>2, <3>2, FillAfter
        <4> QED BY <3>2, <4>1, FillAfter DEF Live
      <3>3. CASE rq' = "R_SERVE" /\ serve_way' = w /\ serve_start(go)
        <4>1. hit_any(Deciding(go), go) /\ w = hit_way(Deciding(go))
          BY <1>2, <3>3, ServeAfter DEF fill_start
        <4> QED BY <4>1, HitWayFacts DEF Live, hit_fly
      <3>4. CASE rq' = "R_SERVE" /\ serve_way' = w /\ ~serve_start(go)
        <4>1. rq = "R_SERVE"
          BY <3>4, RequestAfter
        <4>2. serve_way = w
          BY <3>4, ServeAfter
        <4> QED BY <4>1, <4>2 DEF Live
      <3> QED BY <3>1, <3>2, <3>3, <3>4 DEF Live
    <2> QED BY <1>2, <2>1, WayAfter, SMTT(60)
  <1> QED BY <1>1, <1>2

\* A byte that can be read in the next cycle was there in this one, or is the one
\* the provider sends.
LEMMA ByteStep ==
  ASSUME TypeOK, Control, NEW go \in Issuable \cup {None}, NEW rdy \in BOOLEAN,
         NEW pe \in Events(rdy), Edge(go, rdy, pe), NEW w \in Way, Live(w)',
         NEW k \in 0 .. way_bytes'[w] - 1
  PROVE  /\ Live(w) /\ way_base'[w] = way_base[w] /\ ~(fill_start(go) /\ w = lru)
         /\ k \in 0 .. WAY_BYTES - 1
         /\ \/ k \in 0 .. way_bytes[w] - 1 /\ cache_mem'[w][k] = cache_mem[w][k]
            \/ /\ fst = "F_FILL" /\ pe = "byte" /\ w = f_way /\ ~prov.wr
               /\ cache_mem'[w][k] = ByteOf
               /\ ByteOf.lba = way_base[w] + k \div BlkBytes
  <1>0. TypeOK'
    BY TickType
  <1>1. way_bytes'[w] \in 0 .. WAY_BYTES /\ way_bytes[w] \in 0 .. WAY_BYTES
    BY <1>0 DEF TypeOK
  <1>2. k \in 0 .. WAY_BYTES - 1 /\ way_bytes'[w] # 0
    BY <1>1, WayBytesNat, SMTT(60)
  <1>3. /\ ~(fill_start(go) /\ w = lru)
        /\ Live(w) /\ way_base'[w] = way_base[w]
        /\ way_bytes'[w] = IF fill_we(pe) /\ w = f_way THEN way_bytes[w] + 1
                           ELSE way_bytes[w]
    BY <1>2, LiveStep
  <1>4. cache_mem'[w][k] = IF fill_we(pe) /\ w = f_way /\ k = way_bytes[w] THEN ByteOf
                           ELSE cache_mem[w][k]
    BY WayAfter, SMTT(60)
  <1>5. CASE fill_we(pe) /\ w = f_way /\ k = way_bytes[w]
    <2>1. fst = "F_FILL" /\ pe = "byte" /\ fill_active
      BY <1>5 DEF fill_we, fill_active
    <2>2. prov # None /\ prov.lba = way_base[w] /\ prov.k = k /\ ~prov.wr
      BY <1>5, <2>1 DEF Control
    <2>3. ByteOf.lba = prov.lba + prov.k \div BlkBytes
      BY <2>1, EventFacts, ByteOfType
    <2> QED BY <1>2, <1>3, <1>4, <1>5, <2>1, <2>2, <2>3
  <1>6. CASE ~(fill_we(pe) /\ w = f_way /\ k = way_bytes[w])
    <2>1. k \in 0 .. way_bytes[w] - 1
      BY <1>1, <1>3, <1>6, WayBytesNat, SMTT(60)
    <2> QED BY <1>2, <1>3, <1>4, <1>6, <2>1
  <1> QED BY <1>5, <1>6

\* An edge keeps every byte of a live way where the tag says.
LEMMA PlacesStep ==
  ASSUME TypeOK, Control, Places, NEW go \in Issuable \cup {None}, NEW rdy \in BOOLEAN,
         NEW pe \in Events(rdy), Edge(go, rdy, pe)
  PROVE  Places'
  <1> SUFFICES ASSUME NEW w \in Way, Live(w)', NEW k \in 0 .. way_bytes'[w] - 1
               PROVE  /\ cache_mem'[w][k].lba = way_base'[w] + k \div BlkBytes
                      /\ cache_mem'[w][k].lba < LbaSpace
    BY DEF Places, InPlace
  <1>1. Live(w) /\ way_base'[w] = way_base[w]
    BY ByteStep
  <1>2. CASE k \in 0 .. way_bytes[w] - 1 /\ cache_mem'[w][k] = cache_mem[w][k]
    BY <1>1, <1>2 DEF Places, InPlace
  <1>3. CASE /\ fst = "F_FILL" /\ pe = "byte" /\ w = f_way /\ ~prov.wr
             /\ cache_mem'[w][k] = ByteOf
             /\ ByteOf.lba = way_base[w] + k \div BlkBytes
    <2>1. ByteOf.lba < LbaSpace
      BY <1>3, EventFacts, ByteOfType
    <2> QED BY <1>1, <1>3, <2>1
  <1> QED BY <1>2, <1>3, ByteStep, SMTT(60)

\* The versions on the medium of what the tags answer for do not change, unless
\* the tags are about to be voided.
LEMMA VersionKept ==
  ASSUME TypeOK, Control, Writes, Places, NEW go \in Issuable \cup {None}, NEW rdy \in BOOLEAN,
         NEW pe \in Events(rdy), Edge(go, rdy, pe), ~cache_kill',
         NEW w \in Way, Claimed(w), NEW k \in 0 .. WAY_BYTES - 1,
         way_base[w] + k \div BlkBytes < LbaSpace
  PROVE  LET l == way_base[w] + k \div BlkBytes IN ver'[l] = ver[l]
  <1> DEFINE l == way_base[w] + k \div BlkBytes
  <1>1. k \in Nat /\ k < BLOCKS_PER_WAY * BlkBytes
    BY WayBytesNat, SMTT(60) DEF WAY_BYTES
  <1>2. k \div BlkBytes \in Nat /\ k \div BlkBytes < BLOCKS_PER_WAY
    BY <1>1, DivBelow, DivBounds, ReadaheadAssumption
  <1>3. way_base[w] \in Nat
    BY DEF TypeOK
  <1>4. l \in 0 .. LbaSpace - 1 /\ way_base[w] <= l /\ l < way_base[w] + BLOCKS_PER_WAY
    BY <1>2, <1>3, ReadaheadAssumption, SMTT(60)
  <1> HIDE DEF l
  <1>5. \/ ver' = ver
        \/ cache_kill'
        \/ /\ prov # None /\ prov.wr
           /\ \A b \in 0 .. LbaSpace - 1 :
                b \notin Extent(prov.lba, prov.n) => ver'[b] = ver[b]
    BY MediumFacts DEF Edge, FillEdge
  <1>6. CASE /\ prov # None /\ prov.wr
             /\ \A b \in 0 .. LbaSpace - 1 :
                  b \notin Extent(prov.lba, prov.n) => ver'[b] = ver[b]
    <2>1. fst = "F_IDLE"
      BY <1>6 DEF Writes
    <2>2. way_valid[w]
      BY <2>1 DEF Claimed, fill_active
    <2>3. Apart(prov.lba, prov.n, w)
      BY <1>6, <2>2 DEF Writes
    <2>4. prov.lba \in Nat /\ prov.n \in Nat
      BY <1>6 DEF TypeOK, Jobs
    <2>5. l \notin Extent(prov.lba, prov.n)
      BY <1>3, <1>4, <2>3, <2>4, ReadaheadAssumption, SMTT(60) DEF Apart, Extent
    <2> QED BY <1>4, <1>6, <2>5 DEF l
  <1> QED BY <1>5, <1>6 DEF l

\* ValidMeansCurrent is inductive with the invariants above.
LEMMA CurrentStep ==
  ASSUME TypeOK, Control, Writes, Places, ValidMeansCurrent,
         NEW go \in Issuable \cup {None}, NEW rdy \in BOOLEAN,
         NEW pe \in Events(rdy), Edge(go, rdy, pe)
  PROVE  ValidMeansCurrent'
  <1>1. ASSUME ~cache_kill', NEW w \in Way, Claimed(w)' PROVE HoldsRun(w)'
    <2> SUFFICES ASSUME NEW k \in 0 .. way_bytes'[w] - 1
                 PROVE  LET l == way_base'[w] + k \div BlkBytes
                        IN cache_mem'[w][k] = [lba |-> l, ver |-> ver'[l]]
      BY DEF HoldsRun
    <2>1. Live(w)'
      BY <1>1 DEF Claimed, Live
    <2>2. /\ Live(w) /\ way_base'[w] = way_base[w] /\ ~(fill_start(go) /\ w = lru)
          /\ k \in 0 .. WAY_BYTES - 1
      BY <2>1, ByteStep
    <2>3. Claimed(w) /\ ~cache_kill
      BY <1>1, <2>2, ClaimedStep
    <2> DEFINE l == way_base[w] + k \div BlkBytes
    <2>4. CASE k \in 0 .. way_bytes[w] - 1 /\ cache_mem'[w][k] = cache_mem[w][k]
      <3>1. HoldsRun(w)
        BY <2>3 DEF ValidMeansCurrent, Claimed
      <3>2. cache_mem[w][k] = [lba |-> l, ver |-> ver[l]]
        BY <2>4, <3>1 DEF HoldsRun
      <3>3. l < LbaSpace
        BY <2>2, <2>4 DEF Places, InPlace
      <3>4. ver'[l] = ver[l]
        BY <1>1, <2>2, <2>3, <3>3, VersionKept
      <3> QED BY <2>2, <2>4, <3>2, <3>4
    <2>5. CASE /\ fst = "F_FILL" /\ pe = "byte" /\ w = f_way /\ ~prov.wr
               /\ cache_mem'[w][k] = ByteOf
               /\ ByteOf.lba = way_base[w] + k \div BlkBytes
      <3>1. ByteOf.lba = l /\ ByteOf = [lba |-> l, ver |-> ver[l]] /\ l < LbaSpace
        <4>1. ByteOf.lba < LbaSpace /\ ByteOf.lba = prov.lba + prov.k \div BlkBytes
          BY <2>5, EventFacts, ByteOfType
        <4> QED BY <2>5, <4>1 DEF ByteOf
      <3>2. ver'[l] = ver[l]
        BY <1>1, <2>2, <2>3, <3>1, VersionKept
      <3> QED BY <2>2, <2>5, <3>1, <3>2
    <2> QED BY <2>1, <2>4, <2>5, ByteStep, SMTT(60)
  <1>2. f_way' \in Way
    BY TickType DEF TypeOK
  <1> QED BY <1>1, <1>2 DEF ValidMeansCurrent, Claimed

\* Where the request machine can go from the end of a serve.
LEMMA EndFacts ==
  ASSUME TypeOK, NEW go \in Issuable \cup {None}, NEW rdy \in BOOLEAN,
         NEW pe \in Events(rdy), Edge(go, rdy, pe)
  PROVE  /\ rq \in {"R_FIN", "R_ERR"} => rq' = "R_IDLE"
         /\ rq = "R_IDLE" /\ go = None => rq' = "R_IDLE"
         /\ rq = "R_PASS" /\ p_done(pe) => rq' = "R_IDLE"
         /\ rq' # "R_IDLE" /\ rq = "R_IDLE" => go # None /\ ~done_r
         /\ serve_re(rdy) => rq = "R_SERVE" /\ serve_off < way_bytes[serve_way]
                             /\ rq' \in {"R_SERVE", "R_FIN", "R_ERR"}
  <1>1. /\ rq \in {"R_FIN", "R_ERR"} => rq' = "R_IDLE"
        /\ rq = "R_IDLE" /\ go = None => rq' = "R_IDLE"
        /\ rq = "R_PASS" /\ p_done(pe) => rq' = "R_IDLE"
    BY DEF Edge, RequestEdge, RqNext
  <1>2. serve_re(rdy) => rq = "R_SERVE" /\ serve_off < way_bytes[serve_way]
    BY DEF serve_re, owed, serve_avail
  <1>3. rq = "R_SERVE" => rq' \in {"R_SERVE", "R_FIN", "R_ERR"}
    BY DEF Edge, RequestEdge, RqNext
  <1> QED BY <1>1, <1>2, <1>3, GoFacts

\* What the master has counted after the edge.
LEMMA SentStep ==
  ASSUME TypeOK, NEW go \in Issuable \cup {None}, NEW rdy \in BOOLEAN,
         NEW pe \in Events(rdy), Edge(go, rdy, pe), rq # "R_IDLE" \/ done_r
  PROVE  /\ rq # "R_PASS" => sent' = Taken
         /\ rq = "R_PASS" => sent' = sent + (IF pe = "byte" THEN 1 ELSE 0)
         /\ req' = req
  <1>1. sent \in Nat
    BY DEF TypeOK
  <1>2. req' = req /\ sent' = IF Seen(pe) # None THEN sent + 1 ELSE sent
    BY MasterAfter
  <1>3. rq # "R_PASS" => sent' = Taken
    BY <1>1, <1>2, SeenFacts, SMTT(60) DEF Taken
  <1>4. rq = "R_PASS" => sent' = sent + (IF pe = "byte" THEN 1 ELSE 0)
    BY <1>1, <1>2, SeenFacts, SMTT(60)
  <1> QED BY <1>2, <1>3, <1>4

\* A serve that starts owes all bytes, one that goes on what it has not taken.
LEMMA ServeStep ==
  ASSUME TypeOK, Control, Counts, NEW go \in Issuable \cup {None}, NEW rdy \in BOOLEAN,
         NEW pe \in Events(rdy), Edge(go, rdy, pe), rq' = "R_SERVE"
  PROVE  /\ serve_left' > 0 /\ Taken' + serve_left' = req'.count * BlkBytes
         /\ way_base'[serve_way'] <= req'.lba
         /\ serve_off' = (req'.lba - way_base'[serve_way']) * BlkBytes + Taken'
  <1>0. TypeOK'
    BY TickType
  <1>1. serve_way' \in Way /\ Live(serve_way)'
    BY <1>0 DEF TypeOK, Live
  <1>2. /\ req'.lba \in Nat /\ req'.count \in Nat /\ sent' \in Nat /\ serve_left' \in Nat
        /\ way_base'[serve_way'] \in Nat /\ serve_off' \in Nat
        /\ BlkBytes \in Nat /\ BlkBytes > 0
    BY <1>0, <1>1, ReadaheadAssumption, SMTT(60) DEF TypeOK, Requests
  <1>3. CASE serve_start(go)
    <2> DEFINE x == Deciding(go)
    <2>1. rq \in {"R_IDLE", "R_WAIT"} /\ ~serve_re(rdy)
      BY <1>3, RequestAfter DEF serve_re, owed
    <2>2. req' = x /\ sent' = 0 /\ x.count > 0
      <3>1. CASE rq = "R_IDLE"
        BY <1>3, <3>1, ServeStartFacts, GoFacts, MasterAfter
      <3>2. CASE rq = "R_WAIT"
        BY <1>3, <3>2, ServeStartFacts, SentStep, TakenIs DEF Control, Counts
      <3> QED BY <2>1, <3>1, <3>2
    <2>3. Taken' = 0
      BY <2>1, <2>2, ServeAfter, SMTT(60) DEF Taken
    <2>4. serve_left' = x.count * BlkBytes
      BY <1>3, ServeAfter
    <2>5. serve_left' > 0
      <3>1. x.count \in Nat
        BY <1>2, <2>2
      <3> HIDE DEF x
      <3> QED BY <1>2, <2>2, <2>4, <3>1, SMTT(60)
    <2>6. CASE hit_any(x, go)
      <3>1. /\ serve_way' = hit_way(x) /\ hit_way(x) \in Way /\ ~fill_start(go)
            /\ serve_off' = (x.lba - way_base[hit_way(x)]) * BlkBytes
            /\ way_base[hit_way(x)] <= x.lba
        BY <1>3, <2>6, ServeAfter, HitWayFacts DEF fill_start, InWay
      <3>2. way_base'[serve_way'] = way_base[serve_way']
        BY <1>1, <3>1, LiveStep
      <3> QED BY <1>2, <2>2, <2>3, <2>4, <2>5, <3>1, <3>2, SMTT(60)
    <2>7. CASE ~hit_any(x, go)
      <3>1. serve_way' = lru /\ serve_off' = 0 /\ fill_start(go)
        BY <1>3, <2>7, ServeAfter DEF fill_start
      <3>2. way_base'[serve_way'] = x.lba
        BY <1>1, <3>1, WayAfter
      <3>3. (x.lba - x.lba) * BlkBytes = 0
        BY <1>2, <2>2, SMTT(60)
      <3> QED BY <1>2, <2>2, <2>3, <2>4, <2>5, <3>1, <3>2, <3>3, SMTT(60)
    <2> QED BY <2>6, <2>7
  <1>4. CASE ~serve_start(go)
    <2>1. rq = "R_SERVE" /\ ~last_taken(rdy) /\ ~fill_start(go)
      BY <1>4, RequestAfter DEF fill_start
    <2>2. /\ serve_left > 0 /\ Taken + serve_left = req.count * BlkBytes
          /\ way_base[serve_way] <= req.lba
          /\ serve_off = (req.lba - way_base[serve_way]) * BlkBytes + Taken
      BY <2>1 DEF Counts
    <2>3. sent' = Taken /\ req' = req
      BY <2>1, SentStep
    <2>4. /\ serve_way' = serve_way
          /\ serve_off' = serve_off + (IF serve_re(rdy) THEN 1 ELSE 0)
          /\ serve_left' = serve_left - (IF serve_re(rdy) THEN 1 ELSE 0)
      BY <1>4, ServeAfter
    <2>5. way_base'[serve_way'] = way_base[serve_way]
      BY <1>1, <2>1, <2>4, LiveStep
    <2>6. Taken' = Taken + (IF serve_re(rdy) THEN 1 ELSE 0)
      <3>1. rd_valid_r' <=> serve_re(rdy)
        BY ServeAfter
      <3>2. Taken' = sent' + (IF rd_valid_r' THEN 1 ELSE 0)
        BY DEF Taken
      <3> QED BY <2>3, <3>1, <3>2
    <2>7. serve_re(rdy) => serve_left # 1
      BY <2>1 DEF last_taken
    <2>8. Taken \in Nat /\ serve_left \in Nat /\ serve_off \in Nat
          /\ (req.lba - way_base[serve_way]) * BlkBytes \in Nat /\ req.count * BlkBytes \in Nat
      <3>1. Taken \in Nat
        BY TakenIs
      <3>2. /\ serve_left \in Nat /\ serve_off \in Nat /\ req.lba \in Nat /\ req.count \in Nat
            /\ way_base[serve_way] \in Nat
        BY DEF TypeOK, Requests
      <3>3. way_base[serve_way] <= req.lba
        BY <2>2
      <3>4. req.count * BlkBytes \in Nat
        BY <3>2, ReadaheadAssumption, SMTT(60)
      <3> QED BY <3>1, <3>2, <3>3, <3>4, Scaled
    <2>9. serve_left' > 0 /\ Taken' + serve_left' = req'.count * BlkBytes
      BY <2>2, <2>3, <2>4, <2>6, <2>7, <2>8, SMTT(60)
    <2>10. serve_off' = (req'.lba - way_base'[serve_way']) * BlkBytes + Taken'
      BY <2>2, <2>3, <2>4, <2>5, <2>6, <2>8, SMTT(60)
    <2> QED BY <2>2, <2>3, <2>5, <2>9, <2>10
  <1> QED BY <1>3, <1>4

\* The byte on rd_data is the next one of the request.
LEMMA ByteServed ==
  ASSUME TypeOK, Control, Places, Counts, NEW go \in Issuable \cup {None}, NEW rdy \in BOOLEAN,
         NEW pe \in Events(rdy), Edge(go, rdy, pe), rd_valid_r'
  PROVE  serve_q'.lba = req'.lba + sent' \div BlkBytes /\ serve_q'.lba < LbaSpace
  <1>1. /\ serve_re(rdy) /\ rq = "R_SERVE" /\ serve_off < way_bytes[serve_way]
        /\ serve_q' = cache_mem[serve_way][serve_off]
    BY ServeAfter, EndFacts
  <1>2. req' = req /\ sent' = Taken
    BY <1>1, SentStep
  <1>3. serve_off \in 0 .. way_bytes[serve_way] - 1 /\ serve_way \in Way
    BY <1>1, WayBytesNat, SMTT(60) DEF TypeOK
  <1>4. InPlace(serve_way)
    BY <1>1, <1>3 DEF Places, Live
  <1>5. /\ serve_q'.lba = way_base[serve_way] + serve_off \div BlkBytes
        /\ serve_q'.lba < LbaSpace
    BY <1>1, <1>3, <1>4 DEF InPlace
  <1>6. way_base[serve_way] <= req.lba
        /\ serve_off = (req.lba - way_base[serve_way]) * BlkBytes + Taken
    BY <1>1 DEF Counts
  <1>7. Taken \in Nat /\ way_base[serve_way] \in Nat /\ req.lba \in Nat
    BY <1>3, TakenIs DEF TypeOK, Requests
  <1>8. req.lba - way_base[serve_way] \in Nat
    BY <1>6, <1>7, SMTT(60)
  <1>9. serve_off \div BlkBytes = (req.lba - way_base[serve_way]) + Taken \div BlkBytes
    <2> DEFINE a == req.lba - way_base[serve_way]
               n == Taken
    <2>1. a \in Nat /\ n \in Nat /\ serve_off = a * BlkBytes + n /\ BlkBytes \in Nat \ {0}
      BY <1>6, <1>7, <1>8, ReadaheadAssumption
    <2> HIDE DEF a, n
    <2>2. (a * BlkBytes + n) \div BlkBytes = a + n \div BlkBytes
      BY <2>1, DivShift
    <2>3. serve_off \div BlkBytes = a + n \div BlkBytes
      BY <2>1, <2>2
    <2> QED BY <2>3 DEF a, n
  <1>10. Taken \div BlkBytes \in Nat
    BY <1>7, DivBounds, ReadaheadAssumption
  <1> QED BY <1>2, <1>5, <1>7, <1>9, <1>10, SMTT(60)

\* An edge keeps the count of the bytes served.
LEMMA CountsStep ==
  ASSUME TypeOK, Control, Places, Counts, NEW go \in Issuable \cup {None}, NEW rdy \in BOOLEAN,
         NEW pe \in Events(rdy), Edge(go, rdy, pe)
  PROVE  Counts'
  <1>0. TypeOK'
    BY TickType
  <1>1. rq' \in {"R_IDLE", "R_WAIT", "R_PASSGO", "R_PASS"} => ~rd_valid_r'
    BY ServeAfter, EndFacts
  <1>2. rq' # "R_IDLE" => ~done_r'
    BY ServeAfter, EndFacts
  <1>3. rq' \notin {"R_IDLE", "R_ERR"} => ~err_r'
    BY ServeAfter, EndFacts DEF Counts
  <1>4. rq = "R_SERVE" =>
          /\ sent' = Taken /\ req' = req /\ Taken \in Nat /\ serve_left \in Nat
          /\ Taken' = Taken + (IF serve_re(rdy) THEN 1 ELSE 0)
          /\ serve_left > 0 /\ Taken + serve_left = req.count * BlkBytes
    <2> SUFFICES ASSUME rq = "R_SERVE"
                 PROVE  /\ sent' = Taken /\ req' = req /\ Taken \in Nat /\ serve_left \in Nat
                        /\ Taken' = Taken + (IF serve_re(rdy) THEN 1 ELSE 0)
                        /\ serve_left > 0 /\ Taken + serve_left = req.count * BlkBytes
      OBVIOUS
    <2>1. sent' = Taken /\ req' = req
      BY SentStep
    <2>2. rd_valid_r' <=> serve_re(rdy)
      BY ServeAfter
    <2>3. Taken' = sent' + (IF rd_valid_r' THEN 1 ELSE 0)
      BY DEF Taken
    <2>4. Taken \in Nat /\ serve_left \in Nat
      BY TakenIs DEF TypeOK
    <2>5. serve_left > 0 /\ Taken + serve_left = req.count * BlkBytes
      BY DEF Counts
    <2> QED BY <2>1, <2>2, <2>3, <2>4, <2>5
  <1>5. rq' = "R_FIN" => rd_valid_r' /\ Taken' = req'.count * BlkBytes
    <2> SUFFICES ASSUME rq' = "R_FIN" PROVE rd_valid_r' /\ Taken' = req'.count * BlkBytes
      OBVIOUS
    <2>1. rq = "R_SERVE" /\ serve_re(rdy) /\ serve_left = 1
      BY RequestAfter DEF last_taken
    <2> QED BY <1>4, <2>1, ServeAfter
  <1>6. rq' = "R_ERR" => err_r' /\ Taken' <= req'.count * BlkBytes
    <2> SUFFICES ASSUME rq' = "R_ERR" PROVE err_r' /\ Taken' <= req'.count * BlkBytes
      OBVIOUS
    <2>1. rq = "R_SERVE" /\ err_r'
      BY RequestAfter, ServeAfter
    <2> QED BY <1>4, <2>1, SMTT(60)
  <1>7. rq' = "R_IDLE" /\ done_r' /\ ~err_r' => sent' = req'.count * BlkBytes
    <2> SUFFICES ASSUME rq' = "R_IDLE", done_r', ~err_r' PROVE sent' = req'.count * BlkBytes
      OBVIOUS
    <2>1. rq \in {"R_FIN", "R_ERR"} /\ ~err_r
      BY ServeAfter
    <2>2. rq = "R_FIN" /\ Taken = req.count * BlkBytes
      BY <2>1 DEF Counts
    <2> QED BY <2>2, SentStep
  <1>8. fin' # None => rq' = "R_IDLE" /\ ~done_r'
    <2> SUFFICES ASSUME fin' # None PROVE rq' = "R_IDLE" /\ ~done_r'
      OBVIOUS
    <2>1. CASE rq = "R_PASS"
      BY <2>1, MasterAfter, EndFacts, ServeAfter
    <2>2. CASE rq # "R_PASS"
      <3>1. done_r /\ rq = "R_IDLE" /\ go = None
        BY <2>2, MasterAfter DEF Counts
      <3> QED BY <3>1, EndFacts, ServeAfter
    <2> QED BY <2>1, <2>2
  <1>9. rd_valid_r' => serve_q'.lba = req'.lba + sent' \div BlkBytes /\ serve_q'.lba < LbaSpace
    BY ByteServed
  <1> QED BY <1>1, <1>2, <1>3, <1>5, <1>6, <1>7, <1>8, <1>9, ServeStep DEF Counts

\* A write or a read that is passed through is of as many blocks as were asked.
LEMMA PassBlocks ==
  ASSUME TypeOK, Control, rq # "R_IDLE"
  PROVE  write_blocks(req) = req.count
  BY DEF Control, write_blocks, TypeOK, Requests

\* An edge keeps the bytes in the order of the request.
LEMMA InOrderStep ==
  ASSUME TypeOK, Control, Counts, NEW go \in Issuable \cup {None}, NEW rdy \in BOOLEAN,
         NEW pe \in Events(rdy), Edge(go, rdy, pe)
  PROVE  ServedInOrder'
  <1> SUFFICES ASSUME out' # None
               PROVE  out'.byte.lba = req'.lba + out'.pos \div BlkBytes
    BY DEF ServedInOrder
  <1>1. busy /\ Seen(pe) # None /\ out' = [pos |-> sent, byte |-> Seen(pe)] /\ req' = req
    BY DEF Edge, MasterEdge, Held
  <1>2. CASE rq = "R_PASS"
    <2>1. pe = "byte" /\ Seen(pe) = ByteOf
      BY <1>1, <1>2, SeenFacts
    <2>2. ByteOf.lba = prov.lba + prov.k \div BlkBytes
      BY <2>1, EventFacts, ByteOfType
    <2>3. prov.lba = req.lba /\ prov.k = sent
      BY <1>2 DEF Control
    <2> QED BY <1>1, <2>1, <2>2, <2>3
  <1>3. CASE rq # "R_PASS"
    <2>1. rd_valid_r /\ Seen(pe) = serve_q
      BY <1>1, <1>3, SeenFacts
    <2> QED BY <1>1, <2>1 DEF Counts
  <1> QED BY <1>2, <1>3

\* An edge keeps a good end complete.
LEMMA GoodStep ==
  ASSUME TypeOK, Control, Counts, GoodMeansAll,
         NEW go \in Issuable \cup {None}, NEW rdy \in BOOLEAN,
         NEW pe \in Events(rdy), Edge(go, rdy, pe)
  PROVE  GoodMeansAll'
  <1>0. TypeOK'
    BY TickType
  <1>1. /\ sent' \in Nat /\ req'.count * BlkBytes \in Nat
        /\ sent \in Nat /\ req.count * BlkBytes \in Nat
    <2>1. sent' \in Nat /\ req'.count \in Nat /\ sent \in Nat /\ req.count \in Nat
      BY <1>0 DEF TypeOK, Requests
    <2> QED BY <2>1, ReadaheadAssumption, SMTT(60)
  <1>2. CASE rq = "R_IDLE" /\ ~done_r
    <2>1. sent' = 0 /\ fin' = None
      BY <1>2, MasterAfter
    <2>2. None # "done"
      BY ReadaheadAssumption
    <2> QED BY <1>1, <2>1, <2>2, SMTT(60) DEF GoodMeansAll
  <1>3. CASE rq = "R_PASS"
    <2>1. /\ prov # None /\ (prov.wr <=> req.wr) /\ prov.n = req.count /\ sent = prov.k
          /\ prov.k <= prov.n * BlkBytes
      BY <1>3, PassBlocks DEF Control
    <2>2. sent' = sent + (IF pe = "byte" THEN 1 ELSE 0) /\ req' = req
      BY <1>3, SentStep
    <2>3. pe = "byte" => prov.k # prov.n * BlkBytes
      BY EventFacts
    <2>4. sent' <= req'.count * BlkBytes
      BY <1>1, <2>1, <2>2, <2>3, SMTT(60)
    <2>5. fin' = "done" => pe = "done"
      BY <1>3, MasterAfter, ReadaheadAssumption
    <2>6. fin' = "done" /\ ~req'.wr => sent' = req'.count * BlkBytes
      BY <1>1, <2>1, <2>2, <2>5, EventFacts, SMTT(60)
    <2> QED BY <2>4, <2>6 DEF GoodMeansAll
  <1>4. CASE rq # "R_PASS" /\ (rq # "R_IDLE" \/ done_r)
    <2>1. sent' = Taken /\ req' = req
      BY <1>4, SentStep
    <2>2. Taken <= req.count * BlkBytes
      <3>1. CASE rq = "R_IDLE"
        BY <3>1, TakenIs DEF Counts, GoodMeansAll
      <3>2. CASE rq \in {"R_WAIT", "R_PASSGO"}
        BY <1>1, <3>2, TakenIs, SumBounds DEF Counts, Control
      <3>3. CASE rq = "R_SERVE"
        <4>1. serve_left \in Nat /\ Taken + serve_left = req.count * BlkBytes
          BY <3>3 DEF Counts, TypeOK
        <4> QED BY <4>1, TakenIs, SumBounds
      <3>4. CASE rq \in {"R_FIN", "R_ERR"}
        BY <1>1, <3>4, SumBounds DEF Counts
      <3> QED BY <1>4, <3>1, <3>2, <3>3, <3>4 DEF TypeOK
    <2>3. fin' = "done" => sent' = req.count * BlkBytes
      <3> SUFFICES ASSUME fin' = "done" PROVE sent' = req.count * BlkBytes
        OBVIOUS
      <3>1. None # "done"
        BY ReadaheadAssumption
      <3>2. done_r /\ ~err_r
        BY <1>4, <3>1, MasterAfter
      <3>3. rq = "R_IDLE"
        BY <3>2 DEF Counts
      <3> QED BY <2>1, <3>2, <3>3, TakenIs DEF Counts
    <2> QED BY <2>1, <2>2, <2>3 DEF GoodMeansAll
  <1> QED BY <1>2, <1>3, <1>4

-----------------------------------------------------------------------------
(* What holds whatever the environment does.                               *)

Inv == /\ TypeOK /\ Control /\ Writes /\ Places /\ Counts
       /\ ValidMeansCurrent /\ ServedInOrder /\ GoodMeansAll

\* The invariant holds when the system comes up.
LEMMA InvInit == Init => Inv
  <1> SUFFICES ASSUME Init PROVE Inv
    OBVIOUS
  <1>1. TypeOK
    BY InitType
  <1>2. /\ \A w \in Way : ~way_valid[w]
        /\ ~fill_active /\ rq = "R_IDLE" /\ prov = None /\ ~done_r /\ ~rd_valid_r /\ ~err_r
    BY DEF Init, fill_active
  <1>3. inval = 0 /\ sent = 0 /\ out = None /\ fin = None /\ req = NoReq /\ fst = "F_IDLE"
    BY DEF Init
  <1>4. NoReq.count * BlkBytes = 0
    BY ReadaheadAssumption, SMTT(60) DEF NoReq
  <1>5. None # "done"
    BY ReadaheadAssumption
  <1>6. Control
    BY <1>2, <1>3 DEF Control
  <1>7. Writes
    BY <1>2, <1>3 DEF Writes
  <1>8. Places
    BY <1>2, <1>3 DEF Places, Live
  <1>9. Counts
    BY <1>2, <1>3 DEF Counts
  <1>10. ValidMeansCurrent
    BY <1>2, <1>3 DEF ValidMeansCurrent
  <1>11. ServedInOrder
    BY <1>3 DEF ServedInOrder
  <1>12. GoodMeansAll
    BY <1>3, <1>4, <1>5, SMTT(60) DEF GoodMeansAll
  <1> QED BY <1>1, <1>6, <1>7, <1>8, <1>9, <1>10, <1>11, <1>12 DEF Inv

\* A reset at any moment keeps the invariant.
LEMMA InvReset ==
  ASSUME Inv, Reset
  PROVE  Inv'
  <1>0. TypeOK /\ Control
    BY DEF Inv
  <1>1. TypeOK'
    BY <1>0, ResetType
  <1>2. /\ \A w \in Way : ~way_valid'[w]
        /\ ~done_r' /\ ~rd_valid_r' /\ ~err_r'
    BY DEF Reset
  <1>3. /\ sent' = 0 /\ out' = None /\ fin' = None /\ req' = NoReq /\ fst' = "F_IDLE"
        /\ rq' = "R_IDLE"
    BY DEF Reset
  <1>4. ~fill_active'
    BY <1>3 DEF fill_active
  <1>5. prov' = prov \/ prov' = None
    BY <1>0, ResetVer
  <1>6. NoReq.count * BlkBytes = 0
    BY ReadaheadAssumption, SMTT(60) DEF NoReq
  <1>7. None # "done"
    BY ReadaheadAssumption
  <1>8. Control'
    BY <1>0, <1>2, <1>3, <1>4, <1>5 DEF Control
  <1>9. Writes'
    BY <1>2, <1>3 DEF Writes
  <1>10. Places'
    BY <1>2, <1>3, <1>4 DEF Places, Live
  <1>11. Counts'
    BY <1>2, <1>3 DEF Counts
  <1>12. ValidMeansCurrent'
    BY <1>2, <1>4 DEF ValidMeansCurrent
  <1>13. ServedInOrder'
    BY <1>3 DEF ServedInOrder
  <1>14. GoodMeansAll'
    BY <1>3, <1>6, <1>7, SMTT(60) DEF GoodMeansAll
  <1> QED BY <1>1, <1>8, <1>9, <1>10, <1>11, <1>12, <1>13, <1>14 DEF Inv

\* A clock edge keeps the invariant.
LEMMA InvTick ==
  ASSUME Inv, NEW go \in Issuable \cup {None}, NEW rdy \in BOOLEAN,
         NEW pe \in Events(rdy), Edge(go, rdy, pe)
  PROVE  Inv'
  <1>1. TypeOK /\ Control /\ Writes /\ Places /\ Counts
        /\ ValidMeansCurrent /\ ServedInOrder /\ GoodMeansAll
    BY DEF Inv
  <1> QED BY <1>1, TickType, ControlStep, WritesStep, PlacesStep, CountsStep, CurrentStep,
             InOrderStep, GoodStep DEF Inv

\* A step of the clock is an edge under some inputs.
LEMMA TickEdge ==
  ASSUME Tick
  PROVE  \E go \in Issuable \cup {None} : \E rdy \in BOOLEAN : \E pe \in Events(rdy) :
           Edge(go, rdy, pe)
  <1>1. PICK go \in Issuable \cup {None}, rdy \in (IF Looked THEN BOOLEAN ELSE {TRUE}) :
          \E pe \in Events(rdy) :
            /\ UNCHANGED scn /\ RequestEdge(go, rdy, pe) /\ FillEdge(go, pe)
            /\ MediumEdge(go, pe) /\ ProviderEdge(pe) /\ MasterEdge(go, pe)
    BY DEF Tick
  <1>2. rdy \in BOOLEAN
    OBVIOUS
  <1> QED BY <1>1, <1>2 DEF Edge

\* The invariant is about the state alone.
LEMMA InvStutter ==
  ASSUME Inv, UNCHANGED vars
  PROVE  Inv'
  <1>1. UNCHANGED << fillVars, reqVars, envVars, scn >>
    BY DEF vars
  <1>2. /\ scn' = scn /\ way_valid' = way_valid /\ way_base' = way_base
        /\ way_bytes' = way_bytes /\ lru' = lru /\ cache_mem' = cache_mem
        /\ last_num_lbas' = last_num_lbas /\ num_lbas' = num_lbas /\ inval' = inval
        /\ fst' = fst /\ f_lba' = f_lba /\ f_count' = f_count /\ f_way' = f_way
        /\ f_poison' = f_poison
    BY <1>1 DEF fillVars, reqVars, envVars, vars
  <1>3. /\ rq' = rq /\ pend_pass' = pend_pass /\ serve_way' = serve_way
        /\ serve_off' = serve_off /\ serve_left' = serve_left /\ done_r' = done_r
        /\ err_r' = err_r /\ rd_valid_r' = rd_valid_r /\ serve_q' = serve_q
        /\ req' = req /\ prov' = prov /\ ver' = ver /\ floor' = floor /\ sent' = sent
        /\ stale' = stale /\ fin' = fin /\ out' = out
    BY <1>1 DEF fillVars, reqVars, envVars, vars
  <1>4. TypeOK'
    BY <1>2, <1>3, SMTT(60) DEF Inv, TypeOK
  <1>5. Control' /\ Writes'
    BY <1>2, <1>3 DEF Inv, Control, Writes, Claimed, Apart, fill_active, write_blocks
  <1>6. Places'
    BY <1>2, <1>3 DEF Inv, Places, Live, InPlace, fill_active
  <1>7. Counts' /\ ServedInOrder' /\ GoodMeansAll'
    BY <1>2, <1>3 DEF Inv, Counts, Taken, ServedInOrder, GoodMeansAll
  <1>8. ValidMeansCurrent'
    BY <1>2, <1>3 DEF Inv, ValidMeansCurrent, HoldsRun, fill_active, cache_kill,
                      medium_changed
  <1> QED BY <1>4, <1>5, <1>6, <1>7, <1>8 DEF Inv

\* Every step keeps the invariant.
LEMMA InvNext ==
  ASSUME Inv, [Next]_vars
  PROVE  Inv'
  <1>1. CASE Tick
    <2>1. PICK go \in Issuable \cup {None}, rdy \in BOOLEAN :
            \E pe \in Events(rdy) : Edge(go, rdy, pe)
      BY <1>1, TickEdge
    <2>2. PICK pe \in Events(rdy) : Edge(go, rdy, pe)
      BY <2>1
    <2> QED BY <2>2, InvTick
  <1>2. CASE Reset
    BY <1>2, InvReset
  <1>3. CASE UNCHANGED vars
    BY <1>3, InvStutter
  <1> QED BY <1>1, <1>2, <1>3 DEF Next

\* The invariant holds in every state of every behaviour.
LEMMA Invariant == Spec => []Inv
  BY InvInit, InvNext, PTL DEF Spec

\* The tags of the read-ahead cache tell the truth: whenever nothing is voiding
\* it, a valid way and the arrived part of a run that nothing has voided hold the
\* current versions of consecutive blocks, through every overlap of a fill, a
\* write, a swap of the medium, a writer behind inval and a reset.
THEOREM TagsTellTheTruth == Spec => []ValidMeansCurrent
  <1>1. Inv => ValidMeansCurrent
    BY DEF Inv
  <1> QED BY <1>1, Invariant, PTL

\* The bytes of a read reach the master in order and from the blocks it asked
\* for, out of a way, out of the run that is still arriving, or passed through.
THEOREM ReadsInOrder == Spec => []ServedInOrder
  <1>1. Inv => ServedInOrder
    BY DEF Inv
  <1> QED BY <1>1, Invariant, PTL

\* A read that ends without error has delivered every byte, and no read ever
\* delivers one too many.
THEOREM ReadsComplete == Spec => []GoodMeansAll
  <1>1. Inv => GoodMeansAll
    BY DEF Inv
  <1> QED BY <1>1, Invariant, PTL

-----------------------------------------------------------------------------
(* Freshness.                                                              *)

\* The bytes of a way, and one byte, are no older than the master's request.
Recent(w) == \A k \in 0 .. way_bytes[w] - 1 : cache_mem[w][k].ver >= floor[cache_mem[w][k].lba]
Fresh(x) == x.lba < LbaSpace /\ x.ver >= floor[x.lba]

\* What the tags answer for is recent, except while the cache is being voided and
\* no request is running: one made in that very cycle meets a serve that ends
\* with error, unless it came in the one cycle of a swap.
Freshness ==
  /\ ~scn.eager
  /\ \A l \in 0 .. LbaSpace - 1 : floor[l] <= ver[l]
  /\ \A w \in Way : Claimed(w) => Recent(w) \/ (cache_kill /\ ~busy)
  /\ rq \in {"R_WAIT", "R_PASSGO", "R_PASS"} => ~stale
  /\ rq = "R_SERVE" => \/ inval = 2
                       \/ ~stale /\ (rd_valid_r => Fresh(serve_q)) /\ Recent(serve_way)
  /\ rq = "R_FIN" => ~stale /\ Fresh(serve_q)
  /\ rq = "R_IDLE" /\ done_r /\ ~err_r => ~stale
  /\ ServedFresh

\* The versions the master may expect are never ahead of the medium.
LEMMA FloorStep ==
  ASSUME TypeOK, Freshness, NEW go \in Issuable \cup {None}, NEW rdy \in BOOLEAN,
         NEW pe \in Events(rdy), Edge(go, rdy, pe)
  PROVE  /\ \A l \in 0 .. LbaSpace - 1 : floor'[l] <= ver'[l]
         /\ busy \/ go # None => \A l \in 0 .. LbaSpace - 1 : floor'[l] <= ver[l]
  <1> DEFINE D == 0 .. LbaSpace - 1
  <1>0. TypeOK'
    BY TickType
  <1>1. /\ ver \in [D -> Nat] /\ ver' \in [D -> Nat]
        /\ floor \in [D -> Nat] /\ floor' \in [D -> Nat]
    BY <1>0 DEF TypeOK
  <1>2. \A l \in D : ver[l] <= ver'[l] /\ floor[l] <= ver[l]
    BY MediumFacts DEF Freshness, Edge, FillEdge
  <1>3. busy => floor' = floor
    BY MasterAfter DEF busy
  <1>4. ~busy => floor' = (IF go # None THEN ver ELSE ver')
    BY MasterAfter DEF busy
  <1> HIDE DEF D
  <1>5. CASE busy
    BY <1>1, <1>2, <1>3, <1>5, SMTT(60) DEF D
  <1>6. CASE ~busy
    BY <1>1, <1>2, <1>4, <1>6, SMTT(60) DEF D
  <1> QED BY <1>5, <1>6

\* A way stays recent: what arrives is current, and so are the bytes of a way the
\* tags answer for when a request is made.
LEMMA RecentStep ==
  ASSUME TypeOK, Control, Places, Freshness,
         NEW go \in Issuable \cup {None}, NEW rdy \in BOOLEAN,
         NEW pe \in Events(rdy), Edge(go, rdy, pe), NEW w \in Way, Live(w)',
         busy \/ go # None,
         ~(fill_start(go) /\ w = lru) => IF busy THEN Recent(w) ELSE HoldsRun(w)
  PROVE  Recent(w)'
  <1> SUFFICES ASSUME NEW k \in 0 .. way_bytes'[w] - 1
               PROVE  cache_mem'[w][k].ver >= floor'[cache_mem'[w][k].lba]
    BY DEF Recent
  <1>0. TypeOK'
    BY TickType
  <1>1. Live(w) /\ ~(fill_start(go) /\ w = lru) /\ k \in 0 .. WAY_BYTES - 1
    BY ByteStep
  <1>2. \A l \in 0 .. LbaSpace - 1 : floor'[l] <= ver[l] /\ ver[l] \in Nat /\ floor'[l] \in Nat
    <2> DEFINE D == 0 .. LbaSpace - 1
    <2>1. ver \in [D -> Nat] /\ floor' \in [D -> Nat]
      BY <1>0 DEF TypeOK
    <2>2. \A l \in D : floor'[l] <= ver[l]
      BY FloorStep
    <2> HIDE DEF D
    <2>3. \A l \in D : floor'[l] <= ver[l] /\ ver[l] \in Nat /\ floor'[l] \in Nat
      BY <2>1, <2>2
    <2> QED BY <2>3 DEF D
  <1>3. CASE k \in 0 .. way_bytes[w] - 1 /\ cache_mem'[w][k] = cache_mem[w][k]
    <2> DEFINE b == cache_mem[w][k]
    <2>1. b.lba < LbaSpace /\ b.lba = way_base[w] + k \div BlkBytes
      BY <1>1, <1>3 DEF Places, InPlace
    <2>2. b.lba \in 0 .. LbaSpace - 1
      <3>1. b \in Bytes
        BY <1>1, CacheByteType
      <3> QED BY <2>1, <3>1, ByteFacts
    <2>3. CASE busy
      <3>1. floor' = floor
        BY <2>3, MasterAfter DEF busy
      <3> QED BY <1>1, <1>3, <2>3, <3>1 DEF Recent
    <2>4. CASE ~busy
      <3>1. b = [lba |-> b.lba, ver |-> ver[b.lba]]
        BY <1>1, <1>3, <2>1, <2>4 DEF HoldsRun
      <3> HIDE DEF b
      <3> DEFINE l == b.lba
                 v == ver[l]
      <3>2. b = [lba |-> l, ver |-> v]
        BY <3>1
      <3> HIDE DEF l, v
      <3>3. b.ver = v
        BY <3>2, ByteFields
      <3>4. b.ver = ver[b.lba]
        BY <3>3 DEF v, l
      <3> QED BY <1>2, <1>3, <2>2, <3>4 DEF b
    <2> QED BY <2>3, <2>4
  <1>4. CASE fst = "F_FILL" /\ pe = "byte" /\ cache_mem'[w][k] = ByteOf
    <2>1. ByteOf \in Bytes /\ ByteOf.lba < LbaSpace /\ ByteOf.ver = ver[ByteOf.lba]
      BY <1>4, EventFacts, ByteOfType
    <2>2. ByteOf.lba \in 0 .. LbaSpace - 1
      BY <2>1, ByteFacts
    <2> QED BY <1>2, <1>4, <2>1, <2>2
  <1>5. \/ k \in 0 .. way_bytes[w] - 1 /\ cache_mem'[w][k] = cache_mem[w][k]
        \/ /\ fst = "F_FILL" /\ pe = "byte" /\ w = f_way /\ ~prov.wr
           /\ cache_mem'[w][k] = ByteOf
           /\ ByteOf.lba = way_base[w] + k \div BlkBytes
    BY ByteStep
  <1> QED BY <1>3, <1>4, <1>5

\* A byte the master sees while its request is good is no older than the request.
LEMMA SeenFresh ==
  ASSUME TypeOK, Freshness, NEW go \in Issuable \cup {None}, NEW rdy \in BOOLEAN,
         NEW pe \in Events(rdy), Edge(go, rdy, pe), ~stale,
         rq # "R_PASS" /\ rd_valid_r => Fresh(serve_q)
  PROVE  ~stale'
  <1> SUFFICES ASSUME rq # "R_IDLE" \/ done_r, Seen(pe) # None PROVE ~Older(Seen(pe))
    BY MasterAfter
  <1>1. CASE rq = "R_PASS"
    <2>1. pe = "byte" /\ Seen(pe) = ByteOf
      BY <1>1, SeenFacts
    <2>2. ByteOf \in Bytes /\ ByteOf.lba < LbaSpace /\ ByteOf.ver = ver[ByteOf.lba]
      BY <2>1, EventFacts, ByteOfType
    <2>3. ByteOf # NoByte
      BY <2>2, ByteFacts
    <2> DEFINE l == ByteOf.lba
    <2>4. l \in 0 .. LbaSpace - 1
      BY <2>2, ByteFacts
    <2>5. floor[l] <= ver[l]
      BY <2>4 DEF Freshness
    <2>6. floor[l] \in Nat /\ ver[l] \in Nat
      BY <2>4 DEF TypeOK
    <2>7. ~(ByteOf.ver < floor[l])
      BY <2>2, <2>5, <2>6, NotBelow
    <2> QED BY <2>1, <2>3, <2>7 DEF Older
  <1>2. CASE rq # "R_PASS"
    <2>1. Seen(pe) = serve_q /\ Fresh(serve_q) /\ serve_q \in Bytes
      BY <1>2, SeenFacts DEF TypeOK
    <2> DEFINE l == serve_q.lba
    <2>2. l \in 0 .. LbaSpace - 1 /\ serve_q.ver \in Nat
      BY <2>1, ByteFacts DEF Fresh
    <2>3. serve_q # NoByte
      BY <2>1, ByteFacts DEF Fresh
    <2>4. floor[l] \in Nat
      BY <2>2 DEF TypeOK
    <2>5. ~(serve_q.ver < floor[l])
      BY <2>1, <2>2, <2>4, SMTT(60) DEF Fresh
    <2> QED BY <2>1, <2>3, <2>5 DEF Older
  <1> QED BY <1>1, <1>2

\* What the tags answer for stays recent.
LEMMA ClaimedRecent ==
  ASSUME Inv, Inv', Freshness, NEW go \in Issuable \cup {None}, NEW rdy \in BOOLEAN,
         NEW pe \in Events(rdy), Edge(go, rdy, pe), NEW w \in Way, Claimed(w)'
  PROVE  Recent(w)' \/ (cache_kill' /\ ~busy')
  <1>0. TypeOK /\ Control /\ Places /\ ValidMeansCurrent /\ Counts
    BY DEF Inv
  <1>1. Live(w)'
    BY DEF Claimed, Live
  <1>2. CASE busy \/ go # None
    <2>1. ~(fill_start(go) /\ w = lru) => Claimed(w) /\ ~cache_kill
      BY <1>0, ClaimedStep
    <2>2. Claimed(w) /\ ~cache_kill => HoldsRun(w)
      BY <1>0 DEF ValidMeansCurrent, Claimed
    <2>3. Claimed(w) /\ ~cache_kill => Recent(w)
      BY DEF Freshness
    <2> QED BY <1>0, <1>1, <1>2, <2>1, <2>2, <2>3, RecentStep
  <1>3. CASE ~busy /\ go = None
    <2>1. rq' = "R_IDLE" /\ ~done_r'
      BY <1>0, <1>3, EndFacts, ServeAfter DEF busy
    <2>2. ~busy'
      BY <2>1 DEF busy
    <2>3. ASSUME ~cache_kill' PROVE Recent(w)'
      <3>1. HoldsRun(w)'
        BY <2>3 DEF Inv, ValidMeansCurrent, Claimed
      <3>2. floor' = ver'
        BY <1>0, <1>3, MasterAfter DEF busy
      <3> SUFFICES ASSUME NEW k \in 0 .. way_bytes'[w] - 1
                   PROVE  cache_mem'[w][k].ver >= floor'[cache_mem'[w][k].lba]
        BY DEF Recent
      <3> DEFINE l == way_base'[w] + k \div BlkBytes
      <3>3. cache_mem'[w][k] = [lba |-> l, ver |-> ver'[l]]
        BY <3>1 DEF HoldsRun
      <3> DEFINE c == cache_mem'[w][k]
                 v == ver'[l]
      <3>4. c.lba = l /\ c.ver = v
        <4>1. c = [lba |-> l, ver |-> v]
          BY <3>3
        <4> HIDE DEF c, l, v
        <4> QED BY <4>1, ByteFields
      <3>5. cache_mem'[w][k] \in Bytes
        <4>1. TypeOK' /\ k \in 0 .. WAY_BYTES - 1
          BY <1>0, <1>1, ByteStep, TickType
        <4>2. cache_mem' \in [Way -> [0 .. WAY_BYTES - 1 -> Bytes]]
          BY <4>1 DEF TypeOK
        <4>3. cache_mem'[w] \in [0 .. WAY_BYTES - 1 -> Bytes]
          BY <4>2
        <4> QED BY <4>1, <4>3
      <3>6. cache_mem'[w][k].ver \in Nat
        BY <3>5 DEF Bytes
      <3> HIDE DEF l
      <3> QED BY <3>2, <3>4, <3>6, SMTT(60)
    <2> QED BY <2>2, <2>3
  <1> QED BY <1>2, <1>3

\* A serve begins out of a recent way, or meets an inval that has just risen.
LEMMA StartRecent ==
  ASSUME Inv, Freshness, NEW go \in Issuable \cup {None}, NEW rdy \in BOOLEAN,
         NEW pe \in Events(rdy), Edge(go, rdy, pe), serve_start(go)
  PROVE  inval' = 2 \/ Recent(serve_way)'
  <1>0. TypeOK /\ Control /\ Places /\ ValidMeansCurrent
    BY DEF Inv
  <1>1. rq' = "R_SERVE" /\ serve_way' \in Way
    <2>1. TypeOK'
      BY <1>0, TickType
    <2>2. serve_way' \in Way
      BY <2>1 DEF TypeOK
    <2> QED BY <1>0, <2>2, RequestAfter
  <1> DEFINE w == serve_way'
  <1>2. Live(serve_way)'
    BY <1>1 DEF Live
  <1>3. busy \/ go # None
    BY <1>0, ServeStartFacts DEF busy
  <1>4. CASE fill_start(go)
    <2>1. w = lru
      BY <1>0, <1>4, ServeAfter DEF fill_start
    <2>2. way_bytes'[lru] = 0
      BY <1>0, <1>1, <1>2, <1>4, <2>1, WayAfter
    <2> QED BY <2>1, <2>2, SMTT(60) DEF Recent
  <1>5. CASE ~fill_start(go)
    <2> DEFINE x == Deciding(go)
               h == hit_way(x)
    <2>1. hit_any(x, go)
      BY <1>5 DEF fill_start
    <2>2. w = h /\ h \in Way /\ (way_valid[h] \/ (h = f_way /\ hit_fly(x, go)))
      BY <1>0, <2>1, ServeAfter, HitWayFacts
    <2>3. Claimed(h) /\ (way_valid[h] \/ ~cache_kill)
      BY <2>2 DEF Claimed, hit_fly
    <2>4. CASE busy
      <3>1. Recent(h)
        BY <2>2, <2>3, <2>4 DEF Freshness
      <3> QED BY <1>0, <1>1, <1>2, <1>3, <1>5, <2>2, <2>4, <3>1, RecentStep
    <2>5. CASE ~busy /\ ~cache_kill
      <3>1. HoldsRun(h)
        BY <1>0, <2>2, <2>3, <2>5 DEF ValidMeansCurrent, Claimed
      <3> QED BY <1>0, <1>1, <1>2, <1>3, <1>5, <2>2, <2>5, <3>1, RecentStep
    <2>6. CASE ~busy /\ cache_kill
      <3>1. ~medium_changed
        BY <1>0, <1>3, <2>6, GoFacts DEF Freshness
      <3>2. inval # 0
        BY <2>6, <3>1 DEF cache_kill
      <3>3. inval # 2
        BY <1>0, <2>2, <2>3, <2>6 DEF Control
      <3>4. inval = 1
        <4>1. inval \in 0 .. 2
          BY <1>0 DEF TypeOK
        <4> QED BY <3>2, <3>3, <4>1, SMTT(60)
      <3>5. inval = 1 => inval' = 2
        BY <1>0, MediumFacts DEF Edge, FillEdge
      <3> QED BY <3>4, <3>5
    <2> QED BY <2>4, <2>5, <2>6
  <1> QED BY <1>4, <1>5

\* A clock edge keeps what the tags and the serve know of freshness.
LEMMA FreshStep ==
  ASSUME Inv, Freshness, NEW go \in Issuable \cup {None}, NEW rdy \in BOOLEAN,
         NEW pe \in Events(rdy), Edge(go, rdy, pe)
  PROVE  Freshness'
  <1>0. TypeOK /\ Control /\ Places /\ Counts
    BY DEF Inv
  <1>1. Inv' /\ TypeOK'
    BY <1>0, InvTick, TickType
  <1>2. ~scn'.eager
    BY DEF Freshness, Edge
  <1>3. rq = "R_IDLE" /\ ~done_r => ~stale'
    BY <1>0, MasterAfter
  <1>4. rq \in {"R_WAIT", "R_PASSGO", "R_PASS"} => ~stale'
    BY <1>0, SeenFresh DEF Freshness, Counts
  \* A serve that goes on, or takes its last byte.
  <1>5. ASSUME rq = "R_SERVE", ~cache_kill
        PROVE  ~stale' /\ (rd_valid_r' => Fresh(serve_q)') /\ Recent(serve_way)
    <2>1. inval # 2
      BY <1>5, SMTT(60) DEF cache_kill
    <2>2. ~stale /\ (rd_valid_r => Fresh(serve_q)) /\ Recent(serve_way)
      BY <1>5, <2>1 DEF Freshness
    <2>3. ~stale'
      BY <1>0, <2>2, SeenFresh
    <2>4. ASSUME rd_valid_r' PROVE Fresh(serve_q)'
      <3>1. serve_re(rdy) /\ serve_q' = cache_mem[serve_way][serve_off]
            /\ serve_off < way_bytes[serve_way]
        BY <1>0, <2>4, ServeAfter, EndFacts
      <3>2. serve_off \in 0 .. way_bytes[serve_way] - 1
        <4>1. serve_off \in Nat /\ way_bytes[serve_way] \in 0 .. WAY_BYTES
          BY <1>0 DEF TypeOK
        <4> QED BY <3>1, <4>1, WayBytesNat, SMTT(60)
      <3>3. serve_q'.ver >= floor[serve_q'.lba]
        BY <2>2, <3>1, <3>2 DEF Recent
      <3>4. serve_q'.lba < LbaSpace
        BY <1>0, <2>4, ByteServed
      <3>5. floor' = floor
        BY <1>0, <1>5, MasterAfter
      <3> QED BY <3>3, <3>4, <3>5 DEF Fresh
    <2> QED BY <2>2, <2>3, <2>4
  <1>6. rq' \in {"R_WAIT", "R_PASSGO", "R_PASS"} => ~stale'
    BY <1>0, <1>3, <1>4, RequestAfter, GoFacts
  <1>7. rq' = "R_SERVE" => \/ inval' = 2
                           \/ /\ ~stale' /\ (rd_valid_r' => Fresh(serve_q)')
                              /\ Recent(serve_way)'
    <2> SUFFICES ASSUME rq' = "R_SERVE"
                 PROVE  \/ inval' = 2
                        \/ ~stale' /\ (rd_valid_r' => Fresh(serve_q)') /\ Recent(serve_way)'
      OBVIOUS
    <2>1. CASE serve_start(go)
      <3>1. rq \in {"R_IDLE", "R_WAIT"} /\ (rq = "R_IDLE" => go # None)
        BY <1>0, <2>1, ServeStartFacts
      <3>2. ~stale'
        BY <1>0, <1>3, <1>4, <3>1, GoFacts
      <3>3. ~rd_valid_r'
        BY <1>0, <3>1, ServeAfter, EndFacts
      <3> QED BY <2>1, <3>2, <3>3, StartRecent
    <2>2. CASE ~serve_start(go)
      <3>1. rq = "R_SERVE" /\ ~cache_kill /\ ~fill_start(go) /\ busy
        BY <1>0, <2>2, RequestAfter DEF fill_start, busy
      <3>2. serve_way' = serve_way /\ serve_way \in Way
        BY <1>0, <2>2, ServeAfter DEF TypeOK
      <3>3. Live(serve_way)'
        BY DEF Live
      <3>4. Recent(serve_way)'
        BY <1>0, <1>5, <3>1, <3>2, <3>3, RecentStep
      <3> QED BY <1>5, <3>1, <3>4
    <2> QED BY <2>1, <2>2
  <1>8. rq' = "R_FIN" => ~stale' /\ Fresh(serve_q)'
    <2> SUFFICES ASSUME rq' = "R_FIN" PROVE ~stale' /\ Fresh(serve_q)'
      OBVIOUS
    <2>1. rq = "R_SERVE" /\ ~cache_kill /\ serve_re(rdy)
      BY <1>0, RequestAfter DEF last_taken
    <2>2. rd_valid_r'
      BY <1>0, <2>1, ServeAfter
    <2> QED BY <1>5, <2>1, <2>2
  <1>9. rq' = "R_IDLE" /\ done_r' /\ ~err_r' => ~stale'
    <2> SUFFICES ASSUME done_r', ~err_r' PROVE ~stale'
      OBVIOUS
    <2>1. rq = "R_FIN"
      BY <1>0, ServeAfter DEF Counts
    <2> QED BY <1>0, <2>1, SeenFresh DEF Freshness
  <1>10. ServedFresh'
    <2> SUFFICES ASSUME fin' = "done" PROVE ~stale'
      BY DEF ServedFresh
    <2>1. None # "done"
      BY ReadaheadAssumption
    <2>2. CASE rq = "R_PASS"
      BY <1>4, <2>2
    <2>3. CASE rq # "R_PASS"
      <3>1. done_r /\ ~err_r
        BY <1>0, <2>1, <2>3, MasterAfter
      <3>2. rq = "R_IDLE" /\ ~rd_valid_r
        BY <1>0, <3>1 DEF Counts
      <3>3. ~stale
        BY <3>1, <3>2 DEF Freshness
      <3> QED BY <1>0, <3>2, <3>3, SeenFresh
    <2> QED BY <2>2, <2>3
  <1>11. \A l \in 0 .. LbaSpace - 1 : floor'[l] <= ver'[l]
    BY <1>0, FloorStep
  <1>12. \A w \in Way : Claimed(w)' => Recent(w)' \/ (cache_kill' /\ ~busy')
    BY <1>1, ClaimedRecent
  <1> QED BY <1>2, <1>6, <1>7, <1>8, <1>9, <1>10, <1>11, <1>12 DEF Freshness

\* Nothing is cached when the system comes up.
LEMMA FreshInit ==
  ASSUME \A s \in Scenarios : ~s.eager, Init
  PROVE  Freshness
  <1>1. TypeOK
    BY InitType
  <1>2. ~scn.eager
    BY DEF Init
  <1> DEFINE D == 0 .. LbaSpace - 1
  <1>3. floor = ver /\ ver \in [D -> Nat]
    BY <1>1 DEF Init, TypeOK
  <1> HIDE DEF D
  <1>4. \A l \in D : floor[l] <= ver[l]
    BY <1>3, SMTT(60)
  <1>5. \A w \in Way : ~Claimed(w)
    BY DEF Init, Claimed, fill_active
  <1>6. rq = "R_IDLE" /\ ~stale
    BY DEF Init
  <1> QED BY <1>2, <1>4, <1>5, <1>6 DEF Freshness, ServedFresh, D

\* Nothing is cached after a reset.
LEMMA FreshReset ==
  ASSUME Inv, Freshness, Reset
  PROVE  Freshness'
  <1>1. TypeOK'
    BY ResetType DEF Inv
  <1>2. ~scn'.eager
    BY DEF Freshness, Reset
  <1> DEFINE D == 0 .. LbaSpace - 1
  <1>3. floor' = ver' /\ ver' \in [D -> Nat]
    BY <1>1 DEF Reset, TypeOK
  <1> HIDE DEF D
  <1>4. \A l \in D : floor'[l] <= ver'[l]
    BY <1>3, SMTT(60)
  <1>5. \A w \in Way : ~Claimed(w)'
    BY DEF Reset, Claimed, fill_active
  <1>6. rq' = "R_IDLE" /\ ~stale'
    BY DEF Reset
  <1> QED BY <1>2, <1>4, <1>5, <1>6 DEF Freshness, ServedFresh, D

\* Every step keeps it.
LEMMA FreshNext ==
  ASSUME Inv, Freshness, [Next]_vars
  PROVE  Freshness'
  <1>1. CASE Tick
    <2>1. PICK go \in Issuable \cup {None}, rdy \in BOOLEAN :
            \E pe \in Events(rdy) : Edge(go, rdy, pe)
      BY <1>1, TickEdge
    <2>2. PICK pe \in Events(rdy) : Edge(go, rdy, pe)
      BY <2>1
    <2> QED BY <2>2, FreshStep
  <1>2. CASE Reset
    BY <1>2, FreshReset
  <1>3. CASE UNCHANGED vars
    BY <1>3 DEF Freshness, vars, fillVars, reqVars, envVars, Claimed, Recent, Fresh,
         ServedFresh, fill_active, cache_kill, medium_changed, busy
  <1> QED BY <1>1, <1>2, <1>3 DEF Next

\* A read that ends without error has handed over no byte older than its block
\* was when the master asked, provided the master does not ask on the one cycle
\* on which a swap is not seen yet (Scenarios without eager): no overlap of a
\* fill, a write, inval, a swap and a reset serves a voided copy as good.
THEOREM GoodReadsAreFresh == (\A s \in Scenarios : ~s.eager) => (Spec => []ServedFresh)
  <1> SUFFICES ASSUME \A s \in Scenarios : ~s.eager PROVE Spec => []ServedFresh
    OBVIOUS
  <1>1. Init => Freshness
    BY FreshInit
  <1>2. Inv /\ Freshness /\ [Next]_vars => Freshness'
    BY FreshNext
  <1>3. Freshness => ServedFresh
    BY DEF Freshness
  <1> QED BY <1>1, <1>2, <1>3, Invariant, PTL DEF Spec

=============================================================================
