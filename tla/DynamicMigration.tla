-------------------------- MODULE DynamicMigration --------------------------
(***************************************************************************)
(* The Dynamic_migration translator (translation/impl/Dynamic_migration.cpp)*)
(* : the VPN->PPN page table, its reverse table, the VPN->channel map, the *)
(* per-channel free-page bitmaps and counts, the per-(page,core) access    *)
(* histogram, and the migration pass that runs every WindowSize           *)
(* translations.                                                           *)
(*                                                                         *)
(* Every translate() call is one step, except the one that trips the      *)
(* window: its migrate_pages() loop runs one step per page-table entry     *)
(* it visits (pc = "migrate"), in an order the model leaves open, as the  *)
(* iteration order of std::unordered_map is unspecified; the pass ends,    *)
(* and the tripping request is looked up, in EndPass.  Nothing else runs  *)
(* meanwhile: the simulator is single-threaded.                            *)
(*                                                                         *)
(* Data abstraction.  A request is its (VPN, core) pair; the page offset   *)
(* and the address arithmetic are left out (they do not touch the state).  *)
(* A missing map entry is the value None.  window_counter and             *)
(* last_migration_window enter the code only through their difference in  *)
(* the cooldown test, so the model keeps, per VPN, that difference         *)
(* saturated at CooldownWindows (variable cooldown).  The random draws of *)
(* m_allocator_rng are nondeterministic choices over the partition.        *)
(***************************************************************************)
EXTENDS Integers, FiniteSets, FiniteSetsExt, CoreChannelLatency

CONSTANTS
  VPNs,             \* the virtual page numbers requests may carry
  Cores,            \* the source ids requests may carry
  PagesPerChannel,  \* pages_per_channel = (max_addr / pagesize) / 8
  HotThreshold,     \* HOT_PAGE_THRESHOLD  (hot_page_threshold)
  WindowSize,       \* STABILITY_WINDOW    (window_size)
  CooldownWindows,  \* COOLDOWN_WINDOWS    (cooldown_windows)
  PageSizeKB,       \* pagesize_KB
  BandwidthGBps     \* bandwidth_GBps, an integer number of GB/s here

\* VPN 0 is the key operator[] of reverse_page_table yields for a missing
\* entry, so it is always a possible page-table key.
ASSUME VPNsAssumption == VPNs \subseteq Nat /\ 0 \in VPNs /\ IsFiniteSet(VPNs)

\* source_id indexes the 8x8 latency matrix.
ASSUME CoresAssumption == Cores \subseteq CoreIds /\ Cores # {}

\* pages_per_channel is a divisor of the rng draw: zero would divide by 0.
ASSUME PagesAssumption == PagesPerChannel \in Nat \ {0}

\* A window size of 0 is never reached by ++migration_counter.
ASSUME WindowAssumption == WindowSize \in Nat \ {0}

ASSUME ParamAssumption ==
  /\ HotThreshold \in Nat
  /\ CooldownWindows \in Nat
  /\ PageSizeKB \in Nat \ {0}
  /\ BandwidthGBps \in Nat \ {0}

None == -1

PPNs == 0 .. NumChannels * PagesPerChannel - 1

\* The PPNs of channel ch: (rng() % pages_per_channel) + ch * pages_per_channel.
Partition(ch) == {ch * PagesPerChannel + off : off \in 0 .. PagesPerChannel - 1}

\* FUTURE_ACCESS_FACTOR (utils.h).
FutureAccessFactor == 1

\* m_cost = calculate_migration_cost(m_pagesize, bandwidth), stored in a
\* size_t: (pagesize_KB * 1024 bytes) * 1024 / (bw * 2^30) seconds, times
\* 10^6, truncated.  Both sides reduced by 2^20 to stay in TLC's integers.
MigrationCost == (PageSizeKB * 1000000) \div (BandwidthGBps * 1024)

VARIABLES
  fwd,        \* global_page_table        VPN -> PPN
  rev,        \* reverse_page_table       PPN -> VPN
  chmap,      \* page_to_channel_mapping  VPN -> channel
  free,       \* m_free_physical_pages2d, indexed by PPN
  freeCount,  \* m_num_free_physical_pages_per_part
  hist,       \* page_access_counts_per_core  VPN -> core -> count
  migCounter, \* migration_counter: translations in the current window
  cooldown,   \* min(CooldownWindows, window_counter - last_migration_window[v])
  pc,         \* "idle", or "migrate" while migrate_pages() iterates
  todo,       \* the page-table entries the pass has still to visit
  pending     \* the request whose translate() call runs the pass

vars == <<fwd, rev, chmap, free, freeCount, hist, migCounter, cooldown,
          pc, todo, pending>>

allocVars == <<fwd, rev, chmap, free, freeCount>>

NoRequest == [vpn |-> None, core |-> None]

TypeOK ==
  /\ fwd \in [VPNs -> PPNs \cup {None}]
  /\ rev \in [PPNs -> VPNs \cup {None}]
  /\ chmap \in [VPNs -> Channels \cup {None}]
  /\ free \in [PPNs -> BOOLEAN]
  /\ freeCount \in [Channels -> 0 .. PagesPerChannel]
  /\ hist \in [VPNs -> [Cores -> Nat]]
  /\ migCounter \in 0 .. WindowSize - 1
  /\ cooldown \in [VPNs -> (0 .. CooldownWindows) \cup {None}]
  /\ pc \in {"idle", "migrate"}
  /\ todo \subseteq VPNs
  /\ pending \in [vpn : VPNs, core : Cores] \cup {NoRequest}

-----------------------------------------------------------------------------
(* Page allocation, shared by translate() and migrate_pages().             *)

\* The VPN evict_and_replace_page erases: reverse_page_table[victim], where
\* operator[] inserts and returns 0 when the victim has no reverse entry.
EvictedVPN(victim) ==
  IF victim = None THEN None
  ELSE IF rev[victim] = None THEN 0 ELSE rev[victim]

\* Allocating page p on channel ch, after evicting victim (None: no
\* eviction).  With free pages the probe loop stops at a free page; with
\* none, evict_and_replace_page draws a victim, frees it, and
\* find_random_free_page probes again.
\* Mutant: evict_and_replace_page called while the count is still 1.
CanAllocateEvictEarly(ch, victim, p) ==
  /\ p \in Partition(ch)
  /\ \/ victim = None /\ freeCount[ch] > 0 /\ free[p]
     \/ victim \in Partition(ch) /\ freeCount[ch] <= 1
        /\ (free[p] \/ p = victim)

CanAllocate(ch, victim, p) ==
  /\ p \in Partition(ch)
  /\ \/ victim = None /\ freeCount[ch] > 0 /\ free[p]
     \/ victim \in Partition(ch) /\ freeCount[ch] = 0
        /\ (free[p] \/ p = victim)

\* Mutant: the victim is marked free after the probe took a page.
FreeAfterSwapped(victim, p) ==
  IF victim = None THEN [free EXCEPT ![p] = FALSE]
  ELSE [[free EXCEPT ![p] = FALSE] EXCEPT ![victim] = TRUE]

FreeAfter(victim, p) ==
  IF victim = None THEN [free EXCEPT ![p] = FALSE]
  ELSE [[free EXCEPT ![victim] = TRUE] EXCEPT ![p] = FALSE]

\* Mutant: evict_and_replace_page without its ++ of the free count.
FreeCountAfterNoInc(ch, victim) == [freeCount EXCEPT ![ch] = @ - 1]

\* Eviction increments the count and the probe decrements it again.
FreeCountAfter(ch, victim) ==
  IF victim = None THEN [freeCount EXCEPT ![ch] = @ - 1] ELSE freeCount

\* The three erase() calls of evict_and_replace_page.
FwdAfterEvict(victim) ==
  IF victim = None THEN fwd ELSE [fwd EXCEPT ![EvictedVPN(victim)] = None]

RevAfterEvict(victim) ==
  IF victim = None THEN rev ELSE [rev EXCEPT ![victim] = None]

\* Mutant: page_to_channel_mapping.erase(victim_vpn) left out.
ChmapAfterEvictKeep(victim) == chmap

ChmapAfterEvict(victim) ==
  IF victim = None THEN chmap ELSE [chmap EXCEPT ![EvictedVPN(victim)] = None]

\* The lookup half of translate(): an existing mapping is returned; a new
\* VPN gets a page on the best channel of the requesting core, and all
\* three tables are set.
Resolve(v, c) ==
  \/ /\ fwd[v] # None
     /\ UNCHANGED allocVars
  \/ /\ fwd[v] = None
     /\ LET ch == BestChannel(c) IN
        \E victim \in Partition(ch) \cup {None}, p \in Partition(ch) :
           /\ CanAllocate(ch, victim, p)
           /\ free' = FreeAfter(victim, p)
           /\ freeCount' = FreeCountAfter(ch, victim)
           /\ fwd' = [FwdAfterEvict(victim) EXCEPT ![v] = p]
           /\ rev' = [RevAfterEvict(victim) EXCEPT ![p] = v]
           /\ chmap' = [ChmapAfterEvict(victim) EXCEPT ![v] = ch]

-----------------------------------------------------------------------------
(* The migration policy of migrate_pages().                                *)

\* is_hot_page: the window's accesses of v by all cores.
Hot(v) == MapThenSumSet(LAMBDA c : hist[v][c], Cores) >= HotThreshold

\* find_most_frequent_core: the scan keeps a core with a strictly larger
\* count, starting from core 0 with count 0, over an unordered_map, so any
\* core of maximal count can come out; core 0 when v has no access.
MostFrequentCores(v) ==
  IF \A c \in Cores : hist[v][c] = 0 THEN {0}
  ELSE {c \in Cores : hist[v][c] > 0 /\ \A d \in Cores : hist[v][d] <= hist[v][c]}

\* estimate_latency_gain(v, core) / 1000 > m_cost, scaled by 1000.
Beneficial(v, core, best) ==
  LET count == IF core \in Cores THEN hist[v][core] ELSE 0
      gain  == (Latency(core, chmap[v]) - Latency(core, best))
                 * 2 * count * FutureAccessFactor
  IN  gain > 1000 * MigrationCost

CoolingDown(v) == cooldown[v] # None /\ cooldown[v] < CooldownWindows

\* All the tests of the loop body that lead to `continue`.
Skipped(v, core) ==
  \/ ~Hot(v)
  \/ v = 0
  \/ BestChannel(core) = chmap[v]
  \/ CoolingDown(v)
  \/ ~Beneficial(v, core, BestChannel(core))

-----------------------------------------------------------------------------
(* Actions.                                                                 *)

Init ==
  /\ fwd = [v \in VPNs |-> None]
  /\ rev = [p \in PPNs |-> None]
  /\ chmap = [v \in VPNs |-> None]
  /\ free = [p \in PPNs |-> TRUE]
  /\ freeCount = [ch \in Channels |-> PagesPerChannel]
  /\ hist = [v \in VPNs |-> [c \in Cores |-> 0]]
  /\ migCounter = 0
  /\ cooldown = [v \in VPNs |-> None]
  /\ pc = "idle"
  /\ todo = {}
  /\ pending = NoRequest

\* translate(req) for a request that does not close the window.
Translate(v, c) ==
  /\ pc = "idle"
  /\ migCounter + 1 # WindowSize
  /\ hist' = [hist EXCEPT ![v][c] = @ + 1]
  /\ migCounter' = migCounter + 1
  /\ Resolve(v, c)
  /\ UNCHANGED <<cooldown, pc, todo, pending>>

\* Mutant: migration_counter not reset after migrate_pages().
StartPassNoReset(v, c) ==
  /\ pc = "idle"
  /\ migCounter + 1 = WindowSize
  /\ hist' = [hist EXCEPT ![v][c] = @ + 1]
  /\ migCounter' = migCounter + 1
  /\ pc' = "migrate"
  /\ todo' = {u \in VPNs : fwd[u] # None}
  /\ pending' = [vpn |-> v, core |-> c]
  /\ UNCHANGED <<allocVars, cooldown>>

\* translate(req) for the request that closes the window: migrate_pages()
\* starts, iterating over every entry of global_page_table.
StartPass(v, c) ==
  /\ pc = "idle"
  /\ migCounter + 1 = WindowSize
  /\ hist' = [hist EXCEPT ![v][c] = @ + 1]
  /\ migCounter' = 0
  /\ pc' = "migrate"
  /\ todo' = {u \in VPNs : fwd[u] # None}
  /\ pending' = [vpn |-> v, core |-> c]
  /\ UNCHANGED <<allocVars, cooldown>>

\* One iteration of the loop that ends in `continue`.
VisitSkip(v, core) ==
  /\ pc = "migrate"
  /\ v \in todo
  /\ core \in MostFrequentCores(v)
  /\ Skipped(v, core)
  /\ todo' = todo \ {v}
  /\ UNCHANGED <<allocVars, hist, migCounter, cooldown, pc, pending>>

\* One iteration that migrates v: find_random_free_page on the best
\* channel (evicting when it is full), then global_page_table[vpn] and
\* page_to_channel_mapping[vpn] are set; reverse_page_table is not, and the
\* old page is not freed.  An entry erased by the eviction is not visited.
VisitMigrate(v, core) ==
  /\ pc = "migrate"
  /\ v \in todo
  /\ core \in MostFrequentCores(v)
  /\ ~Skipped(v, core)
  /\ LET best == BestChannel(core) IN
     \E victim \in Partition(best) \cup {None}, p \in Partition(best) :
        /\ CanAllocate(best, victim, p)
        /\ free' = FreeAfter(victim, p)
        /\ freeCount' = FreeCountAfter(best, victim)
        /\ fwd' = [FwdAfterEvict(victim) EXCEPT ![v] = p]
        /\ rev' = RevAfterEvict(victim)
        /\ chmap' = [ChmapAfterEvict(victim) EXCEPT ![v] = best]
        /\ todo' = todo \ {v, EvictedVPN(victim)}
  /\ cooldown' = [cooldown EXCEPT ![v] = 0]
  /\ UNCHANGED <<hist, migCounter, pc, pending>>

\* The loop is done: window_counter++, reset_all_page_access_counts(),
\* then translate() goes on with the lookup of the pending request.
EndPass ==
  /\ pc = "migrate"
  /\ todo = {}
  /\ cooldown' = [u \in VPNs |->
                    IF cooldown[u] = None THEN None
                    ELSE IF cooldown[u] < CooldownWindows THEN cooldown[u] + 1
                    ELSE CooldownWindows]
  /\ hist' = [u \in VPNs |-> [c \in Cores |-> 0]]
  /\ Resolve(pending.vpn, pending.core)
  /\ pc' = "idle"
  /\ pending' = NoRequest
  /\ UNCHANGED <<migCounter, todo>>

Next ==
  \/ \E v \in VPNs, c \in Cores : Translate(v, c) \/ StartPass(v, c)
  \/ \E v \in VPNs, core \in CoreIds : VisitSkip(v, core) \/ VisitMigrate(v, core)
  \/ EndPass

Spec == Init /\ [][Next]_vars

-----------------------------------------------------------------------------
(* Properties.                                                              *)

\* Each channel's free count equals the number of free bits of its bitmap.
\* The probe loops of translate() and find_random_free_page only stop when
\* a free bit exists, so a count above the bitmap would hang them, and an
\* eviction that frees an already free page would make them disagree.
FreeCountAgrees ==
  \A ch \in Channels :
     freeCount[ch] = Cardinality({p \in Partition(ch) : free[p]})

\* A page a VPN is mapped to, or that has a reverse entry, is marked in use,
\* so the allocator can never hand it out again while it is mapped.
MappedPagesInUse ==
  /\ \A v \in VPNs : fwd[v] # None => ~free[fwd[v]]
  /\ \A p \in PPNs : rev[p] # None => ~free[p]

\* A page in use is never marked free again.  evict_and_replace_page frees
\* its victim only in a full partition, where the probe of
\* find_random_free_page can find no other free page and takes the victim
\* back at once; a migration never frees the old page.  So the pool of
\* free pages only shrinks, and a page leaked by a migration stays leaked.
NoPageReturnedToPool ==
  [][\A q \in PPNs : free'[q] => free[q]]_vars

\* The translator's allocator, seen through its bitmaps and its page table,
\* as the pool of FreePagePool: the free pages are the set bits, the
\* mapped keys the VPNs of global_page_table.
Pool == INSTANCE FreePagePool WITH Keys <- VPNs, Chans <- Channels,
          Pages <- PPNs, Part <- Partition,
          freePages <- {q \in PPNs : free[q]},
          mapped <- {u \in VPNs : fwd[u] # None}

\* find_random_free_page and evict_and_replace_page implement the
\* allocator of spec section 4.3: each translate() or migration either
\* takes one free page of the chosen channel, or, only when that channel
\* has no free page left, evicts one VPN and reuses the victim.  The test
\* is on the count m_num_free_physical_pages_per_part, the promise on the
\* bitmap, so an eviction while a page is still free breaks it.
AllocatorRefinesPool == Pool!Spec

\* page_to_channel_mapping has an entry exactly for the mapped VPNs, and it
\* is the channel whose partition holds the page (spec section 8), across
\* new mappings, evictions of other VPNs, and migrations.
ChannelMapConsistent ==
  \A v \in VPNs :
     /\ (fwd[v] = None <=> chmap[v] = None)
     /\ fwd[v] # None => chmap[v] = fwd[v] \div PagesPerChannel

\* The migration pass only visits entries still in the page table: an
\* entry erased by an eviction during the pass is not visited afterwards.
PassVisitsMapped == pc = "migrate" => \A v \in todo : fwd[v] # None

\* No two VPNs are mapped to one physical page.  The spec requires the
\* forward and reverse tables to be mutual inverses (section 8), which
\* implies this.
NoPhysicalAliasing ==
  \A v, w \in VPNs : v # w /\ fwd[v] # None => fwd[v] # fwd[w]

\* The spec's benefit test (section 4.4, steps 6 and 7): gain / 1000 >
\* page_size / (bandwidth * 2^30) * 10^6 microseconds.  Multiplied out,
\* gain * bandwidth > pagesize_KB * 10^9 / 2^20 = pagesize_KB * 1953125 / 2048.
SpecBeneficial(v, core, best) ==
  LET count == IF core \in Cores THEN hist[v][core] ELSE 0
      gain  == (Latency(core, chmap[v]) - Latency(core, best))
                 * 2 * count * FutureAccessFactor
  IN  gain * BandwidthGBps > (PageSizeKB * 1953125) \div 2048

\* The pass never skips, for lack of benefit, a hot page outside its
\* cooldown that the spec's cost model says to migrate (scenario 2 of
\* spec section 8: three accesses from core 3 to a page on channel 0).
SpecMigrationDecision ==
  [][\A v \in VPNs, core \in CoreIds :
       VisitSkip(v, core)
       => ~ /\ Hot(v) /\ v # 0 /\ ~CoolingDown(v)
            /\ BestChannel(core) # chmap[v]
            /\ SpecBeneficial(v, core, BestChannel(core))]_vars

\* Stability under cooldown (spec section 8): a VPN that migrated fewer
\* than CooldownWindows windows ago keeps its channel mapping.  The
\* pass honours last_migration_window, but evict_and_replace_page, run by
\* another VPN's allocation or migration, does not consult it.
CooldownStability ==
  [][\A v \in VPNs : CoolingDown(v) => chmap'[v] = chmap[v]]_vars

=============================================================================
