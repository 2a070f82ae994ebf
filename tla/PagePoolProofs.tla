--------------------------- MODULE PagePoolProofs ---------------------------
(***************************************************************************)
(* Proofs about the translator's page pool: the per-channel free counts   *)
(* m_num_free_physical_pages_per_part agree with the bitmaps              *)
(* m_free_physical_pages2d, every mapped page is in use, and no page in   *)
(* use is ever returned to the pool.                                       *)
(*                                                                         *)
(* The three facts need one another, so they are proved together as the  *)
(* inductive invariant PoolInv.  The argument: a channel's count is zero  *)
(* exactly when its bitmap has no free page (FreeCountAgrees), so the     *)
(* eviction branch of the allocator, taken on a zero count, can only      *)
(* probe the victim it has just freed; every allocation therefore marks   *)
(* one page in use and frees none, whether it evicted or not.              *)
(***************************************************************************)
EXTENDS DynamicMigrationProofs, FiniteSetTheorems

USE VPNsAssumption, CoresAssumption, PagesAssumption, WindowAssumption,
    ParamAssumption

\* FreeCountAgrees and MappedPagesInUse for given count, bitmap and tables.
FreeAgree(fc, fr) ==
  \A ch \in Channels : fc[ch] = Cardinality({q \in Partition(ch) : fr[q]})

InUse(f, r, fr) ==
  /\ \A v \in VPNs : f[v] # None => ~fr[f[v]]
  /\ \A q \in PPNs : r[q] # None => ~fr[q]

PoolInv ==
  /\ TypeInv
  /\ FreeCountAgrees
  /\ MappedPagesInUse

-----------------------------------------------------------------------------
(* The partitions.                                                          *)

\* A partition is the interval of its channel's pages, hence finite.
LEMMA PartitionFinite ==
  ASSUME NEW ch \in Channels
  PROVE  IsFiniteSet(Partition(ch))
<1>1. ch \in Nat
  BY DEF Channels, NumChannels
<1>2. Partition(ch) = ch * PagesPerChannel .. ch * PagesPerChannel + PagesPerChannel - 1
  <2>1. ASSUME NEW q \in ch * PagesPerChannel .. ch * PagesPerChannel + PagesPerChannel - 1
        PROVE  q \in Partition(ch)
    <3>1. q - ch * PagesPerChannel \in 0 .. PagesPerChannel - 1
      BY <1>1, <2>1
    <3>. QED
      BY <1>1, <3>1 DEF Partition
  <2>2. ASSUME NEW q \in Partition(ch)
        PROVE  q \in ch * PagesPerChannel .. ch * PagesPerChannel + PagesPerChannel - 1
    BY <1>1 DEF Partition
  <2>. QED
    BY <2>1, <2>2
<1>. QED
  BY <1>1, <1>2, FS_Interval

\* Distinct channels own disjoint partitions.
LEMMA PartitionDisjoint ==
  ASSUME NEW ch \in Channels, NEW c \in Channels, c # ch, NEW p \in Partition(ch)
  PROVE  p \notin Partition(c)
BY PartitionChannel

-----------------------------------------------------------------------------
(* One allocation.                                                          *)

\* A zero count means a partition with no free page.
LEMMA FullPartition ==
  ASSUME TypeOK, FreeCountAgrees, NEW ch \in Channels, freeCount[ch] = 0,
         NEW q \in Partition(ch)
  PROVE  ~free[q]
<1>. DEFINE S == {x \in Partition(ch) : free[x]}
<1>1. IsFiniteSet(S)
  BY PartitionFinite, FS_Subset
<1>2. Cardinality(S) = 0
  BY DEF FreeCountAgrees
<1>3. S = {}
  BY <1>1, <1>2, FS_EmptySet
<1>. QED
  BY <1>3

\* The allocator takes a free page when the count is positive, and the
\* victim itself when it evicts; either way it marks p in use and frees
\* no page.
LEMMA AllocTakes ==
  ASSUME TypeOK, FreeCountAgrees, NEW ch \in Channels,
         NEW victim \in Partition(ch) \cup {None}, NEW p \in Partition(ch),
         CanAllocate(ch, victim, p)
  PROVE  /\ FreeAfter(victim, p) = [free EXCEPT ![p] = FALSE]
         /\ victim = None => free[p]
         /\ victim # None => ~free[p]
<1>0. None \notin Partition(ch)
  BY DEF Partition, None, Channels
<1>1. p \in PPNs /\ Partition(ch) \subseteq PPNs
  BY PartitionType
<1>2. CASE victim = None
  BY <1>0, <1>2 DEF CanAllocate, FreeAfter
<1>3. CASE victim # None
  <2>1. victim \in Partition(ch) /\ freeCount[ch] = 0
    BY <1>3 DEF CanAllocate
  <2>2. ~free[p] /\ ~free[victim]
    BY <2>1, FullPartition
  <2>3. p = victim
    BY <1>3, <2>2 DEF CanAllocate
  <2>. QED
    BY <1>1, <1>3, <2>1, <2>2, <2>3 DEF FreeAfter, TypeOK
<1>. QED
  BY <1>2, <1>3

\* Taking page p out of the bitmap removes it from its channel's free set.
LEMMA TakeFreeSet ==
  ASSUME TypeOK, NEW c \in Channels, NEW p \in PPNs
  PROVE  {q \in Partition(c) : [free EXCEPT ![p] = FALSE][q]}
           = {q \in Partition(c) : free[q]} \ {p}
<1>1. Partition(c) \subseteq PPNs
  BY PartitionType
<1>. QED
  BY <1>1 DEF TypeOK

\* The counts still agree with the bitmaps after one allocation.
LEMMA AllocFreeAgree ==
  ASSUME TypeOK, FreeCountAgrees, NEW ch \in Channels,
         NEW victim \in Partition(ch) \cup {None}, NEW p \in Partition(ch),
         CanAllocate(ch, victim, p)
  PROVE  FreeAgree(FreeCountAfter(ch, victim), FreeAfter(victim, p))
<1> SUFFICES ASSUME NEW c \in Channels
             PROVE  FreeCountAfter(ch, victim)[c]
                      = Cardinality({q \in Partition(c) : FreeAfter(victim, p)[q]})
  BY DEF FreeAgree
<1>1. /\ FreeAfter(victim, p) = [free EXCEPT ![p] = FALSE]
      /\ victim = None => free[p]
      /\ victim # None => ~free[p]
  BY AllocTakes
<1>. DEFINE S == {q \in Partition(c) : free[q]}
<1>2. {q \in Partition(c) : FreeAfter(victim, p)[q]} = S \ {p}
  BY <1>1, TakeFreeSet, PartitionType
<1>3. freeCount[c] = Cardinality(S) /\ IsFiniteSet(S)
  BY PartitionFinite, FS_Subset DEF FreeCountAgrees
<1>4. CASE c # ch
  <2>1. p \notin S
    BY <1>4, PartitionDisjoint
  <2>2. FreeCountAfter(ch, victim)[c] = freeCount[c]
    BY <1>4 DEF FreeCountAfter, TypeOK
  <2>. QED
    BY <1>2, <1>3, <2>1, <2>2
<1>5. CASE c = ch /\ victim = None
  <2>1. p \in S
    BY <1>1, <1>5
  <2>2. Cardinality(S \ {p}) = Cardinality(S) - 1
    BY <1>3, <2>1, FS_RemoveElement
  <2>3. FreeCountAfter(ch, victim)[c] = freeCount[c] - 1
    BY <1>5 DEF FreeCountAfter, TypeOK
  <2>. QED
    BY <1>2, <1>3, <2>2, <2>3
<1>6. CASE c = ch /\ victim # None
  <2>1. p \notin S
    BY <1>1, <1>6
  <2>2. FreeCountAfter(ch, victim)[c] = freeCount[c]
    BY <1>6 DEF FreeCountAfter
  <2>. QED
    BY <1>2, <1>3, <2>1, <2>2
<1>. QED
  BY <1>4, <1>5, <1>6

\* After one allocation every page the tables name is in use, whether the
\* reverse entry of the new page is written (translate) or not (migration).
LEMMA AllocInUse ==
  ASSUME TypeOK, FreeCountAgrees, MappedPagesInUse, NEW ch \in Channels,
         NEW victim \in Partition(ch) \cup {None}, NEW p \in Partition(ch),
         CanAllocate(ch, victim, p), NEW v \in VPNs,
         NEW r, r = RevAfterEvict(victim) \/ r = [RevAfterEvict(victim) EXCEPT ![p] = v]
  PROVE  InUse([FwdAfterEvict(victim) EXCEPT ![v] = p], r, FreeAfter(victim, p))
<1>1. FreeAfter(victim, p) = [free EXCEPT ![p] = FALSE]
  BY AllocTakes
<1>2. /\ p \in PPNs
      /\ victim # None => EvictedVPN(victim) \in VPNs
      /\ FwdAfterEvict(victim) \in [VPNs -> PPNs \cup {None}]
      /\ RevAfterEvict(victim) \in [PPNs -> VPNs \cup {None}]
  BY AllocType
<1>3. ASSUME NEW u \in VPNs, [FwdAfterEvict(victim) EXCEPT ![v] = p][u] # None
      PROVE  ~FreeAfter(victim, p)[[FwdAfterEvict(victim) EXCEPT ![v] = p][u]]
  <2>1. CASE u = v
    BY <1>1, <1>2, <2>1 DEF TypeOK
  <2>2. CASE u # v
    <3>1. FwdAfterEvict(victim)[u] # None => FwdAfterEvict(victim)[u] = fwd[u]
      BY <1>2 DEF FwdAfterEvict, TypeOK
    <3>2. fwd[u] # None => ~free[fwd[u]]
      BY DEF MappedPagesInUse
    <3>. QED
      BY <1>1, <1>2, <1>3, <2>2, <3>1, <3>2 DEF TypeOK
  <2>. QED
    BY <2>1, <2>2
<1>4. ASSUME NEW q \in PPNs, r[q] # None
      PROVE  ~FreeAfter(victim, p)[q]
  <2>1. CASE q = p
    BY <1>1, <1>2, <2>1 DEF TypeOK
  <2>2. CASE q # p
    <3>1. r[q] = RevAfterEvict(victim)[q]
      BY <1>2, <2>2
    <3>2. RevAfterEvict(victim)[q] # None => rev[q] # None
      BY DEF RevAfterEvict, TypeOK
    <3>3. rev[q] # None => ~free[q]
      BY DEF MappedPagesInUse
    <3>. QED
      BY <1>1, <1>4, <2>2, <3>1, <3>2, <3>3 DEF TypeOK
  <2>. QED
    BY <2>1, <2>2
<1>. QED
  BY <1>3, <1>4 DEF InUse


\* No page turns free in a step.
FreeShrinks == \A q \in PPNs : free'[q] => free[q]

\* One allocation, with its effect on all five tables, keeps the pool
\* facts and frees no page.
LEMMA AllocPoolStep ==
  ASSUME TypeOK, FreeCountAgrees, MappedPagesInUse, NEW ch \in Channels,
         NEW victim \in Partition(ch) \cup {None}, NEW p \in Partition(ch),
         CanAllocate(ch, victim, p), NEW v \in VPNs,
         free' = FreeAfter(victim, p),
         freeCount' = FreeCountAfter(ch, victim),
         fwd' = [FwdAfterEvict(victim) EXCEPT ![v] = p],
         rev' = RevAfterEvict(victim) \/ rev' = [RevAfterEvict(victim) EXCEPT ![p] = v]
  PROVE  /\ FreeCountAgrees'
         /\ MappedPagesInUse'
         /\ FreeShrinks
<1>1. FreeAgree(freeCount', free')
  BY AllocFreeAgree
<1>2. InUse(fwd', rev', free')
  BY AllocInUse
<1>3. FreeShrinks
  <2>1. FreeAfter(victim, p) = [free EXCEPT ![p] = FALSE]
    BY AllocTakes
  <2>. QED
    BY <2>1 DEF FreeShrinks, TypeOK
<1>. QED
  BY <1>1, <1>2, <1>3 DEF FreeAgree, InUse, FreeCountAgrees, MappedPagesInUse

\* The lookup half of translate() keeps the pool facts and frees no page.
LEMMA ResolvePool ==
  ASSUME TypeOK, FreeCountAgrees, MappedPagesInUse,
         NEW v \in VPNs, NEW c \in CoreIds, Resolve(v, c)
  PROVE  /\ FreeCountAgrees'
         /\ MappedPagesInUse'
         /\ FreeShrinks
<1>1. CASE fwd[v] # None /\ UNCHANGED allocVars
  BY <1>1 DEF allocVars, FreeCountAgrees, MappedPagesInUse, FreeShrinks
<1>2. CASE fwd[v] = None
  <2>. DEFINE ch == BestChannel(c)
  <2>1. ch \in Channels
    BY BestChannelType
  <2>2. PICK victim \in Partition(ch) \cup {None}, p \in Partition(ch) :
           /\ CanAllocate(ch, victim, p)
           /\ free' = FreeAfter(victim, p)
           /\ freeCount' = FreeCountAfter(ch, victim)
           /\ fwd' = [FwdAfterEvict(victim) EXCEPT ![v] = p]
           /\ rev' = [RevAfterEvict(victim) EXCEPT ![p] = v]
    BY <1>2 DEF Resolve
  <2>. QED
    BY <2>1, <2>2, AllocPoolStep
<1>. QED
  BY <1>1, <1>2 DEF Resolve

LEMMA InitPool == Init => PoolInv
<1> SUFFICES ASSUME Init PROVE PoolInv
  OBVIOUS
<1>1. TypeInv
  BY InitTypeInv
<1>2. ASSUME NEW ch \in Channels
      PROVE  freeCount[ch] = Cardinality({q \in Partition(ch) : free[q]})
  <2>1. Partition(ch) \subseteq PPNs
    BY PartitionType
  <2>2. {q \in Partition(ch) : free[q]} = Partition(ch)
    BY <2>1 DEF Init
  <2>3. Cardinality(Partition(ch)) = PagesPerChannel
    <3>1. ch \in Nat
      BY DEF Channels, NumChannels
    <3>2. Partition(ch) = ch * PagesPerChannel .. ch * PagesPerChannel + PagesPerChannel - 1
      BY <3>1 DEF Partition
    <3>. QED
      BY <3>1, <3>2, FS_Interval
  <2>. QED
    BY <2>2, <2>3 DEF Init
<1>3. MappedPagesInUse
  BY DEF Init, MappedPagesInUse
<1>. QED
  BY <1>1, <1>2, <1>3 DEF PoolInv, FreeCountAgrees

LEMMA NextPool ==
  PoolInv /\ [Next]_vars => PoolInv' /\ FreeShrinks
<1> SUFFICES ASSUME PoolInv, [Next]_vars
             PROVE  FreeCountAgrees' /\ MappedPagesInUse' /\ FreeShrinks
  BY NextTypeInv DEF PoolInv
<1>. USE DEF PoolInv, TypeInv
<1>0. UNCHANGED allocVars => FreeCountAgrees' /\ MappedPagesInUse' /\ FreeShrinks
  BY DEF allocVars, FreeCountAgrees, MappedPagesInUse, FreeShrinks
<1>1. ASSUME NEW v \in VPNs, NEW c \in Cores, Translate(v, c)
      PROVE  FreeCountAgrees' /\ MappedPagesInUse' /\ FreeShrinks
  <2>1. c \in CoreIds
    OBVIOUS
  <2>. QED
    BY <1>1, <2>1, ResolvePool DEF Translate
<1>2. ASSUME NEW v \in VPNs, NEW c \in Cores, StartPass(v, c)
      PROVE  FreeCountAgrees' /\ MappedPagesInUse' /\ FreeShrinks
  BY <1>0, <1>2 DEF StartPass
<1>3. ASSUME NEW v \in VPNs, NEW core \in CoreIds, VisitSkip(v, core)
      PROVE  FreeCountAgrees' /\ MappedPagesInUse' /\ FreeShrinks
  BY <1>0, <1>3 DEF VisitSkip
<1>4. ASSUME NEW v \in VPNs, NEW core \in CoreIds, VisitMigrate(v, core)
      PROVE  FreeCountAgrees' /\ MappedPagesInUse' /\ FreeShrinks
  <2>. DEFINE best == BestChannel(core)
  <2>1. best \in Channels
    BY BestChannelType
  <2>2. PICK victim \in Partition(best) \cup {None}, p \in Partition(best) :
           /\ CanAllocate(best, victim, p)
           /\ free' = FreeAfter(victim, p)
           /\ freeCount' = FreeCountAfter(best, victim)
           /\ fwd' = [FwdAfterEvict(victim) EXCEPT ![v] = p]
           /\ rev' = RevAfterEvict(victim)
    BY <1>4 DEF VisitMigrate
  <2>. QED
    BY <2>1, <2>2, AllocPoolStep
<1>5. ASSUME EndPass
      PROVE  FreeCountAgrees' /\ MappedPagesInUse' /\ FreeShrinks
  <2>1. pending \in [vpn : VPNs, core : Cores]
    BY <1>5 DEF EndPass, TypeOK, NoRequest, None
  <2>2. pending.core \in CoreIds
    BY <2>1
  <2>. QED
    BY <1>5, <2>1, <2>2, ResolvePool DEF EndPass
<1>6. CASE UNCHANGED vars
  BY <1>0, <1>6 DEF vars, allocVars
<1>. QED
  BY <1>1, <1>2, <1>3, <1>4, <1>5, <1>6 DEF Next

-----------------------------------------------------------------------------
(* The theorems.                                                            *)

\* m_num_free_physical_pages_per_part always counts the free bits of the
\* channel's bitmap, through allocations, evictions and migrations, so the
\* probe loops of translate() and find_random_free_page, which stop only
\* at a free bit, always find one when the count is positive.
THEOREM FreeCountCorrect == Spec => []FreeCountAgrees
<1>1. Spec => []PoolInv
  BY InitPool, NextPool, PTL DEF Spec
<1>. QED
  BY <1>1, PTL DEF PoolInv

\* Every page the forward or the reverse table names is marked in use, so
\* the allocator never hands out a mapped page as a free one.
THEOREM PagesInUseCorrect == Spec => []MappedPagesInUse
<1>1. Spec => []PoolInv
  BY InitPool, NextPool, PTL DEF Spec
<1>. QED
  BY <1>1, PTL DEF PoolInv

\* No step of the translator marks a page in use as free again: an
\* eviction's victim is taken back by the same allocation, and a migration
\* never frees the old page, which therefore leaks for good.
THEOREM NoPageReturnedToPoolHolds == Spec => NoPageReturnedToPool
<1>1. Spec => []PoolInv
  BY InitPool, NextPool, PTL DEF Spec
<1>2. PoolInv /\ [Next]_vars => [FreeShrinks]_vars
  BY NextPool
<1>. QED
  BY <1>1, <1>2, PTL DEF Spec, NoPageReturnedToPool, FreeShrinks

-----------------------------------------------------------------------------
(* The allocator as the pool of FreePagePool.                               *)

\* The pool's view of the bitmaps and of the page table.
FreeSet == {q \in PPNs : free[q]}

MappedSet == {u \in VPNs : fwd[u] # None}

\* One allocation of page p on channel ch for v, with or without an
\* eviction, is an allocate_on(ch) of the pool.
LEMMA AllocRefines ==
  ASSUME TypeOK, FreeCountAgrees, NEW ch \in Channels,
         NEW victim \in Partition(ch) \cup {None}, NEW p \in Partition(ch),
         CanAllocate(ch, victim, p), NEW v \in VPNs,
         free' = FreeAfter(victim, p),
         fwd' = [FwdAfterEvict(victim) EXCEPT ![v] = p]
  PROVE  Pool!Take(ch, v) \/ Pool!EvictAndReplace(ch, v)
<1>1. /\ free' = [free EXCEPT ![p] = FALSE]
      /\ victim = None => free[p]
      /\ victim # None => ~free[p]
  BY AllocTakes
<1>2. p \in PPNs /\ p # None
  BY PartitionType DEF Partition, None, Channels
<1>3. CASE victim = None
  <2>1. FreeSet' = FreeSet \ {p} /\ p \in Partition(ch) \cap FreeSet
    BY <1>1, <1>2, <1>3 DEF FreeSet, TypeOK
  <2>2. MappedSet' = MappedSet \cup {v}
    BY <1>2, <1>3 DEF MappedSet, FwdAfterEvict, TypeOK
  <2> QED
    BY <2>1, <2>2 DEF Pool!Take, FreeSet, MappedSet
<1>4. CASE victim # None
  <2>1. victim \in Partition(ch) /\ freeCount[ch] = 0
    BY <1>4 DEF CanAllocate
  <2>2. Partition(ch) \cap FreeSet = {}
    BY <2>1, FullPartition DEF FreeSet
  <2>3. FreeSet' = FreeSet
    BY <1>1, <1>2, <1>4 DEF FreeSet, TypeOK
  <2>4. EvictedVPN(victim) \in VPNs
    <3>1. victim \in PPNs
      BY <2>1, PartitionType
    <3> QED
      BY <1>4, <3>1, VPNsAssumption DEF EvictedVPN, TypeOK
  <2>5. MappedSet' = (MappedSet \ {EvictedVPN(victim)}) \cup {v}
    BY <1>2, <1>4, <2>4 DEF MappedSet, FwdAfterEvict, TypeOK
  <2> QED
    BY <2>2, <2>3, <2>4, <2>5 DEF Pool!EvictAndReplace, FreeSet, MappedSet
<1> QED
  BY <1>3, <1>4

\* The lookup half of translate() is an allocation of the pool or leaves
\* the pool's view alone.
LEMMA ResolveRefines ==
  ASSUME TypeOK, FreeCountAgrees, NEW v \in VPNs, NEW c \in CoreIds,
         Resolve(v, c)
  PROVE  [Pool!Next]_Pool!poolVars
<1>1. CASE fwd[v] # None /\ UNCHANGED allocVars
  BY <1>1 DEF allocVars, Pool!poolVars
<1>2. CASE fwd[v] = None
  <2>. DEFINE ch == BestChannel(c)
  <2>1. ch \in Channels
    BY BestChannelType
  <2>2. PICK victim \in Partition(ch) \cup {None}, p \in Partition(ch) :
           /\ CanAllocate(ch, victim, p)
           /\ free' = FreeAfter(victim, p)
           /\ fwd' = [FwdAfterEvict(victim) EXCEPT ![v] = p]
    BY <1>2 DEF Resolve
  <2> QED
    BY <2>1, <2>2, AllocRefines DEF Pool!Next
<1> QED
  BY <1>1, <1>2 DEF Resolve

\* Every step of the translator is an allocation of the pool or a stutter
\* of it.
LEMMA NextRefines ==
  PoolInv /\ [Next]_vars => [Pool!Next]_Pool!poolVars
<1> SUFFICES ASSUME PoolInv, [Next]_vars PROVE [Pool!Next]_Pool!poolVars
  OBVIOUS
<1>. USE DEF PoolInv, TypeInv
<1>0. UNCHANGED allocVars => UNCHANGED Pool!poolVars
  BY DEF allocVars, Pool!poolVars
<1>1. ASSUME NEW v \in VPNs, NEW c \in Cores, Translate(v, c)
      PROVE  [Pool!Next]_Pool!poolVars
  <2>1. c \in CoreIds
    OBVIOUS
  <2> QED
    BY <1>1, <2>1, ResolveRefines DEF Translate
<1>2. ASSUME NEW v \in VPNs, NEW c \in Cores, StartPass(v, c)
      PROVE  [Pool!Next]_Pool!poolVars
  BY <1>0, <1>2 DEF StartPass
<1>3. ASSUME NEW v \in VPNs, NEW core \in CoreIds, VisitSkip(v, core)
      PROVE  [Pool!Next]_Pool!poolVars
  BY <1>0, <1>3 DEF VisitSkip
<1>4. ASSUME NEW v \in VPNs, NEW core \in CoreIds, VisitMigrate(v, core)
      PROVE  [Pool!Next]_Pool!poolVars
  <2>. DEFINE best == BestChannel(core)
  <2>1. best \in Channels
    BY BestChannelType
  <2>2. PICK victim \in Partition(best) \cup {None}, p \in Partition(best) :
           /\ CanAllocate(best, victim, p)
           /\ free' = FreeAfter(victim, p)
           /\ fwd' = [FwdAfterEvict(victim) EXCEPT ![v] = p]
    BY <1>4 DEF VisitMigrate
  <2> QED
    BY <2>1, <2>2, AllocRefines DEF Pool!Next
<1>5. ASSUME EndPass
      PROVE  [Pool!Next]_Pool!poolVars
  <2>1. pending \in [vpn : VPNs, core : Cores]
    BY <1>5 DEF EndPass, TypeOK, NoRequest, None
  <2>2. pending.core \in CoreIds
    BY <2>1
  <2> QED
    BY <1>5, <2>1, <2>2, ResolveRefines DEF EndPass
<1>6. CASE UNCHANGED vars
  BY <1>0, <1>6 DEF vars, allocVars
<1> QED
  BY <1>1, <1>2, <1>3, <1>4, <1>5, <1>6 DEF Next

\* The allocator of the translator implements the pool of spec section
\* 4.3: every allocation takes one free page of its channel, and evicts
\* only when that channel has no free page.  It rests on FreeCountAgrees:
\* the code decides to evict on the count, the promise is about the bits.
THEOREM AllocatorRefinement == Spec => AllocatorRefinesPool
<1>1. Init => Pool!Init
  BY PartitionType DEF Init, Pool!Init
<1>2. Spec => []PoolInv
  BY InitPool, NextPool, PTL DEF Spec
<1> QED
  BY <1>1, <1>2, NextRefines, PTL DEF Spec, AllocatorRefinesPool, Pool!Spec

=============================================================================
