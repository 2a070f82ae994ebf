----------------------- MODULE DynamicMigrationProofs -----------------------
(***************************************************************************)
(* Proofs about DynamicMigration, for every value of the constants that   *)
(* satisfies its assumptions.                                              *)
(***************************************************************************)
EXTENDS DynamicMigration, TLAPS

USE VPNsAssumption, CoresAssumption, PagesAssumption, WindowAssumption,
    ParamAssumption

-----------------------------------------------------------------------------
(* The latency table and the partitions.                                   *)

\* Each core is strictly closest to the channel of its own index.
LEMMA LatencyDiagonal ==
  ASSUME NEW core \in CoreIds, NEW o \in Channels
  PROVE  /\ Latency(core, o) \in Nat
         /\ Latency(core, core) = 20
         /\ o # core => Latency(core, o) > 20
BY DEF Latency, Distance, LatencyPattern, CoreIds, Channels, NumChannels

\* find_best_channel always returns a channel.
LEMMA BestChannelType ==
  ASSUME NEW core \in CoreIds
  PROVE  BestChannel(core) \in Channels
<1>1. IsBestChannel(core, core)
  <2> SUFFICES ASSUME NEW o \in Channels
               PROVE  /\ Latency(core, core) <= Latency(core, o)
                      /\ Latency(core, o) = Latency(core, core) => core <= o
    BY DEF IsBestChannel
  <2>1. /\ Latency(core, o) \in Nat
        /\ Latency(core, core) = 20
        /\ o # core => Latency(core, o) > 20
    BY LatencyDiagonal
  <2>. QED
    BY <2>1 DEF CoreIds, Channels, NumChannels
<1>2. core \in Channels
  BY DEF CoreIds, Channels, NumChannels
<1>. QED
  BY <1>1, <1>2 DEF BestChannel

\* A channel's partition lies inside the physical page range.
LEMMA PartitionType ==
  ASSUME NEW ch \in Channels
  PROVE  Partition(ch) \subseteq PPNs
BY DEF Partition, PPNs, Channels, NumChannels

\* Every page of channel ch's partition is owned by ch: ppn / pages_per_channel.
LEMMA PartitionChannel ==
  ASSUME NEW ch \in Channels, NEW p \in Partition(ch)
  PROVE  p \div PagesPerChannel = ch
<1>1. PICK off \in 0 .. PagesPerChannel - 1 : p = ch * PagesPerChannel + off
  BY DEF Partition
<1>2. ch \in Nat
  BY DEF Channels, NumChannels
<1>. QED
  BY <1>1, <1>2

-----------------------------------------------------------------------------
(* Type correctness.                                                        *)

\* TypeOK is not inductive alone: EndPass looks up the pending request,
\* which exists exactly while a pass runs.
TypeInv ==
  /\ TypeOK
  /\ (pc = "idle" <=> pending = NoRequest)

\* The allocator's results are well typed on any channel.
LEMMA AllocType ==
  ASSUME TypeOK, NEW ch \in Channels,
         NEW victim \in Partition(ch) \cup {None}, NEW p \in Partition(ch),
         CanAllocate(ch, victim, p)
  PROVE  /\ p \in PPNs
         /\ victim # None => EvictedVPN(victim) \in VPNs
         /\ FreeAfter(victim, p) \in [PPNs -> BOOLEAN]
         /\ FreeCountAfter(ch, victim) \in [Channels -> 0 .. PagesPerChannel]
         /\ FwdAfterEvict(victim) \in [VPNs -> PPNs \cup {None}]
         /\ RevAfterEvict(victim) \in [PPNs -> VPNs \cup {None}]
         /\ ChmapAfterEvict(victim) \in [VPNs -> Channels \cup {None}]
<1>1. Partition(ch) \subseteq PPNs
  BY PartitionType
<1>2. victim # None => EvictedVPN(victim) \in VPNs
  BY <1>1 DEF EvictedVPN, TypeOK
<1>0. None \notin Partition(ch)
  BY DEF Partition, None, Channels
<1>3. FreeCountAfter(ch, victim) \in [Channels -> 0 .. PagesPerChannel]
  BY <1>0 DEF FreeCountAfter, CanAllocate, TypeOK
<1>. QED
  BY <1>1, <1>2, <1>3
  DEF FreeAfter, FwdAfterEvict, RevAfterEvict, ChmapAfterEvict, TypeOK

\* The lookup half of translate() keeps the tables well typed.
LEMMA ResolveType ==
  ASSUME TypeOK, NEW v \in VPNs, NEW c \in CoreIds, Resolve(v, c)
  PROVE  /\ fwd' \in [VPNs -> PPNs \cup {None}]
         /\ rev' \in [PPNs -> VPNs \cup {None}]
         /\ chmap' \in [VPNs -> Channels \cup {None}]
         /\ free' \in [PPNs -> BOOLEAN]
         /\ freeCount' \in [Channels -> 0 .. PagesPerChannel]
<1>1. CASE fwd[v] # None /\ UNCHANGED allocVars
  BY <1>1 DEF allocVars, TypeOK
<1>2. CASE fwd[v] = None
  <2>. DEFINE ch == BestChannel(c)
  <2>1. ch \in Channels
    BY BestChannelType
  <2>2. PICK victim \in Partition(ch) \cup {None}, p \in Partition(ch) :
           /\ CanAllocate(ch, victim, p)
           /\ free' = FreeAfter(victim, p)
           /\ freeCount' = FreeCountAfter(ch, victim)
           /\ fwd' = [FwdAfterEvict(victim) EXCEPT ![v] = p]
           /\ rev' = [RevAfterEvict(victim) EXCEPT ![p] = v]
           /\ chmap' = [ChmapAfterEvict(victim) EXCEPT ![v] = ch]
    BY <1>2 DEF Resolve
  <2>3. /\ p \in PPNs
        /\ FreeAfter(victim, p) \in [PPNs -> BOOLEAN]
        /\ FreeCountAfter(ch, victim) \in [Channels -> 0 .. PagesPerChannel]
        /\ FwdAfterEvict(victim) \in [VPNs -> PPNs \cup {None}]
        /\ RevAfterEvict(victim) \in [PPNs -> VPNs \cup {None}]
        /\ ChmapAfterEvict(victim) \in [VPNs -> Channels \cup {None}]
    BY <2>1, <2>2, AllocType
  <2>. QED
    BY <2>1, <2>2, <2>3
<1>. QED
  BY <1>1, <1>2 DEF Resolve

LEMMA InitTypeInv == Init => TypeInv
BY DEF Init, TypeInv, TypeOK, NoRequest, None

LEMMA NextTypeInv == TypeInv /\ [Next]_vars => TypeInv'
<1> SUFFICES ASSUME TypeInv, [Next]_vars PROVE TypeInv'
  OBVIOUS
<1>. USE DEF TypeInv, TypeOK
<1>0. NoRequest \notin [vpn : VPNs, core : Cores]
  BY DEF NoRequest, None
<1>1. ASSUME NEW v \in VPNs, NEW c \in Cores, Translate(v, c)
      PROVE  TypeInv'
  <2>1. c \in CoreIds
    OBVIOUS
  <2>2. /\ fwd' \in [VPNs -> PPNs \cup {None}]
        /\ rev' \in [PPNs -> VPNs \cup {None}]
        /\ chmap' \in [VPNs -> Channels \cup {None}]
        /\ free' \in [PPNs -> BOOLEAN]
        /\ freeCount' \in [Channels -> 0 .. PagesPerChannel]
    BY <1>1, <2>1, ResolveType DEF Translate
  <2>3. hist' \in [VPNs -> [Cores -> Nat]]
    BY <1>1 DEF Translate
  <2>4. migCounter' \in 0 .. WindowSize - 1
    BY <1>1 DEF Translate
  <2>. QED
    BY <1>1, <2>2, <2>3, <2>4 DEF Translate
<1>2. ASSUME NEW v \in VPNs, NEW c \in Cores, StartPass(v, c)
      PROVE  TypeInv'
  BY <1>2, <1>0 DEF StartPass, allocVars
<1>3. ASSUME NEW v \in VPNs, NEW core \in CoreIds, VisitSkip(v, core)
      PROVE  TypeInv'
  BY <1>3 DEF VisitSkip, allocVars
<1>4. ASSUME NEW v \in VPNs, NEW core \in CoreIds, VisitMigrate(v, core)
      PROVE  TypeInv'
  <2>. DEFINE best == BestChannel(core)
  <2>1. best \in Channels
    BY BestChannelType
  <2>2. PICK victim \in Partition(best) \cup {None}, p \in Partition(best) :
           /\ CanAllocate(best, victim, p)
           /\ free' = FreeAfter(victim, p)
           /\ freeCount' = FreeCountAfter(best, victim)
           /\ fwd' = [FwdAfterEvict(victim) EXCEPT ![v] = p]
           /\ rev' = RevAfterEvict(victim)
           /\ chmap' = [ChmapAfterEvict(victim) EXCEPT ![v] = best]
           /\ todo' = todo \ {v, EvictedVPN(victim)}
    BY <1>4 DEF VisitMigrate
  <2>3. /\ p \in PPNs
        /\ FreeAfter(victim, p) \in [PPNs -> BOOLEAN]
        /\ FreeCountAfter(best, victim) \in [Channels -> 0 .. PagesPerChannel]
        /\ FwdAfterEvict(victim) \in [VPNs -> PPNs \cup {None}]
        /\ RevAfterEvict(victim) \in [PPNs -> VPNs \cup {None}]
        /\ ChmapAfterEvict(victim) \in [VPNs -> Channels \cup {None}]
    BY <2>1, <2>2, AllocType
  <2>4. cooldown' \in [VPNs -> (0 .. CooldownWindows) \cup {None}]
    BY <1>4 DEF VisitMigrate
  <2>. QED
    BY <1>4, <2>1, <2>2, <2>3, <2>4 DEF VisitMigrate
<1>5. ASSUME EndPass
      PROVE  TypeInv'
  <2>1. pending \in [vpn : VPNs, core : Cores]
    BY <1>5, <1>0 DEF EndPass
  <2>2. pending.core \in CoreIds
    BY <2>1
  <2>3. /\ fwd' \in [VPNs -> PPNs \cup {None}]
        /\ rev' \in [PPNs -> VPNs \cup {None}]
        /\ chmap' \in [VPNs -> Channels \cup {None}]
        /\ free' \in [PPNs -> BOOLEAN]
        /\ freeCount' \in [Channels -> 0 .. PagesPerChannel]
    BY <1>5, <2>1, <2>2, ResolveType DEF EndPass
  <2>4. cooldown' \in [VPNs -> (0 .. CooldownWindows) \cup {None}]
    BY <1>5 DEF EndPass
  <2>. QED
    BY <1>5, <2>3, <2>4 DEF EndPass
<1>6. CASE UNCHANGED vars
  BY <1>6 DEF vars
<1>. QED
  BY <1>1, <1>2, <1>3, <1>4, <1>5, <1>6 DEF Next

\* The translator's state is always well typed (type invariant of the
\* page tables, the bitmaps, the counters and the pass state).
THEOREM TypeCorrect == Spec => []TypeOK
<1>1. Spec => []TypeInv
  BY InitTypeInv, NextTypeInv, PTL DEF Spec
<1>. QED
  BY <1>1, PTL DEF TypeInv

-----------------------------------------------------------------------------
(* The channel map follows the page table.                                  *)

\* The channel map agrees with the page table on one VPN.
ChannelOf(f, m, u) ==
  /\ (f[u] = None <=> m[u] = None)
  /\ f[u] # None => m[u] = f[u] \div PagesPerChannel

\* Evicting a victim and mapping v to page p of channel ch, in the page
\* table and the channel map alike, keeps the two in agreement.
LEMMA AllocChannelMap ==
  ASSUME TypeOK, ChannelMapConsistent,
         NEW ch \in Channels,
         NEW victim \in Partition(ch) \cup {None}, NEW p \in Partition(ch),
         CanAllocate(ch, victim, p), NEW v \in VPNs, NEW u \in VPNs
  PROVE  ChannelOf([FwdAfterEvict(victim) EXCEPT ![v] = p],
                   [ChmapAfterEvict(victim) EXCEPT ![v] = ch], u)
<1>1. /\ p \in PPNs
      /\ victim # None => EvictedVPN(victim) \in VPNs
      /\ FwdAfterEvict(victim) \in [VPNs -> PPNs \cup {None}]
      /\ ChmapAfterEvict(victim) \in [VPNs -> Channels \cup {None}]
  BY AllocType
<1>2. p \div PagesPerChannel = ch
  BY PartitionChannel
<1>3. p # None /\ ch # None
  BY <1>1 DEF PPNs, None, Channels
<1>4. CASE u = v
  BY <1>1, <1>2, <1>3, <1>4 DEF ChannelOf
<1>5. CASE u # v /\ victim # None /\ u = EvictedVPN(victim)
  BY <1>1, <1>5 DEF ChannelOf, FwdAfterEvict, ChmapAfterEvict, TypeOK
<1>6. CASE u # v /\ (victim = None \/ u # EvictedVPN(victim))
  <2>1. ChannelOf(fwd, chmap, u)
    BY DEF ChannelMapConsistent, ChannelOf
  <2>. QED
    BY <1>1, <1>6, <2>1 DEF ChannelOf, FwdAfterEvict, ChmapAfterEvict, TypeOK
<1>. QED
  BY <1>4, <1>5, <1>6

LEMMA NextChannelMap ==
  TypeInv /\ ChannelMapConsistent /\ [Next]_vars => ChannelMapConsistent'
<1> SUFFICES ASSUME TypeInv, ChannelMapConsistent, [Next]_vars,
                    NEW u \in VPNs
             PROVE  ChannelOf(fwd', chmap', u)
  BY DEF ChannelMapConsistent, ChannelOf
<1>0. ChannelOf(fwd, chmap, u)
  BY DEF ChannelMapConsistent, ChannelOf
<1>. USE DEF TypeInv
\* The lookup half of translate() on any request.
<1>r. ASSUME NEW v \in VPNs, NEW c \in CoreIds, Resolve(v, c)
      PROVE  ChannelOf(fwd', chmap', u)
  <2>1. CASE fwd[v] # None /\ UNCHANGED allocVars
    BY <1>0, <2>1 DEF allocVars, ChannelOf
  <2>2. CASE fwd[v] = None
    <3>. DEFINE ch == BestChannel(c)
    <3>1. ch \in Channels
      BY BestChannelType
    <3>2. PICK victim \in Partition(ch) \cup {None}, p \in Partition(ch) :
             /\ CanAllocate(ch, victim, p)
             /\ fwd' = [FwdAfterEvict(victim) EXCEPT ![v] = p]
             /\ chmap' = [ChmapAfterEvict(victim) EXCEPT ![v] = ch]
      BY <1>r, <2>2 DEF Resolve
    <3>. QED
      BY <3>1, <3>2, AllocChannelMap
  <2>. QED
    BY <1>r, <2>1, <2>2 DEF Resolve
<1>1. ASSUME NEW v \in VPNs, NEW c \in Cores, Translate(v, c)
      PROVE  ChannelOf(fwd', chmap', u)
  BY <1>1, <1>r DEF Translate, TypeOK
<1>2. ASSUME NEW v \in VPNs, NEW c \in Cores, StartPass(v, c)
      PROVE  ChannelOf(fwd', chmap', u)
  BY <1>0, <1>2 DEF StartPass, allocVars, ChannelOf
<1>3. ASSUME NEW v \in VPNs, NEW core \in CoreIds, VisitSkip(v, core)
      PROVE  ChannelOf(fwd', chmap', u)
  BY <1>0, <1>3 DEF VisitSkip, allocVars, ChannelOf
<1>4. ASSUME NEW v \in VPNs, NEW core \in CoreIds, VisitMigrate(v, core)
      PROVE  ChannelOf(fwd', chmap', u)
  <2>. DEFINE best == BestChannel(core)
  <2>1. best \in Channels
    BY BestChannelType
  <2>2. PICK victim \in Partition(best) \cup {None}, p \in Partition(best) :
           /\ CanAllocate(best, victim, p)
           /\ fwd' = [FwdAfterEvict(victim) EXCEPT ![v] = p]
           /\ chmap' = [ChmapAfterEvict(victim) EXCEPT ![v] = best]
    BY <1>4 DEF VisitMigrate
  <2>. QED
    BY <2>1, <2>2, AllocChannelMap
<1>5. ASSUME EndPass
      PROVE  ChannelOf(fwd', chmap', u)
  <2>1. pending \in [vpn : VPNs, core : Cores]
    BY <1>5 DEF EndPass, TypeOK, NoRequest, None
  <2>. QED
    BY <1>5, <1>r, <2>1 DEF EndPass, TypeOK
<1>6. CASE UNCHANGED vars
  BY <1>0, <1>6 DEF vars, ChannelOf
<1>. QED
  BY <1>1, <1>2, <1>3, <1>4, <1>5, <1>6 DEF Next

\* page_to_channel_mapping always names the channel that holds the VPN's
\* page, and has an entry exactly for the mapped VPNs.
THEOREM ChannelMapCorrect == Spec => []ChannelMapConsistent
<1>1. Init => ChannelMapConsistent
  BY DEF Init, ChannelMapConsistent
<1>2. Spec => []TypeInv
  BY InitTypeInv, NextTypeInv, PTL DEF Spec
<1>. QED
  BY <1>1, <1>2, NextChannelMap, PTL DEF Spec

=============================================================================
