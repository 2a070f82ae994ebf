--------------------------- MODULE TopCacheProofs ---------------------------
(***************************************************************************)
(* Proofs about the request path of CustomTraceSystem: the types of the   *)
(* frontend and the memory system, the shape of the top cache of          *)
(* CustomDRAMSystem, and that the vector top_cache implements the set of  *)
(* TopCacheSet, for every trace, every set of VPNs and cores and every    *)
(* saturation bound.                                                       *)
(*                                                                         *)
(* SysTypeOK is not inductive by itself: the send of TickEndPass may move *)
(* the cursor, so the invariant must know that a migration pass runs only *)
(* for a line of the trace; and the count and the VPN of the pending      *)
(* request must be typed, which TypeInv of DynamicMigrationProofs gives.  *)
(* TopCacheWellFormed is inductive together with the types.               *)
(***************************************************************************)
EXTENDS CustomTraceSystem, DynamicMigrationProofs, FiniteSetTheorems,
        SequenceTheorems

USE TraceAssumption, VPNsAssumption, CoresAssumption, PagesAssumption,
    WindowAssumption, ParamAssumption

\* The shape TopCacheWellFormed asks of the variable cache, for any vector.
CacheOK(c) ==
  /\ c \in Seq(VPNs)
  /\ Len(c) <= TopCacheSize
  /\ \A i, j \in 1 .. Len(c) : i # j => c[i] # c[j]

SysInv ==
  /\ TypeInv
  /\ trace \in Traces
  /\ idx \in 0 .. Len(trace)
  /\ (pc # "idle" => idx < Len(trace))
  /\ counts \in [VPNs -> 0 .. MaxCount]
  /\ CacheOK(cache)

-----------------------------------------------------------------------------
(* update_top_cache.                                                        *)

\* The scan of update_top_cache over a full cache of four slots finds a
\* first VPN of smallest count.
LEMMA MinIndexExists ==
  ASSUME NEW c \in Seq(VPNs), Len(c) = TopCacheSize,
         NEW cnt \in [VPNs -> Nat]
  PROVE  /\ MinIndex(c, cnt) \in 1 .. Len(c)
         /\ \A j \in 1 .. Len(c) : cnt[c[MinIndex(c, cnt)]] <= cnt[c[j]]
<1> DEFINE First(i) == \A j \in 1 .. 4 : /\ cnt[c[i]] <= cnt[c[j]]
                                        /\ cnt[c[j]] = cnt[c[i]] => i <= j
<1>1. \A i \in 1 .. 4 : c[i] \in VPNs
  BY ElementOfSeq DEF TopCacheSize
<1>2. PICK k1, k2, k3, k4 \in Nat :
        k1 = cnt[c[1]] /\ k2 = cnt[c[2]] /\ k3 = cnt[c[3]] /\ k4 = cnt[c[4]]
  BY <1>1
<1>3. \E i \in 1 .. 4 : First(i)
  <2>1. CASE k1 <= k2 /\ k1 <= k3 /\ k1 <= k4
    <3>1. First(1)
      BY <1>2, <2>1 DEF First
    <3> QED
      BY <3>1
  <2>2. CASE k2 < k1 /\ k2 <= k3 /\ k2 <= k4
    <3>1. First(2)
      BY <1>2, <2>2 DEF First
    <3> QED
      BY <3>1
  <2>3. CASE k3 < k1 /\ k3 < k2 /\ k3 <= k4
    <3>1. First(3)
      BY <1>2, <2>3 DEF First
    <3> QED
      BY <3>1
  <2>4. CASE k4 < k1 /\ k4 < k2 /\ k4 < k3
    <3>1. First(4)
      BY <1>2, <2>4 DEF First
    <3> QED
      BY <3>1
  <2> QED
    BY <1>2, <2>1, <2>2, <2>3, <2>4
<1>4. \E i \in 1 .. Len(c) :
        \A j \in 1 .. Len(c) :
          /\ cnt[c[i]] <= cnt[c[j]]
          /\ cnt[c[j]] = cnt[c[i]] => i <= j
  BY <1>3 DEF TopCacheSize, First
<1> QED
  BY <1>4 DEF MinIndex

\* update_top_cache of a VPN not in the cache keeps it a vector of at
\* most four distinct VPNs.
LEMMA UpdateCacheOK ==
  ASSUME NEW c, CacheOK(c), NEW cnt \in [VPNs -> Nat], NEW v \in VPNs,
         ~InTopCache(c, v)
  PROVE  CacheOK(UpdateTopCache(c, cnt, v))
<1>1. c \in Seq(VPNs) /\ \A i \in 1 .. Len(c) : c[i] # v
  BY DEF CacheOK, InTopCache
<1>2. CASE Len(c) < TopCacheSize
  <2>1. UpdateTopCache(c, cnt, v) = Append(c, v)
    BY <1>2 DEF UpdateTopCache
  <2> QED
    BY <1>1, <1>2, <2>1, AppendProperties DEF CacheOK, TopCacheSize
<1>3. CASE ~(Len(c) < TopCacheSize)
  <2>1. Len(c) = TopCacheSize
    <3>1. PICK n \in Nat : n = Len(c)
      BY <1>1, LenProperties
    <3> QED
      BY <1>3, <3>1 DEF CacheOK, TopCacheSize
  <2>2. MinIndex(c, cnt) \in 1 .. Len(c)
    BY <1>1, <2>1, MinIndexExists
  <2>3. CASE cnt[v] > cnt[c[MinIndex(c, cnt)]]
    <3>1. UpdateTopCache(c, cnt, v) = [c EXCEPT ![MinIndex(c, cnt)] = v]
      BY <1>3, <2>3 DEF UpdateTopCache
    <3> QED
      BY <1>1, <2>2, <3>1, ExceptSeq DEF CacheOK
  <2>4. CASE ~(cnt[v] > cnt[c[MinIndex(c, cnt)]])
    BY <1>3, <2>4 DEF UpdateTopCache
  <2> QED
    BY <2>3, <2>4
<1> QED
  BY <1>2, <1>3

-----------------------------------------------------------------------------
(* send() and the steps of the tick.                                        *)

\* The line at the cursor is a request of the trace.
LEMMA CurrentRequest ==
  ASSUME NEW t \in Traces, NEW i \in Nat, i < Len(t)
  PROVE  /\ t[i + 1].vpn \in VPNs
         /\ t[i + 1].core \in Cores
<1>1. t \in Seq(Requests)
  OBVIOUS
<1>2. PICK n \in Nat : n = Len(t)
  BY <1>1, LenProperties
<1>3. t[i + 1] \in Requests
  BY <1>1, <1>2, ElementOfSeq
<1> QED
  BY <1>3 DEF Requests

\* send() counts the VPN within its bound, keeps the top cache well formed,
\* leaves the trace alone and advances the cursor by at most one.
LEMMA SendStep ==
  ASSUME counts \in [VPNs -> 0 .. MaxCount], CacheOK(cache),
         NEW r, r.vpn \in VPNs, Send(r)
  PROVE  /\ counts' \in [VPNs -> 0 .. MaxCount]
         /\ CacheOK(cache')
         /\ trace' = trace
         /\ idx' \in {idx, idx + 1}
<1> DEFINE cnt == [counts EXCEPT ![r.vpn] = IF @ < MaxCount THEN @ + 1 ELSE @]
<1>1. cnt \in [VPNs -> 0 .. MaxCount] /\ cnt \in [VPNs -> Nat]
  OBVIOUS
<1>2. counts' = cnt /\ trace' = trace
  BY DEF Send
<1>3. CASE InTopCache(cache, r.vpn)
  BY <1>1, <1>2, <1>3 DEF Send
<1>4. CASE ~InTopCache(cache, r.vpn)
  <2>1. cache' = UpdateTopCache(cache, cnt, r.vpn) /\ idx' \in {idx, idx + 1}
    BY <1>4 DEF Send
  <2> QED
    BY <1>1, <1>2, <1>4, <2>1, UpdateCacheOK
<1> QED
  BY <1>3, <1>4

\* Every step of the system is a step of the translator or leaves the
\* translator's state alone, and keeps SysInv.
LEMMA SysNextStep ==
  SysInv /\ [SysNext]_allVars => SysInv' /\ [Next]_vars
<1> SUFFICES ASSUME SysInv, [SysNext]_allVars PROVE SysInv' /\ [Next]_vars
  OBVIOUS
<1>0. /\ trace \in Traces /\ idx \in Nat /\ idx <= Len(trace)
      /\ TypeInv
  BY DEF SysInv
<1>1. CASE Tick
  <2>1. Current.vpn \in VPNs /\ Current.core \in Cores
    BY <1>0, <1>1, CurrentRequest DEF Tick, Current
  <2>2. [Next]_vars
    BY <1>1, <2>1 DEF Tick, Next
  <2>3. /\ counts' \in [VPNs -> 0 .. MaxCount] /\ CacheOK(cache')
        /\ trace' = trace /\ idx' \in {idx, idx + 1}
    BY <1>1, <2>1, SendStep DEF Tick, SysInv
  <2>4. pc' = "idle" /\ idx < Len(trace)
    BY <1>1 DEF Tick, Translate
  <2>5. TypeInv'
    BY <1>0, <2>2, NextTypeInv
  <2> QED
    BY <1>0, <2>2, <2>3, <2>4, <2>5 DEF SysInv
<1>2. CASE TickStartPass
  <2>1. Current.vpn \in VPNs /\ Current.core \in Cores
    BY <1>0, <1>2, CurrentRequest DEF TickStartPass, Current
  <2>2. [Next]_vars
    BY <1>2, <2>1 DEF TickStartPass, Next
  <2>3. TypeInv'
    BY <1>0, <2>2, NextTypeInv
  <2> QED
    BY <1>2, <2>2, <2>3 DEF TickStartPass, sysVars, SysInv
<1>3. CASE PassVisit
  <2>1. [Next]_vars
    BY <1>3 DEF PassVisit, Next
  <2>2. TypeInv' /\ pc' = pc
    BY <1>0, <1>3, <2>1, NextTypeInv DEF PassVisit, VisitSkip, VisitMigrate
  <2> QED
    BY <1>3, <2>1, <2>2 DEF PassVisit, sysVars, SysInv
<1>4. CASE TickEndPass
  <2>1. pc = "migrate" /\ pc' = "idle" /\ idx < Len(trace)
    BY <1>4 DEF TickEndPass, EndPass, SysInv
  <2>2. pending.vpn \in VPNs
    BY <2>1 DEF SysInv, TypeInv, TypeOK, NoRequest
  <2>3. [Next]_vars
    BY <1>4 DEF TickEndPass, Next
  <2>4. /\ counts' \in [VPNs -> 0 .. MaxCount] /\ CacheOK(cache')
        /\ trace' = trace /\ idx' \in {idx, idx + 1}
    BY <1>4, <2>2, SendStep DEF TickEndPass, SysInv
  <2>5. TypeInv'
    BY <1>0, <2>3, NextTypeInv
  <2> QED
    BY <1>0, <2>1, <2>3, <2>4, <2>5 DEF SysInv
<1>5. CASE UNCHANGED allVars
  BY <1>5 DEF allVars, vars, sysVars, SysInv, TypeInv, TypeOK
<1> QED
  BY <1>1, <1>2, <1>3, <1>4, <1>5 DEF SysNext

LEMMA SysInvInit == SysInit => SysInv
<1> SUFFICES ASSUME SysInit PROVE SysInv
  OBVIOUS
<1>1. TypeInv
  BY InitTypeInv DEF SysInit
<1>2. CacheOK(cache)
  BY EmptySeq DEF SysInit, CacheOK, TopCacheSize
<1> QED
  BY <1>1, <1>2 DEF SysInit, Init, SysInv

\* The frontend and the memory system are always well typed: the cursor
\* stays within the trace, the lifetime counts within their bound, and the
\* top cache is a vector of VPNs.
THEOREM SysTypeCorrect == SysSpec => []SysTypeOK
<1>1. SysInv => SysTypeOK
  BY DEF SysInv, SysTypeOK, TypeInv, CacheOK
<1> QED
  BY SysInvInit, SysNextStep, <1>1, PTL DEF SysSpec

\* update_top_cache never gives top_cache a fifth slot or a second copy of
\* a VPN, whatever the interleaving of cached, new and replacing VPNs and
\* of migration passes.
THEOREM TopCacheWellFormedHolds == SysSpec => []TopCacheWellFormed
<1>1. SysInv => TopCacheWellFormed
  BY DEF SysInv, CacheOK, TopCacheWellFormed
<1> QED
  BY SysInvInit, SysNextStep, <1>1, PTL DEF SysSpec

\* The translator inside the system behaves as the translator alone: each
\* tick runs translate() as DynamicMigration's Spec allows, so every
\* property proved of Spec holds of the system too.
THEOREM SystemRunsTranslator == SysSpec => Spec
<1>1. SysInit => Init
  BY DEF SysInit
<1>2. SysInv /\ [SysNext]_allVars => [Next]_vars
  BY SysNextStep
<1> QED
  BY SysInvInit, SysNextStep, <1>1, <1>2, PTL DEF SysSpec, Spec

-----------------------------------------------------------------------------
(* The vector as a set: the refinement of TopCacheSet.                      *)

\* The VPNs held in a vector, as TopSet maps top_cache.
Top(c) == {c[i] : i \in 1 .. Len(c)}

\* A vector of distinct VPNs holds as many VPNs as it has slots.
LEMMA TopCardinality ==
  ASSUME NEW c, CacheOK(c)
  PROVE  /\ IsFiniteSet(Top(c))
         /\ Cardinality(Top(c)) = Len(c)
<1>1. c \in Seq(VPNs) /\ \A i, j \in 1 .. Len(c) : i # j => c[i] # c[j]
  BY DEF CacheOK
<1>2. PICK n \in Nat : n = Len(c)
  BY <1>1, LenProperties
<1>3. DOMAIN c = 1 .. n
  BY <1>1, <1>2, LenProperties
<1>4. c \in Bijection(1 .. n, Top(c))
  BY <1>1, <1>2, <1>3 DEF Bijection, Injection, Surjection, IsInjective, Top
<1>5. Cardinality(Top(c)) = n
  BY <1>2, <1>4, FS_CountingElements DEF ExistsBijection
<1>6. IsFiniteSet(Top(c))
  BY <1>2, <1>4, FS_NatBijection DEF ExistsBijection
<1> QED
  BY <1>2, <1>5, <1>6

\* The VPNs of a vector after append and after a replacement at one slot.
LEMMA TopUpdate ==
  ASSUME NEW c, CacheOK(c), NEW v \in VPNs
  PROVE  /\ Top(Append(c, v)) = Top(c) \cup {v}
         /\ \A m \in 1 .. Len(c) :
               Top([c EXCEPT ![m] = v]) = (Top(c) \ {c[m]}) \cup {v}
<1>1. c \in Seq(VPNs) /\ \A i, j \in 1 .. Len(c) : i # j => c[i] # c[j]
  BY DEF CacheOK
<1>2. PICK n \in Nat : n = Len(c)
  BY <1>1, LenProperties
<1>3. Top(Append(c, v)) = Top(c) \cup {v}
  <2>1. Len(Append(c, v)) = n + 1
        /\ \A i \in 1 .. n : Append(c, v)[i] = c[i]
        /\ Append(c, v)[n + 1] = v
    BY <1>1, <1>2, AppendProperties
  <2> QED
    BY <1>2, <2>1 DEF Top
<1>4. ASSUME NEW m \in 1 .. Len(c)
      PROVE  Top([c EXCEPT ![m] = v]) = (Top(c) \ {c[m]}) \cup {v}
  <2>1. Len([c EXCEPT ![m] = v]) = n
        /\ \A j \in 1 .. n : [c EXCEPT ![m] = v][j] = IF j = m THEN v ELSE c[j]
    BY <1>1, <1>2, ExceptSeq
  <2> QED
    BY <1>1, <1>2, <2>1 DEF Top
<1> QED
  BY <1>3, <1>4

\* send() is an access of TopCacheSet: the count of the VPN goes up, and
\* the set of cached VPNs gains it while a slot is free, or trades it for
\* a VPN of smallest count when its count is strictly larger.
LEMMA SendAccess ==
  ASSUME counts \in [VPNs -> 0 .. MaxCount], CacheOK(cache),
         NEW r, r.vpn \in VPNs, Send(r)
  PROVE  TopSet!Access(r.vpn)
<1> DEFINE v == r.vpn
           cnt == [counts EXCEPT ![v] = IF @ < MaxCount THEN @ + 1 ELSE @]
<1>1. counts' = cnt /\ cnt \in [VPNs -> Nat]
  BY DEF Send
<1>2. /\ IsFiniteSet(Top(cache)) /\ Cardinality(Top(cache)) = Len(cache)
      /\ InTopCache(cache, v) <=> v \in Top(cache)
  BY TopCardinality DEF InTopCache, Top
<1> SUFFICES
      \/ v \in Top(cache) /\ Top(cache') = Top(cache)
      \/ v \notin Top(cache) /\ Cardinality(Top(cache)) < TopCacheSize
         /\ Top(cache') = Top(cache) \cup {v}
      \/ /\ v \notin Top(cache)
         /\ Cardinality(Top(cache)) >= TopCacheSize
         /\ \E m \in TopSet!Smallest(Top(cache), counts') :
               Top(cache') = IF counts'[v] > counts'[m]
                             THEN (Top(cache) \ {m}) \cup {v} ELSE Top(cache)
  <2>1. \A S : TopSet!Cardinality(S) = Cardinality(S)
    OBVIOUS
  <2> QED
    BY <1>1, <2>1 DEF TopSet!Access, Top, v
<1>3. CASE InTopCache(cache, v)
  BY <1>2, <1>3 DEF Send
<1>4. CASE ~InTopCache(cache, v) /\ Len(cache) < TopCacheSize
  <2>1. cache' = Append(cache, v)
    BY <1>4 DEF Send, UpdateTopCache
  <2> QED
    BY <1>2, <1>4, <2>1, TopUpdate
<1>5. CASE ~InTopCache(cache, v) /\ ~(Len(cache) < TopCacheSize)
  <2> DEFINE m == MinIndex(cache, cnt)
  <2>1. cache \in Seq(VPNs) /\ Len(cache) = TopCacheSize
    <3>1. PICK n \in Nat : n = Len(cache)
      BY LenProperties DEF CacheOK
    <3> QED
      BY <1>5, <3>1 DEF CacheOK, TopCacheSize
  <2>2. /\ m \in 1 .. Len(cache)
        /\ \A j \in 1 .. Len(cache) : cnt[cache[m]] <= cnt[cache[j]]
    BY <1>1, <2>1, MinIndexExists
  <2>3. cache[m] \in TopSet!Smallest(Top(cache), counts')
    BY <1>1, <2>2 DEF TopSet!Smallest, Top
  <2>4. cache' = IF cnt[v] > cnt[cache[m]] THEN [cache EXCEPT ![m] = v]
                 ELSE cache
    BY <1>5 DEF Send, UpdateTopCache
  <2>5. Top(cache') = IF counts'[v] > counts'[cache[m]]
                      THEN (Top(cache) \ {cache[m]}) \cup {v} ELSE Top(cache)
    BY <1>1, <2>2, <2>4, TopUpdate
  <2>6. Cardinality(Top(cache)) >= TopCacheSize
    BY <1>2, <2>1 DEF TopCacheSize
  <2> QED
    BY <1>2, <1>5, <2>3, <2>5, <2>6
<1> QED
  BY <1>3, <1>4, <1>5

\* Every step of the system is an access of TopCacheSet or a stutter of it.
LEMMA SysStepTopSet ==
  SysInv /\ [SysNext]_allVars => [TopSet!Next]_TopSet!vars
<1> SUFFICES ASSUME SysInv, [SysNext]_allVars
             PROVE  [TopSet!Next]_TopSet!vars
  OBVIOUS
<1>1. ASSUME NEW r, r.vpn \in VPNs, Send(r)
      PROVE  TopSet!Next
  BY <1>1, SendAccess DEF SysInv, TopSet!Next
<1>2. CASE Tick
  <2>1. Current.vpn \in VPNs
    BY <1>2, CurrentRequest DEF Tick, Current, SysInv
  <2> QED
    BY <1>1, <1>2, <2>1 DEF Tick
<1>3. CASE TickEndPass
  <2>1. pending.vpn \in VPNs
    BY <1>3 DEF TickEndPass, EndPass, SysInv, TypeInv, TypeOK, NoRequest
  <2> QED
    BY <1>1, <1>3, <2>1 DEF TickEndPass
<1>4. CASE TickStartPass \/ PassVisit \/ UNCHANGED allVars
  BY <1>4 DEF TickStartPass, PassVisit, allVars, sysVars, TopSet!vars
<1> QED
  BY <1>2, <1>3, <1>4 DEF SysNext

\* The vector top_cache with its linear scans implements the set the spec
\* describes: every send() is an access of TopCacheSet, and every other
\* step of the system leaves the cache and the counts alone.
THEOREM TopCacheRefinement == SysSpec => TopCacheRefinesSet
<1>1. SysInit => TopSet!Init
  BY DEF SysInit, TopSet!Init
<1> QED
  BY SysInvInit, SysNextStep, SysStepTopSet, <1>1, PTL
     DEF SysSpec, TopCacheRefinesSet, TopSet!Spec

=============================================================================
