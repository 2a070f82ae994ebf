------------------------- MODULE CustomTraceSystem -------------------------
(***************************************************************************)
(* The request path of one simulator tick: CustomTrace::tick()             *)
(* (frontend/impl/memory_trace/custom_trace.cpp) translates the request at *)
(* the trace cursor with Dynamic_migration::translate() and sends it to    *)
(* CustomDRAMSystem::send() (memory_system/impl/custom_DRAM_system.cpp),   *)
(* which counts the VPN's lifetime accesses, answers "not accepted" for a *)
(* VPN held in the top-4 cache, and otherwise updates that cache, decodes *)
(* the address and hands the request to the channel's controller.  The    *)
(* cursor advances only on an accepted send.                               *)
(*                                                                         *)
(* The translator is DynamicMigration, extended; a tick whose translate()  *)
(* runs the migration pass is split as the pass is: StartPass, the visits,*)
(* then EndPass followed by the send.  The controller's answer is a free   *)
(* choice (its queues are not modelled); the address decoder is left out  *)
(* here, as the channel it picks does not change the frontend's state.     *)
(* send() takes the VPN as v_addr >> 12, the translator's VPN for 4 KB    *)
(* pages, which this model assumes.                                        *)
(***************************************************************************)
EXTENDS DynamicMigration, Sequences

CONSTANTS
  Traces,       \* the trace files the model may load, as request sequences
  MaxCount      \* saturation bound of the lifetime access counts

\* The 4 of `top_cache.size() < 4`.
TopCacheSize == 4

Requests == [vpn : VPNs, core : Cores]

ASSUME TraceAssumption ==
  /\ Traces \subseteq Seq(Requests)
  /\ Traces # {}
  /\ MaxCount \in Nat \ {0}

VARIABLES
  trace,   \* m_trace, as loaded by init_trace
  idx,     \* m_curr_trace_idx
  counts,  \* vpn_access_counts of CustomDRAMSystem, saturated at MaxCount
  cache    \* top_cache, a sequence of VPNs

sysVars == <<trace, idx, counts, cache>>

allVars == <<vars, sysVars>>

SysTypeOK ==
  /\ TypeOK
  /\ trace \in Traces
  /\ idx \in 0 .. Len(trace)
  /\ counts \in [VPNs -> 0 .. MaxCount]
  /\ cache \in Seq(VPNs)

-----------------------------------------------------------------------------
(* The top cache.                                                           *)

\* is_in_top_cache: the linear scan of top_cache.
InTopCache(c, v) == \E i \in 1 .. Len(c) : c[i] = v

\* The indices of the cached VPN with the smallest count; the scan keeps
\* the first strict minimum.
MinIndex(c, cnt) ==
  CHOOSE i \in 1 .. Len(c) :
    \A j \in 1 .. Len(c) :
       /\ cnt[c[i]] <= cnt[c[j]]
       /\ cnt[c[j]] = cnt[c[i]] => i <= j

\* Mutant: update_top_cache appending while size() <= 4.
UpdateTopCacheOffByOne(c, cnt, v) ==
  IF InTopCache(c, v) THEN c
  ELSE IF Len(c) <= TopCacheSize THEN Append(c, v)
  ELSE IF cnt[v] > cnt[c[MinIndex(c, cnt)]]
         THEN [c EXCEPT ![MinIndex(c, cnt)] = v]
         ELSE c

\* Mutant: a new VPN replaces the smallest one on a tie as well.
UpdateTopCacheNonStrict(c, cnt, v) ==
  IF InTopCache(c, v) THEN c
  ELSE IF Len(c) < TopCacheSize THEN Append(c, v)
  ELSE IF cnt[v] >= cnt[c[MinIndex(c, cnt)]]
         THEN [c EXCEPT ![MinIndex(c, cnt)] = v]
         ELSE c

\* update_top_cache(vpn, vpn_access_counts[vpn]).
UpdateTopCache(c, cnt, v) ==
  IF InTopCache(c, v) THEN c
  ELSE IF Len(c) < TopCacheSize THEN Append(c, v)
  ELSE IF cnt[v] > cnt[c[MinIndex(c, cnt)]]
         THEN [c EXCEPT ![MinIndex(c, cnt)] = v]
         ELSE c

-----------------------------------------------------------------------------
(* The tick.                                                                *)

\* CustomDRAMSystem::send(req) and the cursor update of tick().
\* vpn_access_counts[vpn]++ comes first; a cached VPN returns false; else
\* the cache is updated and the controller accepts or rejects.
Send(r) ==
  LET cnt == [counts EXCEPT ![r.vpn] = IF @ < MaxCount THEN @ + 1 ELSE @] IN
  /\ counts' = cnt
  /\ \/ /\ InTopCache(cache, r.vpn)
        /\ UNCHANGED <<idx, cache>>
     \/ /\ ~InTopCache(cache, r.vpn)
        /\ cache' = UpdateTopCache(cache, cnt, r.vpn)
        /\ \/ idx' = idx + 1   \* m_controllers[channel_id]->send(req) accepts
           \/ idx' = idx       \* the controller rejects: retried next tick
  /\ UNCHANGED trace

\* The request at the cursor.
Current == trace[idx + 1]

SysInit ==
  /\ Init
  /\ trace \in Traces
  /\ idx = 0
  /\ counts = [v \in VPNs |-> 0]
  /\ cache = <<>>

\* tick() whose translate() does not close the window.
Tick ==
  /\ idx < Len(trace)
  /\ Translate(Current.vpn, Current.core)
  /\ Send(Current)

\* tick() whose translate() closes the window: the pass starts.
TickStartPass ==
  /\ idx < Len(trace)
  /\ StartPass(Current.vpn, Current.core)
  /\ UNCHANGED sysVars

PassVisit ==
  /\ \E v \in VPNs, core \in CoreIds : VisitSkip(v, core) \/ VisitMigrate(v, core)
  /\ UNCHANGED sysVars

\* The pass ends, translate() returns true, and tick() sends the request.
TickEndPass ==
  /\ EndPass
  /\ Send(pending)

SysNext == Tick \/ TickStartPass \/ PassVisit \/ TickEndPass

\* The simulator ticks the frontend while it is not finished; the memory
\* controller drains its queue, so a rejected send is eventually accepted
\* when retried often enough (strong fairness of the accepting steps).
Fairness ==
  /\ WF_allVars(SysNext)
  /\ SF_allVars((Tick \/ TickEndPass) /\ idx' = idx + 1)

SysSpec == SysInit /\ [][SysNext]_allVars /\ Fairness

-----------------------------------------------------------------------------
(* Properties.                                                              *)

\* The top cache never exceeds its four slots and holds a VPN at most once
\* (spec section 8), whatever the interleaving of cached, new and
\* replacing VPNs.
TopCacheWellFormed ==
  /\ Len(cache) <= TopCacheSize
  /\ \A i, j \in 1 .. Len(cache) : i # j => cache[i] # cache[j]

\* The top cache as the abstract set of TopCacheSet: the VPNs of the vector
\* top_cache, with vpn_access_counts.
TopSet == INSTANCE TopCacheSet WITH Keys <- VPNs, Capacity <- TopCacheSize,
                                    top <- {cache[i] : i \in 1 .. Len(cache)},
                                    cnt <- counts

\* The vector top_cache with its linear scans implements the set the spec
\* describes: every send() counts the VPN and changes the set of cached
\* VPNs only by adding a new VPN while a slot is free, or by replacing a
\* VPN of smallest count with one of strictly larger count; no other step
\* touches either.  A duplicate entry, a fifth slot or an eviction of a
\* VPN that is not a smallest one would each break the mapping.
TopCacheRefinesSet == TopSet!Spec

\* Every trace line is eventually consumed: the frontend finishes
\* (is_finished), as the spec's retry discipline promises.
TraceCompletes == <>(idx = Len(trace))

\* A tick that does not advance the cursor leaves the translator's window
\* statistics and the lifetime counts as they were, so that its retry is
\* not counted twice (spec section 5: a tick "returns with state unchanged
\* (retry next tick)").
StallLeavesStateUnchanged ==
  [][Tick /\ idx' = idx => UNCHANGED <<hist, migCounter, counts>>]_allVars

=============================================================================
