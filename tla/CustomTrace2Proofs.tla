------------------------- MODULE CustomTrace2Proofs -------------------------
(***************************************************************************)
(* Proof that on a sorted trace CustomTrace2's clk never passes the clock *)
(* of the line at the cursor, for every trace, every bound and every      *)
(* configuration of the translator.                                       *)
(*                                                                         *)
(* ClockNeverPassesTrace alone is not inductive: a step from a state whose *)
(* cursor is past the end, or from the middle of a migration pass with no *)
(* line left, is not constrained by it.  ClockInv adds the types of the   *)
(* cursor and the clock and that a migration pass runs only for a line of *)
(* the trace (the pass is started by the tick of the line at the cursor). *)
(*                                                                         *)
(* Each step of CustomTrace2 is a step of CustomTraceSystem with the clock *)
(* added, or a wait that changes the clock alone, so the invariant SysInv *)
(* of TopCacheProofs and the refinement of TopCacheSet carry over.        *)
(***************************************************************************)
EXTENDS CustomTrace2, TopCacheProofs

USE TraceAssumption, ClockAssumption

ClockInv ==
  /\ trace \in Traces
  /\ idx \in 0 .. Len(trace)
  /\ clk \in 0 .. ClockBound
  /\ (pc # "idle" => idx < Len(trace))
  /\ ClockNeverPassesTrace

-----------------------------------------------------------------------------
(* What the translator's and the memory system's steps do to the state    *)
(* the clock depends on.                                                   *)

\* The clock column of a loaded trace is a sequence of naturals as long as
\* the trace.
LEMMA ClockOfType ==
  ASSUME NEW t \in Traces, NEW i \in 1 .. Len(t)
  PROVE  TraceClocks[t][i] \in Nat
OBVIOUS

\* send() leaves the trace alone and advances the cursor by at most one.
LEMMA SendCursor ==
  ASSUME NEW r, Send(r)
  PROVE  trace' = trace /\ idx' \in {idx, idx + 1}
BY DEF Send

\* The clock after an accepted or a stalled send, from a state whose
\* cursor is on a line.
LEMMA AfterSendStep ==
  ASSUME ClockInv, idx < Len(trace), trace' = trace, idx' \in {idx, idx + 1},
         AfterSend
  PROVE  /\ idx' \in 0 .. Len(trace')
         /\ clk' \in 0 .. ClockBound
         /\ ClockNeverPassesTrace'

<1>1. idx \in Nat /\ clk \in Nat
  BY DEF ClockInv
<1>2. idx' \in 0 .. Len(trace')
  BY <1>1
<1>3. CASE idx' = idx
  <2>1. clk' = clk
    BY <1>1, <1>3 DEF AfterSend
  <2> QED
    BY <1>2, <1>3, <2>1 DEF ClockInv, ClockNeverPassesTrace, SortedTrace, ClockOf
<1>4. CASE idx' = idx + 1
  <2>0. /\ SortedTrace' = SortedTrace
        /\ \A i \in Nat : ClockOf(i)' = ClockOf(i)
        /\ idx' + 1 = idx + 2
    BY <1>1, <1>4 DEF SortedTrace, ClockOf
  <2> SUFFICES /\ clk' \in 0 .. ClockBound
               /\ SortedTrace /\ idx + 1 < Len(trace) => clk' <= ClockOf(idx + 2)
    BY <1>2, <1>4, <2>0 DEF ClockNeverPassesTrace
  <2>1. clk \in 0 .. ClockBound /\ Incr(clk) \in 0 .. ClockBound
    BY <1>1 DEF ClockInv, Incr
  <2>2. clk' \in {clk, Incr(clk)}
    BY <1>4 DEF AfterSend
  <2>3. ASSUME SortedTrace, idx + 1 < Len(trace)
        PROVE  clk' <= ClockOf(idx + 2)
    <3>1. ClockOf(idx + 1) \in Nat /\ ClockOf(idx + 2) \in Nat
      <4>1. trace \in Traces /\ idx + 1 \in 1 .. Len(trace) /\ idx + 2 \in 1 .. Len(trace)
        BY <1>1, <2>3 DEF ClockInv
      <4> QED
        BY <4>1, ClockOfType DEF ClockOf
    <3>2. clk <= ClockOf(idx + 1)
      BY <1>1, <2>3 DEF ClockInv, ClockNeverPassesTrace
    <3>3. ClockOf(idx + 1) <= ClockOf(idx + 2)
      BY <1>1, <2>3 DEF SortedTrace
    <3>4. CASE ClockOf(idx + 2) = clk
      BY <1>1, <1>4, <2>3, <3>4 DEF AfterSend
    <3>5. CASE ClockOf(idx + 2) # clk
      <4>1. clk' = Incr(clk)
        BY <1>1, <1>4, <2>3, <3>5 DEF AfterSend
      <4> QED
        BY <1>1, <3>1, <3>2, <3>3, <3>5, <4>1 DEF Incr
    <3> QED
      BY <3>4, <3>5
  <2> QED
    BY <2>1, <2>2, <2>3
<1> QED
  BY <1>3, <1>4

-----------------------------------------------------------------------------
(* The invariant.                                                           *)

LEMMA ClockInvInit == Trace2Init => ClockInv
<1> SUFFICES ASSUME Trace2Init PROVE ClockInv
  OBVIOUS
<1>1. trace \in Traces /\ idx = 0 /\ clk = 0 /\ pc = "idle"
  BY DEF Trace2Init, SysInit, Init
<1>2. 0 < Len(trace) => TraceClocks[trace][1] \in Nat
  BY <1>1, ClockOfType
<1> QED
  BY <1>1, <1>2 DEF ClockInv, ClockNeverPassesTrace, ClockOf

LEMMA ClockInvNext == ClockInv /\ [Next2]_allVars2 => ClockInv'
<1> SUFFICES ASSUME ClockInv, [Next2]_allVars2 PROVE ClockInv'
  OBVIOUS
<1>1. CASE Wait
  \* The wait test contradicts the invariant on a sorted trace; on an
  \* unsorted one the invariant says nothing of the clock.
  <2>1. trace' = trace /\ idx' = idx /\ pc' = pc
    BY <1>1 DEF Wait, allVars, vars, sysVars
  <2>2. clk' \in 0 .. ClockBound
    BY <1>1 DEF Wait, Incr, ClockInv
  <2>3. ~SortedTrace
    BY <1>1, ClockOfType DEF Wait, Waits, ClockInv, ClockNeverPassesTrace, ClockOf
  <2> QED
    BY <2>1, <2>2, <2>3 DEF ClockInv, ClockNeverPassesTrace, SortedTrace, ClockOf
<1>2. CASE Tick2
  <2>1. trace' = trace /\ idx' \in {idx, idx + 1}
    BY <1>2, SendCursor DEF Tick2
  <2>2. pc' = "idle"
    BY <1>2 DEF Tick2, Translate
  <2> QED
    BY <1>2, <2>1, <2>2, AfterSendStep DEF Tick2, ClockInv
<1>3. CASE Tick2StartPass
  <2>1. trace' = trace /\ idx' = idx /\ clk' = clk /\ idx < Len(trace)
    BY <1>3 DEF Tick2StartPass, sysVars
  <2> QED
    BY <2>1 DEF ClockInv, ClockNeverPassesTrace, SortedTrace, ClockOf
<1>4. CASE PassVisit2
  <2>1. trace' = trace /\ idx' = idx /\ clk' = clk /\ pc' = pc
    BY <1>4 DEF PassVisit2, PassVisit, sysVars, VisitSkip, VisitMigrate
  <2> QED
    BY <2>1 DEF ClockInv, ClockNeverPassesTrace, SortedTrace, ClockOf
<1>5. CASE Tick2EndPass
  <2>1. trace' = trace /\ idx' \in {idx, idx + 1}
    BY <1>5, SendCursor DEF Tick2EndPass
  <2>2. pc = "migrate" /\ pc' = "idle"
    BY <1>5 DEF Tick2EndPass, EndPass
  <2>3. idx < Len(trace)
    BY <2>2 DEF ClockInv
  <2> QED
    BY <1>5, <2>1, <2>2, <2>3, AfterSendStep DEF Tick2EndPass, ClockInv
<1>6. CASE UNCHANGED allVars2
  BY <1>6 DEF allVars2, allVars, vars, sysVars, ClockInv, ClockNeverPassesTrace,
              SortedTrace, ClockOf
<1> QED
  BY <1>1, <1>2, <1>3, <1>4, <1>5, <1>6 DEF Next2

\* On a sorted trace the clock of CustomTrace2::tick() never passes the
\* clock of the line at m_curr_trace_idx, so its wait branch is dead code.
THEOREM ClockNeverPassesTraceHolds == Spec2 => []ClockNeverPassesTrace
<1>1. Trace2Init => ClockInv
  BY ClockInvInit
<1>2. ClockInv /\ [Next2]_allVars2 => ClockInv'
  BY ClockInvNext
<1>3. ClockInv => ClockNeverPassesTrace
  BY DEF ClockInv
<1> QED
  BY <1>1, <1>2, <1>3, PTL DEF Spec2

-----------------------------------------------------------------------------
(* The memory system under CustomTrace2.                                    *)

\* A step of CustomTrace2 is a step of CustomTraceSystem, or a wait that
\* leaves all of its state alone.
LEMMA Next2SysStep == [Next2]_allVars2 => [SysNext]_allVars
<1> SUFFICES ASSUME [Next2]_allVars2 PROVE [SysNext]_allVars
  OBVIOUS
<1>1. CASE Wait
  BY <1>1 DEF Wait
<1>2. CASE Tick2
  BY <1>2 DEF Tick2, Tick, SysNext
<1>3. CASE Tick2StartPass
  BY <1>3 DEF Tick2StartPass, TickStartPass, SysNext
<1>4. CASE PassVisit2
  BY <1>4 DEF PassVisit2, SysNext
<1>5. CASE Tick2EndPass
  BY <1>5 DEF Tick2EndPass, TickEndPass, SysNext
<1>6. CASE UNCHANGED allVars2
  BY <1>6 DEF allVars2
<1> QED
  BY <1>1, <1>2, <1>3, <1>4, <1>5, <1>6 DEF Next2

\* CustomTrace2's frontend and memory system are always well typed: the
\* cursor within the trace, the counts within their bound, the top cache
\* a vector of VPNs and clk within its saturation bound.
THEOREM Trace2TypeCorrect == Spec2 => []Trace2TypeOK
<1>1. Trace2Init => SysInv /\ ClockInv
  BY SysInvInit, ClockInvInit DEF Trace2Init
<1>2. SysInv /\ ClockInv /\ [Next2]_allVars2 => SysInv' /\ ClockInv'
  BY Next2SysStep, SysNextStep, ClockInvNext
<1>3. SysInv /\ ClockInv => Trace2TypeOK
  BY DEF SysInv, ClockInv, Trace2TypeOK, SysTypeOK, TypeInv, CacheOK
<1> QED
  BY <1>1, <1>2, <1>3, PTL DEF Spec2

\* Under CustomTrace2 too, the vector top_cache implements the set of
\* TopCacheSet: the clock and the wait branch do not touch it.
THEOREM Trace2TopCacheRefinement == Spec2 => TopCacheRefinesSet
<1>1. Trace2Init => SysInv /\ TopSet!Init
  BY SysInvInit DEF Trace2Init, SysInit, TopSet!Init
<1>2. SysInv /\ [Next2]_allVars2 => SysInv' /\ [TopSet!Next]_TopSet!vars
  BY Next2SysStep, SysNextStep, SysStepTopSet
<1> QED
  BY <1>1, <1>2, PTL DEF Spec2, TopCacheRefinesSet, TopSet!Spec

=============================================================================
