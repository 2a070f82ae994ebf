---------------------------- MODULE CustomTrace2 ----------------------------
(***************************************************************************)
(* CustomTrace2 (frontend/impl/memory_trace/new.cpp): the trace frontend  *)
(* whose lines carry a clock.  tick() first compares the line's clock      *)
(* with its own cycle counter `clk`; it then translates and sends the     *)
(* request as CustomTrace does, advances the cursor on an accepted send,   *)
(* and advances `clk` unless the next line carries the same clock.        *)
(*                                                                         *)
(* The translator and the memory system are those of CustomTraceSystem,   *)
(* extended.  Dynamic_migration::translate() always returns true, so the  *)
(* skip-on-failure branch (new.cpp:64-68) is never taken and is not an    *)
(* action.  The global vpn_access_count of base/utils.h (new.cpp:62) only *)
(* feeds the statistics printout and is left out.                         *)
(***************************************************************************)
EXTENDS CustomTraceSystem

CONSTANTS
  TraceClocks,  \* the clock column of each trace, as loaded by init_trace
  ClockBound    \* saturation bound of clk, above every trace clock

ASSUME ClockAssumption ==
  /\ Traces \subseteq DOMAIN TraceClocks
  /\ \A t \in Traces : /\ TraceClocks[t] \in Seq(0 .. ClockBound - 1)
                      /\ Len(TraceClocks[t]) = Len(t)
  /\ ClockBound \in Nat \ {0}

VARIABLE
  clk      \* the frontend's cycle counter, saturated at ClockBound

allVars2 == <<allVars, clk>>

Trace2TypeOK ==
  /\ SysTypeOK
  /\ clk \in 0 .. ClockBound

\* m_trace[i].clk for the loaded trace (1-based).
ClockOf(i) == TraceClocks[trace][i]

\* clk++, saturated.  Once clk passes the clock of every line the
\* comparisons of tick() no longer depend on its value.
Incr(c) == IF c < ClockBound THEN c + 1 ELSE c

-----------------------------------------------------------------------------
(* The tick.                                                                *)

\* The fields of CustomTrace2 after init(): the parsed trace, cursor 0 and
\* clk = 0.
Trace2Init ==
  /\ SysInit
  /\ clk = 0

\* Mutant: the wait test `t.clk <= clk`.
WaitsInclusive(i) == ClockOf(i) <= clk

\* `if (t.clk < clk)`: the test that decides whether tick() waits.
Waits(i) == ClockOf(i) < clk

\* `if (t.clk < clk) { clk++; return; }`
Wait ==
  /\ pc = "idle"
  /\ idx < Len(trace)
  /\ Waits(idx + 1)
  /\ clk' = Incr(clk)
  /\ UNCHANGED allVars

\* Mutant: clk++ after every accepted send.
AfterSendAlwaysIncr ==
  clk' = IF idx' = idx + 1 THEN Incr(clk) ELSE clk

\* After send(): a stall returns with clk unchanged; an accepted send
\* advances the cursor, then clk++ unless the next line has clock clk.
AfterSend ==
  clk' = IF idx' = idx + 1 /\ ~(idx' < Len(trace) /\ ClockOf(idx' + 1) = clk)
           THEN Incr(clk)
           ELSE clk

\* tick() past the wait test, with a translate() that does not close the
\* migration window.
Tick2 ==
  /\ idx < Len(trace)
  /\ ~Waits(idx + 1)
  /\ Translate(Current.vpn, Current.core)
  /\ Send(Current)
  /\ AfterSend

\* tick() past the wait test whose translate() starts the migration pass.
Tick2StartPass ==
  /\ idx < Len(trace)
  /\ ~Waits(idx + 1)
  /\ StartPass(Current.vpn, Current.core)
  /\ UNCHANGED <<sysVars, clk>>

PassVisit2 ==
  /\ PassVisit
  /\ UNCHANGED clk

\* The pass ends; translate() returns and tick() sends and advances.
Tick2EndPass ==
  /\ EndPass
  /\ Send(pending)
  /\ AfterSend

\* is_finished(): m_curr_trace_idx >= m_trace.size().
Finished == idx >= Len(trace)

Next2 == Wait \/ Tick2 \/ Tick2StartPass \/ PassVisit2 \/ Tick2EndPass

\* The simulator ticks the frontend every cycle until is_finished(); the
\* controller eventually accepts a retried request (as in CustomTraceSystem).
Fairness2 ==
  /\ WF_allVars2(Next2)
  /\ SF_allVars2((Tick2 \/ Tick2EndPass) /\ idx' = idx + 1)

Spec2 == Trace2Init /\ [][Next2]_allVars2 /\ Fairness2

-----------------------------------------------------------------------------
(* Properties.                                                              *)

\* The trace's clock column is nondecreasing, as a recorded trace is.
SortedTrace == \A i, j \in 1 .. Len(trace) : i < j => ClockOf(i) <= ClockOf(j)

\* tick() is at the wait test of a line whose clock clk has passed.
Waiting == pc = "idle" /\ idx < Len(trace) /\ Waits(idx + 1)

\* On a sorted trace clk never passes the clock of the line at the cursor,
\* so the wait branch of tick() is never taken.  It needs the same-clock
\* test of new.cpp:78 to hold clk back across a run of lines with one
\* clock, and the stalls (a cached VPN, a busy controller) and the steps of
\* the migration pass to leave clk alone.
ClockNeverPassesTrace ==
  SortedTrace /\ idx < Len(trace) => clk <= ClockOf(idx + 1)

\* A tick that waits at new.cpp:55 eventually gets past the wait: the
\* comment's "wait ... for future clk" ends once clk reaches the line.
WaitEnds == Waiting ~> ~Waiting

=============================================================================
