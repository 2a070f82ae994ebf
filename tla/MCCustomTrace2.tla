------------------------- MODULE MCCustomTrace2 -----------------------------
(***************************************************************************)
(* Clocked traces for CustomTrace2: the request columns of                 *)
(* MCCustomTraceSystem with a clock column, and one more trace.  The      *)
(* sorted columns have runs of equal clocks, gaps of more than one cycle  *)
(* and a first line at a clock above 0; BackwardTrace goes back in time.  *)
(***************************************************************************)
EXTENDS CustomTrace2, TLC

MCVPNs == 0 .. 5

MCCores == {0, 3}

R(v, c) == [vpn |-> v, core |-> c]

DistinctTrace == <<R(1, 0), R(2, 3), R(3, 0), R(4, 3), R(5, 0)>>

RepeatTrace == <<R(1, 0), R(1, 3)>>

LongTrace == <<R(1, 0), R(2, 3), R(3, 3), R(4, 0), R(5, 3), R(0, 0)>>

\* Four distinct pages whose clocks go back after a gap.
BackwardTrace == <<R(2, 0), R(1, 3), R(0, 3), R(4, 0)>>

MCTraces == {DistinctTrace, RepeatTrace, LongTrace, BackwardTrace}

MCClocks ==
  (DistinctTrace :> <<0, 0, 1, 3, 3>>) @@
  (RepeatTrace :> <<1, 1>>) @@
  (LongTrace :> <<0, 1, 1, 2, 2, 4>>) @@
  (BackwardTrace :> <<0, 2, 2, 1>>)

MCClockBound == 5

=============================================================================
