----------------------- MODULE MCCustomTraceSystem --------------------------
(***************************************************************************)
(* Traces for CustomTraceSystem.  Five distinct VPNs overflow the four    *)
(* top-cache slots; a VPN that comes back after a first access is the     *)
(* common case of any real trace.                                          *)
(***************************************************************************)
EXTENDS CustomTraceSystem

MCVPNs == 0 .. 5

MCCores == {0, 3}

R(v, c) == [vpn |-> v, core |-> c]

\* Five distinct pages, each once.
DistinctTrace == <<R(1, 0), R(2, 3), R(3, 0), R(4, 3), R(5, 0)>>

\* A page touched again by the other core.
RepeatTrace == <<R(1, 0), R(1, 3)>>

\* Six distinct pages: the sixth competes for a full cache.
LongTrace == <<R(1, 0), R(2, 3), R(3, 3), R(4, 0), R(5, 3), R(0, 0)>>

MCTraces == {DistinctTrace, RepeatTrace, LongTrace}

=============================================================================
