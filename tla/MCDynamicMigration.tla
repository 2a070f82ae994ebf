------------------------ MODULE MCDynamicMigration --------------------------
(***************************************************************************)
(* Small instances of DynamicMigration for TLC.  Cores 0 and 3 prefer      *)
(* channels 0 and 3 (latency 20 against 100 across), so a page first       *)
(* touched by one core and then hammered by the other is worth migrating.  *)
(* One page per channel makes every second VPN on a channel evict.        *)
(***************************************************************************)
EXTENDS DynamicMigration

MCVPNs == 0 .. 2

MCCores == {0, 3}

=============================================================================
