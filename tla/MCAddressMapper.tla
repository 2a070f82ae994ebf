-------------------------- MODULE MCAddressMapper ---------------------------
(***************************************************************************)
(* A small DDR4-shaped organization: 8 channels (the translator's eight  *)
(* partitions), 2 ranks, 1 bank group (a zero-width level, which the     *)
(* MOP4CLXOR loop skips), 2 banks, 2 rows and 32 columns with a prefetch *)
(* of 2, on an 8-bit channel: 3 + 1 + 0 + 1 + 1 + 4 address bits above a *)
(* 1-bit transaction offset.  max_addr is the organization's capacity;   *)
(* pages of 16 bytes give 16 pages per partition.  The 4 column bits     *)
(* reach past the channel's 3, so the XOR mixes into two levels.          *)
(***************************************************************************)
EXTENDS AddressMapper

MCCount == [l \in 0 .. 5 |-> <<8, 2, 1, 2, 2, 32>>[l + 1]]

=============================================================================
