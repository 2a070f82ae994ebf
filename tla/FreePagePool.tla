---------------------------- MODULE FreePagePool ----------------------------
(***************************************************************************)
(* What the partitioned free-page allocator promises (spec section 4.3),  *)
(* seen through the set of free pages and the set of mapped keys.         *)
(* allocate_on(ch) for key v either takes a free page of ch's partition,  *)
(* or, when the partition has no free page, evict_and_replace(ch) erases  *)
(* one key's mapping and hands the victim page straight back, so the set  *)
(* of free pages is unchanged.  The counts and the bitmaps are not part  *)
(* of the promise; neither is which key the eviction erases.              *)
(***************************************************************************)
CONSTANTS
  Keys,     \* the VPNs
  Chans,    \* the channels, one partition each
  Pages,    \* all physical pages
  Part(_)   \* the pages of a channel's partition

VARIABLES
  freePages,  \* the pages no allocation holds
  mapped      \* the keys that have a page

poolVars == <<freePages, mapped>>

Init ==
  /\ freePages = Pages
  /\ mapped = {}

\* allocate_on(ch) with a free page: one free page of ch leaves the pool.
Take(ch, v) ==
  \E p \in Part(ch) \cap freePages :
     /\ freePages' = freePages \ {p}
     /\ mapped' = mapped \cup {v}

\* allocate_on(ch) on a full partition: one key loses its mapping, v gets
\* the freed page back at once.
EvictAndReplace(ch, v) ==
  /\ Part(ch) \cap freePages = {}
  /\ freePages' = freePages
  /\ \E u \in Keys : mapped' = (mapped \ {u}) \cup {v}

Next == \E ch \in Chans, v \in Keys : Take(ch, v) \/ EvictAndReplace(ch, v)

Spec == Init /\ [][Next]_poolVars

=============================================================================
