---------------------------- MODULE TopCacheSet ----------------------------
(***************************************************************************)
(* What the top cache of CustomDRAMSystem promises (spec section 4.5 and  *)
(* the invariants of section 8): a set of at most Capacity keys and a     *)
(* lifetime access count per key.  An access counts the key; a key not    *)
(* in the set joins it while there is room, and otherwise replaces a key  *)
(* of smallest count when its own count is strictly larger.  Which of     *)
(* several smallest keys goes is left open: the order of the vector is   *)
(* not part of the promise.                                                *)
(***************************************************************************)
EXTENDS Naturals, FiniteSets

CONSTANTS
  Keys,      \* the VPNs
  Capacity,  \* the number of slots
  MaxCount   \* saturation bound of the counts

VARIABLES
  top,   \* the cached keys
  cnt    \* the lifetime access counts

vars == <<top, cnt>>

Init ==
  /\ top = {}
  /\ cnt = [k \in Keys |-> 0]

\* The keys of smallest count in s.
Smallest(s, c) == {m \in s : \A k \in s : c[m] <= c[k]}

\* One access of v, counted first.
Access(v) ==
  /\ cnt' = [cnt EXCEPT ![v] = IF @ < MaxCount THEN @ + 1 ELSE @]
  /\ \/ v \in top /\ top' = top
     \/ v \notin top /\ Cardinality(top) < Capacity /\ top' = top \cup {v}
     \/ /\ v \notin top
        /\ Cardinality(top) >= Capacity
        /\ \E m \in Smallest(top, cnt') :
              top' = IF cnt'[v] > cnt'[m] THEN (top \ {m}) \cup {v} ELSE top

Next == \E v \in Keys : Access(v)

Spec == Init /\ [][Next]_vars

=============================================================================
