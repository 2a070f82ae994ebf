---------------------------- MODULE MCAllMappers ----------------------------
(***************************************************************************)
(* The three linear mappers on the organization of MCAddressMapper, in one *)
(* run.  The configured mapper is fixed for a whole behaviour, as the      *)
(* simulator builds one IAddrMapper from its configuration; `scheme` holds *)
(* it, and each behaviour decodes requests with that scheme only.  The     *)
(* constant Scheme of the extended module is unused here.                 *)
(***************************************************************************)
EXTENDS MCAddressMapper

Mapper(s) == INSTANCE AddressMapper WITH Scheme <- s

VARIABLE scheme

mvars == <<req, scheme>>

MInit == scheme \in Schemes /\ Init

MNext == \E s \in Schemes : scheme = s /\ Mapper(s)!Next /\ UNCHANGED scheme

MSpec == MInit /\ [][MNext]_mvars

\* Every coordinate written by the configured mapper is in range at its
\* level (Mapper(s)!CoordinatesInRange), for each of the three mappers.
AllCoordinatesInRange == \A s \in Schemes : scheme = s => Mapper(s)!CoordinatesInRange

\* The spec's round-trip law holds for ChRaBaRoCo and RoBaRaCoCh.
AllRoundTrip == \A s \in Schemes : scheme = s => Mapper(s)!RoundTrip

\* MOP4CLXOR keeps the two low transaction bits in the column.
MOPColumnLowBits == scheme = "MOP4CLXOR" => Mapper("MOP4CLXOR")!ColumnLowBits

\* The decode of every address by every mapper, computed once.
DecodeTables == [s \in Schemes |-> [a \in Addrs |-> Mapper(s)!Decode(a)]]

\* No mapper, MOP4CLXOR's XOR mixing included, sends two transactions to
\* one DRAM location: addresses of different transactions (different
\* above the transaction offset) decode to different coordinates.
AllDecodeInjective ==
  Decoded =>
    \A b \in Addrs :
       b \div 2^SpecTxOffset # req.addr \div 2^SpecTxOffset
         => DecodeTables[scheme][b] # req.vec

\* Under the default ChRaBaRoCo, the controller of a request is the
\* translator's channel partition of its page.
ChRaBaRoCoChannelMatches ==
  scheme = "ChRaBaRoCo" => Mapper("ChRaBaRoCo")!ChannelMatchesPartition

=============================================================================
