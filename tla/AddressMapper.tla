--------------------------- MODULE AddressMapper ---------------------------
(***************************************************************************)
(* The linear address mappers of addr_mapper/impl/linear_mappers.cpp:      *)
(* LinearMapperBase::setup, which derives the per-level bit widths and the *)
(* transaction offset from the DRAM organization, and the apply() of       *)
(* ChRaBaRoCo, RoBaRaCoCh and MOP4CLXOR, which slice a physical address    *)
(* into a hierarchy coordinate (addr_vec) with slice_lower_bits            *)
(* (base/utils.h).                                                         *)
(*                                                                         *)
(* CustomDRAMSystem::send hands every translated request to apply() and    *)
(* sends it to the controller of addr_vec[0]; the state here is that       *)
(* request, decoded or not yet decoded.  Levels are numbered as in the     *)
(* code: 0 is the channel, the column is the last level.                   *)
(***************************************************************************)
EXTENDS Integers, FiniteSets, Sequences, Functions, Bitwise

CONSTANTS
  Count,         \* m_organization.count: level -> number of units
  RowLevel,      \* m_levels("row")
  PrefetchSize,  \* m_internal_prefetch_size
  ChannelWidth,  \* m_channel_width, in bits
  Scheme,        \* the IAddrMapper implementation of the configuration
  MaxAddr,       \* max_addr of the translator, in bytes
  PageBytes      \* the translator's page size in bytes

Schemes == {"ChRaBaRoCo", "RoBaRaCoCh", "MOP4CLXOR"}

Levels == DOMAIN Count

NumLevels == Cardinality(Levels)

\* m_col_bits_idx: the column is always the last level.
ColLevel == NumLevels - 1

\* The row directly precedes the column, as in every organization of the
\* simulator; the translator's eight partitions are eight channels.
ASSUME MapperAssumption ==
  /\ Levels = 0 .. NumLevels - 1
  /\ \A l \in Levels : Count[l] \in Nat \ {0}
  /\ RowLevel = ColLevel - 1 /\ RowLevel \in Nat \ {0}
  /\ PrefetchSize \in Nat \ {0} /\ ChannelWidth \in Nat \ {0}
  /\ Scheme \in Schemes
  /\ MaxAddr \in Nat \ {0} /\ PageBytes \in Nat \ {0}

-----------------------------------------------------------------------------
(* Bit utilities (base/utils.h).                                           *)

\* Mutant: the loop tests before shifting (while (val) { val >>= 1; n++; }),
\* counting the bits instead of taking the floor of the logarithm.
RECURSIVE CalcLog2CountsBits(_)
CalcLog2CountsBits(val) ==
  IF val = 0 THEN 0 ELSE 1 + CalcLog2CountsBits(val \div 2)

\* calc_log2: n = 0; while ((val >>= 1)) n++;
RECURSIVE CalcLog2(_)
CalcLog2(val) == IF val \div 2 = 0 THEN 0 ELSE 1 + CalcLog2(val \div 2)

\* slice_lower_bits(addr, n): the low n bits, and addr shifted right by n.
SliceLowerBits(addr, n) == <<addr % 2^n, addr \div 2^n>>

\* (int)x of a 64-bit unsigned value: the low 32 bits, two's complement.
IntMax == 2147483647

IntCast(x) == IF x <= IntMax THEN x ELSE ((x + 2^31) % 2^32) - 2^31

-----------------------------------------------------------------------------
(* LinearMapperBase::setup.                                                *)

\* m_addr_bits: log2 of each level's count, the column reduced by the
\* prefetch size.
AddrBits ==
  [l \in Levels |-> CalcLog2(Count[l])
                      - (IF l = ColLevel THEN CalcLog2(PrefetchSize) ELSE 0)]

\* Mutant: tx_bytes taken as prefetch * channel width, in bits.
TxOffsetInBits == CalcLog2(PrefetchSize * ChannelWidth)

\* m_tx_offset = calc_log2(prefetch * channel_width / 8).
TxOffset == CalcLog2((PrefetchSize * ChannelWidth) \div 8)

-----------------------------------------------------------------------------
(* apply().                                                                 *)

\* What apply() starts from: addr_vec resized to -1 everywhere, and the
\* physical address shifted by the transaction offset.
Start(a) == [rest |-> a \div 2^TxOffset, vec |-> [l \in Levels |-> -1]]

\* The loop of slice_lower_bits calls of apply(): each level of order, in
\* turn, takes the low AddrBits bits of what is left of the address.
SliceLevels(st, order) ==
  LET f[k \in 0 .. Len(order)] ==
        IF k = 0 THEN st
        ELSE LET cut == SliceLowerBits(f[k - 1].rest, AddrBits[order[k]])
             IN  [rest |-> cut[2],
                  vec  |-> [f[k - 1].vec EXCEPT ![order[k]] = cut[1]]]
  IN  f[Len(order)]

\* Mutant: the loop of ChRaBaRoCo::apply counting up from level 0.
ChRaBaRoCoOrderAscending == [k \in 1 .. NumLevels |-> k - 1]

\* ChRaBaRoCo::apply: for (i = size - 1; i >= 0; i--).
ChRaBaRoCoOrder == [k \in 1 .. NumLevels |-> NumLevels - k]

ChRaBaRoCo(a) == SliceLevels(Start(a), ChRaBaRoCoOrder).vec

\* Mutant: the loop of RoBaRaCoCh::apply stopping below the row
\* (i < m_row_bits_idx).
RoBaRaCoChOrderNoRow == <<0, ColLevel>> \o [k \in 1 .. RowLevel - 1 |-> k]

\* Mutant: the column sliced before the channel.
RoBaRaCoChOrderColFirst == <<ColLevel, 0>> \o [k \in 1 .. RowLevel |-> k]

\* RoBaRaCoCh::apply: the channel, the column, then levels 1 .. row.
RoBaRaCoChOrder == <<0, ColLevel>> \o [k \in 1 .. RowLevel |-> k]

RoBaRaCoCh(a) == SliceLevels(Start(a), RoBaRaCoChOrder).vec

\* row_xor_index when the loop reaches lvl: the widths of the levels below.
XorOffset(lvl) == SumFunctionOnSet(AddrBits, 0 .. lvl - 1)

\* Mutant: the mask not cut to the level's width.
XorMaskUnmasked(col, lvl) == col \div 2^XorOffset(lvl)

\* (addr_vec[col] >> row_xor_index) & ((1 << m_addr_bits[lvl]) - 1)
XorMask(col, lvl) == (col \div 2^XorOffset(lvl)) % 2^AddrBits[lvl]

\* The levels the XOR loop changes: lvl < m_col_bits_idx, positive width.
XorLevels == {l \in 0 .. ColLevel - 1 : AddrBits[l] > 0}

\* The levels MOP4CLXOR slices between the two column parts.
MOPLowOrder == [k \in 1 .. RowLevel |-> k - 1]

\* Mutant: the high column bits assigned with = instead of +=, dropping the
\* two low column bits.
MOP4CLXOROverwrite(a) ==
  LET s0  == Start(a)
      lo  == SliceLowerBits(s0.rest, 2)
      s1  == SliceLevels([rest |-> lo[2],
                          vec  |-> [s0.vec EXCEPT ![ColLevel] = lo[1]]],
                         MOPLowOrder)
      hi  == SliceLowerBits(s1.rest, AddrBits[ColLevel] - 2)
      col == hi[1] * 4
      v   == [s1.vec EXCEPT ![ColLevel] = col, ![RowLevel] = IntCast(hi[2])]
  IN  [l \in Levels |-> IF l \in XorLevels THEN v[l] ^^ XorMask(col, l)
                                            ELSE v[l]]

\* Mutant: the levels below the row sliced before the two low column bits.
MOP4CLXORLevelsFirst(a) ==
  LET s0  == SliceLevels(Start(a), MOPLowOrder)
      lo  == SliceLowerBits(s0.rest, 2)
      hi  == SliceLowerBits(lo[2], AddrBits[ColLevel] - 2)
      col == lo[1] + hi[1] * 4
      v   == [s0.vec EXCEPT ![ColLevel] = col, ![RowLevel] = IntCast(hi[2])]
  IN  [l \in Levels |-> IF l \in XorLevels THEN v[l] ^^ XorMask(col, l)
                                            ELSE v[l]]

\* MOP4CLXOR::apply: two low column bits, the levels below the row, the
\* remaining column bits above the first two, the rest of the address as
\* the row through (int), then each level below the column XORed with bits
\* of the column.
MOP4CLXOR(a) ==
  LET s0  == Start(a)
      lo  == SliceLowerBits(s0.rest, 2)
      s1  == SliceLevels([rest |-> lo[2],
                          vec  |-> [s0.vec EXCEPT ![ColLevel] = lo[1]]],
                         MOPLowOrder)
      hi  == SliceLowerBits(s1.rest, AddrBits[ColLevel] - 2)
      col == s1.vec[ColLevel] + hi[1] * 4
      v   == [s1.vec EXCEPT ![ColLevel] = col, ![RowLevel] = IntCast(hi[2])]
  IN  [l \in Levels |-> IF l \in XorLevels THEN v[l] ^^ XorMask(col, l)
                                            ELSE v[l]]

\* The configured mapper's apply().
Decode(a) ==
  CASE Scheme = "ChRaBaRoCo" -> ChRaBaRoCo(a)
    [] Scheme = "RoBaRaCoCh" -> RoBaRaCoCh(a)
    [] Scheme = "MOP4CLXOR"  -> MOP4CLXOR(a)

-----------------------------------------------------------------------------
(* The request being decoded.                                               *)

\* The physical addresses the translator produces: below max_addr.
Addrs == 0 .. MaxAddr - 1

\* addr_vec before apply(): empty.
NoVec == <<>>

VARIABLE req

Init == \E a \in Addrs : req = [addr |-> a, vec |-> NoVec]

\* send() calls m_addr_mapper->apply(req).
Apply ==
  /\ req.vec = NoVec
  /\ req' = [req EXCEPT !.vec = Decode(req.addr)]

\* The next translated request reaches send().
NextRequest(a) ==
  /\ req.vec # NoVec
  /\ req' = [addr |-> a, vec |-> NoVec]

Next == Apply \/ \E a \in Addrs : NextRequest(a)

Spec == Init /\ [][Next]_req

-----------------------------------------------------------------------------
(* Properties.                                                              *)

Decoded == req.vec # NoVec

\* The number of units of a level, the column counted in prefetch units.
LevelSize(l) == IF l = ColLevel THEN Count[l] \div PrefetchSize ELSE Count[l]

\* Every coordinate apply() writes is an index the DRAM model accepts at
\* its level: no level left at -1, none at or beyond its count.  The
\* controllers index their banks and rows with these values.
CoordinatesInRange ==
  Decoded => \A l \in Levels : req.vec[l] \in 0 .. LevelSize(l) - 1

\* The spec's decoder round-trip law (section 8): for ChRaBaRoCo and
\* RoBaRaCoCh, putting the coordinate back together from the low bits up,
\* each level with its width, gives the shifted physical address.  The
\* layouts are the spec's (section 4.2): ChRaBaRoCo has the column lowest
\* and the channel highest; RoBaRaCoCh the channel, then the column, then
\* levels 1 up to the row.
SpecLowToHigh ==
  IF Scheme = "ChRaBaRoCo"
    THEN [k \in 1 .. NumLevels |-> ColLevel + 1 - k]
    ELSE <<0, ColLevel>> \o [k \in 1 .. NumLevels - 2 |-> k]

\* The transaction offset of spec section 3.
SpecTxOffset == CalcLog2((PrefetchSize * ChannelWidth) \div 8)

Reassemble(vec, order) ==
  LET base(k) == SumFunctionOnSet([j \in 1 .. Len(order) |-> AddrBits[order[j]]],
                                  1 .. k - 1)
  IN  SumFunctionOnSet([k \in 1 .. Len(order) |-> vec[order[k]] * 2^base(k)],
                       1 .. Len(order))

RoundTrip ==
  Decoded /\ Scheme # "MOP4CLXOR"
    => Reassemble(req.vec, SpecLowToHigh) = req.addr \div 2^SpecTxOffset

\* The spec's column law for MOP4CLXOR (section 8): the two low bits of
\* the column are the two low bits of the shifted address, the XOR mixing
\* notwithstanding.
ColumnLowBits ==
  Decoded => req.vec[ColLevel] % 4 = (req.addr \div 2^TxOffset) % 4

\* The DRAM channel a request is sent to (addr_vec[0]) is the channel
\* partition the translator allocated its page in, ppn / pages_per_channel
\* (Dynamic_migration::init and translate): migrating a page to the
\* partition of the core's nearest channel moves it to that channel.
PagesPerPartition == (MaxAddr \div PageBytes) \div 8

ChannelMatchesPartition ==
  Decoded => req.vec[0] = (req.addr \div PageBytes) \div PagesPerPartition

=============================================================================
