------------------------- MODULE CoreChannelLatency -------------------------
(***************************************************************************)
(* The static 8x8 core-to-channel latency matrix of base/utils.cpp         *)
(* (initialize_core_channel_latency) and the two argmin scans the         *)
(* translator runs over one of its rows: find_best_channel and the        *)
(* std::min_element call of estimate_latency_gain.                         *)
(***************************************************************************)
EXTENDS Integers

\* The code hard-codes eight cores and eight channels (utils.h, line 34).
NumChannels == 8

Channels == 0 .. NumChannels - 1

CoreIds == 0 .. NumChannels - 1

\* latency_pattern[5] = {20, 30, 60, 100, 130}; a TLA+ sequence is 1-based.
LatencyPattern == <<20, 30, 60, 100, 130>>

\* |core - ch|
Distance(core, ch) == IF core >= ch THEN core - ch ELSE ch - core

\* core_channel_latency_matrix[core][ch]: the pattern by distance, mirrored
\* beyond distance 4.
Latency(core, ch) ==
  IF Distance(core, ch) < 5
    THEN LatencyPattern[Distance(core, ch) + 1]
    ELSE LatencyPattern[(8 - Distance(core, ch)) + 1]

\* find_best_channel(core): the scan keeps the first channel with a
\* strictly smaller latency, so the result is the least-latency channel of
\* lowest index.  std::min_element returns the same element.
IsBestChannel(core, ch) ==
  \A o \in Channels :
     /\ Latency(core, ch) <= Latency(core, o)
     /\ Latency(core, o) = Latency(core, ch) => ch <= o

BestChannel(core) == CHOOSE ch \in Channels : IsBestChannel(core, ch)

=============================================================================
