--------------------------- MODULE NetworkProfile ---------------------------
(***************************************************************************)
(* The network profile of a route and what it resolves to                  *)
(* (src/include/oamr/audio/audio_types.hpp): frame, jitter buffer, error   *)
(* correction and drop policy.  Times are in milliseconds.                 *)
(***************************************************************************)
EXTENDS Integers

Qualities == {"low", "medium", "high"}
Modes == {"stable", "auto", "low-latency"}
MaxLatencies == {40, 60, 100, 150}

\* NetworkProfile as network_profile_from and parse_network_profile accept it.
NetworkProfiles == [quality: Qualities, max_latency: MaxLatencies, mode: Modes]

Clamp(x, low, high) == IF x < low THEN low ELSE IF x > high THEN high ELSE x

FrameMs(p) ==
    CASE p.mode = "low-latency" -> 5
      [] p.mode = "auto"        -> IF p.max_latency <= 60 THEN 5 ELSE 10
      [] p.mode = "stable"      -> IF p.max_latency <= 60 THEN 10 ELSE 20

\* Capture and rendering are given the frame and 10 ms.
ReserveMs(p) == FrameMs(p) + 10
AvailableMs(p) == IF p.max_latency > ReserveMs(p) THEN p.max_latency - ReserveMs(p) ELSE 5

\* Mutant of JitterMs: the buffer takes all that is left of the budget and more.
JitterUnreserved(p) == Clamp(p.max_latency - FrameMs(p), 5, 100)

JitterMs(p) ==
    CASE p.mode = "stable"      -> Clamp(AvailableMs(p), 15, 100)
      [] p.mode = "auto"        -> Clamp((AvailableMs(p) * 3) \div 4, 10, 60)
      [] p.mode = "low-latency" -> Clamp(AvailableMs(p) \div 2, 5, 25)

\* resolve_network_profile of a valid profile; opus_bitrate_bps follows the
\* quality one to one and is left out.
Resolved(p) == [frame |-> FrameMs(p), jitter |-> JitterMs(p),
                fec |-> p.mode # "low-latency", drop |-> p.mode # "stable"]
=============================================================================
