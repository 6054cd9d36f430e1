------------------------------ MODULE MCPacket ------------------------------
(***************************************************************************)
(* An instance of Packet for TLC: four byte values, so that a length of up *)
(* to three fits in one byte and 0 is no start byte.                       *)
(***************************************************************************)
EXTENDS Packet, FiniteSetsExt

\* A checksum that changes with every byte and with every swap of neighbours.
MCCrc(p) ==
  << SumSet({i * 8 + p[i] : i \in DOMAIN p}) % Radix,
     (Len(p) + p[1] + 2 * p[Len(p)]) % Radix >>
==============================================================================
