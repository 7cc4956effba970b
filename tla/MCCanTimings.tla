---------------------------- MODULE MCCanTimings ----------------------------
(***************************************************************************)
(* CanTimings for the 60 MHz clock of the board: every bit rate with a     *)
(* ratio of clock to rate up to 300, and ratios around the ends of the     *)
(* range of the prescaler.                                                 *)
(***************************************************************************)
EXTENDS CanTimings

Clock == 60000000

Ratios == (6 .. 300) \cup (2040 .. 2070) \cup {600} \cup (6390 .. 6410)

MCClocks == {Clock}

MCBitrates == {Clock \div r : r \in Ratios}

=============================================================================
