-------------------------- MODULE MCYmodemSession --------------------------
(***************************************************************************)
(* Sessions with three images: with a short last packet, with a long one   *)
(* that is not full, and one that fills its packets.                       *)
(***************************************************************************)
EXTENDS YmodemSession

MCSize == [i \in Images |-> CASE i = "A" -> 3 [] i = "B" -> 5 [] i = "C" -> 6]
MCFiles == [img : Images, enc : BOOLEAN]

=============================================================================
