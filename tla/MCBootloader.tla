---------------------------- MODULE MCBootloader ----------------------------
(***************************************************************************)
(* The bootloader with two images, one of them sent encrypted.             *)
(***************************************************************************)
EXTENDS Bootloader

MCSize == [i \in Images |-> 3]
MCFiles == {[img |-> "A", enc |-> FALSE], [img |-> "B", enc |-> TRUE]}

=============================================================================
