---------------------------- MODULE MCTerminals ----------------------------
(* Terminals for TLC: addresses, terminals and contents are interchangeable. *)
EXTENDS Terminals, TLC

MCSymmetry ==
  Permutations(Block) \cup Permutations(Terminal) \cup Permutations(Meaning)
=============================================================================
