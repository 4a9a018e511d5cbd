------------------------------- MODULE MCOath -------------------------------
(* Oath with two names and two access keys. *)
EXTENDS Oath, TLC

CONSTANTS alice, bob, old, new

MCName == {alice, bob}
MCAccessKey == {old, new}
Symmetry == Permutations(MCName) \cup Permutations(MCAccessKey)
=============================================================================
