----------------------------- MODULE MCTurnSlot -----------------------------
(* A small instance of TurnSlot for TLC: turns are symmetric. *)
EXTENDS TurnSlot, TLC

Symmetry == Permutations(Turns)
=============================================================================
