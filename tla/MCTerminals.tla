---------------------------- MODULE MCTerminals ----------------------------
(* Instances of Terminals for TLC.                                         *)
EXTENDS Terminals, TLC

CONSTANTS e1, e2

MCEffects == {e1, e2}

\* Effects are interchangeable; only safety runs use this.
Symmetry == Permutations(MCEffects)
=============================================================================
