---------------------------- MODULE MCConnection ----------------------------
(* Instances of Connection for TLC.                                        *)
EXTENDS Connection, TLC

CONSTANTS s1, h1, k1, k2, a1, a2

MCServers   == {s1}
MCHosts     == {h1}
MCKeys      == {k1, k2}
MCKeys1     == {k1}
NoServers   == {}
MCAttempts  == {a1, a2}

MCHostOf    == [s \in {s1} |-> h1]

\* Attempts and keys are interchangeable; only safety runs use this.
Symmetry == Permutations(MCAttempts) \cup Permutations(MCKeys)
=============================================================================
