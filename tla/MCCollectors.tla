---------------------------- MODULE MCCollectors ----------------------------
(* Instances of Collectors for TLC.                                        *)
EXTENDS Collectors, TLC

CONSTANTS s1, s2, r1, r2, x1, x2

MCServers   == {s1}
MCServers2  == {s1, s2}
MCRuns      == {r1, r2}
MCSessions  == {x1, x2}
=============================================================================
