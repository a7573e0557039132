-------------------------- MODULE MCServiceControl --------------------------
(* Instances of ServiceControl for TLC.                                    *)
EXTENDS ServiceControl, TLC

CONSTANTS s1, c1, c2, o1, o2

MCServers   == {s1}
MCCommands  == {c1, c2}
MCCommands1 == {c1}
MCOps       == {o1, o2}
=============================================================================
