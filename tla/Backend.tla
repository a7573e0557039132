------------------------------- MODULE Backend -------------------------------
(* The parts of the system that keep no connection: inventory, metric store,  *)
(* gateway, approvals and classifier. In the program each is an object or a   *)
(* set of tables of its own, and none calls another except the gateway, which *)
(* reads the store. A behaviour therefore exercises one part, `part`, and the *)
(* others keep their initial state.                                           *)
EXTENDS Inventory, Gateway, Classifier

CONSTANTS
    Budget,     \* bound: metric store calls, per part
    LiveAtFirst \* servers that have a row when a part starts

VARIABLE part

backendVars == <<part, inventoryVars, metricVars, approvalVars, gatewayVars, classifierVars>>

(* The parts: the inventory's commands, notes and ledger, snapshots, the     *)
(* charts over the metric store, health and protocol of the gateway,         *)
(* requests, tokens, and the assessment of command lines.                    *)
Parts == {"inventory", "notes", "snapshots", "charts", "health", "protocol", "gate", "tokens", "assess"}

ASSUME BackendAssumption ==
    /\ Budget \in [Parts -> 0..MaxCalls]
    /\ LiveAtFirst \in [Parts -> SUBSET Servers]

Init ==
    /\ part \in Parts
    /\ InventoryInit /\ MetricsInit /\ ApprovalsInit /\ GatewayInit /\ ClassifierInit
    /\ budget = Budget[part] /\ live = LiveAtFirst[part]
    /\ part \notin {"gate", "tokens", "health"} => wall = 0
    /\ part # "protocol" => role = "observer" /\ attached

InventoryPart ==
    /\ \/ part = "inventory" /\ RowNext
       \/ part = "notes" /\ (PlainRowNext \/ NoteNext)
       \/ part = "snapshots" /\ (PlainRowNext \/ SnapshotNext)
    /\ UNCHANGED <<part, metricVars, approvalVars, gatewayVars, classifierVars>>

ChartsPart ==
    /\ part = "charts" /\ MetricsNext
    /\ UNCHANGED <<part, inventoryVars, approvalVars, gatewayVars, classifierVars>>

GatewayPart ==
    /\ (part = "health" /\ HealthNext) \/ (part = "protocol" /\ ProtocolNext)
    /\ UNCHANGED <<part, inventoryVars, classifierVars>>

ApprovalsPart ==
    /\ (part = "gate" /\ GateNext) \/ (part = "tokens" /\ TokenNext)
    /\ UNCHANGED <<part, inventoryVars, metricVars, gatewayVars, classifierVars>>

ClassifierPart ==
    /\ part = "assess" /\ ClassifierNext
    /\ UNCHANGED <<part, inventoryVars, metricVars, approvalVars, gatewayVars>>

Next == InventoryPart \/ ChartsPart \/ GatewayPart \/ ApprovalsPart \/ ClassifierPart

Spec == Init /\ [][Next]_backendVars

(* Every part keeps the types and, for the tables, the constraints of the    *)
(* schema: unique aliases, and no note, snapshot, sample or rollup of a      *)
(* server that has no row (the cascades of 0001_initial.sql).                *)
TypeOK ==
    /\ part \in Parts
    /\ InventoryTypeOK
    /\ MetricsTypeOK
    /\ ApprovalsTypeOK
    /\ GatewayTypeOK
    /\ ClassifierTypeOK
=============================================================================
