---------------------------- MODULE ServiceControl ----------------------------
(***************************************************************************)
(* Starting and stopping systemd units: the Services screen                *)
(* (features/services/ServiceManager.tsx), the commands behind it          *)
(* (commands/services.rs) and the audit ledger (kyvon-storage/audit.rs).   *)
(*                                                                         *)
(* An operation o is one invocation of start_service or stop_service; a    *)
(* command is a verb and a unit.  The screen is one React component: its   *)
(* handlers run to their next await, and what they awaited may come back   *)
(* in any order, after a handler of another click or after the component   *)
(* is gone.  The dialog does not hold the keyboard focus, so the controls  *)
(* behind it stay usable.  What a unit's state is makes no difference to   *)
(* the steps and is left out.                                              *)
(***************************************************************************)
EXTENDS Naturals

CONSTANTS Servers,   \* server ids
          Commands,  \* a verb and a unit
          Ops,       \* start_service and stop_service calls (bounds how many)
          MaxCalls,  \* bound: outstanding listings per server, assessments per command
          None

Outcome == {"success", "failure", "unverified"}

ASSUME ServiceAssumption ==
    /\ None \notin Servers \cup Commands \cup Ops \cup Outcome
    /\ MaxCalls \in Nat \ {0}

VARIABLES
    \* the screen
    selected,    \* the server of the URL; None while the screen is not mounted
    listed,      \* the inventory as it was when the screen was mounted
    shown,       \* the server whose unit list is shown
    refreshing,
    pending,     \* the command the dialog is about
    assessment,  \* the command whose assessment the dialog holds
    assessing,
    executing,
    lists,       \* outstanding list_services calls
    asks,        \* outstanding assess_service_action calls
    awaited,     \* operations whose reply the screen waits for
    \* the commands
    op,          \* [Ops -> OpPc]
    of,          \* the server of an operation
    cmd,         \* its command
    outcome,     \* what it is going to record
    sessions,    \* [Servers -> Session]: the session map and its transports
    linked,      \* operations whose transport is up
    \* the database
    inventory,   \* servers with a row
    ledger,      \* audit_events: the outcome recorded for an operation
    refused,     \* operations whose record could not be written
    \* the host
    ran          \* operations whose command the host ran

dialogVars == <<pending, assessment, assessing, executing>>
viewVars   == <<selected, listed, shown, refreshing, dialogVars, lists, asks, awaited>>
opVars     == <<op, of, cmd, outcome>>
dbVars     == <<inventory, ledger, refused>>
linkVars   == <<sessions, linked>>
vars == <<viewVars, opVars, linkVars, dbVars, ran>>

OpPc == {"idle", "sent", "exec", "verify", "record", "ok", "err", "done"}
ExitStatus == {"zero", "nonzero", "none"}
Session == {"none", "up", "dead"}

InFlight(o) == op[o] \in {"sent", "exec", "verify", "record", "ok", "err"}

TypeOK ==
    /\ selected \in Servers \cup {None}
    /\ listed \subseteq Servers
    /\ shown \in Servers \cup {None}
    /\ refreshing \in BOOLEAN
    /\ pending \in Commands \cup {None}
    /\ assessment \in Commands \cup {None}
    /\ assessing \in BOOLEAN
    /\ executing \in BOOLEAN
    /\ lists \in [Servers -> 0..MaxCalls]
    /\ asks \in [Commands -> 0..MaxCalls]
    /\ awaited \subseteq Ops
    /\ op \in [Ops -> OpPc]
    /\ of \in [Ops -> Servers \cup {None}]
    /\ cmd \in [Ops -> Commands \cup {None}]
    /\ \A o \in Ops : InFlight(o) => of[o] # None /\ cmd[o] # None
    /\ outcome \in [Ops -> Outcome \cup {None}]
    /\ sessions \in [Servers -> Session]
    /\ linked \subseteq Ops
    /\ inventory \subseteq Servers
    /\ ledger \in [Ops -> Outcome \cup {None}]
    /\ refused \subseteq Ops
    /\ ran \subseteq Ops

NoLists == [s \in Servers |-> 0]
NoAsks  == [c \in Commands |-> 0]

Init ==
    /\ selected = None /\ listed = {} /\ shown = None /\ refreshing = FALSE
    /\ pending = None /\ assessment = None
    /\ assessing = FALSE /\ executing = FALSE
    /\ lists = NoLists /\ asks = NoAsks /\ awaited = {}
    /\ op = [o \in Ops |-> "idle"]
    /\ of = [o \in Ops |-> None]
    /\ cmd = [o \in Ops |-> None]
    /\ outcome = [o \in Ops |-> None]
    /\ sessions = [s \in Servers |-> "none"]
    /\ linked = {}
    /\ inventory = Servers
    /\ ledger = [o \in Ops |-> None]
    /\ refused = {}
    /\ ran = {}

-------------------------------------------------------------------------------
(* The screen.                                                             *)

\* The component is gone, and what it awaited with it.
Unmount ==
    /\ selected' = None /\ listed' = {} /\ shown' = None /\ refreshing' = FALSE
    /\ pending' = None /\ assessment' = None
    /\ assessing' = FALSE /\ executing' = FALSE
    /\ lists' = NoLists /\ asks' = NoAsks /\ awaited' = {}

\* load(s), up to its await.  At the bound the call is merged with one that is
\* outstanding.
Load(s) ==
    /\ refreshing' = TRUE
    /\ lists' = [lists EXCEPT ![s] = IF @ < MaxCalls THEN @ + 1 ELSE @]

\* The screen is mounted, or the URL names another server.
Select(s) ==
    /\ s # selected
    /\ selected' = s
    /\ listed' = IF selected = None THEN inventory ELSE listed
    /\ s \in listed'
    /\ Load(s)
    /\ UNCHANGED <<shown, dialogVars, asks, awaited, opVars, linkVars, dbVars, ran>>

\* The operator goes to another screen: replies to this one change nothing.
Leave ==
    /\ selected # None
    /\ Unmount
    /\ UNCHANGED <<opVars, linkVars, dbVars, ran>>

Refresh ==
    /\ selected # None /\ ~refreshing
    /\ Load(selected)
    /\ UNCHANGED <<selected, listed, shown, dialogVars, asks, awaited, opVars, linkVars,
                   dbVars, ran>>

\* list_services answers: it reads the units over the session, or fails.
ListArrives(s) ==
    /\ lists[s] > 0
    /\ lists' = [lists EXCEPT ![s] = @ - 1]
    /\ refreshing' = FALSE
    /\ shown' \in {None} \cup IF sessions[s] = "up" THEN {s} ELSE {}
    /\ UNCHANGED <<selected, listed, dialogVars, asks, awaited, opVars, linkVars,
                   dbVars, ran>>

\* Start or Stop of a listed unit, up to the await of the assessment.
Initiate(c) ==
    /\ shown # None /\ asks[c] < MaxCalls
    /\ pending' = c
    /\ assessment' = None
    /\ assessing' = TRUE
    /\ asks' = [asks EXCEPT ![c] = @ + 1]
    /\ UNCHANGED <<selected, listed, shown, refreshing, executing, lists, awaited, opVars,
                   linkVars, dbVars, ran>>

\* assess_service_action answers; whichever dialog is open takes it.
Assessed(c) ==
    /\ asks[c] > 0
    /\ asks' = [asks EXCEPT ![c] = @ - 1]
    /\ assessing' = FALSE
    /\ assessment' = c
    /\ UNCHANGED <<selected, listed, shown, refreshing, pending, executing, lists, awaited,
                   opVars, linkVars, dbVars, ran>>

CloseModal ==
    /\ pending # None /\ ~executing
    /\ pending' = None
    /\ assessment' = None
    /\ UNCHANGED <<selected, listed, shown, refreshing, assessing, executing, lists, asks,
                   awaited, opVars, linkVars, dbVars, ran>>

\* Mutants: confirm does not look at what is pending; Execute is not disabled
\* while an operation runs.
MayConfirm_Unchecked == selected # None /\ assessment # None /\ ~executing
MayConfirm_Again == pending # None /\ selected # None /\ assessment # None

\* Execute is enabled by any assessment.
MayConfirm == pending # None /\ selected # None /\ assessment # None /\ ~executing

\* confirm, up to the await of the operation.
Confirm(o) ==
    /\ op[o] = "idle" /\ MayConfirm
    /\ executing' = TRUE
    /\ awaited' = awaited \cup {o}
    /\ op' = [op EXCEPT ![o] = "sent"]
    /\ of' = [of EXCEPT ![o] = selected]
    /\ cmd' = [cmd EXCEPT ![o] = pending]
    /\ UNCHANGED <<selected, listed, shown, refreshing, pending, assessment, assessing,
                   lists, asks, outcome, linkVars, dbVars, ran>>

\* The operations of R are over: their locals and their hold on a session go.
Drop(R) ==
    /\ op' = [o \in Ops |-> IF o \in R THEN "done" ELSE op[o]]
    /\ of' = [o \in Ops |-> IF o \in R THEN None ELSE of[o]]
    /\ cmd' = [o \in Ops |-> IF o \in R THEN None ELSE cmd[o]]
    /\ outcome' = [o \in Ops |-> IF o \in R THEN None ELSE outcome[o]]
    /\ linked' = linked \ R

\* The operation came back.  Success closes the dialog and lists the server it
\* was confirmed for.
ControlReturns(o) ==
    /\ op[o] \in {"ok", "err"}
    /\ Drop({o})
    /\ awaited' = awaited \ {o}
    /\ IF o \in awaited
       THEN /\ executing' = FALSE
            /\ IF op[o] = "ok"
               THEN pending' = None /\ assessment' = None /\ Load(of[o])
               ELSE UNCHANGED <<pending, assessment, refreshing, lists>>
       ELSE UNCHANGED <<executing, pending, assessment, refreshing, lists>>
    /\ UNCHANGED <<selected, listed, shown, assessing, asks, sessions, dbVars, ran>>

-------------------------------------------------------------------------------
(* control: execute, verify, record.                                       *)

Goto(o, pc) == op' = [op EXCEPT ![o] = pc]

\* Mutant: a failed execution returns without a record.
RecordAs_OnlyResults(o, out) ==
    /\ outcome' = [outcome EXCEPT ![o] = out]
    /\ Goto(o, IF out = "failure" THEN "err" ELSE "record")

RecordAs(o, out) ==
    /\ outcome' = [outcome EXCEPT ![o] = out]
    /\ Goto(o, "record")

NoSession(o) ==
    /\ op[o] = "sent" /\ sessions[of[o]] = "none"
    /\ Goto(o, "err")
    /\ UNCHANGED <<viewVars, of, cmd, outcome, linkVars, dbVars, ran>>

\* The verb is one of the two commands' and a unit has a name, so unit_command accepts.
\* The session is taken from the map, whether or not its transport is up.
Begin(o) ==
    /\ op[o] = "sent" /\ sessions[of[o]] # "none"
    /\ Goto(o, "exec")
    /\ linked' = IF sessions[of[o]] = "up" THEN linked \cup {o} ELSE linked
    /\ UNCHANGED <<viewVars, of, cmd, outcome, sessions, dbVars, ran>>

\* exec fails before the command is sent.
ExecError(o) ==
    /\ op[o] = "exec" /\ o \notin ran
    /\ RecordAs(o, "failure")
    /\ UNCHANGED <<viewVars, of, cmd, linkVars, dbVars, ran>>

HostRuns(o) ==
    /\ op[o] = "exec" /\ o \in linked
    /\ ran' = ran \cup {o}
    /\ UNCHANGED <<viewVars, opVars, linkVars, dbVars>>

\* Mutant: only a status other than zero is a failure.
Success_NotNonzero(status) == status # "nonzero"

\* CommandOutput::success.
Success(status) == status = "zero"

\* Mutant: the channel is read until it reports a status.
ChannelEnds_OnStatus(o, status) ==
    /\ status = "zero" => o \in ran
    /\ o \in linked

\* The statuses a channel may end with.  Without one the command may have run or
\* not: it was killed, the link is gone, or EOF came first.
ChannelEnds(o, status) ==
    /\ status = "zero" => o \in ran
    /\ status # "none" => o \in linked

ExecEnds(o, status) ==
    /\ op[o] = "exec" /\ ChannelEnds(o, status)
    /\ IF Success(status) THEN Goto(o, "verify") /\ UNCHANGED outcome
                          ELSE RecordAs(o, "failure")
    /\ UNCHANGED <<viewVars, of, cmd, linkVars, dbVars, ran>>

\* verify: the unit is listed, in whatever state, or it could not be read.
Verified(o) ==
    /\ op[o] = "verify"
    /\ \/ o \in linked /\ RecordAs(o, "success")
       \/ RecordAs(o, "unverified")
    /\ UNCHANGED <<viewVars, of, cmd, linkVars, dbVars, ran>>

\* record: the insert needs the server's row; an error is only logged.
Record(o) ==
    /\ op[o] = "record"
    /\ Goto(o, IF outcome[o] = "success" THEN "ok" ELSE "err")
    /\ \/ /\ of[o] \in inventory
          /\ ledger' = [ledger EXCEPT ![o] = outcome[o]]
          /\ UNCHANGED refused
       \/ /\ refused' = refused \cup {o}
          /\ UNCHANGED ledger
    /\ UNCHANGED <<viewVars, of, cmd, outcome, linkVars, inventory, ran>>

-------------------------------------------------------------------------------
(* Sessions, the inventory and the process.                                *)

\* connect lands a session, which may outlive the server's row.
Connected(s) ==
    /\ sessions[s] # "up"
    /\ sessions' = [sessions EXCEPT ![s] = "up"]
    /\ UNCHANGED <<viewVars, opVars, linked, dbVars, ran>>

\* The transport fails, or disconnect closes it and removes the entry.
LinkLost(s, entry) ==
    /\ sessions[s] # "none" /\ entry \in {"none", "dead"}
    /\ sessions' = [sessions EXCEPT ![s] = entry]
    /\ linked' = {o \in linked : of[o] # s}
    /\ UNCHANGED <<viewVars, opVars, dbVars, ran>>

\* delete_server: the map's entry is dropped, an operation that uses the session
\* keeps it.
SessionDropped(s) ==
    /\ sessions[s] # "none"
    /\ sessions' = [sessions EXCEPT ![s] = "none"]
    /\ UNCHANGED <<viewVars, opVars, linked, dbVars, ran>>

\* Then the row goes; its ledger entries stay, without their server id.
RowDeleted(s) ==
    /\ s \in inventory
    /\ inventory' = inventory \ {s}
    /\ UNCHANGED <<viewVars, opVars, linkVars, ledger, refused, ran>>

\* The application is closed and started again.
Restart ==
    /\ Unmount
    /\ Drop({o \in Ops : InFlight(o)})
    /\ sessions' = [s \in Servers |-> "none"]
    /\ UNCHANGED <<dbVars, ran>>

-------------------------------------------------------------------------------
Screen ==
    \/ \E s \in Servers : Select(s) \/ ListArrives(s)
    \/ Leave \/ Refresh \/ CloseModal
    \/ \E c \in Commands : Initiate(c) \/ Assessed(c)
    \/ \E o \in Ops : Confirm(o) \/ ControlReturns(o)

Control(o) ==
    \/ NoSession(o) \/ Begin(o) \/ ExecError(o)
    \/ \E status \in ExitStatus : ExecEnds(o, status)
    \/ Verified(o) \/ Record(o)

Environment ==
    \/ \E o \in Ops : HostRuns(o)
    \/ \E s \in Servers : \/ Connected(s) \/ SessionDropped(s) \/ RowDeleted(s)
                          \/ \E entry \in Session : LinkLost(s, entry)
    \/ Restart

Next == Screen \/ (\E o \in Ops : Control(o)) \/ Environment

Spec == Init /\ [][Next]_vars

\* The runtime polls the commands and the screen takes their replies.  A host
\* that is connected need not answer; a lost link is noticed by the keepalive.
Fairness ==
    \A o \in Ops : /\ WF_vars(o \notin linked /\ Control(o))
                   /\ WF_vars(op[o] # "exec" /\ Control(o))
                   /\ WF_vars(ControlReturns(o))

FairSpec == Spec /\ Fairness

-------------------------------------------------------------------------------
(* Properties.                                                             *)

\* The dialog is locked exactly while one operation it started is running: no
\* second one is started beside it, and it is not locked for ever by a reply
\* that somebody else took (ServiceManager.tsx:65-87).
LockedWhileRunning ==
    /\ executing => \E o \in Ops : awaited = {o} /\ InFlight(o)
    /\ ~executing => awaited = {}

\* A command that the host ran is in the ledger once its operation has returned,
\* unless the database refused the record (services.rs:162-239, 261-288).
RanIsRecorded ==
    \A o \in Ops : o \in ran /\ op[o] \in {"ok", "err"}
                        => ledger[o] # None \/ o \in refused

\* What the ledger calls a success, or unverified, the host did run, however the
\* connection fared (audit.rs:14-24, session.rs:33-36).
LedgerClaimsWereRun ==
    \A o \in Ops : ledger[o] \in {"success", "unverified"} => o \in ran

\* An operation whose transport is lost comes back and unlocks the dialog
\* (session.rs:172-183).
LostOperationReturns ==
    \A o \in Ops :
        (o \in awaited /\ op[o] \in {"exec", "verify", "record"} /\ o \notin linked)
            ~> (o \notin awaited)

-------------------------------------------------------------------------------
(* A statement of the documentation that the code does not meet.           *)

\* "shows the exact command and its risk tier, and only then calls the mutating
\* command" (ServiceManager.tsx:14-16): what is executed is what the dialog shows.
ExecutedWasShown ==
    [][\A o \in Ops : op[o] = "idle" /\ op'[o] = "sent"
          => assessment = pending /\ ~assessing]_vars
=============================================================================
