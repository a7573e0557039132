------------------------------ MODULE Collectors ------------------------------
(***************************************************************************)
(* The telemetry collectors of the desktop backend (commands/telemetry.rs):*)
(* `start_collector`, `stop_collector`, the task each start spawns, and    *)
(* the Collectors map of task handles by server id.                        *)
(*                                                                         *)
(* A run r is one invocation of start_collector: start[r] is where the     *)
(* command is, task[r] where the task it spawned is.  Sessions come and go *)
(* as in Connection; here only whether a transport is up matters.          *)
(***************************************************************************)
CONSTANTS Servers,   \* server ids
          Runs,      \* invocations of start_collector (bounds how many there are)
          Sessions,  \* SSH sessions that may be established (bounds reconnects)
          None

ASSUME CollectorsAssumption == None \notin Runs \cup Sessions \cup Servers

VARIABLES
    session,  \* the session map's entry for each server
    live,     \* sessions whose transport is up
    start,    \* [Runs -> StartPc]
    of,       \* the server of a run
    on,       \* the session its stream was opened on
    task,     \* [Runs -> TaskPc]
    aborted,  \* runs whose JoinHandle::abort was called
    tasks     \* Collectors.tasks: server -> run whose handle is registered

sessionVars == <<session, live>>
vars == <<session, live, start, of, on, task, aborted, tasks>>

StartPc == {"idle", "opening", "spawned", "registered", "refused"}

\* "exiting": the read loop is over and forget() is next.
TaskPc == {"none", "reading", "exiting", "forgot", "cancelled"}

TypeOK ==
    /\ session \in [Servers -> Sessions \cup {None}]
    /\ live \subseteq Sessions
    /\ start \in [Runs -> StartPc]
    /\ of \in [Runs -> Servers \cup {None}]
    /\ on \in [Runs -> Sessions \cup {None}]
    /\ task \in [Runs -> TaskPc]
    /\ aborted \subseteq Runs
    /\ tasks \in [Servers -> Runs \cup {None}]

Init ==
    /\ session = [s \in Servers |-> None]
    /\ live = {}
    /\ start = [r \in Runs |-> "idle"]
    /\ of = [r \in Runs |-> None]
    /\ on = [r \in Runs |-> None]
    /\ task = [r \in Runs |-> "none"]
    /\ aborted = {}
    /\ tasks = [s \in Servers |-> None]

Streaming(r) == task[r] = "reading"

-------------------------------------------------------------------------------
(* start_collector.                                                        *)

\* The session is taken from the map whether or not its transport is up.
StartCollector(r, s) ==
    /\ start[r] = "idle"
    /\ of' = [of EXCEPT ![r] = s]
    /\ \/ /\ session[s] # None
          /\ on' = [on EXCEPT ![r] = session[s]]
          /\ start' = [start EXCEPT ![r] = "opening"]
       \/ /\ session[s] = None
          /\ start' = [start EXCEPT ![r] = "refused"]
          /\ UNCHANGED on
    /\ UNCHANGED <<sessionVars, task, aborted, tasks>>

\* The stream opens and the task is spawned, whatever the map holds.
OpenStream(r) ==
    /\ start[r] = "opening" /\ on[r] \in live
    /\ start' = [start EXCEPT ![r] = "spawned"]
    /\ task' = [task EXCEPT ![r] = "reading"]
    /\ UNCHANGED <<sessionVars, of, on, aborted, tasks>>

OpenFails(r) ==
    /\ start[r] = "opening"
    /\ start' = [start EXCEPT ![r] = "refused"]
    /\ UNCHANGED <<sessionVars, of, on, task, aborted, tasks>>

\* Mutants: the handle is dropped, which detaches its task; a missing handle is
\* not checked for.
Abort_Detaches(r) == aborted' = aborted
Abort_Unchecked(r) == aborted' = aborted \cup {r}

\* JoinHandle::abort: the task is cancelled the next time it yields.
Abort(r) == aborted' = aborted \cup ({r} \ {None})

\* Collectors::replace: register the handle and abort the previous one.
Replace(r) ==
    /\ start[r] = "spawned"
    /\ start' = [start EXCEPT ![r] = "registered"]
    /\ tasks' = [tasks EXCEPT ![of[r]] = r]
    /\ Abort(tasks[of[r]])
    /\ UNCHANGED <<sessionVars, of, on, task>>

-------------------------------------------------------------------------------
(* The spawned task.                                                       *)

\* Mutant: the read loop ends on an exit status only, not on a closed channel.
StreamExits_OnStatus(r) ==
    /\ Streaming(r) /\ on[r] \in live
    /\ task' = [task EXCEPT ![r] = "exiting"]
    /\ UNCHANGED <<sessionVars, start, of, on, aborted, tasks>>

\* StreamItem::Exited or a closed stream ends the read loop.
StreamExits(r) ==
    /\ Streaming(r)
    /\ task' = [task EXCEPT ![r] = "exiting"]
    /\ UNCHANGED <<sessionVars, start, of, on, aborted, tasks>>

\* Collectors::forget removes whatever is registered for the server.
Forget(r) ==
    /\ task[r] = "exiting"
    /\ task' = [task EXCEPT ![r] = "forgot"]
    /\ tasks' = [tasks EXCEPT ![of[r]] = None]
    /\ UNCHANGED <<sessionVars, start, of, on, aborted>>

\* Mutant: the abort is only noticed after the read loop.
Cancelled_AfterLoop(r) ==
    /\ r \in aborted /\ task[r] = "exiting"
    /\ task' = [task EXCEPT ![r] = "cancelled"]
    /\ UNCHANGED <<sessionVars, start, of, on, aborted, tasks>>

\* The runtime drops an aborted task at an await point: while it waits for a
\* line, or for the map's lock in forget().  Its stream is dropped with it.
Cancelled(r) ==
    /\ r \in aborted /\ task[r] \in {"reading", "exiting"}
    /\ task' = [task EXCEPT ![r] = "cancelled"]
    /\ UNCHANGED <<sessionVars, start, of, on, aborted, tasks>>

-------------------------------------------------------------------------------
(* stop_collector and the sessions.                                        *)

\* Collectors::stop; without an entry the command fails and changes nothing.
StopCollector(s) ==
    /\ \/ /\ tasks[s] # None
          /\ tasks' = [tasks EXCEPT ![s] = None]
          /\ Abort(tasks[s])
       \/ /\ tasks[s] = None
          /\ UNCHANGED <<tasks, aborted>>
    /\ UNCHANGED <<sessionVars, start, of, on, task>>

\* connect lands a session: see Connection!Land.
SessionLands(s, x) ==
    /\ session[s] = None \/ session[s] \notin live
    /\ x \notin live
    /\ \A r \in Runs : on[r] # x
    /\ \A t \in Servers : session[t] # x
    /\ session' = [session EXCEPT ![s] = x]
    /\ live' = live \cup {x}
    /\ UNCHANGED <<start, of, on, task, aborted, tasks>>

\* disconnect: the entry goes and the transport closes.
SessionClosed(s) ==
    /\ session[s] # None
    /\ session' = [session EXCEPT ![s] = None]
    /\ live' = live \ {session[s]}
    /\ UNCHANGED <<start, of, on, task, aborted, tasks>>

\* delete_server only drops the map's handle: a start that is opening its stream
\* and an open stream's channel keep the transport up, and no collector is
\* stopped.
SessionDropped(s) ==
    /\ session[s] # None
    /\ session' = [session EXCEPT ![s] = None]
    /\ live' = IF \E r \in Runs : /\ on[r] = session[s]
                                  /\ start[r] = "opening" \/ Streaming(r)
               THEN live ELSE live \ {session[s]}
    /\ UNCHANGED <<start, of, on, task, aborted, tasks>>

TransportLost(x) ==
    /\ x \in live
    /\ live' = live \ {x}
    /\ UNCHANGED <<session, start, of, on, task, aborted, tasks>>

-------------------------------------------------------------------------------
Next ==
    \/ \E r \in Runs, s \in Servers : StartCollector(r, s)
    \/ \E r \in Runs : \/ OpenStream(r) \/ OpenFails(r) \/ Replace(r)
                       \/ StreamExits(r) \/ Forget(r) \/ Cancelled(r)
    \/ \E s \in Servers, x \in Sessions : SessionLands(s, x)
    \/ \E s \in Servers : \/ StopCollector(s)
                          \/ SessionClosed(s) \/ SessionDropped(s)
    \/ \E x \in Sessions : TransportLost(x)

Spec == Init /\ [][Next]_vars

\* The runtime polls commands and tasks; a stream whose transport is gone ends.
\* Nothing makes a healthy stream end, and nothing makes the operator act.
Fairness ==
    \A r \in Runs :
        /\ WF_vars(Replace(r)) /\ WF_vars(Forget(r)) /\ WF_vars(Cancelled(r))
        /\ WF_vars(on[r] \notin live /\ StreamExits(r))

FairSpec == Spec /\ Fairness

-------------------------------------------------------------------------------
(* Properties.                                                             *)

\* The handle of a running collector leaves the map only together with an
\* abort, or because another collector of that server ended and forgot the
\* entry (telemetry.rs:36-54, 142).
LostOnlyToForget ==
    \A r \in Runs :
        start[r] = "registered" /\ Streaming(r) /\ r \notin aborted
            => \/ tasks[of[r]] = r
               \/ \E q \in Runs \ {r} : of[q] = of[r] /\ task[q] = "forgot"

\* A collector whose handle was aborted ends, so a successful stop_collector
\* does stop the stream it cancelled (telemetry.rs:34-44).
AbortedCollectorsEnd ==
    \A r \in Runs : (r \in aborted) ~> (task[r] \in {"forgot", "cancelled"})

\* A collector does not outlive its transport: it ends and leaves no stream
\* open (session.rs:225-252, telemetry.rs:125-142).
CollectorsEndWithTransport ==
    \A r \in Runs : (Streaming(r) /\ on[r] \notin live)
                        ~> (task[r] \in {"forgot", "cancelled"})

-------------------------------------------------------------------------------
(* Statements of the documentation that the code does not meet.            *)

\* "and `stop_collector` has something to cancel" (telemetry.rs:27): a
\* collector that was registered and not aborted can be stopped.
StopHasSomethingToCancel ==
    \A r \in Runs :
        start[r] = "registered" /\ Streaming(r) /\ r \notin aborted => tasks[of[r]] = r
=============================================================================
