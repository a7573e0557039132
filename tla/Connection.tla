------------------------------ MODULE Connection ------------------------------
(***************************************************************************)
(* The life of an SSH connection in the desktop backend: the `connect`,    *)
(* `disconnect`, `delete_server` and `resolve_host_key` commands           *)
(* (commands/connection.rs, commands/servers.rs), the host-key verifier    *)
(* (hostkey.rs), SshSession::connect (kyvon-ssh/session.rs), the known     *)
(* hosts table (kyvon-storage/hosts.rs) and the session map (state.rs).    *)
(*                                                                         *)
(* Commands run concurrently on the async runtime.  A `connect` command a  *)
(* and the transport task russh spawned for it are two threads: cmd[a] is  *)
(* where the command is, task[a] where the task (and the verifier it       *)
(* called) is.  Dropping the command's future when CONNECT_TIMEOUT         *)
(* expires does not stop the task.                                         *)
(***************************************************************************)
EXTENDS Naturals

CONSTANTS Servers,          \* server ids
          Hosts,            \* endpoints: (hostname, port)
          Keys,             \* host keys a server may present
          Attempts,         \* invocations of `connect` (bounds how many there are)
          None,             \* no key / no session / no server
          HostOf,           \* the endpoint in each server's profile
          NeedsSecret,      \* servers whose AuthMethod takes a stored secret
          CONNECT_TIMEOUT,  \* session.rs:17, seconds
          PROMPT_TIMEOUT    \* hostkey.rs:29, seconds

ASSUME ConnectionAssumption ==
    /\ HostOf \in [Servers -> Hosts]
    /\ NeedsSecret \subseteq Servers
    /\ None \notin Keys \cup Attempts \cup Servers
    /\ CONNECT_TIMEOUT \in Nat
    /\ PROMPT_TIMEOUT \in Nat

VARIABLES
    inventory,   \* rows of the servers table
    knownHosts,  \* known_hosts: the key trusted for each endpoint, or None
    cmd,         \* [Attempts -> CmdPc]
    task,        \* [Attempts -> TaskPc]
    target,      \* the server an attempt connects to
    secret,      \* whether the attempt holds a password or passphrase
    key,         \* the key presented on the attempt's transport
    previous,    \* HostKeyPrompt.previous_fingerprint of the attempt's prompt
    waiting,     \* PendingPrompts.waiting; a prompt is named by its attempt
    answer,      \* what the prompt's oneshot channel holds
    sessions,    \* SessionManager.sessions: server -> attempt whose session it is
    closing,     \* `disconnect` commands that have not emitted yet
    deleting,    \* `delete_server` commands that have not reached the table yet
    shown,       \* last ConnectionState emitted for each server
    approved,    \* history: <<host, key>> the operator confirmed
    offered      \* history: <<host, key>> a credential was sent to

dbVars      == <<inventory, knownHosts>>
promptVars  == <<waiting, answer>>
attemptVars == <<target, secret, key, previous>>
opVars      == <<closing, deleting>>
historyVars == <<approved, offered>>
vars == <<dbVars, cmd, task, attemptVars, promptVars, sessions, opVars, shown,
          historyVars>>

CmdPc == {"idle", "check", "secret", "dial", "auth", "offered", "land",
          "duplicate", "connected", "returned"}

\* "loose": nothing in the session map or a connect command holds the handle.
TaskPc == {"none", "kex", "verify", "wait", "persist", "granted", "trusted",
           "rejected", "up", "loose", "ended"}

ConnectionState == {"Disconnected", "Connecting", "VerifyingHost",
                    "Authenticating", "Connected", "Reconnecting", "Error"}

TypeOK ==
    /\ inventory \subseteq Servers
    /\ knownHosts \in [Hosts -> Keys \cup {None}]
    /\ cmd \in [Attempts -> CmdPc]
    /\ task \in [Attempts -> TaskPc]
    /\ target \in [Attempts -> Servers \cup {None}]
    /\ secret \in [Attempts -> BOOLEAN]
    /\ key \in [Attempts -> Keys \cup {None}]
    /\ previous \in [Attempts -> Keys \cup {None}]
    /\ waiting \subseteq Attempts
    /\ answer \in [Attempts -> {"none", "trust", "decline"}]
    /\ sessions \in [Servers -> Attempts \cup {None}]
    /\ closing \subseteq Servers
    /\ deleting \subseteq Servers
    /\ shown \in [Servers -> ConnectionState]
    /\ approved \subseteq Hosts \X Keys
    /\ offered \subseteq Hosts \X Keys

Init ==
    /\ inventory = Servers
    /\ knownHosts \in [Hosts -> Keys \cup {None}]
    /\ cmd = [a \in Attempts |-> "idle"]
    /\ task = [a \in Attempts |-> "none"]
    /\ target = [a \in Attempts |-> None]
    /\ secret = [a \in Attempts |-> FALSE]
    /\ key = [a \in Attempts |-> None]
    /\ previous = [a \in Attempts |-> None]
    /\ waiting = {}
    /\ answer = [a \in Attempts |-> "none"]
    /\ sessions = [s \in Servers |-> None]
    /\ closing = {}
    /\ deleting = {}
    /\ shown = [s \in Servers |-> "Disconnected"]
    /\ approved = {<<h, knownHosts[h]>> : h \in {x \in Hosts : knownHosts[x] # None}}
    /\ offered = {}

Host(a) == HostOf[target[a]]

\* Mutant: the event names the server by its host name (a &str as well), so
\* the view files the state under an entry that is no server's.
Emit_ByHost(s, state) ==
    shown' = [x \in Servers \cup {HostOf[s]} |-> IF x = HostOf[s] THEN state ELSE shown[x]]

Emit(s, state) == shown' = [shown EXCEPT ![s] = state]

\* SshSession::is_closed: the transport task has ended.
IsClosed(a) == task[a] # "up"

\* SessionManager::get followed by !is_closed().
HasLiveSession(s) == sessions[s] # None /\ ~IsClosed(sessions[s])

Goto(a, pc)     == cmd' = [cmd EXCEPT ![a] = pc]
TaskGoto(a, pc) == task' = [task EXCEPT ![a] = pc]

-------------------------------------------------------------------------------
(* The `connect` command up to the transport.                              *)

\* ServerRepo::require: an id with no row, or a store that cannot be read,
\* fails before anything is emitted.
Connect(a, s) ==
    /\ cmd[a] = "idle"
    /\ target' = [target EXCEPT ![a] = s]
    /\ \/ s \in inventory /\ Goto(a, "check")
       \/ Goto(a, "returned")
    /\ UNCHANGED <<dbVars, task, secret, key, previous, promptVars, sessions,
                   opVars, shown, historyVars>>

\* Under the sessions lock: a live session makes `connect` a no-op.
CheckExisting(a) ==
    /\ cmd[a] = "check"
    /\ \/ /\ HasLiveSession(target[a])
          /\ Goto(a, "returned")
          /\ UNCHANGED shown
       \/ /\ ~HasLiveSession(target[a])
          /\ Goto(a, "secret")
          /\ Emit(target[a], "Connecting")
    /\ UNCHANGED <<dbVars, task, attemptVars, promptVars, sessions, opVars,
                   historyVars>>

\* The one-shot secret or the OS keychain.  A keychain error returns without
\* emitting; an empty keychain is not an error here.
ResolveSecret(a) ==
    /\ cmd[a] = "secret"
    /\ \/ /\ \E found \in BOOLEAN :
                /\ found => target[a] \in NeedsSecret
                /\ secret' = [secret EXCEPT ![a] = found]
          /\ Goto(a, "dial")
       \/ /\ target[a] \in NeedsSecret
          /\ Goto(a, "returned")
          /\ UNCHANGED secret
    /\ UNCHANGED <<dbVars, task, target, key, previous, promptVars, sessions,
                   opVars, shown, historyVars>>

-------------------------------------------------------------------------------
(* SshSession::connect and the transport task.                             *)

\* Invalid profile, name resolution or TCP failure: no task was spawned.
DialFails(a) ==
    /\ cmd[a] = "dial" /\ task[a] = "none"
    /\ Goto(a, "returned")
    /\ Emit(target[a], "Error")
    /\ UNCHANGED <<dbVars, task, attemptVars, promptVars, sessions, opVars,
                   historyVars>>

\* TCP is up and russh has spawned the task that runs the key exchange.
TcpUp(a) ==
    /\ cmd[a] = "dial" /\ task[a] = "none"
    /\ TaskGoto(a, "kex")
    /\ UNCHANGED <<dbVars, cmd, attemptVars, promptVars, sessions, opVars,
                   shown, historyVars>>

\* The peer or the network ends the key exchange.
KexFails(a) ==
    /\ task[a] \in {"kex", "trusted"}
    /\ TaskGoto(a, "rejected")
    /\ UNCHANGED <<dbVars, cmd, attemptVars, promptVars, sessions, opVars,
                   shown, historyVars>>

\* check_server_key: an unreadable key is refused, any other is verified.
CheckServerKey(a) ==
    /\ task[a] = "kex"
    /\ \/ /\ TaskGoto(a, "rejected")
          /\ UNCHANGED <<key, shown>>
       \/ /\ \E k \in Keys : key' = [key EXCEPT ![a] = k]
          /\ TaskGoto(a, "verify")
          /\ Emit(target[a], "VerifyingHost")
    /\ UNCHANGED <<dbVars, cmd, target, secret, previous, promptVars,
                   sessions, opVars, historyVars>>

\* Mutant: any pinned key makes the presented one known.
IsKnown_AnyPin(a) == knownHosts[Host(a)] # None

\* KnownHostRepo::status compares the whole key.
IsKnown(a) == knownHosts[Host(a)] = key[a]

\* verify() up to the await in ask().
StatusUnreadable(a) ==
    /\ task[a] = "verify"
    /\ TaskGoto(a, "rejected")
    /\ Emit(target[a], "Error")
    /\ UNCHANGED <<dbVars, cmd, attemptVars, promptVars, sessions, opVars,
                   historyVars>>

StatusKnown(a) ==
    /\ task[a] = "verify"
    /\ IsKnown(a)
    /\ TaskGoto(a, "granted")
    /\ UNCHANGED <<dbVars, cmd, attemptVars, promptVars, sessions, opVars,
                   shown, historyVars>>

\* PendingPrompts::register
Register(a) == waiting' = waiting \cup {a}

Ask(a) ==
    /\ task[a] = "verify"
    /\ ~IsKnown(a)
    /\ previous' = [previous EXCEPT ![a] = knownHosts[Host(a)]]
    /\ \/ /\ Register(a)
          /\ TaskGoto(a, "wait")
       \/ /\ TaskGoto(a, "rejected")    \* no window to ask
          /\ UNCHANGED waiting
    /\ UNCHANGED <<dbVars, cmd, target, secret, key, answer, sessions, opVars,
                   shown, historyVars>>

\* Mutants: a timeout counts as trust; any answer counts as trust.
Verdict_TimeoutTrusts(ans) == IF ans = "decline" THEN "rejected" ELSE "persist"
Verdict_AnyAnswer(ans) == IF ans = "none" THEN "rejected" ELSE "persist"

\* What ask() makes of the oneshot: only an explicit true is trust; declined,
\* dropped and timed out ("none") refuse.
Verdict(ans) == IF ans = "trust" THEN "persist" ELSE "rejected"

\* Mutant: the entry stays behind.
Forget_Noop(a) == waiting' = waiting

\* PendingPrompts::forget.
Forget(a) == waiting' = waiting \ {a}

\* The oneshot receiver is ready; resolve() already took the entry.
Answered(a) ==
    /\ task[a] = "wait" /\ answer[a] # "none"
    /\ TaskGoto(a, Verdict(answer[a]))
    /\ UNCHANGED <<dbVars, cmd, attemptVars, promptVars, sessions, opVars,
                   shown, historyVars>>

\* Mutant: the prompt's timer goes away with the connect future.
PromptExpired_WithConnect(a) == cmd[a] = "dial"

\* Both deadlines are on one monotonic clock and the connect deadline was set
\* first, so with CONNECT_TIMEOUT <= PROMPT_TIMEOUT it also expires first.
PromptExpired(a) == CONNECT_TIMEOUT <= PROMPT_TIMEOUT => cmd[a] # "dial"

\* An answer that arrives while the timeout is being handled is not looked at.
PromptTimeout(a) ==
    /\ task[a] = "wait"
    /\ PromptExpired(a)
    /\ Forget(a)
    /\ TaskGoto(a, Verdict("none"))
    /\ UNCHANGED <<dbVars, cmd, attemptVars, answer, sessions, opVars, shown,
                   historyVars>>

\* KnownHostRepo::trust: the upsert replaces whatever was stored for the host.
TrustKey(h, k) == knownHosts' = [knownHosts EXCEPT ![h] = k]

\* A failed write is reported and trust still granted.
Persist(a) ==
    /\ task[a] = "persist"
    /\ TaskGoto(a, "granted")
    /\ \/ /\ TrustKey(Host(a), key[a])
          /\ UNCHANGED shown
       \/ /\ Emit(target[a], "VerifyingHost")
          /\ UNCHANGED knownHosts
    /\ UNCHANGED <<inventory, cmd, attemptVars, promptVars, sessions, opVars,
                   historyVars>>

\* verify() emits and returns Verdict::Trust.
Grant(a) ==
    /\ task[a] = "granted"
    /\ TaskGoto(a, "trusted")
    /\ Emit(target[a], "Authenticating")
    /\ UNCHANGED <<dbVars, cmd, attemptVars, promptVars, sessions, opVars,
                   historyVars>>

\* Mutant: Connected is reported when the transport is up.
KexDone_EmitsConnected(a) ==
    /\ cmd[a] = "dial" /\ task[a] = "trusted"
    /\ TaskGoto(a, "up")
    /\ Goto(a, "auth")
    /\ Emit(target[a], "Connected")
    /\ UNCHANGED <<dbVars, attemptVars, promptVars, sessions, opVars,
                   historyVars>>

KexDone(a) ==
    /\ cmd[a] = "dial" /\ task[a] = "trusted"
    /\ TaskGoto(a, "up")
    /\ Goto(a, "auth")
    /\ UNCHANGED <<dbVars, attemptVars, promptVars, sessions, opVars, shown,
                   historyVars>>

\* client::connect returns the error of a key exchange that did not complete.
ConnectError(a) ==
    /\ cmd[a] = "dial" /\ task[a] = "rejected"
    /\ TaskGoto(a, "ended")
    /\ Goto(a, "returned")
    /\ Emit(target[a], "Error")
    /\ UNCHANGED <<dbVars, attemptVars, promptVars, sessions, opVars,
                   historyVars>>

\* Mutant: the timeout covers the TCP connect only.
ConnectTimeout_TcpOnly(a) ==
    /\ cmd[a] = "dial" /\ task[a] = "none"
    /\ Goto(a, "returned")
    /\ Emit(target[a], "Error")
    /\ UNCHANGED <<dbVars, task, attemptVars, promptVars, sessions, opVars,
                   historyVars>>

\* The timeout drops the client::connect future; the task runs on.
ConnectTimeout(a) ==
    /\ cmd[a] = "dial"
    /\ Goto(a, "returned")
    /\ Emit(target[a], "Error")
    /\ UNCHANGED <<dbVars, task, attemptVars, promptVars, sessions, opVars,
                   historyVars>>

\* A task nobody holds a handle of ends once its callback has returned.
TaskEnds(a) ==
    /\ \/ task[a] \in {"rejected", "trusted"} /\ cmd[a] # "dial"
       \/ task[a] = "loose"
    /\ TaskGoto(a, "ended")
    /\ UNCHANGED <<dbVars, cmd, attemptVars, promptVars, sessions, opVars,
                   shown, historyVars>>

\* Peer reset, network loss or missed keepalives; no event is emitted.
TransportLost(a) ==
    /\ task[a] = "up"
    /\ TaskGoto(a, "ended")
    /\ UNCHANGED <<dbVars, cmd, attemptVars, promptVars, sessions, opVars,
                   shown, historyVars>>

-------------------------------------------------------------------------------
(* Authentication and landing the session.                                 *)

\* authenticate(): an error drops the handle, which ends the task.
AuthFails(a) ==
    /\ cmd[a] \in {"auth", "offered"}
    /\ TaskGoto(a, "ended")
    /\ Goto(a, "returned")
    /\ Emit(target[a], "Error")
    /\ UNCHANGED <<dbVars, attemptVars, promptVars, sessions, opVars,
                   historyVars>>

OfferCredential(a) ==
    /\ cmd[a] = "auth" /\ task[a] = "up"
    /\ target[a] \in NeedsSecret => secret[a]
    /\ offered' = offered \cup {<<Host(a), key[a]>>}
    /\ Goto(a, "offered")
    /\ UNCHANGED <<dbVars, task, attemptVars, promptVars, sessions, opVars,
                   shown, approved>>

AuthSucceeds(a) ==
    /\ cmd[a] = "offered" /\ task[a] = "up"
    /\ Goto(a, "land")
    /\ UNCHANGED <<dbVars, task, attemptVars, promptVars, sessions, opVars,
                   shown, historyVars>>

\* Mutant: the session is inserted without looking again.
Land_NoRecheck(a) ==
    /\ cmd[a] = "land"
    /\ sessions' = [sessions EXCEPT ![target[a]] = a]
    /\ Goto(a, "connected")
    /\ Emit(target[a], "Connected")
    /\ UNCHANGED <<dbVars, task, attemptVars, promptVars, opVars,
                   historyVars>>

\* Re-check under the sessions lock; the first session to land is kept.
Land(a) ==
    /\ cmd[a] = "land"
    /\ \/ /\ HasLiveSession(target[a])
          /\ Goto(a, "duplicate")
          /\ UNCHANGED <<sessions, shown>>
       \/ /\ ~HasLiveSession(target[a])
          /\ sessions' = [sessions EXCEPT ![target[a]] = a]
          /\ Goto(a, "connected")
          /\ Emit(target[a], "Connected")
    /\ UNCHANGED <<dbVars, task, attemptVars, promptVars, opVars,
                   historyVars>>

\* The lock is released before the late session is closed and reported.
DropDuplicate(a) ==
    /\ cmd[a] = "duplicate"
    /\ TaskGoto(a, "ended")
    /\ Goto(a, "connected")
    /\ Emit(target[a], "Connected")
    /\ UNCHANGED <<dbVars, attemptVars, promptVars, sessions, opVars,
                   historyVars>>

-------------------------------------------------------------------------------
(* The operator's other commands.                                          *)

\* PendingPrompts::resolve: the sender is taken out of the map and used once.
Deliver(a, verdict) ==
    /\ a \in waiting
    /\ waiting' = waiting \ {a}
    /\ answer' = [answer EXCEPT ![a] = verdict]

\* resolve_host_key.  An id that is not waiting is refused and changes nothing.
Resolve(a, verdict) ==
    /\ Deliver(a, verdict)
    /\ approved' = IF verdict = "trust"
                   THEN approved \cup {<<Host(a), key[a]>>} ELSE approved
    /\ UNCHANGED <<dbVars, cmd, task, attemptVars, sessions, opVars, shown,
                   offered>>

\* disconnect: the map entry goes and its session is closed under the lock...
Disconnect(s) ==
    /\ s \notin closing
    /\ sessions' = [sessions EXCEPT ![s] = None]
    /\ task' = [a \in Attempts |-> IF a = sessions[s] THEN "ended" ELSE task[a]]
    /\ closing' = closing \cup {s}
    /\ UNCHANGED <<dbVars, cmd, attemptVars, promptVars, deleting, shown,
                   historyVars>>

\* ...and the event follows after it is released.
DisconnectEmit(s) ==
    /\ s \in closing
    /\ closing' = closing \ {s}
    /\ Emit(s, "Disconnected")
    /\ UNCHANGED <<dbVars, cmd, task, attemptVars, promptVars, sessions,
                   deleting, historyVars>>

\* delete_server drops the map's handle without closing the session...
DeleteServer(s) ==
    /\ s \in inventory \ deleting
    /\ sessions' = [sessions EXCEPT ![s] = None]
    /\ task' = [a \in Attempts |->
                  IF a = sessions[s] /\ task[a] = "up" THEN "loose" ELSE task[a]]
    /\ deleting' = deleting \cup {s}
    /\ UNCHANGED <<dbVars, cmd, attemptVars, promptVars, closing, shown,
                   historyVars>>

\* ...and deletes the row afterwards, unless the store fails.
DeleteRow(s) ==
    /\ s \in deleting
    /\ deleting' = deleting \ {s}
    /\ inventory' \in {inventory, inventory \ {s}}
    /\ UNCHANGED <<knownHosts, cmd, task, attemptVars, promptVars, sessions,
                   closing, shown, historyVars>>

\* The process exits and starts again: only the database survives.
Restart ==
    /\ cmd' = [a \in Attempts |-> IF cmd[a] = "idle" THEN "idle" ELSE "returned"]
    /\ task' = [a \in Attempts |-> IF task[a] = "none" THEN "none" ELSE "ended"]
    /\ waiting' = {}
    /\ sessions' = [s \in Servers |-> None]
    /\ closing' = {}
    /\ deleting' = {}
    /\ shown' = [s \in Servers |-> "Disconnected"]
    /\ UNCHANGED <<dbVars, attemptVars, answer, historyVars>>

-------------------------------------------------------------------------------
Command(a) ==
    \/ CheckExisting(a) \/ ResolveSecret(a) \/ ConnectError(a)
    \/ ConnectTimeout(a) \/ Land(a) \/ DropDuplicate(a)

Verifier(a) ==
    \/ StatusUnreadable(a) \/ StatusKnown(a) \/ Ask(a) \/ Answered(a)
    \/ PromptTimeout(a) \/ Persist(a) \/ Grant(a)

\* Steps that wait for the network or the server.
Network(a) ==
    \/ DialFails(a) \/ TcpUp(a) \/ KexFails(a) \/ CheckServerKey(a) \/ KexDone(a)
    \/ TaskEnds(a) \/ TransportLost(a)
    \/ OfferCredential(a) \/ AuthFails(a) \/ AuthSucceeds(a)

Operator ==
    \/ \E a \in Attempts, s \in Servers : Connect(a, s)
    \/ \E a \in Attempts, v \in {"trust", "decline"} : Resolve(a, v)
    \/ \E s \in Servers : Disconnect(s) \/ DeleteServer(s)

Next ==
    \/ Operator
    \/ \E a \in Attempts : Command(a) \/ Verifier(a) \/ Network(a)
    \/ \E s \in Servers : DisconnectEmit(s) \/ DeleteRow(s)
    \/ Restart

Spec == Init /\ [][Next]_vars

\* The async runtime keeps polling tasks and firing timers while the process
\* lives.  Nothing is assumed of the network, the server or the operator.
Fairness ==
    /\ \A a \in Attempts : WF_vars(Command(a)) /\ WF_vars(Verifier(a))
    /\ \A s \in Servers : WF_vars(DisconnectEmit(s)) /\ WF_vars(DeleteRow(s))

FairSpec == Spec /\ Fairness

-------------------------------------------------------------------------------
(* Properties.                                                             *)

\* Every pinned host key is one the operator confirmed for that endpoint,
\* whichever timeouts, concurrent attempts, restarts and failed writes led to
\* it (hostkey.rs:172-182, hosts.rs:57-61).
KeysPinnedByOperator ==
    \A h \in Hosts : knownHosts[h] # None => <<h, knownHosts[h]>> \in approved

\* No credential is sent to an endpoint before the operator confirmed the key
\* it presented (session.rs:95-97).
CredentialsOnlyToApproved == offered \subseteq approved

\* A transport that is up and whose handle has not been dropped can be reached:
\* the connect command still holds it, or it is the session the map has for its
\* server.  No race of two connects leaves one open that nothing can close
\* (connection.rs:67-80).
LiveSessionsReachable ==
    \A a \in Attempts :
        task[a] = "up" => \/ cmd[a] \in {"auth", "offered", "land", "duplicate"}
                          \/ sessions[target[a]] = a

\* Every entry of PendingPrompts.waiting is an unanswered question a verifier is
\* still waiting on: nothing is left behind after an answer, a timeout or a
\* failed emit, so a late answer finds no entry (hostkey.rs:38-57, 108-119).
PromptsHaveAVerifier == \A a \in waiting : task[a] = "wait" /\ answer[a] = "none"

\* "Connected" is the last state shown for a server only if a connect command
\* for it authenticated and landed since the process started
\* (inventory.rs:131-133).
ConnectedWasAuthenticated ==
    \A s \in Servers :
        shown[s] = "Connected" => \E a \in Attempts : target[a] = s /\ cmd[a] = "connected"

\* The three trust variables behave as the abstract specification says.
Trust == INSTANCE HostTrust WITH pinned <- knownHosts
TrustSpec == Trust!Spec

\* A connect command comes back, or reaches authentication, whatever the
\* network, the host-key prompt and the operator do: CONNECT_TIMEOUT bounds the
\* dial (session.rs:121).
ConnectSettles ==
    \A a \in Attempts :
        cmd[a] \in {"check", "secret", "dial"} ~> cmd[a] \in {"auth", "returned"}

\* The host-key verifier always returns a verdict, also when the connect that
\* started it was abandoned and nobody answers (hostkey.rs:113-120).
VerifierReturns ==
    \A a \in Attempts :
        task[a] = "verify" ~> task[a] \in {"trusted", "rejected", "ended"}

-------------------------------------------------------------------------------
(* Statements of the documentation that the code does not meet.            *)

\* "The connection attempt is parked until answered" (event.rs:26).
ParkedUntilAnswered ==
    [][\A a \in waiting \cap waiting' : cmd[a] = "dial" => cmd'[a] = "dial"]_vars

\* "A changed key is reported as changed, carrying the fingerprint that was
\* trusted before" (hostkey.rs:13-15): a pin is replaced only by the answer to
\* a prompt that named the key it replaces.
ReplacementWasReported ==
    [][\A h \in Hosts :
         knownHosts[h] # None /\ knownHosts'[h] # knownHosts[h] =>
           \E a \in Attempts : /\ task[a] = "persist" /\ task'[a] = "granted"
                               /\ Host(a) = h
                               /\ previous[a] = knownHosts[h]]_knownHosts

=============================================================================
