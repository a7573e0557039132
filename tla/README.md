# KyvonOPS: a TLA+ verification project

KyvonOPS is a desktop operations console: a Rust core (`crates/`), a Tauri
backend (`apps/desktop/src-tauri`), a React front end (`apps/desktop/src`), an
MCP server (`apps/mcp`) and a command line (`apps/cli`). It reaches servers over
SSH, streams telemetry from them, opens terminals on them and controls their
services. This directory models the parts where several tasks share state, the stores
behind them, and the rules by which a command or an agent's request is judged;
it checks the models with TLC and proves the most important statements with
TLAPS.

## Inventory

| Part | State it keeps | Operations | Talks to | What is hard |
|---|---|---|---|---|
| Connection lifecycle (`commands/connection.rs`, `state.rs`, `kyvon-ssh/session.rs`) | session map, transport task per connect | connect, disconnect, connected_servers | vault, verifier, event bus | check and insert around a long await; a timeout that drops a future but not its task |
| Host-key verification (`hostkey.rs`, `kyvon-storage/hosts.rs`) | known_hosts, pending prompts | verify, ask, resolve_host_key | operator, database, event bus | two timeouts, late answers, status read before and used after a question |
| Collectors (`commands/telemetry.rs`) | task handle per server | start_collector, stop_collector, the reader task | session, metric store | start/start, start/exit and stop/exit races; asynchronous abort |
| Terminals (`commands/terminal.rs`, `TerminalView.tsx`) | handle per terminal, refs of the view | open, write, resize, close, pump; effects of the view | session, event bus | replies and events unordered; refs shared by successive effects |
| Inventory and vault (`commands/servers.rs`, `kyvon-storage/servers.rs`, `vault.rs`) | rows, keychain entries, what hangs on a row (notes, snapshots, ledger) | add, list, delete, probe; notes and snapshots | session map | two stores without a transaction |
| Service control (`commands/services.rs`, `kyvon-storage/audit.rs`, `ServiceManager.tsx`) | append-only audit ledger, the dialog of the screen | list, assess, start, stop, verify, record; handlers of the screen | session, inventory | link lost between execute, verify and record; replies that arrive in another dialog |
| Metric store (`kyvon-storage/metrics.rs`) | samples, rollup buckets | insert_samples, roll_up, prune, series | collectors, MCP | recomputation after pruning, partial prune |
| Framing and rates (`kyvon-telemetry`), live view (`useTelemetry.ts`) | half a block, last counters; the samples shown | push_line, push_cpu, push_net; the listeners | collectors, event bus | torn streams, counter resets, clock steps; events before their listener |
| Approval gate, tokens, MCP gateway (`kyvon-policy`, `apps/mcp`) | pending requests, issued tokens; role and backend of the gateway | assess, create, list, resolve, issue, consume; one JSON-RPC message at a time | inventory, metric store | expiry at the boundary, a clock that is set, use once; a store another process writes |
| Classifier, quoting, paths, redaction (`kyvon-security`, `kyvon-core`) | none | parse, classify, quote, render | services, MCP | quoting, separators and substitution in any order |
| Topology, diagnostics, discovery, SFTP, CLI, web views | none or derived | pure or sequential | | not stateful |

`PROJECT.json` lists every component with its status, and under `hazards` what in
this code is hard to test, each at its line.

## Modules

    HostTrust          what host-key verification promises
      ^ implemented by
    Connection         connect, verify, authenticate, land, disconnect, delete, restart
      MCConnection, ConnectionProofs
    Collectors         start/stop of telemetry collectors and their tasks
      MCCollectors, CollectorsProofs
    Terminals          TerminalView, the terminal commands, the pump, the shell
      MCTerminals, TerminalsProofs
    ServiceControl     the Services screen, start/stop of units, the audit ledger
      MCServiceControl, ServiceControlProofs
    Telemetry          from the kernel's counters to the store and the screen
      MCTelemetry, TelemetryProofs
    Inventory          rows, secrets, notes, snapshots and their diff
      InventoryProofs
    Metrics            samples, rollups, retention, charts
    Approvals          approval gate and token authority, with RiskTiers
    Gateway            the MCP gateway over Metrics and Approvals
      GatewayProofs    (of all three)
    ShellLine          reading and writing a command line
    Classifier         the risk tier of a command line, over ShellLine
    Backend            the last six, composed
      MCBackend, BackendProofs

### HostTrust

Three variables: what is pinned, what the operator approved, where credentials
were offered. A key is pinned, or a credential offered, only after that key was
approved for that host. Pins found at start count as approved: they come from
earlier runs of the same program.

### Connection

An *attempt* is one invocation of `connect`. `cmd[a]` says where its future is
suspended, `task[a]` where the transport task is that russh spawned for it. They
are separate because `tokio::time::timeout` drops the future and not the task:
after `ConnectTimeout` the verifier keeps waiting for the operator, and a late
"trust" is still written. A prompt is named by its attempt. An action runs from
one await to the next; what happens under the sessions lock is one action
(`CheckExisting`, `Land`, `Disconnect`), what follows its release is another
(`DropDuplicate`, `DisconnectEmit`).

`DeleteServer` only drops the map's `Arc`; `Disconnect` closes the transport.
`Restart` keeps the database and loses the rest. `shown[s]` is the last state
emitted for a server, wherever it came from. `approved` and `offered` are history
variables. The network is an adversary: it may fail at any step, present any key
and stay silent for ever.

Two orderings of timers are possible in principle. `PromptExpired` uses the
actual constants: the connect deadline is set first and is the shorter one, so it
expires first.

### Collectors

A *run* is one invocation of `start_collector`: the command (`start[r]`) and the
task it spawned (`task[r]`). `tasks` is the `Collectors` map. The order of the
code is kept: stream first, then spawn, then `replace`; the task may be over and
have called `forget` before its own handle is registered. `Abort` marks, and
`Cancelled` is the moment the runtime drops the task. Sessions are reduced to
whether a transport is up.

### Terminals

An *effect* is one run of `TerminalView`'s `useEffect`: first mount, retry,
reopen, change of server. Effects follow each other within one mounted component
and share its refs, which is where the difficulty is; a remounted component has
refs of its own and would be a second copy of the module. JavaScript callbacks
are atomic up to their next await. Events travel in order on `bus`; command
replies travel separately, so a view may receive output, or even the closure, of
a terminal whose id it has not been told yet. `pending` keeps those events by the
session they are of: `processEvent` skips the events of other sessions, so only the
order within each counts (`Buffered` is what the limit of 512 looks at). The reader task, its
queue and the pump are first-in first-out and are one counter (`pumped` chases
`printed`). Bytes, base64, search and clipboard are left out.

### ServiceControl

An *operation* is one invocation of `start_service` or `stop_service`, a
*command* a verb and a unit. `op[o]` says where `control` is: asking for the
session, executing, verifying, recording, or waiting for the screen to take its
reply. The screen is one React component whose handlers run up to their next
await; `lists` and `asks` count the `list_services` and `assess_service_action`
calls that have not answered, `awaited` holds the operations it waits for. They
come back in any order, after a click that came later or after the screen was
left. The dialog does not trap the keyboard focus, so the rows behind it stay
usable while it is open.

A session's transport may be lost, its entry removed, the server's row deleted or
the program restarted at any step. `linked` says which running operations still
have a transport: an operation keeps the `Arc` it cloned when the map's entry is
dropped. The states of units are left out: `verify` succeeds with whatever state
it reads. `ran` is the host's side, and a history variable.

### Telemetry

The inside of one collector task, which Collectors leaves out, one task after the
other. A line of the script is modelled where it is read: the channel keeps their
order, and what the host does between two readings of a file (`Traffic`, `Advance`)
happens at the reading. `PushTick`, `PushSection` and `PushEnd` are the cases of
`push_line`; the clock in a TICK is any value, the interface's counters go on,
vanish or restart, and a file may be unreadable. `PushEnd` folds the block into
`TelemetryState`, and its frames wait for the insert (`Inserted`) before they are
emitted. The task can exit or be aborted between any two lines, and aborted during
the insert, which may or may not have been committed; its reader and state go with
it. The view's two listeners are registered one by one.

Three sections stand for all: `stat` and `netdev`, which need an earlier reading,
and `meminfo`, which does not and comes every second tick. HELLO, malformed
markers, slow sections and the values of samples other than traffic are left out.
A unit of time is a second. `carried` and `claimed` are history variables.

### Inventory

`add_server` stores the secret and then the row, `delete_server` removes the
secrets and then the row. `AddServer` and `DeleteSecrets` are the halves up to the
await, `UpsertRow`, `UpsertFails`, `DeleteRow` and `DeleteRowFails` the ways the
other half ends, and `Exit` is the process ending between them. `adding` and
`deleting` are the commands under way; `strays` and `halves` remember which ids a
command cut short left in one store only. A profile keeps its alias, its
authentication method and whether host facts are stored. The foreign keys and the
unique index of `0001_initial.sql` are guards and `Cascade`.

A snapshot document is five lists of subject and detail and the kernel. `Diff`
translates `diff` with the collection into maps, where the last of two items with
one subject wins.

### Metrics

The two tables are maps. A statement is atomic; `prune` is `PruneRaw` and one
`PruneRollup` per resolution, and anything comes between them, `PruneStops`
included. The clock that stamps a sample is the monitored host's, `before` and
`now` are the caller's: none of them is related to another. An average is kept as
sum and count, because SQLite's is a real number, and a summary remembers which
instants it was computed from (`of`). `recorded`, `pruned` and `horizon` are
history variables. `aggregate` is a row of `aggs`; `known_metrics` and reading the
counts back add no state.

### Approvals and Gateway

Both objects of `kyvon-policy` are maps behind a mutex, so an operation is a step;
the wall clock is set to any value between two steps. `listed` is what
`get_pending` returned at this very instant, `unlisted` the requests it has left
out at some time. The gateway owns a gate and an authority and calls neither, so
their callers are unconstrained.

`Gateway` has one message at a time: the notification rule of `handle_message`,
the envelope errors of `handle_rpc`, the tool catalogue with its schemas, and the
guards of `dispatch_tool_call` in their order (`Refusal`). A message is a record of
what those rules look at; an argument is a type and a value. The health call reads
the store (`ReadHealth`) and then the clock (`AnswerHealth`), while the desktop
process inserts, prunes and deletes in the same database. The text of answers and
the line reader of `main` are left out.

### ShellLine and Classifier

A line is a sequence of *pieces*: each character that means something to the parser
is one, and a run of ordinary characters (a name, an option, a path) is one.
`Parse` is a fold over the pieces that keeps `parse`'s state: words so far, the
current word, the segments, redirect targets and whether something was opaque.
`ByProgram` is the table of programs of `classify_segment`, `Classify` trims the
line (`Trim`), answers for an empty one and combines what its segments say. Reasons
and impacts are texts, kept as whether there are any. `Identifiers` and
`Assignments` say of a piece what `build_segment` asks of the characters before
and around a `=`; the names that contain `restart` or `reload` are a set of the
table (`Restarting`). `Quote` and `Render` write a line that `Parse` then reads: the two functions
come from different files of the crate and have to agree.

### Backend

None of these parts calls another, except that the gateway reads the store. One
behaviour therefore exercises one part (`part`): the interleavings between parts
that share nothing would multiply states and show nothing. Where two do share
something it is one part: charts with retention and deletion, health with
collection, retention, deletion and the clock.

## Runs

| Run | Result | Shows |
|---|---|---|
| ConnectionSafety | pass | pins, credentials, sessions, prompts and the Connected badge under every interleaving of two connects; Connection implements HostTrust |
| ConnectionLiveness | pass | a connect settles and a verifier returns though network and operator stay silent |
| Collectors | pass | a running collector's handle leaves the map only with an abort or by another's `forget`; aborted collectors, and collectors without transport, end |
| Terminals | pass | shells stay closable, abandoned ones are closed unless a late reply interferes, input and output keep their order, an exit is announced |
| ServiceControl | pass | the dialog is locked for exactly one operation, what ran is recorded, what the ledger claims was run, a lost link unlocks the dialog |
| Telemetry | pass | the rates shown never add up to more than was carried, what is shown was stored or its loss announced, and a collector that ends by itself says so after its last frame |
| Backend | pass | secrets match rows however a command is cut short; the snapshot diff is exact; charts show only what was observed and a roll-up forgets only what retention took; the gateway answers what it may and calls a reading stale when it is; a listing of requests binds and a refused token stays refused; a line is rated by its worst command, what cannot be read is not called safe, and what is rendered is read back as it was meant |
| ConnectionParked, ConnectionReplaced, CollectorsStop, TerminalsLeft, ServiceShown | violation | see *Findings* |

Bounds.

* Connection: one server, two attempts and two keys, because every race of the
  code is between two connects of one server (the session map and the prompts are
  keyed by server and by attempt) and the second key is what a changed host
  presents. The liveness run has one key: which key is presented does not
  influence what terminates.
* Collectors: two runs, so that a handle is replaced and then forgotten by the
  run it replaced, on two servers, with two sessions so that a reconnect happens.
* Terminals: two effects, which is one reopen, with two units of traffic,
  keystrokes and chunks of output counted together; `MaxPending` has room for
  every event the bounds allow.
* ServiceControl: one server and one command with two operations, because the
  lock and the ledger are about operations; `MaxCalls` outstanding calls of each
  kind. The violation run has two commands. The theorems hold for any number of
  each.
* Telemetry: two ticks over two collectors, so that both readings of a rate are in
  one collector or in two; three values of the clock, so that it can step forwards,
  backwards and stand still; one unit of traffic in each direction, enough for a
  counter to go backwards; one unreadable file. `MaxBus` holds the events of one
  block, so the next block ends when they were delivered. `Word` is any modulus
  above the counters.

* Backend: two servers, aliases, notes and snapshots, so that a name is taken and a
  deletion has something to leave alone. Four instants, rollups of two and four of
  them and retentions of one to three, so that a bucket is cut, swept and rolled up
  again; five calls of the store, the least that insert, roll up, prune, insert and
  roll up again take. Lifetimes of two ticks on a clock of four, so that each
  boundary is hit from both sides. Every way an envelope can be wrong, one at a
  time. Lines of up to four pieces over the whole special alphabet, the table's
  programs with up to two arguments, and built commands whose arguments are up to
  three special pieces: the parser's state is forgotten at every separator, so longer
  lines repeat these.

Deadlock is checked in all runs but those of Terminals and Backend: after the
component unmounts and its commands have returned, nothing is left to happen there,
and a part of Backend stops when its bounded inputs are used up.
Symmetry is used in ConnectionSafety and Terminals, which check no liveness.

## Fairness

Weak fairness for steps that the async runtime or the JavaScript loop takes by
itself: polling a ready future, firing a timer that was set, running an aborted
task's drop, taking a reply. Nothing is assumed of the operator, of a healthy
stream or of a connected host that does not answer. In Connection nothing is
assumed of the network: the timers alone make the properties hold. In Collectors
and ServiceControl a channel whose transport is gone ends, because the keepalive
notices (`session.rs:106-108`, three unanswered keepalives) and
`channel.wait()` then returns `None`. Telemetry and Backend have only safety properties: what they
model is called by others and promises nothing about when. Terminals
assumes no fairness: that the view learns of an exit is stated as an invariant,
`ClosureOnItsWay`.

## Proofs

Connection, Collectors, Terminals, ServiceControl and Telemetry are proved type
correct for every value of their constants (`TypeCorrect`). What follows is what else is
proved, and the invariant each proof needs.

`ConnectionProofs` proves, for any sets of servers, hosts, keys and attempts,
`KeysPinnedByOperator`, `CredentialsOnlyToApproved`,
`PromptsHaveAVerifier`, `LiveSessionsReachable`, `ConnectedWasAuthenticated` and that
`Connection` implements `HostTrust`. The safety properties are not inductive: a pin is
sound because the answer the verifier read was given to this attempt's prompt about
the key this attempt's transport presented, so the invariant `TrustInv` follows the
key from `CheckServerKey` to `Persist` and to `OfferCredential` (`KeyPresented`,
`AnswersApproved`, `TaskTrusted`) and ties each task to its command
(`CommandOwnsTask`). That a server shown as connected was authenticated is proved
step by step: a command that landed stays landed (`LandedStay`), and a step that
newly shows the state is a landing (`ShownByLanding`).

`CollectorsProofs` proves `LostOnlyToForget`: the invariant `Registry` says that
a registered handle belongs to a run of that very server.

`TerminalsProofs` proves all the properties of the Terminals run.
`ShellsClosable`: a second close command for a session
would overwrite one that is shutting the channel, so the invariant says that a
view asks at most once per closer (`ClosesOnce`), which rests on whose session
the shared ref can name (`RefIsCurrent`). `AbandonedOnlyByLateReply`: a view lets go
of a session by itself only when it is told of the closure, so the invariant orders
the events on the bus, per terminal, and puts the closure last (`BusInOrder`,
`ClosureIsLast`). `InputIsPrefix`: once a write was skipped or failed, the session's
input is dead, so nothing is sent after a gap (`NothingSkipped`, `DeadStays`).
`OutputIsPrefix` and `ClosureOnItsWay` rest on `NoGap`: what a view has not rendered
is buffered or on the bus, in order and without a gap. Both have the hypothesis
`[][NothingDropped]_vars`, that no event arrives at a full `pendingEvents`: the code
drops such an event, and then the statements are false. The run's `MaxPending` is never
reached for the same reason; the drop itself is listed as a hazard.

`ServiceControlProofs` proves `LockedWhileRunning`, `RanIsRecorded` and
`LedgerClaimsWereRun`. The lock is inductive with types alone. The two statements
about the ledger are not: an outcome is computed steps before it is written, so
`OutcomesEarned` follows it from the end of the channel to the record, and
`NotYetRun` says that a command can run only once its operation took a session, so
that one refused a session may return without a record.

`TelemetryProofs` proves `ShownIsStored`, `SilenceIsExplained` and
`NoInventedTraffic`. The screen shows what was emitted some steps ago, so
`BusIsStored` says of every frame on the bus
that its rows are accounted for; `EndIsLast` says that nothing follows the event of
a collector's end, and `ShownListens` that only a listening view shows anything.
`NoInventedTraffic` bounds a sum that grows with every sample: the next sample fits
because what the host carried since the last reading is still unclaimed
(`RoomToClaim`), because a reading is never ahead of the counters (`ReadIsNow`,
`CountsCarried`), and because a rate is rounded down and not computed across a reset,
so that the unsigned subtraction does not wrap.

`InventoryProofs` proves the schema's constraints (`SchemaHolds`),
`SecretsMatchRows` and `DiffIsExact`. The second is not inductive: a row gets its
secret one command earlier, so `SecretInv` adds that a command under way has stored
the secret its method asks for, that no id is being added and deleted at once, and
that whatever a deletion left in the keychain is a stray. The diff is a function of
two documents: a list that names a subject once is the map collected from it
(`MapOfList`, by the existence of a last index), a change is listed exactly where two
maps differ, and the two columns are the two differences of the documents
(`DiffColumns`). It needs the assumption that stored documents are documents
(`DocumentsAssumption`).

`GatewayProofs` has three parts. *The store*, `StoreSpec`, with frames of any metrics
and values: `RollUpNeverForgets`, for any widths and retentions. The
invariant `StoreInv` says that a bucket remembers only instants of its own span
(`BucketsHold`), each still stored or removed by retention (`BucketsBacked`); a
roll-up therefore finds again all that are stored and before its horizon. It also
proves that the integer formula for the rank of the 95th percentile is a rank of
every group (`P95RankIsARank`). `ChartPointsAreObserved` and the store's types speak of
the sum over a group, which is a fold over a finite set: `SumIsFold` unrolls it,
`SubsetInduction` (least counterexample, over the cardinalities of the subsets) bounds
it between the group's size times its least and its greatest sample (`SumBounds`), and
the invariant `ChartInv` keeps that of every bucket, since the samples it averaged may
be pruned while it is still drawn. *The gate and the tokens*, `ApprovalsSpec`:
`ListingsAreBinding` and `RefusalIsFinal`, for any clock
and any lifetimes. Both are about one step, but only from states in which what was
decided, left out of a list or refused is out of its map (`GateInv`, `TokenInv`);
that rests on ids being drawn once, and on a list being valid only until the clock
moves, which is when `listed` is emptied. *The gateway*, `GatewaySpec`, beside a store
and a clock that take any step of theirs between two of its own:
`RepliesAreEarned`, for which `Earned` says what may be said to a message and
`ReplyIsEarned` goes through `handle_rpc`, and `HealthIsHonest`. The latter speaks of
everything stored at the read while the code looks only at the newest sample per
metric, so `NewestFact` shows that the latest of these is the latest of all;
`CallHolds` keeps what the read found until the answer, and `RecordedKept` says that
what was recorded of a server with a row is stored or was removed by retention, so
that finding nothing means that nothing was kept.

`BackendProofs` is about the classifier and the whole. *The classifier*,
`ClassifierSpec`, for lines of any length over any alphabet. `Parse` is a loop, and so
is `build_segment`: each is reasoned about as the history of its turns (`IsHistory`;
`HistoryExists` and `HistoryUnique` show that the recursive function of `Repeat` is
one), with induction over the turns by least counterexample (`UpTo`, `Between`).
`UnreadableIsNotSafe` compares `parse` with an automaton that follows a shell's
quoting: wherever `parse` stands it has reported something opaque, or the automaton is
in its plain context and nothing that substitutes has been passed (`Clear`,
`StepTracks`); `WorstPartDecides` then says of the verdict, for any parse, that it is
as bad as its worst part and that what is unknown or harmful is at least Medium.
`RenderedIsOneCommand` says that `parse` and `build_segment` undo `quote` and `render`.
`WordsFound` says where the quoted words stand in the joined line; `BareRead` and
`QuotedRead` walk `parse` through a bare and through a quoted word, for the latter from
one quote in the word to the next (`QuoteToQuote`), so that `WordRead` gives back the
word; and `BuiltSegment` shows that the rounds of `build_segment` take off `sudo -n` and
nothing else. That needs `BuiltAssumption`: no assembled command names a wrapper, an
option or an assignment as its program (every caller of `Cmd::new` names `systemctl`).
`WorstSegmentWins` compares the parse of a line, trimmed as `classify` trims it, with the
parses of what stands on either side of a separator; a trimmed line is a line
(`TrimIsWord`), so what is proved of all lines holds of it. Both sides are windows of the line (`Window`), and the search for
the end of a quote or a substitution finds in a window what it finds in the line as long
as that lies within it, so a turn at the same place does the same (`SameStep`). No turn
that starts before the separator ends beyond it (`CutStep`, by the quoting automaton), so
the left side is read as it is alone (`LeftReads`). Behind the separator `parse` has
nothing left over: no word, and no redirection waiting for its target, because one waits
only where the line says so (`AllAttentive`). From there it follows the parse of the
right side turn by turn (`Follows`, `RightReads`), but that the first segment there may
read from a pipe. The two lists of segments then join (`Joins`), their tiers do not
depend on the pipe (`TierByWords`), and the highest of all is the higher of the two
sides' (`CutDecides`), unless a download meets a shell at the cut. The proof found the
property too strong as it had been stated: `parse` keeps a target pending through
separators, blanks and a `<`, so in `> < ; x` the separator does not cut the redirection
off from `x`; such a separator is no cut (`Cuts`), and the run now types `<` too.
*The whole*. `ImplementsItsComponents`: a behaviour of Backend, the specification the
run checks, is a behaviour of `InventorySpec`, `ApprovalsSpec`, `StoreSpec`,
`GatewaySpec` and `ClassifierSpec`; `BackendIsSafe` carries their theorems over.

The assumptions are those named in the modules: `None` is none of the ids, the
bounds are naturals, profiles map servers to hosts, documents, messages, typed pieces
and assembled commands have their shape, there is a metric value, the pieces the
program writes itself are strings (`WrittenAssumption`), `sudo` is a name and `-n` an
option (`SudoAssumption`).

Checked by TLC only: the liveness properties. They hold under fairness, whose definition
rests on `ENABLED`, which the installed provers do not reason about. Every safety
invariant and action property of a passing run is a theorem, two of Terminals' under the
hypothesis named above.

## Findings

* **A prompt does not park the connection.** `session.rs:121` bounds the whole key
  exchange by 15 seconds, the operator's decision included (120 seconds).
* **A replaced key may be presented as a first contact**, when two prompts for one
  new host are open.
* **An ending collector may forget its successor's handle**, which then cannot be
  stopped (`forget` removes the entry whoever registered it).
* **A shell may be left running.** `closeSession` clears the shared session id
  after its await, though the view may have been reopened.
* **The command executed may not be the one shown.** `initiate` stores the
  assessment it awaited in whichever dialog is open when it arrives.

Observed and not stated as a property:

* `can_transition_to` (`inventory.rs`) has no caller outside tests; emissions of
  connection states race, so the last one shown need not be the last that is true.
* `start_collector` opens its stream before it looks at the map, so two streams of
  one server exist until the older one is aborted.
* `control` records a success whatever state the verified unit is in
  (`services.rs:222`), which `audit.rs:14-22` words more strongly.
* A list that answers late is shown under whichever server is selected then
  (`ServiceManager.tsx:44`).
* A server deleted while an operation runs makes the audit insert fail on its
  foreign key; deleting one later updates ledger rows (`ON DELETE SET NULL`),
  which `0001_initial.sql` says nothing does.
* A frame clears `stoppedReason`, so the warning that telemetry is not recorded
  (`telemetry.rs:105`) is gone with the frames of the same block.
* A view whose first listener is registered before the second can show a frame and
  miss the end (`useTelemetry.ts:79`, `:120`), after which the numbers stay without
  the reason that line 22 promises; `SilenceIsExplained` excepts that case, and an
  aborted collector, which emits nothing.
* `roll_up` over a bucket that `prune` has cut overwrites the whole summary by that
  of the rest, and so does one with a smaller `before`, though `metrics.rs:171` calls
  it idempotent; `RollUpNeverForgets` excepts both. Neither has a caller outside tests,
  so nothing fills the rollups that wide charts read.
* A keychain error leaves `Connecting` as the last state shown.
* `add_server` with a taken alias, or refused by the database, leaves the secret in
  the keychain under an id nobody is told; `delete_server` removes the secret before
  the row, so a failing database leaves a server that cannot log in. Both are the
  exceptions of `SecretsMatchRows` (`strays`, `halves`).
* After a deletion, or once retention has removed the samples, `kyvon_server_health`
  says that no telemetry has ever been recorded, which `backend.rs:50` reserves for a
  host nothing was ever collected for. A host whose clock is ahead is never stale.
* Tokens carry no time of issue that is checked: a clock set back prolongs one that
  is not presented meanwhile.
* In a snapshot two items of one subject collapse to the last; a kernel that becomes
  known is no change, one that becomes unknown is.
* The classifier does not see a backtick inside double quotes (excepted in
  `UnreadableIsNotSafe`); a redirect to an ordinary file stays Safe; `|&` does not
  count as a pipe into a shell; several Medium and High verdicts carry no reason, so
  the default text, which speaks of reading, is shown with them; three options of
  package managers (`-R`, `-Q`, `-Syu`) are matched where only words without a dash
  arrive.
* `events.ts` says nothing emits `kyvon-event`, which `connection.rs` and
  `hostkey.rs` do and `ServerList.tsx` listens to.

## Plan

1. Done: Connection with HostTrust, Collectors, Terminals, ServiceControl, Telemetry,
   and the stores, policy and classifier composed in Backend.
2. Done: theorems for every safety property the runs check, but those listed above as
   checked by TLC only.
3. A composition of Connection, Collectors and Terminals over one session map: what a
   disconnect ends. The overflow of `pendingEvents`; units with their states.

## Not modelled

* Text parsers (`proc.rs`, `commands.rs`, `discovery.rs`'s output) and redaction
  (`redact.rs`, `redactor.rs`): functions from text to records or text without state,
  whose errors are in the patterns; unit tests fit them better than a model would.
* Topology and diagnostics: computations over collected facts that no command of the
  desktop or the gateway reaches yet.
* SFTP (no caller) with `validate_remote_path`, which only it uses, the file commands
  (stubs), settings (a map with one-statement operations), opening the database.
* The command line and the web views other than those named above: sequential, or
  presentation.
