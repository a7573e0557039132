------------------------------ MODULE Telemetry ------------------------------
(***************************************************************************)
(* The telemetry of one server, from the kernel's counters to the screen:  *)
(* the remote script and BlockReader (kyvon-telemetry/collector.rs), the   *)
(* conversion of blocks into samples (protocol.rs, state.rs, sample.rs),   *)
(* the collector task that stores and emits them (commands/telemetry.rs),  *)
(* metric_samples (kyvon-storage/metrics.rs) and the live view             *)
(* (lib/useTelemetry.ts).                                                  *)
(*                                                                         *)
(* One collector runs at a time; Collectors is about more.  Of the         *)
(* sections of a block three are kept, one for each way they are treated:  *)
(* "stat" and "netdev" are cumulative, "meminfo" is not and comes every    *)
(* second tick.  One network interface stands for all.                     *)
(***************************************************************************)
EXTENDS Integers, Sequences, SequencesExt, TLC

CONSTANTS MaxTicks,    \* bound: ticks of the script
          MaxStreams,  \* bound: collectors started
          MaxBus,      \* bound: events not delivered yet
          MaxTime,     \* bound: the host's clock, and its uptime
          MaxBytes,    \* bound: traffic of each direction
          MaxFaults,   \* bound: sections that could not be read
          Word,        \* counters are unsigned modulo Word (2^64 in the code)
          None, Empty  \* no section; a section without a body

Dirs     == {"rx", "tx"}
Sections == {"stat", "netdev", "meminfo"}
Metrics  == {"cpu", "network", "memory"}
Counters == [Dirs -> 0..MaxBytes]

ASSUME TelemetryAssumption ==
    /\ {MaxTicks, MaxStreams, MaxBus, MaxTime, MaxBytes, MaxFaults} \subseteq Nat
    /\ Word \in Nat /\ Word > MaxBytes
    /\ None \notin Int \cup STRING \cup Counters /\ Empty \notin Int \cup STRING
    /\ None # Empty

VARIABLES
    \* the host
    uptime,   \* the total of /proc/stat, as last read
    eth,      \* the interface's counters as last read; None while there is none
    carried,  \* bytes the interface really carried by then, by direction
    \* the script
    script,   \* what it prints next
    even,     \* parity of its tick counter
    ticks, faults,
    \* the collector task
    task, streams,
    reader,   \* BlockReader
    lastCpu, lastNet,  \* TelemetryState
    frames,   \* frames of the block being stored
    claimed,  \* bytes the network samples stand for, by direction
    \* database, events and view
    store,    \* metric_samples: <<metric, ts>>
    unsaved,  \* samples whose insert failed
    bus,      \* events emitted and not delivered
    listening, \* the listeners of the view that are registered
    shown,    \* the timestamp of the sample shown for each metric
    stopped   \* stoppedReason is set; "missed" if it would be, had its listener
              \* been registered as early as the other

hostVars   == <<uptime, eth, carried>>
scriptVars == <<script, even, ticks, faults>>
stateVars  == <<lastCpu, lastNet, claimed>>
dbVars     == <<store, unsaved>>
viewVars   == <<listening, shown, stopped>>
vars == <<hostVars, scriptVars, task, streams, reader, frames, stateVars,
          dbVars, bus, viewVars>>

Clock == 0..MaxTime

Listeners == {"telemetry", "stopped"}

NetReading == Counters \cup {None}

Reader == [inBlock : BOOLEAN, ts : Clock,
           stat : {None, Empty} \cup 0..MaxTime,
           netdev : {None, Empty} \cup [eth : NetReading],
           meminfo : {None, Empty, "ok"}]

Frame == [type : Metrics \cup {"error"}, ts : Clock]

Event == Frame \cup {[type |-> "stopped"]}

TypeOK ==
    /\ uptime \in 0..MaxTime
    /\ eth \in NetReading
    /\ carried \in Counters
    /\ script \in {"tick", "end"} \cup Sections
    /\ even \in BOOLEAN
    /\ ticks \in 0..MaxTicks /\ faults \in 0..MaxFaults
    /\ task \in {"none", "reading", "insert", "ended", "aborted"}
    /\ streams \in 0..MaxStreams
    /\ reader \in Reader
    /\ lastCpu \in {None} \cup 0..MaxTime
    /\ lastNet \in {None} \cup [ts : Clock, eth : NetReading]
    /\ frames \in Seq(Frame)
    /\ claimed \in [Dirs -> Nat]
    /\ store \subseteq Metrics \X Clock /\ unsaved \subseteq Metrics \X Clock
    /\ bus \in Seq(Event)
    /\ listening \subseteq Listeners
    /\ stopped \in {"no", "set", "missed"}
    /\ shown \in [Metrics -> Clock \cup {None}]

-------------------------------------------------------------------------------
EmptyReader == [inBlock |-> FALSE, ts |-> 0,
                stat |-> None, netdev |-> None, meminfo |-> None]

NothingShown == [m \in Metrics |-> None]

Init ==
    /\ uptime = 0
    /\ eth = [d \in Dirs |-> 0]
    /\ carried = [d \in Dirs |-> 0]
    /\ script = "tick" /\ even = TRUE
    /\ reader = EmptyReader /\ frames = <<>>
    /\ lastCpu = None /\ lastNet = None
    /\ ticks = 0 /\ faults = 0
    /\ task = "none" /\ streams = 0
    /\ claimed = [d \in Dirs |-> 0]
    /\ store = {} /\ unsaved = {}
    /\ bus = <<>>
    /\ listening = {} /\ shown = NothingShown /\ stopped = "no"

-------------------------------------------------------------------------------
(* The host, between two readings of a file.                               *)

Advance == uptime' \in uptime..(IF uptime < MaxTime THEN uptime + 1 ELSE uptime)

\* The interface carries more; its counters go on, or it is gone, or it was reset
\* and counts from zero.
Traffic ==
    \E more \in Counters :
        /\ \A d \in Dirs : carried[d] + more[d] <= MaxBytes
        /\ carried' = [d \in Dirs |-> carried[d] + more[d]]
        /\ \/ eth # None /\ eth' = [d \in Dirs |-> eth[d] + more[d]]
           \/ eth' = None
           \/ eth' \in {c \in Counters : \A d \in Dirs : c[d] <= more[d]}

-------------------------------------------------------------------------------
(* The collector task reads what the script prints.  The channel keeps the *)
(* order of lines, so a line is modelled where it is read; the host's      *)
(* clock may be set between any two ticks.                                 *)

\* start_collector: a new stream.
Start ==
    /\ task \in {"none", "ended", "aborted"} /\ streams < MaxStreams
    /\ streams' = streams + 1
    /\ task' = "reading"
    /\ UNCHANGED <<hostVars, scriptVars, reader, frames, stateVars, dbVars, bus, viewVars>>

\* TICK begins a block, and drops one that was not ended.
PushTick(now) ==
    /\ task = "reading" /\ script = "tick" /\ ticks < MaxTicks
    /\ ticks' = ticks + 1
    /\ script' = "stat"
    /\ reader' = [EmptyReader EXCEPT !.inBlock = TRUE, !.ts = now]
    /\ UNCHANGED <<hostVars, even, faults, task, streams, frames, stateVars, dbVars, bus,
                   viewVars>>

\* SEC and the file's contents; a file that cannot be read has none.
PushSection(sec) ==
    /\ task = "reading" /\ script = sec
    /\ script' = CASE sec = "stat"    -> "netdev"
                   [] sec = "netdev"  -> IF even THEN "meminfo" ELSE "end"
                   [] sec = "meminfo" -> "end"
    /\ IF sec = "stat" THEN Advance ELSE UNCHANGED uptime
    /\ IF sec = "netdev" THEN Traffic ELSE UNCHANGED <<eth, carried>>
    /\ \/ /\ reader' = [reader EXCEPT ![sec] = CASE sec = "stat"    -> uptime'
                                                 [] sec = "netdev"  -> [eth |-> eth']
                                                 [] sec = "meminfo" -> "ok"]
          /\ UNCHANGED faults
       \/ /\ faults < MaxFaults /\ faults' = faults + 1
          /\ reader' = [reader EXCEPT ![sec] = Empty]
    /\ UNCHANGED <<even, ticks, task, streams, frames, stateVars, dbVars, bus, viewVars>>

Parsed(sec) == reader[sec] \notin {None, Empty}

\* push_cpu: a sample needs an earlier reading and time between the two.
CpuSample == Parsed("stat") /\ lastCpu # None /\ reader.stat > lastCpu

\* Mutant: only one direction is looked at.
WentBackwards_RxOnly(c, p) == c["rx"] < p["rx"]

\* A counter that went backwards was reset.
WentBackwards(c, p) == \E d \in Dirs : c[d] < p[d]

\* push_net: also a clock that went forwards, and an interface that was there.
NetSample ==
    /\ Parsed("netdev") /\ lastNet # None
    /\ reader.ts > lastNet.ts
    /\ reader.netdev.eth # None /\ lastNet.eth # None
    /\ ~WentBackwards(reader.netdev.eth, lastNet.eth)

\* The rate of a direction, rounded down; the subtraction is unsigned.
Rate(d) == ((reader.netdev.eth[d] - lastNet.eth[d]) % Word)
              \div (reader.ts - lastNet.ts)

FrameIf(c, type) == IF c THEN <<[type |-> type, ts |-> reader.ts]>> ELSE <<>>

\* block_to_frames, in its order.
BlockFrames ==
    FrameIf(CpuSample, "cpu") \o FrameIf(reader.stat = Empty, "error")
      \o FrameIf(Parsed("meminfo"), "memory") \o FrameIf(reader.meminfo = Empty, "error")
      \o FrameIf(NetSample, "network") \o FrameIf(reader.netdev = Empty, "error")

Rows(fs) == {<<f.type, f.ts>> : f \in {g \in ToSet(fs) : g.type \in Metrics}}

\* The block is folded into the state; its frames are kept if they have to wait.
Fold ==
    /\ frames' = IF Rows(BlockFrames) = {} THEN <<>> ELSE BlockFrames
    /\ lastCpu' = IF Parsed("stat") THEN reader.stat ELSE lastCpu
    /\ lastNet' = IF Parsed("netdev")
                  THEN [ts |-> reader.ts, eth |-> reader.netdev.eth] ELSE lastNet
    /\ claimed' = IF NetSample
                  THEN [d \in Dirs |-> claimed[d] + Rate(d) * (reader.ts - lastNet.ts)]
                  ELSE claimed
    /\ reader' = EmptyReader

\* Mutant: the frames are emitted before their rows are stored.
PushEnd_EmitsFirst ==
    /\ task = "reading" /\ script = "end" /\ Len(bus) + 4 <= MaxBus
    /\ script' = "tick" /\ even' = ~even
    /\ Fold
    /\ bus' = bus \o BlockFrames
    /\ task' = IF Rows(BlockFrames) = {} THEN "reading" ELSE "insert"
    /\ UNCHANGED <<hostVars, ticks, faults, streams, dbVars, viewVars>>

\* END of a block.  If there are rows their insert is awaited before anything is
\* emitted.
PushEnd ==
    /\ task = "reading" /\ script = "end" /\ Len(bus) + 4 <= MaxBus
    /\ script' = "tick" /\ even' = ~even
    /\ Fold
    /\ IF Rows(BlockFrames) = {}
       THEN task' = "reading" /\ bus' = bus \o BlockFrames
       ELSE task' = "insert" /\ UNCHANGED bus
    /\ UNCHANGED <<hostVars, ticks, faults, streams, dbVars, viewVars>>

Stopped == [type |-> "stopped"]

\* All the rows or none: the inserts are one transaction.
InsertSamples(ok) ==
    IF ok THEN store' = store \cup Rows(frames) /\ UNCHANGED unsaved
          ELSE unsaved' = unsaved \cup Rows(frames) /\ UNCHANGED store

\* insert_samples returned: a failure is announced, the frames are emitted in
\* any case.
Inserted(ok) ==
    /\ task = "insert"
    /\ task' = "reading"
    /\ frames' = <<>>
    /\ InsertSamples(ok)
    /\ bus' = (IF ok THEN bus ELSE Append(bus, Stopped)) \o frames
    /\ UNCHANGED <<hostVars, scriptVars, streams, reader, stateVars, viewVars>>

\* The reader and the state are the task's own, and so is the script's tick
\* counter: they go when it ends, and the next one starts without them.
DropLocals ==
    /\ script' = "tick" /\ even' = TRUE
    /\ reader' = EmptyReader /\ frames' = <<>>
    /\ lastCpu' = None /\ lastNet' = None

\* Mutant: the loop is left without an event.
Exited_Silently ==
    /\ task = "reading"
    /\ task' = "ended"
    /\ DropLocals
    /\ UNCHANGED <<hostVars, ticks, faults, streams, claimed, dbVars, bus, viewVars>>

\* The script ends or the transport is lost, between any two lines.
Exited ==
    /\ task = "reading" /\ Len(bus) < MaxBus
    /\ task' = "ended"
    /\ DropLocals
    /\ bus' = Append(bus, Stopped)
    /\ UNCHANGED <<hostVars, ticks, faults, streams, claimed, dbVars, viewVars>>

\* The task is aborted at an await, by stop_collector or by a newer collector.
\* An insert that was under way may have been committed.
Aborted ==
    /\ task \in {"reading", "insert"}
    /\ task' = "aborted"
    /\ store' \in {store, store \cup Rows(frames)}
    /\ DropLocals
    /\ UNCHANGED <<hostVars, ticks, faults, streams, claimed, unsaved, bus, viewVars>>

-------------------------------------------------------------------------------
(* The live view.                                                          *)

\* The effect asks for both listeners at once; the replies come one by one.
\* Until the first there is nothing the view could show.
Listen(l) ==
    /\ l \notin listening
    /\ listening' = listening \cup {l}
    /\ UNCHANGED <<hostVars, scriptVars, task, streams, reader, frames, stateVars,
                   dbVars, bus, shown, stopped>>

\* The screen is left or another server selected.
Unlisten ==
    /\ listening # {}
    /\ listening' = {}
    /\ shown' = NothingShown /\ stopped' = "no"
    /\ UNCHANGED <<hostVars, scriptVars, task, streams, reader, frames, stateVars,
                   dbVars, bus>>

\* Mutant: a frame that is no sample is not distinguished.
Apply_Any(e) ==
    /\ shown' = (e.type :> e.ts) @@ shown
    /\ stopped' = "no"

\* A frame replaces the sample of its type and clears the reason, also when it
\* only carries an error.
Apply(e) ==
    /\ shown' = [m \in Metrics |-> IF m = e.type THEN e.ts ELSE shown[m]]
    /\ stopped' = "no"

\* An event reaches the listeners that are registered for it.
Deliver ==
    /\ bus # <<>>
    /\ bus' = Tail(bus)
    /\ IF Head(bus) = Stopped
       THEN /\ stopped' = IF "stopped" \in listening THEN "set"
                          ELSE IF "telemetry" \in listening THEN "missed" ELSE stopped
            /\ UNCHANGED shown
       ELSE IF "telemetry" \in listening THEN Apply(Head(bus))
            ELSE UNCHANGED <<shown, stopped>>
    /\ UNCHANGED <<hostVars, scriptVars, task, streams, reader, frames, stateVars,
                   dbVars, listening>>

-------------------------------------------------------------------------------
Collector ==
    \/ Start \/ PushEnd \/ Exited \/ Aborted
    \/ \E now \in Clock : PushTick(now)
    \/ \E sec \in Sections : PushSection(sec)
    \/ \E ok \in BOOLEAN : Inserted(ok)

View == (\E l \in Listeners : Listen(l)) \/ Unlisten \/ Deliver

Next == Collector \/ View

Spec == Init /\ [][Next]_vars

-------------------------------------------------------------------------------
(* Properties.                                                             *)

\* The area under the network chart never exceeds the bytes the interface
\* carried, whatever clock steps, resets, lost lines and restarts happened
\* (state.rs:69-120).
NoInventedTraffic == \A d \in Dirs : claimed[d] <= carried[d]

\* Every sample on the screen is in the store, or its loss was announced
\* (telemetry.rs:89-117: "Persist before emitting").
ShownIsStored ==
    \A m \in Metrics : shown[m] # None => <<m, shown[m]>> \in store \cup unsaved

\* Numbers of a collector that ended by itself do not freeze quietly: the last
\* event is its end, and the view says so once it has it, unless it got a frame
\* before its other listener was registered (useTelemetry.ts:22-23).
SilenceIsExplained ==
    task = "ended" /\ (\E m \in Metrics : shown[m] # None)
        => IF bus = <<>> THEN stopped # "no" ELSE Last(bus) = Stopped
=============================================================================
