---------------------------- MODULE TelemetryProofs ----------------------------
(***************************************************************************)
(* Proofs about Telemetry, for any bounds.                                 *)
(*                                                                         *)
(* ShownIsStored is about the screen, which shows what was emitted earlier *)
(* and delivered since; the invariant therefore says it of every frame on  *)
(* the bus as well (BusIsStored).  SilenceIsExplained needs that the end   *)
(* of a collector is its last event even before anything is shown          *)
(* (EndIsLast), and that what is shown was listened to (ShownListens).     *)
(* NoInventedTraffic is about the sum of all samples; the next one fits    *)
(* under it because what the counters grew since the last reading was      *)
(* carried since then (RoomToClaim), whether they went on or were reset.   *)
(***************************************************************************)
EXTENDS Telemetry, TLAPS

Stored(e) == e.type \in Metrics => <<e.type, e.ts>> \in store \cup unsaved

BusIsStored == \A i \in 1..Len(bus) : Stored(bus[i])

\* The part of TypeOK that the way of a frame depends on.
FrameTypes ==
    /\ reader.ts \in Clock /\ DOMAIN reader = {"ts", "inBlock"} \cup Sections
    /\ frames \in Seq(Frame)
    /\ bus \in Seq(Event)
    /\ shown \in [Metrics -> Clock \cup {None}]

StoreInv == FrameTypes /\ BusIsStored /\ ShownIsStored

\* A block becomes a sequence of frames (block_to_frames).
LEMMA FramesOfBlock ==
    ASSUME reader.ts \in Clock
    PROVE  BlockFrames \in Seq(Frame)
<1>1. ASSUME NEW c, NEW t \in Metrics \cup {"error"}
      PROVE  FrameIf(c, t) \in Seq(Frame)
  <2>1. [type |-> t, ts |-> reader.ts] \in Frame  BY DEF Frame
  <2>2. <<[type |-> t, ts |-> reader.ts]>> \in Seq(Frame)  BY <2>1
  <2>3. <<>> \in Seq(Frame)  OBVIOUS
  <2> QED  BY <2>2, <2>3 DEF FrameIf
<1>2. {"cpu", "memory", "network", "error"} \subseteq Metrics \cup {"error"}
  BY DEF Metrics
<1> QED  BY <1>1, <1>2 DEF BlockFrames

\* The rows of a sequence of frames are exactly what Stored asks for.
LEMMA RowsOfFrames ==
    ASSUME NEW fs \in Seq(Frame), NEW i \in 1..Len(fs), fs[i].type \in Metrics
    PROVE  <<fs[i].type, fs[i].ts>> \in Rows(fs)
<1>1. fs[i] \in {g \in ToSet(fs) : g.type \in Metrics}  BY DEF ToSet
<1> QED  BY <1>1 DEF Rows

\* What a new reader, and one that has just seen TICK, look like.
LEMMA FreshReader ==
    /\ EmptyReader.ts \in Clock
    /\ DOMAIN EmptyReader = {"ts", "inBlock"} \cup Sections
    /\ \A now : [EmptyReader EXCEPT !.inBlock = TRUE, !.ts = now].ts = now
    /\ \A now : DOMAIN [EmptyReader EXCEPT !.inBlock = TRUE, !.ts = now]
                  = {"ts", "inBlock"} \cup Sections
<1>1. 0 \in Clock  BY TelemetryAssumption DEF Clock
<1> QED  BY <1>1 DEF EmptyReader, Sections

\* The invariant of the store and the bus holds at first.
LEMMA StoreInvInit == Init => StoreInv
<1> SUFFICES ASSUME Init PROVE StoreInv  OBVIOUS
<1>1. FrameTypes
  <2>1. reader.ts \in Clock /\ DOMAIN reader = {"ts", "inBlock"} \cup Sections
    BY FreshReader DEF Init
  <2>2. frames \in Seq(Frame) /\ bus \in Seq(Event)  BY DEF Init
  <2>3. shown \in [Metrics -> Clock \cup {None}]  BY DEF Init, NothingShown
  <2> QED  BY <2>1, <2>2, <2>3 DEF FrameTypes
<1>2. BusIsStored  BY DEF Init, BusIsStored
<1>3. ShownIsStored  BY DEF Init, ShownIsStored, NothingShown
<1> QED  BY <1>1, <1>2, <1>3 DEF StoreInv

\* What is stored stays stored, and so what is on its way stays accounted for.
LEMMA StoreGrows ==
    ASSUME FrameTypes, BusIsStored, ShownIsStored,
           store \cup unsaved \subseteq store' \cup unsaved'
    PROVE  /\ \A i \in 1..Len(bus) : bus[i].type \in Metrics =>
                 <<bus[i].type, bus[i].ts>> \in store' \cup unsaved'
           /\ UNCHANGED bus => BusIsStored'
           /\ UNCHANGED shown => ShownIsStored'
<1>1. \A e : Stored(e) => (e.type \in Metrics => <<e.type, e.ts>> \in store' \cup unsaved')
  BY DEF Stored
<1>2. \A i \in 1..Len(bus) : bus[i].type \in Metrics =>
          <<bus[i].type, bus[i].ts>> \in store' \cup unsaved'
  BY <1>1 DEF BusIsStored
<1>3. UNCHANGED bus => BusIsStored'  BY <1>2 DEF BusIsStored, Stored
<1>4. UNCHANGED shown => ShownIsStored'  BY DEF ShownIsStored
<1> QED  BY <1>2, <1>3, <1>4

\* Frames join the bus once their rows are accounted for, a warning any time.
LEMMA BusGrows ==
    ASSUME FrameTypes, BusIsStored, ShownIsStored,
           store \cup unsaved \subseteq store' \cup unsaved',
           NEW fs \in Seq(Frame), Rows(fs) \subseteq store' \cup unsaved',
           bus' = bus \o fs \/ bus' = Append(bus, Stopped) \o fs
    PROVE  bus' \in Seq(Event) /\ BusIsStored'
<1>1. fs \in Seq(Event) /\ bus \in Seq(Event) /\ Append(bus, Stopped) \in Seq(Event)
  BY DEF Event, FrameTypes, Stopped
<1>2. \A i \in 1..Len(bus) : bus[i].type \in Metrics =>
          <<bus[i].type, bus[i].ts>> \in store' \cup unsaved'
  BY StoreGrows
<1>3. \A i \in 1..Len(fs) : fs[i].type \in Metrics =>
          <<fs[i].type, fs[i].ts>> \in store' \cup unsaved'
  BY RowsOfFrames
<1>4. Stopped.type \notin Metrics  BY DEF Stopped, Metrics
<1>5. ASSUME NEW b \in Seq(Event), bus' = b \o fs,
             \A i \in 1..Len(b) : b[i].type \in Metrics =>
                <<b[i].type, b[i].ts>> \in store' \cup unsaved'
      PROVE  bus' \in Seq(Event) /\ BusIsStored'
  <2>1. bus' \in Seq(Event)  BY <1>1, <1>5
  <2>2. ASSUME NEW i \in 1..Len(bus'), bus'[i].type \in Metrics
        PROVE  <<bus'[i].type, bus'[i].ts>> \in store' \cup unsaved'
    <3>1. CASE i <= Len(b)
      <4>1. i \in 1..Len(b) /\ bus'[i] = b[i]  BY <1>1, <1>5, <3>1
      <4> QED  BY <4>1, <1>5, <2>2
    <3>2. CASE i > Len(b)
      <4>1. i - Len(b) \in 1..Len(fs) /\ bus'[i] = fs[i - Len(b)]  BY <1>1, <1>5, <3>2
      <4> QED  BY <4>1, <1>3, <2>2
    <3>3. i \in Int /\ Len(b) \in Int  BY <2>1, <1>5
    <3>4. i <= Len(b) \/ i > Len(b)  BY <3>3
    <3> QED  BY <3>1, <3>2, <3>4
  <2> QED  BY <2>1, <2>2 DEF BusIsStored, Stored
<1>6. CASE bus' = bus \o fs  BY <1>1, <1>2, <1>5, <1>6
<1>7. CASE bus' = Append(bus, Stopped) \o fs
  <2> DEFINE b == Append(bus, Stopped)
  <2>1. ASSUME NEW i \in 1..Len(b), b[i].type \in Metrics
        PROVE  <<b[i].type, b[i].ts>> \in store' \cup unsaved'
    <3>1. i = Len(bus) + 1 => b[i] = Stopped  BY <1>1
    <3>2. i # Len(bus) + 1 => i \in 1..Len(bus) /\ b[i] = bus[i]  BY <1>1
    <3> QED  BY <3>1, <3>2, <1>2, <1>4, <2>1
  <2> QED  BY <1>1, <1>5, <1>7, <2>1
<1> QED  BY <1>6, <1>7

\* Every step keeps it.
LEMMA StoreInvStep == StoreInv /\ [Next]_vars => StoreInv'
<1> SUFFICES ASSUME StoreInv, [Next]_vars PROVE StoreInv'  OBVIOUS
<1> USE DEF StoreInv
<1>f. ASSUME reader'.ts \in Clock, DOMAIN reader' = DOMAIN reader,
             frames' \in Seq(Frame), bus' \in Seq(Event),
             shown' \in [Metrics -> Clock \cup {None}]
      PROVE  FrameTypes'
  BY <1>f DEF FrameTypes
<1>e. <<>> \in Seq(Frame)  OBVIOUS
<1>0. CASE UNCHANGED <<reader, frames, bus, shown, store, unsaved>>
  BY <1>0 DEF FrameTypes, BusIsStored, Stored, ShownIsStored
<1>1. CASE Start  BY <1>0, <1>1 DEF Start, dbVars, viewVars
<1>2. ASSUME NEW now \in Clock, PushTick(now) PROVE StoreInv'
  <2>1. reader'.ts \in Clock /\ DOMAIN reader' = DOMAIN reader
    BY <1>2, FreshReader DEF PushTick, FrameTypes
  <2>2. UNCHANGED <<frames, bus, shown, store, unsaved>>
    BY <1>2 DEF PushTick, dbVars, viewVars
  <2>3. BusIsStored' /\ ShownIsStored'  BY <2>2, StoreGrows
  <2> QED  BY <1>f, <2>1, <2>2, <2>3 DEF FrameTypes
<1>3. ASSUME NEW sec \in Sections, PushSection(sec) PROVE StoreInv'
  <2>1. \E v : reader' = [reader EXCEPT ![sec] = v]
    BY <1>3, Zenon DEF PushSection
  <2>2. sec # "ts"  BY DEF Sections
  <2>3. reader'.ts = reader.ts /\ DOMAIN reader' = DOMAIN reader
    BY <2>1, <2>2 DEF FrameTypes
  <2>4. UNCHANGED <<frames, bus, shown, store, unsaved>>
    BY <1>3 DEF PushSection, dbVars, viewVars
  <2>5. BusIsStored' /\ ShownIsStored'  BY <2>4, StoreGrows
  <2> QED  BY <1>f, <2>3, <2>4, <2>5 DEF FrameTypes
<1>4. CASE PushEnd
  <2>1. BlockFrames \in Seq(Frame)  BY FramesOfBlock DEF FrameTypes
  <2>2. reader'.ts \in Clock /\ DOMAIN reader' = DOMAIN reader
    BY <1>4, FreshReader DEF PushEnd, Fold, FrameTypes
  <2>3. frames' \in Seq(Frame)  BY <1>4, <1>e, <2>1 DEF PushEnd, Fold
  <2>4. UNCHANGED <<shown, store, unsaved>>  BY <1>4 DEF PushEnd, dbVars, viewVars
  <2>5. bus' \in Seq(Event) /\ BusIsStored'
    <3>1. CASE Rows(BlockFrames) = {}
      <4>1. bus' = bus \o BlockFrames  BY <1>4, <3>1 DEF PushEnd
      <4> QED  BY <2>1, <2>4, <3>1, <4>1, BusGrows
    <3>2. CASE Rows(BlockFrames) # {}
      <4>1. UNCHANGED bus  BY <1>4, <3>2 DEF PushEnd
      <4> QED  BY <2>4, <4>1, StoreGrows DEF FrameTypes
    <3> QED  BY <3>1, <3>2
  <2>6. ShownIsStored'  BY <2>4, StoreGrows
  <2> QED  BY <1>f, <2>2, <2>3, <2>4, <2>5, <2>6 DEF FrameTypes
<1>5. ASSUME NEW ok \in BOOLEAN, Inserted(ok) PROVE StoreInv'
  <2>1. UNCHANGED <<reader, shown>> /\ frames' = <<>>
    BY <1>5 DEF Inserted, viewVars
  <2>2. /\ store \cup unsaved \subseteq store' \cup unsaved'
        /\ Rows(frames) \subseteq store' \cup unsaved'
    BY <1>5 DEF Inserted, InsertSamples
  <2>3. bus' = bus \o frames \/ bus' = Append(bus, Stopped) \o frames
    BY <1>5 DEF Inserted
  <2>4. bus' \in Seq(Event) /\ BusIsStored'
    BY <2>2, <2>3, BusGrows DEF FrameTypes
  <2>5. ShownIsStored'  BY <2>1, <2>2, StoreGrows
  <2> QED  BY <1>f, <1>e, <2>1, <2>4, <2>5 DEF FrameTypes
<1>6. CASE Exited
  <2>1. reader' = EmptyReader /\ frames' = <<>> /\ UNCHANGED <<shown, store, unsaved>>
    BY <1>6 DEF Exited, DropLocals, dbVars, viewVars
  <2>2. bus' = Append(bus, Stopped) \o <<>>
    <3>1. Stopped \in Event  BY DEF Event, Stopped
    <3> QED  BY <1>6, <3>1 DEF Exited, FrameTypes
  <2>3. Rows(<<>>) = {}  BY DEF Rows, ToSet
  <2>4. bus' \in Seq(Event) /\ BusIsStored'  BY <1>e, <2>1, <2>2, <2>3, BusGrows
  <2>5. ShownIsStored'  BY <2>1, StoreGrows
  <2> QED  BY <1>f, <1>e, <2>1, <2>4, <2>5, FreshReader DEF FrameTypes
<1>7. CASE Aborted
  <2>1. reader' = EmptyReader /\ frames' = <<>> /\ UNCHANGED <<shown, bus>>
    BY <1>7 DEF Aborted, DropLocals, viewVars
  <2>2. store \cup unsaved \subseteq store' \cup unsaved'  BY <1>7 DEF Aborted
  <2>3. BusIsStored' /\ ShownIsStored'  BY <2>1, <2>2, StoreGrows
  <2> QED  BY <1>f, <1>e, <2>1, <2>3, FreshReader DEF FrameTypes
<1>8. ASSUME NEW l \in Listeners, Listen(l) PROVE StoreInv'
  BY <1>0, <1>8 DEF Listen, dbVars
<1>9. CASE Unlisten
  <2>1. UNCHANGED <<reader, frames, bus, store, unsaved>> /\ shown' = NothingShown
    BY <1>9 DEF Unlisten, dbVars
  <2>2. shown' \in [Metrics -> Clock \cup {None}] /\ ShownIsStored'
    BY <2>1 DEF NothingShown, ShownIsStored
  <2> QED  BY <1>f, <2>1, <2>2, StoreGrows DEF FrameTypes
<1>10. CASE Deliver
  <2>1. UNCHANGED <<reader, frames, store, unsaved>> /\ bus # <<>> /\ bus' = Tail(bus)
    BY <1>10 DEF Deliver, dbVars
  <2>2. Len(bus) >= 1 /\ Head(bus) = bus[1] /\ bus[1] \in Event  BY <2>1 DEF FrameTypes
  <2>3. bus' \in Seq(Event)  BY <2>1 DEF FrameTypes
  <2>4. BusIsStored'
    <3>1. ASSUME NEW i \in 1..Len(bus')
          PROVE  i + 1 \in 1..Len(bus) /\ bus'[i] = bus[i + 1]
      BY <2>1 DEF FrameTypes
    <3> QED  BY <2>1, <3>1 DEF BusIsStored, Stored
  <2>5. shown' \in [Metrics -> Clock \cup {None}] /\ ShownIsStored'
    <3>1. CASE UNCHANGED shown  BY <2>1, <3>1, StoreGrows DEF FrameTypes
    <3>2. CASE Head(bus) # Stopped /\ Apply(Head(bus))
      <4>1. Head(bus) \in Frame  BY <2>2, <3>2 DEF Event, Stopped
      <4>2. Stored(Head(bus))  BY <2>2 DEF BusIsStored, FrameTypes
      <4> QED  BY <2>1, <3>2, <4>1, <4>2
               DEF Apply, Frame, Stored, ShownIsStored, FrameTypes
    <3> QED  BY <1>10, <3>1, <3>2 DEF Deliver
  <2> QED  BY <1>f, <2>1, <2>3, <2>4, <2>5 DEF FrameTypes
<1>11. CASE UNCHANGED vars
  BY <1>0, <1>11 DEF vars, dbVars, viewVars
<1> QED  BY <1>1, <1>2, <1>3, <1>4, <1>5, <1>6, <1>7, <1>8, <1>9, <1>10, <1>11
         DEF Next, Collector, View

\* Whatever fails or is cut short, a sample on the screen is in metric_samples or
\* its loss was announced (telemetry.rs:87-119, useTelemetry.ts:79-117).
THEOREM NothingShownUnstored == Spec => []ShownIsStored
<1>1. StoreInv => ShownIsStored  BY DEF StoreInv
<1> QED  BY <1>1, StoreInvInit, StoreInvStep, PTL DEF Spec

-------------------------------------------------------------------------------
\* Something is shown only while frames are listened to.
ShownListens == (\E m \in Metrics : shown[m] # None) => "telemetry" \in listening

\* Nothing follows the end of a collector, whether or not anything is shown yet.
EndIsLast == task = "ended" /\ bus # <<>> => Last(bus) = Stopped

SilenceInv == ShownListens /\ EndIsLast /\ SilenceIsExplained

\* The invariant about the end of a collector holds at first.
LEMMA SilenceInvInit == Init => SilenceInv
BY DEF Init, SilenceInv, ShownListens, EndIsLast, SilenceIsExplained, NothingShown

\* Every step keeps it.
LEMMA SilenceInvStep == StoreInv /\ SilenceInv /\ [Next]_vars => SilenceInv'
<1> SUFFICES ASSUME FrameTypes, SilenceInv, [Next]_vars PROVE SilenceInv'
  BY DEF StoreInv
<1> USE DEF SilenceInv
<1>0. CASE UNCHANGED <<listening, shown>> /\ task' # "ended"
  BY <1>0 DEF ShownListens, EndIsLast, SilenceIsExplained
<1>1. CASE Start  BY <1>0, <1>1 DEF Start, viewVars
<1>2. ASSUME NEW now \in Clock, PushTick(now) PROVE SilenceInv'
  BY <1>0, <1>2 DEF PushTick, viewVars
<1>3. ASSUME NEW sec \in Sections, PushSection(sec) PROVE SilenceInv'
  BY <1>0, <1>3 DEF PushSection, viewVars
<1>4. CASE PushEnd  BY <1>0, <1>4 DEF PushEnd, viewVars
<1>5. ASSUME NEW ok \in BOOLEAN, Inserted(ok) PROVE SilenceInv'
  BY <1>0, <1>5 DEF Inserted, viewVars
<1>6. CASE Exited
  <2>1. UNCHANGED <<listening, shown>> /\ bus' = Append(bus, Stopped)
    BY <1>6 DEF Exited, viewVars
  <2>2. bus' # <<>> /\ Last(bus') = Stopped
    <3>1. Stopped \in Event  BY DEF Event, Stopped
    <3> QED  BY <2>1, <3>1 DEF FrameTypes, Last
  <2> QED  BY <2>1, <2>2 DEF ShownListens, EndIsLast, SilenceIsExplained
<1>7. CASE Aborted  BY <1>0, <1>7 DEF Aborted, viewVars
<1>8. ASSUME NEW l \in Listeners, Listen(l) PROVE SilenceInv'
  BY <1>8 DEF Listen, ShownListens, EndIsLast, SilenceIsExplained
<1>9. CASE Unlisten
  BY <1>9 DEF Unlisten, NothingShown, ShownListens, EndIsLast, SilenceIsExplained
<1>10. CASE Deliver
  <2>1. UNCHANGED <<listening, task>> /\ bus # <<>> /\ bus' = Tail(bus)
    BY <1>10 DEF Deliver
  <2>2. Head(bus) = Stopped \/ "telemetry" \notin listening => UNCHANGED shown
    BY <1>10 DEF Deliver
  <2>3. ShownListens'  BY <2>1, <2>2 DEF ShownListens
  <2>e. EndIsLast'
    <3>1. bus' # <<>> => Last(bus') = Last(bus)  BY <2>1 DEF FrameTypes, Last
    <3> QED  BY <2>1, <3>1 DEF EndIsLast
  <2>4. SilenceIsExplained'
    <3> SUFFICES ASSUME task = "ended", \E m \in Metrics : shown'[m] # None
                 PROVE  IF bus' = <<>> THEN stopped' # "no" ELSE Last(bus') = Stopped
      BY <2>1 DEF SilenceIsExplained
    <3>1. "telemetry" \in listening  BY <2>1, <2>3 DEF ShownListens
    <3>2. CASE bus' = <<>>
      <4>1. Last(bus) = Head(bus)
        <5>1. bus \in Seq(Event) /\ Len(bus) \in Nat  BY DEF FrameTypes
        <5>2. \A t : t = <<>> => Len(t) = 0  OBVIOUS
        <5>3. Len(Tail(bus)) = 0  BY <2>1, <3>2, <5>2, Zenon
        <5>4. Len(Tail(bus)) = Len(bus) - 1  BY <2>1, <5>1
        <5>5. Len(bus) = 1  BY <5>1, <5>3, <5>4
        <5> QED  BY <5>1, <5>5 DEF Last
      <4>2. Head(bus) = Stopped  BY <2>1, <4>1 DEF EndIsLast
      <4>3. stopped' \in {"set", "missed"}  BY <1>10, <3>1, <4>2 DEF Deliver
      <4> QED  BY <3>2, <4>3
    <3>3. CASE bus' # <<>>  BY <2>1, <2>e, <3>3 DEF EndIsLast
    <3> QED  BY <3>2, <3>3
  <2> QED  BY <2>3, <2>e, <2>4
<1>11. CASE UNCHANGED vars
  BY <1>11 DEF vars, viewVars, ShownListens, EndIsLast, SilenceIsExplained
<1> QED  BY <1>1, <1>2, <1>3, <1>4, <1>5, <1>6, <1>7, <1>8, <1>9, <1>10, <1>11
         DEF Next, Collector, View

\* The end of a collector is its last event, and the view knows of it once it was
\* delivered (telemetry.rs:125-140, useTelemetry.ts:120-126).
THEOREM EndsAreExplained == Spec => []SilenceIsExplained
<1>1. SilenceInv => SilenceIsExplained  BY DEF SilenceInv
<1> QED  BY <1>1, StoreInvInit, StoreInvStep, SilenceInvInit, SilenceInvStep, PTL DEF Spec

-------------------------------------------------------------------------------
(* Types, and the bytes the samples claim.                                  *)

\* TypeOK, in parts.
HostTyped   == uptime \in 0..MaxTime /\ eth \in NetReading /\ carried \in Counters
ScriptTyped ==
    /\ script \in {"tick", "end"} \cup Sections /\ even \in BOOLEAN
    /\ ticks \in 0..MaxTicks /\ faults \in 0..MaxFaults
TaskTyped ==
    /\ task \in {"none", "reading", "insert", "ended", "aborted"}
    /\ streams \in 0..MaxStreams
StateTyped ==
    /\ lastCpu \in {None} \cup 0..MaxTime
    /\ lastNet \in {None} \cup [ts : Clock, eth : NetReading]
    /\ claimed \in [Dirs -> Nat]
RowsTyped == store \subseteq Metrics \X Clock /\ unsaved \subseteq Metrics \X Clock
ViewTyped == listening \subseteq Listeners /\ stopped \in {"no", "set", "missed"}

\* The reading in the block is the latest one.
ReadIsNow == Parsed("netdev") => reader.netdev.eth = eth

\* The counters never show more than was carried.
CountsCarried == eth # None => \A d \in Dirs : eth[d] <= carried[d]

\* What the next sample could claim was carried since the last reading.
RoomToClaim ==
    lastNet # None => (lastNet.eth # None => (eth # None =>
        \A d \in Dirs : claimed[d] + eth[d] <= carried[d] + lastNet.eth[d]))

TrafficInv ==
    /\ HostTyped /\ ScriptTyped /\ TaskTyped /\ reader \in Reader /\ StateTyped
    /\ RowsTyped /\ ViewTyped
    /\ ReadIsNow /\ CountsCarried /\ RoomToClaim /\ NoInventedTraffic

\* Rounding down never adds.
LEMMA RoundedDown ==
    ASSUME NEW n \in Nat, NEW m \in Nat, m > 0
    PROVE  n \div m \in Nat /\ (n \div m) * m <= n
  OBVIOUS

\* The rate of a direction times the time between is at most the difference of
\* the counters: the unsigned subtraction does not wrap.
LEMMA RateFact ==
    ASSUME NEW c \in 0..MaxBytes, NEW p \in 0..MaxBytes, p <= c,
           NEW t \in Nat, NEW u \in Nat, u < t
    PROVE  /\ ((c - p) % Word) \div (t - u) \in Nat
           /\ (((c - p) % Word) \div (t - u)) * (t - u) \in Nat
           /\ (((c - p) % Word) \div (t - u)) * (t - u) <= c - p
  <1>1. c - p \in Nat /\ c - p < Word /\ Word \in Nat /\ MaxBytes \in Nat
    BY TelemetryAssumption
  <1>2. (c - p) % Word = c - p
    BY <1>1
  <1>3. t - u \in Nat /\ t - u > 0
    OBVIOUS
  <1> DEFINE n == c - p
             m == t - u
  <1> HIDE DEF n, m
  <1>4. n \div m \in Nat /\ (n \div m) * m <= n
    BY <1>1, <1>3, RoundedDown DEF n, m
  <1>5. (n \div m) * m \in Nat
    BY <1>3, <1>4 DEF m
  <1> QED BY <1>2, <1>4, <1>5 DEF n, m

\* The parts, with what the way of a frame needs, are TypeOK.
LEMMA TypeParts ==
    FrameTypes /\ HostTyped /\ ScriptTyped /\ TaskTyped /\ reader \in Reader
        /\ StateTyped /\ RowsTyped /\ ViewTyped => TypeOK
  BY DEF FrameTypes, HostTyped, ScriptTyped, TaskTyped, StateTyped, RowsTyped, ViewTyped,
         TypeOK

\* The rows of frames are rows of metric_samples.
LEMMA RowsAreTyped ==
    ASSUME NEW fs \in Seq(Frame) PROVE Rows(fs) \subseteq Metrics \X Clock
  <1>1. \A f \in ToSet(fs) : f \in Frame
    BY DEF ToSet
  <1> QED BY <1>1 DEF Rows, Frame

\* A new reader has no section.
LEMMA EmptyReaderFact ==
    /\ EmptyReader \in Reader /\ EmptyReader.netdev = None
    /\ \A now \in Clock :
          /\ [EmptyReader EXCEPT !.inBlock = TRUE, !.ts = now] \in Reader
          /\ [EmptyReader EXCEPT !.inBlock = TRUE, !.ts = now].netdev = None
  <1>1. 0 \in Clock
    BY TelemetryAssumption DEF Clock
  <1> QED BY <1>1 DEF EmptyReader, Reader

\* Reading a section changes that one.
LEMMA SectionFact ==
    ASSUME reader \in Reader, uptime' \in 0..MaxTime, eth' \in NetReading,
           NEW sec \in Sections, PushSection(sec)
    PROVE  /\ reader' \in Reader
           /\ sec # "netdev" => reader'.netdev = reader.netdev
           /\ sec = "netdev" => reader'.netdev \in {[eth |-> eth'], Empty}
  <1>1. CASE sec = "stat"
    <2>1. reader' = [reader EXCEPT !.stat = uptime'] \/ reader' = [reader EXCEPT !.stat = Empty]
      BY <1>1 DEF PushSection
    <2> QED BY <1>1, <2>1 DEF Reader
  <1>2. CASE sec = "netdev"
    <2>1. \/ reader' = [reader EXCEPT !.netdev = [eth |-> eth']]
          \/ reader' = [reader EXCEPT !.netdev = Empty]
      BY <1>2 DEF PushSection
    <2> QED BY <1>2, <2>1 DEF Reader
  <1>3. CASE sec = "meminfo"
    <2>1. reader' = [reader EXCEPT !.meminfo = "ok"] \/ reader' = [reader EXCEPT !.meminfo = Empty]
      BY <1>3 DEF PushSection
    <2> QED BY <1>3, <2>1 DEF Reader
  <1> QED BY <1>1, <1>2, <1>3 DEF Sections

\* The host carries on: its counters grow by no more than what it carries.
LEMMA TrafficFact ==
    ASSUME HostTyped, CountsCarried, Traffic
    PROVE  /\ eth' \in NetReading /\ carried' \in Counters /\ CountsCarried'
           /\ \A d \in Dirs : carried[d] <= carried'[d]
           /\ eth' # None => \A d \in Dirs :
                 \/ eth'[d] <= carried'[d] - carried[d]
                 \/ eth # None /\ eth'[d] = eth[d] + (carried'[d] - carried[d])
  <1>1. PICK more \in Counters :
           /\ \A d \in Dirs : carried[d] + more[d] <= MaxBytes
           /\ carried' = [d \in Dirs |-> carried[d] + more[d]]
           /\ \/ eth # None /\ eth' = [d \in Dirs |-> eth[d] + more[d]]
              \/ eth' = None
              \/ eth' \in {c \in Counters : \A d \in Dirs : c[d] <= more[d]}
    BY DEF Traffic
  <1>2. /\ \A d \in Dirs : more[d] \in Nat /\ carried[d] \in Nat
        /\ \A d \in Dirs : carried'[d] = carried[d] + more[d]
        /\ MaxBytes \in Nat
    BY <1>1, TelemetryAssumption DEF HostTyped, Counters
  <1>3. carried' \in Counters
    BY <1>1, <1>2 DEF Counters
  <1>4. CASE eth # None /\ eth' = [d \in Dirs |-> eth[d] + more[d]]
    <2>1. \A d \in Dirs : eth[d] \in Nat /\ eth[d] <= carried[d]
      BY <1>4, TelemetryAssumption DEF HostTyped, NetReading, Counters, CountsCarried
    <2>2. \A d \in Dirs : eth'[d] = eth[d] + more[d] /\ eth'[d] \in 0..MaxBytes
      BY <1>1, <1>2, <1>4, <2>1
    <2>3. eth' \in Counters
      BY <1>4, <2>2 DEF Counters
    <2> QED BY <1>2, <1>3, <1>4, <2>1, <2>2, <2>3 DEF NetReading, CountsCarried
  <1>5. CASE eth' = None
    BY <1>2, <1>3, <1>5 DEF NetReading, CountsCarried
  <1>6. CASE eth' \in {c \in Counters : \A d \in Dirs : c[d] <= more[d]}
    <2>1. eth' \in Counters /\ \A d \in Dirs : eth'[d] <= more[d] /\ eth'[d] \in Nat
      BY <1>6, TelemetryAssumption DEF Counters
    <2> QED BY <1>2, <1>3, <2>1 DEF NetReading, CountsCarried
  <1> QED BY <1>1, <1>4, <1>5, <1>6

\* The invariant of the traffic holds at first.
LEMMA TrafficInvInit == Init => TrafficInv
  <1> SUFFICES ASSUME Init PROVE TrafficInv
    OBVIOUS
  <1>1. [d \in Dirs |-> 0] \in Counters /\ 0 \in 0..MaxTime /\ 0 \in 0..MaxTicks
        /\ 0 \in 0..MaxFaults /\ 0 \in 0..MaxStreams
    BY TelemetryAssumption DEF Counters
  <1>2. HostTyped
    BY <1>1 DEF Init, HostTyped, NetReading
  <1>3. ScriptTyped /\ TaskTyped /\ RowsTyped /\ ViewTyped
    BY <1>1 DEF Init, ScriptTyped, TaskTyped, RowsTyped, ViewTyped
  <1>4. StateTyped /\ reader \in Reader
    BY EmptyReaderFact DEF Init, StateTyped
  <1>5. ReadIsNow
    BY EmptyReaderFact DEF Init, ReadIsNow, Parsed
  <1>6. CountsCarried /\ RoomToClaim /\ NoInventedTraffic
    BY DEF Init, CountsCarried, RoomToClaim, NoInventedTraffic
  <1> QED BY <1>2, <1>3, <1>4, <1>5, <1>6 DEF TrafficInv

\* The part about bytes depends on the network reading, the state and the host.
BytesInv == ReadIsNow /\ CountsCarried /\ RoomToClaim /\ NoInventedTraffic

\* A step that touches none of them, or only drops the reading or the state, keeps it.
LEMMA BytesFrame ==
    ASSUME BytesInv, UNCHANGED <<eth, carried, claimed>>,
           lastNet' \in {lastNet, None},
           reader'.netdev \in {reader.netdev, None, Empty}
    PROVE  BytesInv'
  <1>1. ReadIsNow'
    BY DEF BytesInv, ReadIsNow, Parsed
  <1>2. CountsCarried' /\ NoInventedTraffic'
    BY DEF BytesInv, CountsCarried, NoInventedTraffic
  <1>3. RoomToClaim'
    BY DEF BytesInv, RoomToClaim
  <1> QED BY <1>1, <1>2, <1>3 DEF BytesInv

\* Reading /proc/net/dev: whatever the interface carried meanwhile is room for
\* the next sample, and a counter that was reset has no more than that.
LEMMA BytesRead ==
    ASSUME HostTyped, StateTyped, BytesInv, Traffic, UNCHANGED <<lastNet, claimed>>,
           reader'.netdev \in {[eth |-> eth'], Empty}
    PROVE  BytesInv'
  <1>1. /\ eth' \in NetReading /\ carried' \in Counters /\ CountsCarried'
        /\ \A d \in Dirs : carried[d] <= carried'[d]
        /\ eth' # None => \A d \in Dirs :
              \/ eth'[d] <= carried'[d] - carried[d]
              \/ eth # None /\ eth'[d] = eth[d] + (carried'[d] - carried[d])
    BY TrafficFact DEF BytesInv
  <1>2. ReadIsNow'
    BY DEF ReadIsNow, Parsed
  <1>3. \A d \in Dirs : carried[d] \in Nat /\ carried'[d] \in Nat /\ claimed[d] \in Nat
    BY <1>1, TelemetryAssumption DEF HostTyped, StateTyped, Counters
  <1>4. NoInventedTraffic'
    BY <1>1, <1>3 DEF BytesInv, NoInventedTraffic
  <1>5. RoomToClaim'
    <2> SUFFICES ASSUME lastNet # None, lastNet.eth # None, eth' # None, NEW d \in Dirs
                 PROVE  claimed[d] + eth'[d] <= carried'[d] + lastNet.eth[d]
      BY DEF RoomToClaim
    <2>1. lastNet.eth[d] \in Nat /\ eth'[d] \in Nat
      BY <1>1, TelemetryAssumption DEF StateTyped, NetReading, Counters
    <2>2. eth # None => eth[d] \in Nat
      BY TelemetryAssumption DEF HostTyped, NetReading, Counters
    <2>3. claimed[d] <= carried[d]
      BY DEF BytesInv, NoInventedTraffic
    <2>4. eth # None => claimed[d] + eth[d] <= carried[d] + lastNet.eth[d]
      BY DEF BytesInv, RoomToClaim
    <2> QED BY <1>1, <1>3, <2>1, <2>2, <2>3, <2>4
  <1> QED BY <1>1, <1>2, <1>4, <1>5 DEF BytesInv

\* END of a block: the sample claims no more than the counters grew, and the new
\* reading is the base of the next.
LEMMA BytesFold ==
    ASSUME HostTyped, StateTyped, reader \in Reader, BytesInv, Fold, UNCHANGED <<eth, carried>>
    PROVE  StateTyped' /\ BytesInv'
  <1>1. Parsed("netdev") =>
           reader.netdev \in [eth : NetReading] /\ reader.netdev.eth = eth
    BY DEF Parsed, Reader, BytesInv, ReadIsNow
  <1>2. reader.ts \in Clock /\ MaxTime \in Nat /\ MaxBytes \in Nat
    BY TelemetryAssumption DEF Reader
  <1>3. lastCpu' \in {None} \cup 0..MaxTime
    BY DEF Fold, Parsed, StateTyped, Reader
  <1>4. lastNet' \in {None} \cup [ts : Clock, eth : NetReading]
    BY <1>1, <1>2 DEF Fold, StateTyped
  <1>5. claimed' \in [Dirs -> Nat] /\ NoInventedTraffic'
    <2>1. CASE ~NetSample
      BY <2>1 DEF Fold, StateTyped, BytesInv, NoInventedTraffic
    <2>2. CASE NetSample
      <3>1. /\ lastNet \in [ts : Clock, eth : NetReading] /\ lastNet # None
            /\ lastNet.eth \in Counters /\ lastNet.eth # None
            /\ reader.netdev.eth = eth /\ eth \in Counters /\ eth # None
            /\ reader.ts > lastNet.ts
        BY <1>1, <2>2 DEF NetSample, StateTyped, NetReading, HostTyped
      <3>2. \A d \in Dirs : lastNet.eth[d] <= eth[d]
        <4>1. \A d \in Dirs : ~(eth[d] < lastNet.eth[d])
          BY <2>2, <3>1 DEF NetSample, WentBackwards
        <4> QED BY <1>2, <3>1, <4>1 DEF Counters
      <3>3. ASSUME NEW d \in Dirs
            PROVE  /\ Rate(d) * (reader.ts - lastNet.ts) \in Nat
                   /\ Rate(d) * (reader.ts - lastNet.ts) <= eth[d] - lastNet.eth[d]
        <4>1. eth[d] \in 0..MaxBytes /\ lastNet.eth[d] \in 0..MaxBytes
          BY <3>1 DEF Counters
        <4>2. reader.ts \in Nat /\ lastNet.ts \in Nat /\ lastNet.ts < reader.ts
          BY <1>2, <3>1 DEF Clock
        <4> QED BY <3>1, <3>2, <4>1, <4>2, RateFact DEF Rate
      <3>4. \A d \in Dirs : claimed[d] \in Nat /\ eth[d] \in Nat /\ lastNet.eth[d] \in Nat
                            /\ carried[d] \in Nat
        BY <1>2, <3>1 DEF StateTyped, HostTyped, Counters
      <3>5. \A d \in Dirs : claimed[d] + eth[d] <= carried[d] + lastNet.eth[d]
        BY <3>1 DEF BytesInv, RoomToClaim
      <3>6. claimed' = [d \in Dirs |-> claimed[d] + Rate(d) * (reader.ts - lastNet.ts)]
        BY <2>2 DEF Fold
      <3>7. \A d \in Dirs : claimed'[d] \in Nat /\ claimed'[d] <= carried[d]
        BY <3>3, <3>4, <3>5, <3>6
      <3> QED BY <3>3, <3>4, <3>6, <3>7 DEF NoInventedTraffic
    <2> QED BY <2>1, <2>2
  <1>6. CountsCarried'
    BY DEF BytesInv, CountsCarried
  <1>7. ReadIsNow'
    BY EmptyReaderFact DEF Fold, ReadIsNow, Parsed
  <1>8. RoomToClaim'
    <2>1. CASE Parsed("netdev")
      <3>1. lastNet'.eth = eth
        BY <1>1, <2>1 DEF Fold
      <3>2. \A d \in Dirs : claimed'[d] <= carried[d] /\ claimed'[d] \in Nat
        BY <1>5 DEF NoInventedTraffic
      <3>3. \A d \in Dirs : carried[d] \in Nat /\ (eth # None => eth[d] \in Nat)
        BY <1>2 DEF HostTyped, Counters, NetReading
      <3> QED BY <3>1, <3>2, <3>3 DEF RoomToClaim
    <2>2. CASE ~Parsed("netdev")
      <3>1. lastNet' = lastNet /\ claimed' = claimed
        BY <2>2 DEF Fold, NetSample
      <3> QED BY <3>1 DEF BytesInv, RoomToClaim
    <2> QED BY <2>1, <2>2
  <1> QED BY <1>3, <1>4, <1>5, <1>6, <1>7, <1>8 DEF StateTyped, BytesInv

\* Every step keeps the types and the bound on the bytes.
LEMMA TrafficInvStep == StoreInv /\ TrafficInv /\ [Next]_vars => TrafficInv'
  <1> SUFFICES ASSUME FrameTypes, TrafficInv, [Next]_vars PROVE TrafficInv'
    BY DEF StoreInv
  <1>0. /\ HostTyped /\ ScriptTyped /\ TaskTyped /\ reader \in Reader /\ StateTyped
        /\ RowsTyped /\ ViewTyped /\ BytesInv
    BY DEF TrafficInv, BytesInv
  <1>c. ASSUME HostTyped', ScriptTyped', TaskTyped', reader' \in Reader, StateTyped',
               RowsTyped', ViewTyped', BytesInv'
        PROVE  TrafficInv'
    BY <1>c DEF TrafficInv, BytesInv
  <1>h. UNCHANGED hostVars => HostTyped'
    BY <1>0 DEF hostVars, HostTyped
  <1>s. UNCHANGED scriptVars => ScriptTyped'
    BY <1>0 DEF scriptVars, ScriptTyped
  <1>t. UNCHANGED <<task, streams>> => TaskTyped'
    BY <1>0 DEF TaskTyped
  <1>l. UNCHANGED stateVars => StateTyped'
    BY <1>0 DEF stateVars, StateTyped
  <1>r. UNCHANGED dbVars => RowsTyped'
    BY <1>0 DEF dbVars, RowsTyped
  <1>v. UNCHANGED <<listening, stopped>> => ViewTyped'
    BY <1>0 DEF ViewTyped
  <1>b. UNCHANGED <<hostVars, stateVars>> /\ reader'.netdev \in {reader.netdev, None, Empty}
          => BytesInv'
    BY <1>0, BytesFrame DEF hostVars, stateVars
  <1>d. ASSUME DropLocals, UNCHANGED <<hostVars, ticks, faults, claimed>>
        PROVE  HostTyped' /\ ScriptTyped' /\ reader' \in Reader /\ StateTyped' /\ BytesInv'
    <2>1. HostTyped'
      BY <1>h, <1>d
    <2>2. ScriptTyped'
      BY <1>0, <1>d DEF DropLocals, ScriptTyped
    <2>3. reader' \in Reader /\ reader'.netdev = None
      BY <1>d, EmptyReaderFact DEF DropLocals
    <2>4. StateTyped'
      BY <1>0, <1>d DEF DropLocals, StateTyped
    <2>5. BytesInv'
      BY <1>0, <1>d, <2>3, BytesFrame DEF DropLocals, hostVars
    <2> QED BY <2>1, <2>2, <2>3, <2>4, <2>5
  <1>1. CASE Start
    <2>1. UNCHANGED <<hostVars, scriptVars, reader, stateVars, dbVars, listening, stopped>>
      BY <1>1 DEF Start, viewVars
    <2>2. TaskTyped'
      BY <1>0, <1>1, TelemetryAssumption DEF Start, TaskTyped
    <2> QED BY <1>0, <1>c, <1>h, <1>s, <1>l, <1>r, <1>v, <1>b, <2>1, <2>2
  <1>2. ASSUME NEW now \in Clock, PushTick(now) PROVE TrafficInv'
    <2>1. UNCHANGED <<hostVars, task, streams, stateVars, dbVars, listening, stopped>>
      BY <1>2 DEF PushTick, viewVars
    <2>2. ScriptTyped'
      BY <1>0, <1>2, TelemetryAssumption DEF PushTick, ScriptTyped, Sections
    <2>3. reader' \in Reader /\ reader'.netdev = None
      BY <1>2, EmptyReaderFact DEF PushTick
    <2> QED BY <1>c, <1>h, <1>t, <1>l, <1>r, <1>v, <1>b, <2>1, <2>2, <2>3
  <1>3. ASSUME NEW sec \in Sections, PushSection(sec) PROVE TrafficInv'
    <2>1. UNCHANGED <<task, streams, stateVars, dbVars, listening, stopped>>
      BY <1>3 DEF PushSection, viewVars
    <2>2. ScriptTyped'
      <3>1. script' \in {"netdev", "meminfo", "end"}
        BY <1>3 DEF PushSection, Sections
      <3>2. UNCHANGED <<even, ticks>>
        BY <1>3 DEF PushSection
      <3>3. faults' \in 0..MaxFaults
        <4>1. faults' = faults \/ (faults < MaxFaults /\ faults' = faults + 1)
          BY <1>3 DEF PushSection
        <4> QED BY <1>0, <4>1, TelemetryAssumption DEF ScriptTyped
      <3> QED BY <1>0, <3>1, <3>2, <3>3 DEF ScriptTyped, Sections
    <2>3. uptime' \in 0..MaxTime
      BY <1>0, <1>3, TelemetryAssumption DEF PushSection, Advance, HostTyped
    <2>4. CASE sec = "netdev"
      <3>1. Traffic
        BY <1>3, <2>4 DEF PushSection
      <3>2. eth' \in NetReading /\ carried' \in Counters
        BY <1>0, <3>1, TrafficFact DEF BytesInv
      <3>3. reader' \in Reader /\ reader'.netdev \in {[eth |-> eth'], Empty}
        BY <1>0, <1>3, <2>3, <2>4, <3>2, SectionFact
      <3>4. HostTyped'
        BY <2>3, <3>2 DEF HostTyped
      <3>5. BytesInv'
        BY <1>0, <2>1, <3>1, <3>3, BytesRead DEF stateVars
      <3> QED BY <1>c, <1>t, <1>l, <1>r, <1>v, <2>1, <2>2, <3>3, <3>4, <3>5
    <2>5. CASE sec # "netdev"
      <3>1. UNCHANGED <<eth, carried>>
        BY <1>3, <2>5 DEF PushSection
      <3>2. HostTyped' /\ eth' \in NetReading
        BY <1>0, <2>3, <3>1 DEF HostTyped
      <3>3. reader' \in Reader /\ reader'.netdev = reader.netdev
        BY <1>0, <1>3, <2>3, <2>5, <3>2, SectionFact
      <3>4. BytesInv'
        BY <1>0, <2>1, <3>1, <3>3, BytesFrame DEF stateVars
      <3> QED BY <1>c, <1>t, <1>l, <1>r, <1>v, <2>1, <2>2, <3>2, <3>3, <3>4
    <2> QED BY <2>4, <2>5
  <1>4. CASE PushEnd
    <2>1. Fold /\ UNCHANGED <<hostVars, streams, dbVars, listening, stopped>>
      BY <1>4 DEF PushEnd, viewVars
    <2>2. StateTyped' /\ BytesInv'
      BY <1>0, <2>1, BytesFold DEF hostVars
    <2>3. ScriptTyped'
      BY <1>0, <1>4 DEF PushEnd, ScriptTyped
    <2>4. TaskTyped'
      BY <1>0, <1>4 DEF PushEnd, TaskTyped
    <2>5. reader' \in Reader
      BY <2>1, EmptyReaderFact DEF Fold
    <2> QED BY <1>c, <1>h, <1>r, <1>v, <2>1, <2>2, <2>3, <2>4, <2>5
  <1>5. ASSUME NEW ok \in BOOLEAN, Inserted(ok) PROVE TrafficInv'
    <2>1. UNCHANGED <<hostVars, scriptVars, reader, stateVars, listening, stopped>>
      BY <1>5 DEF Inserted, viewVars
    <2>2. TaskTyped'
      BY <1>0, <1>5 DEF Inserted, TaskTyped
    <2>3. RowsTyped'
      <3>1. Rows(frames) \subseteq Metrics \X Clock
        BY RowsAreTyped DEF FrameTypes
      <3> QED BY <1>0, <1>5, <3>1 DEF Inserted, InsertSamples, RowsTyped
    <2> QED BY <1>0, <1>c, <1>h, <1>s, <1>l, <1>v, <1>b, <2>1, <2>2, <2>3
  <1>6. CASE Exited
    <2>1. DropLocals /\ UNCHANGED <<hostVars, ticks, faults, claimed, dbVars, listening, stopped>>
      BY <1>6 DEF Exited, viewVars
    <2>2. TaskTyped'
      BY <1>0, <1>6 DEF Exited, TaskTyped
    <2> QED BY <1>c, <1>d, <1>r, <1>v, <2>1, <2>2
  <1>7. CASE Aborted
    <2>1. DropLocals /\ UNCHANGED <<hostVars, ticks, faults, claimed, listening, stopped>>
      BY <1>7 DEF Aborted, viewVars
    <2>2. TaskTyped'
      BY <1>0, <1>7 DEF Aborted, TaskTyped
    <2>3. RowsTyped'
      <3>1. Rows(frames) \subseteq Metrics \X Clock
        BY RowsAreTyped DEF FrameTypes
      <3> QED BY <1>0, <1>7, <3>1 DEF Aborted, RowsTyped
    <2> QED BY <1>c, <1>d, <1>v, <2>1, <2>2, <2>3
  <1>8. CASE View
    <2>1. UNCHANGED <<hostVars, scriptVars, task, streams, reader, stateVars, dbVars>>
      BY <1>8 DEF View, Listen, Unlisten, Deliver
    <2>2. ViewTyped'
      <3>1. ASSUME NEW l \in Listeners, Listen(l) PROVE ViewTyped'
        BY <1>0, <3>1 DEF Listen, ViewTyped
      <3>2. CASE Unlisten
        BY <3>2 DEF Unlisten, ViewTyped
      <3>3. CASE Deliver
        BY <1>0, <3>3 DEF Deliver, Apply, ViewTyped
      <3> QED BY <1>8, <3>1, <3>2, <3>3 DEF View
    <2> QED BY <1>0, <1>c, <1>h, <1>s, <1>t, <1>l, <1>r, <1>b, <2>1, <2>2
  <1>9. CASE UNCHANGED vars
    <2>1. UNCHANGED <<hostVars, scriptVars, task, streams, reader, stateVars, dbVars,
                      listening, stopped>>
      BY <1>9 DEF vars, viewVars
    <2> QED BY <1>0, <1>c, <1>h, <1>s, <1>t, <1>l, <1>r, <1>v, <1>b, <2>1
  <1> QED BY <1>1, <1>2, <1>3, <1>4, <1>5, <1>6, <1>7, <1>8, <1>9 DEF Next, Collector

\* Every variable keeps its type, frames, rows and readings included.
THEOREM TypeCorrect == Spec => []TypeOK
  <1>1. StoreInv /\ TrafficInv => TypeOK
    BY TypeParts DEF StoreInv, TrafficInv
  <1> QED BY <1>1, StoreInvInit, StoreInvStep, TrafficInvInit, TrafficInvStep, PTL DEF Spec

\* The network samples never stand for more bytes than the interface carried,
\* through resets, clock steps, unreadable files and restarts (state.rs:69-120).
THEOREM NothingInvented == Spec => []NoInventedTraffic
  <1>1. TrafficInv => NoInventedTraffic
    BY DEF TrafficInv
  <1> QED BY <1>1, StoreInvInit, StoreInvStep, TrafficInvInit, TrafficInvStep, PTL DEF Spec

===============================================================================
