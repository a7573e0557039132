---------------------------- MODULE TerminalsProofs ----------------------------
(***************************************************************************)
(* Proofs about Terminals, for any number of effects, events and keys.     *)
(*                                                                         *)
(* None of the properties is inductive as it stands.  ShellsClosable needs *)
(* that a view asks for a close at most once per closer (ClosesOnce),      *)
(* which rests on whose session the shared ref can name (RefIsCurrent).    *)
(* AbandonedOnlyByLateReply needs that a view lets go of a session by      *)
(* itself only for its closure, hence the order of the events on the bus   *)
(* (BusInOrder, ClosureIsLast).  InputIsPrefix needs that a write that was *)
(* skipped leaves the view's input dead for good (NothingSkipped,          *)
(* DeadStays).  OutputIsPrefix and ClosureOnItsWay need that what a view   *)
(* does not have yet is on the bus without a gap (NoGap), which holds as   *)
(* long as pendingEvents does not overflow.                                *)
(***************************************************************************)
EXTENDS Terminals, TLAPS

\* The part of TypeOK that the life of a shell depends on.
ShellTypes ==
    /\ close \in [Effects -> [Closers -> ClosePc]]
    /\ terminals \subseteq Effects
    /\ pump \in [Effects -> PumpPc]
    /\ shell \in [Effects -> ShellState]
    /\ open \in [Effects -> OpenPc]
    /\ effect \in [Effects -> EffectPc]
    /\ ref \in Effects \cup {None}

\* The shared session id is that of the effect that is set up, and was opened.
RefIsCurrent ==
    ref # None => ref = current /\ effect[ref] = "settled" /\ open[ref] = "ok"

BeforeOpened == {"idle", "listening", "invoking"}

\* No close has been sent where the view could still send one.
ClosesOnce ==
    /\ \A e \in Effects : effect[e] \in BeforeOpened =>
          \A c \in Closers : close[e][c] = "none"
    /\ ref # None => close[ref]["cleanup"] = "none"
    /\ ref # None /\ status = "attached" => close[ref]["button"] = "none"

\* A pump that has emitted the closure.
Ended == {"removing", "done"}

\* A shell exists only once its channel was opened, its pump only once it is
\* registered, and the pump ends only after the shell.  An entry of the map was
\* registered and no close has got to it.
ShellLife ==
    \A e \in Effects :
        /\ effect[e] \in {"idle", "listening", "left"} => open[e] = "none"
        /\ open[e] \in {"sent", "channel"} => effect[e] = "invoking"
        /\ open[e] \in {"none", "sent"} => shell[e] = "none"
        /\ open[e] = "ok" <=> pump[e] # "none"
        /\ pump[e] \in Ended => shell[e] = "gone"
        /\ e \in terminals => open[e] = "ok"
        /\ e \in terminals => \A c \in Closers : close[e][c] \in {"none", "sent"}

ShellInv == ShellTypes /\ RefIsCurrent /\ ClosesOnce /\ ShellLife /\ ShellsClosable

-------------------------------------------------------------------------------
\* Initially there is no shell, no session and no command.
LEMMA InitShellInv == Init => ShellInv
  BY DEF Init, ShellInv, ShellTypes, RefIsCurrent, ClosesOnce, BeforeOpened, Ended,
         ShellLife, ShellsClosable, Closers, ClosePc, PumpPc, ShellState,
         OpenPc, EffectPc

\* Sending a close changes that one command.
LEMMA SendCloseFact ==
    ASSUME close \in [Effects -> [Closers -> ClosePc]],
           NEW e \in Effects, NEW c \in Closers, SendClose(e, c)
    PROVE  /\ close' \in [Effects -> [Closers -> ClosePc]]
           /\ \A f \in Effects : \A d \in Closers :
                close'[f][d] = IF f = e /\ d = c THEN "sent" ELSE close[f][d]
  BY DEF SendClose, ClosePc

\* Every step of the view, the backend and the host keeps the invariant.
LEMMA NextShellInv == ShellInv /\ [Next]_vars => ShellInv'
  <1> SUFFICES ASSUME ShellInv, [Next]_vars PROVE ShellInv'
    OBVIOUS
  <1> USE TerminalsAssumption DEF ShellInv, ShellTypes, RefIsCurrent, ClosesOnce,
        BeforeOpened, Ended, ShellLife, ShellsClosable, Closers, ClosePc, PumpPc,
        ShellState, OpenPc, EffectPc, Disposed
  <1>1. ASSUME NEW e \in Effects, Rerun(e) PROVE ShellInv'
    <2>1. UNCHANGED <<terminals, pump, shell, open>> /\ ref' = None
      BY <1>1 DEF Rerun, Cleanup, hostVars
    <2>2. effect' = [effect EXCEPT ![e] = "listening"] /\ effect[e] = "idle"
      BY <1>1 DEF Rerun
    <2>3. CASE ref = None
      <3>1. close' = close
        BY <1>1, <2>3 DEF Rerun, Cleanup
      <3> QED BY <2>1, <2>2, <3>1
    <2>4. CASE ref # None
      <3>1. SendClose(ref, "cleanup")
        BY <1>1, <2>4 DEF Rerun, Cleanup
      <3>2. ref \in Effects /\ close[ref]["cleanup"] = "none"
        BY <2>4
      <3>3. /\ close' \in [Effects -> [Closers -> ClosePc]]
            /\ \A f \in Effects : \A d \in Closers :
                 close'[f][d] = IF f = ref /\ d = "cleanup" THEN "sent" ELSE close[f][d]
        BY <3>1, <3>2, SendCloseFact
      <3>4. ShellsClosable'
        BY <2>1, <2>2, <2>4, <3>2, <3>3
      <3>5. ClosesOnce'
        BY <2>1, <2>2, <2>4, <3>2, <3>3
      <3>6. ShellTypes' /\ RefIsCurrent'
        BY <2>1, <2>2, <2>4, <3>2, <3>3
      <3>7. ShellLife'
        BY <2>1, <2>2, <2>4, <3>2, <3>3
      <3> QED BY <3>4, <3>5, <3>6, <3>7
    <2> QED BY <2>3, <2>4
  <1>2. CASE Unmount
    <2>1. UNCHANGED <<effect, terminals, pump, shell, open>> /\ ref' = None
      BY <1>2 DEF Unmount, Cleanup, hostVars
    <2>2. CASE ref = None
      <3>1. close' = close
        BY <1>2, <2>2 DEF Unmount, Cleanup
      <3> QED BY <2>1, <3>1
    <2>3. CASE ref # None
      <3>1. SendClose(ref, "cleanup")
        BY <1>2, <2>3 DEF Unmount, Cleanup
      <3>2. ref \in Effects /\ close[ref]["cleanup"] = "none"
        BY <2>3
      <3>3. /\ close' \in [Effects -> [Closers -> ClosePc]]
            /\ \A f \in Effects : \A d \in Closers :
                 close'[f][d] = IF f = ref /\ d = "cleanup" THEN "sent" ELSE close[f][d]
        BY <3>1, <3>2, SendCloseFact
      <3>4. ShellsClosable'
        BY <2>1, <2>3, <3>2, <3>3
      <3>5. ClosesOnce'
        BY <2>1, <2>3, <3>2, <3>3
      <3>6. ShellTypes' /\ RefIsCurrent'
        BY <2>1, <2>3, <3>2, <3>3
      <3>7. ShellLife'
        BY <2>1, <2>3, <3>2, <3>3
      <3> QED BY <3>4, <3>5, <3>6, <3>7
    <2> QED BY <2>2, <2>3
  <1>3. CASE Type
    BY <1>3 DEF Type, viewVars, backendVars, hostVars
  <1>4. CASE CloseSession
    BY <1>4 DEF CloseSession, SendClose, hostVars
  <1>5. ASSUME NEW e \in Effects, Invoke(e) PROVE ShellInv'
    <2>1. CASE Disposed(e)
      BY <1>5, <2>1 DEF Invoke, hostVars
    <2>2. CASE ~Disposed(e)
      <3>1. /\ effect' = [effect EXCEPT ![e] = "invoking"]
            /\ open' = [open EXCEPT ![e] = "sent"]
            /\ effect[e] = "listening" /\ open[e] = "none"
            /\ UNCHANGED <<close, terminals, pump, shell, ref, current, status>>
        BY <1>5, <2>2 DEF Invoke, hostVars
      <3>2. ShellLife'
        BY <3>1
      <3>3. ShellTypes' /\ RefIsCurrent' /\ ClosesOnce' /\ ShellsClosable'
        BY <3>1
      <3> QED BY <3>2, <3>3
    <2> QED BY <2>1, <2>2
  <1>6. ASSUME NEW e \in Effects, Opened(e) PROVE ShellInv'
    <2>1. CASE Disposed(e)
      <3>1. /\ UNCHANGED <<terminals, pump, shell, open, ref, current, status>>
            /\ effect' = [effect EXCEPT ![e] = "settled"] /\ effect[e] = "invoking"
            /\ open[e] \in {"ok", "error"}
        BY <1>6, <2>1 DEF Opened, hostVars
      <3>2. close' = close \/ SendClose(e, "cleanup")
        BY <1>6, <2>1 DEF Opened, LateClose
      <3>3. /\ close' \in [Effects -> [Closers -> ClosePc]]
            /\ \A f \in Effects : \A d \in Closers :
                 close'[f][d] # close[f][d] =>
                    f = e /\ d = "cleanup" /\ close'[f][d] = "sent"
        BY <3>2, SendCloseFact
      <3>4. close[e]["cleanup"] = "none" /\ close[e]["button"] = "none"
        BY <3>1
      <3>5. ShellLife'
        <4> SUFFICES ASSUME NEW f \in Effects
                     PROVE  f \in terminals => \A c \in Closers : close'[f][c] \in {"none", "sent"}
          BY <3>1
        <4> QED BY <3>1, <3>3
      <3>6. ShellTypes'
        BY <3>1, <3>3
      <3>8. RefIsCurrent'
        BY <2>1, <3>1
      <3>9. ShellsClosable'
        BY <3>1, <3>3, <3>4
      <3>7. ClosesOnce'
        BY <2>1, <3>1, <3>3, <3>4
      <3> QED BY <3>5, <3>6, <3>7, <3>8, <3>9
    <2>2. CASE ~Disposed(e) /\ open[e] = "error"
      BY <1>6, <2>2 DEF Opened, Fail, hostVars
    <2>3. CASE ~Disposed(e) /\ open[e] = "ok"
      BY <1>6, <2>3 DEF Opened, Process, hostVars
    <2> QED BY <1>6, <2>1, <2>2, <2>3 DEF Opened
  <1>7. ASSUME NEW e \in Effects, CloseSessionReturns(e) PROVE ShellInv'
    BY <1>7 DEF CloseSessionReturns, hostVars
  <1>8. ASSUME NEW e \in Effects, OpenFails(e) PROVE ShellInv'
    BY <1>8 DEF OpenFails, viewVars, hostVars
  <1>9. ASSUME NEW e \in Effects, OpenChannel(e) PROVE ShellInv'
    BY <1>9 DEF OpenChannel, viewVars
  <1>10. ASSUME NEW e \in Effects, Register(e) PROVE ShellInv'
    BY <1>10 DEF Register, viewVars, hostVars
  <1>11. ASSUME NEW e \in Effects, PumpOutput(e) PROVE ShellInv'
    BY <1>11 DEF PumpOutput, viewVars, hostVars
  <1>12. ASSUME NEW e \in Effects, PumpClosed(e) PROVE ShellInv'
    BY <1>12 DEF PumpClosed, viewVars, hostVars
  <1>13. ASSUME NEW e \in Effects, PumpRemoves(e) PROVE ShellInv'
    BY <1>13 DEF PumpRemoves, viewVars, hostVars
  <1>14. ASSUME NEW e \in Effects, NEW c \in Closers, CloseTerminal(e, c) PROVE ShellInv'
    BY <1>14 DEF CloseTerminal, viewVars, hostVars
  <1>15. ASSUME NEW e \in Effects, NEW c \in Closers, ShutChannel(e, c) PROVE ShellInv'
    BY <1>15 DEF ShutChannel, viewVars
  <1>16. ASSUME NEW e \in Effects, ResizeFails(e) PROVE ShellInv'
    BY <1>16 DEF ResizeFails, Fail, backendVars, hostVars
  <1>17. ASSUME NEW e \in Effects, Prints(e) PROVE ShellInv'
    BY <1>17 DEF Prints, viewVars, backendVars
  <1>18. ASSUME NEW e \in Effects, ShellEnds(e) PROVE ShellInv'
    BY <1>18 DEF ShellEnds, viewVars, backendVars
  <1>19. CASE Deliver
    <2>1. (ref' = ref /\ status' = status) \/ ref' = None
      BY <1>19 DEF Deliver
    <2> QED BY <1>19, <2>1 DEF Deliver, hostVars
  <1>20. CASE Write
    <2>1. UNCHANGED <<close, terminals, pump, shell, open, effect, ref, current>>
          /\ (status' = status \/ status' = "failed")
      BY <1>20 DEF Write, WriteNext, WriteTerminal, Written, Fail, viewVars,
                   backendVars, hostVars
    <2> QED BY <2>1
  <1>21. CASE UNCHANGED vars
    BY <1>21 DEF vars, viewVars, backendVars, hostVars
  <1> QED
    BY <1>1, <1>2, <1>3, <1>4, <1>5, <1>6, <1>7, <1>8, <1>9, <1>10,
       <1>11, <1>12, <1>13, <1>14, <1>15, <1>16, <1>17, <1>18, <1>19, <1>20,
       <1>21 DEF Next, Operator, View, Backend

-------------------------------------------------------------------------------
(* Types, and the closure as the last event of its session.                *)

\* On the bus the events of a session are in the order its pump emitted them,
\* the closure last.
BusInOrder ==
    /\ \A i, j \in DOMAIN bus :
          i < j /\ bus[i].session = bus[j].session =>
             /\ bus[i].item # Closed
             /\ bus[j].item = Closed \/ bus[i].item < bus[j].item
    /\ \A i \in DOMAIN bus :
          /\ bus[i].item <= pumped[bus[i].session]
          /\ bus[i].item = Closed => pump[bus[i].session] \in Ended
    /\ \A e \in Effects : pump[e] = "none" => pumped[e] = 0

\* A buffered closure is the last of its session's events there, and none of
\* them is still on the bus.
ClosureIsLast ==
    \A e, f \in Effects : \A i \in DOMAIN pending[e][f] :
        pending[e][f][i] = Closed =>
            /\ i = Len(pending[e][f]) /\ pump[f] \in Ended
            /\ \A j \in DOMAIN bus : bus[j].session # f

EventTypes == bus \in Seq(Event) /\ pending \in [Effects -> [Effects -> Seq(Nat)]]

\* What Process shows of a sequence whose closure, if any, is its last item.
LEMMA ShownFact ==
    ASSUME NEW s \in Seq(Nat),
           \A i \in DOMAIN s : s[i] = Closed => i = Len(s)
    PROVE  /\ [i \in Shown(s) |-> s[i]] \in Seq(Nat)
           /\ Shown(s) = 1..Len([i \in Shown(s) |-> s[i]])
           /\ Shown(s) = DOMAIN s <=> \A i \in DOMAIN s : s[i] # Closed
           /\ Len([i \in Shown(s) |-> s[i]]) =
                 IF Shown(s) = DOMAIN s THEN Len(s) ELSE Len(s) - 1
  <1> DEFINE n == IF \A i \in DOMAIN s : s[i] # Closed THEN Len(s) ELSE Len(s) - 1
  <1>1. n \in Nat /\ DOMAIN s = 1..Len(s)
    OBVIOUS
  <1>2. Shown(s) = 1..n
    <2>1. CASE \A i \in DOMAIN s : s[i] # Closed
      BY <1>1, <2>1 DEF Shown
    <2>2. CASE ~\A i \in DOMAIN s : s[i] # Closed
      <3>1. s[Len(s)] = Closed /\ Len(s) > 0
        BY <2>2
      <3> QED BY <1>1, <2>2, <3>1 DEF Shown
    <2> QED BY <2>1, <2>2
  <1>3. Shown(s) = DOMAIN s <=> \A i \in DOMAIN s : s[i] # Closed
    <2>1. CASE \A i \in DOMAIN s : s[i] # Closed
      BY <1>1, <1>2, <2>1
    <2>2. CASE ~\A i \in DOMAIN s : s[i] # Closed
      <3>1. Len(s) \in DOMAIN s /\ Len(s) \notin 1..n
        BY <1>1, <2>2
      <3> QED BY <1>2, <2>2, <3>1
    <2> QED BY <2>1, <2>2
  <1>4. \A i \in 1..n : s[i] \in Nat
    BY <1>1
  <1> HIDE DEF n
  <1>5. [i \in 1..n |-> s[i]] \in Seq(Nat) /\ Len([i \in 1..n |-> s[i]]) = n
    BY <1>1, <1>4
  <1> QED BY <1>2, <1>3, <1>5 DEF n

\* Appending an item, index by index.
LEMMA AppendFact ==
    ASSUME NEW q \in Seq(Nat), NEW n \in Nat
    PROVE  /\ Append(q, n) \in Seq(Nat) /\ Len(Append(q, n)) = Len(q) + 1
           /\ DOMAIN Append(q, n) = 1..(Len(q) + 1) /\ DOMAIN q = 1..Len(q)
           /\ \A i \in DOMAIN q : Append(q, n)[i] = q[i]
           /\ Append(q, n)[Len(q) + 1] = n
  OBVIOUS

\* Appending to and taking from the bus, index by index.
LEMMA BusFact ==
    ASSUME NEW b \in Seq(Event), NEW ev \in Event
    PROVE  /\ Append(b, ev) \in Seq(Event)
           /\ DOMAIN Append(b, ev) = 1..(Len(b) + 1) /\ DOMAIN b = 1..Len(b)
           /\ \A i \in DOMAIN b : Append(b, ev)[i] = b[i]
           /\ Append(b, ev)[Len(b) + 1] = ev
           /\ b # <<>> => /\ Tail(b) \in Seq(Event) /\ 1 \in DOMAIN b
                          /\ Head(b) = b[1] /\ b[1] \in Event
                          /\ \A i \in DOMAIN Tail(b) :
                                i + 1 \in DOMAIN b /\ Tail(b)[i] = b[i + 1]
                          /\ \A i \in DOMAIN b : i # 1 =>
                                i - 1 \in DOMAIN Tail(b) /\ Tail(b)[i - 1] = b[i]
  OBVIOUS

\* A closure that is buffered for the session an effect opened comes last.
LEMMA ReplayFact ==
    ASSUME EventTypes, ClosureIsLast, NEW e \in Effects
    PROVE  /\ Replay(e) \in Seq(Nat)
           /\ \A i \in DOMAIN Replay(e) : Replay(e)[i] = Closed => i = Len(Replay(e))
  BY DEF EventTypes, ClosureIsLast, Replay

\* The steps of one effect or another that are neither typing, delivering nor
\* opening.
Quiet ==
    \/ \E e \in Effects :
          \/ Rerun(e) \/ Invoke(e) \/ CloseSessionReturns(e) \/ OpenFails(e)
          \/ OpenChannel(e) \/ Register(e) \/ PumpRemoves(e) \/ ResizeFails(e)
          \/ ShellEnds(e)
          \/ \E c \in Closers : CloseTerminal(e, c) \/ ShutChannel(e, c)
    \/ Unmount \/ CloseSession \/ UNCHANGED vars

\* Such a step leaves the events, the keys and the traffic alone.
LEMMA QuietFrame ==
    Quiet => UNCHANGED <<pending, rendered, keys, pumped, bus, printed, received>>
  BY DEF Quiet, Rerun, Invoke, CloseSessionReturns, OpenFails, OpenChannel, Register,
         PumpRemoves, ResizeFails, ShellEnds, CloseTerminal, ShutChannel, Unmount,
         CloseSession, vars, viewVars, backendVars, hostVars

\* The cases of a step.
LEMMA StepCases ==
    ASSUME [Next]_vars
    PROVE  \/ Quiet \/ Type \/ Deliver \/ Write
           \/ \E e \in Effects : Opened(e) \/ PumpOutput(e) \/ PumpClosed(e) \/ Prints(e)
  BY DEF Next, Operator, View, Backend, Quiet

\* The types of what a view keeps of its sessions, and of what was typed.
EventsTyped == EventTypes /\ rendered \in [Effects -> Seq(Nat)]
KeysTyped ==
    /\ keys \in Seq(Keystroke)
    /\ received \in [Effects -> Seq(Nat)]
CountsTyped == pumped \in [Effects -> Nat] /\ printed \in [Effects -> Nat]
ViewTyped ==
    current \in Effects \cup {None} /\ inputOn \in BOOLEAN /\ status \in TerminalStatus

\* TypeOK is these five.
LEMMA TypeParts ==
    TypeOK <=> ShellTypes /\ EventsTyped /\ KeysTyped /\ CountsTyped /\ ViewTyped
  BY DEF TypeOK, ShellTypes, EventsTyped, EventTypes, KeysTyped, CountsTyped, ViewTyped

\* Every step keeps the types of the view's refs and status.
LEMMA NextViewTyped == ViewTyped /\ [Next]_vars => ViewTyped'
  <1> SUFFICES ASSUME ViewTyped, [Next]_vars PROVE ViewTyped'
    OBVIOUS
  <1> USE DEF ViewTyped, TerminalStatus
  <1>1. ASSUME NEW e \in Effects, Rerun(e) PROVE ViewTyped'
    BY <1>1 DEF Rerun, Cleanup
  <1>2. CASE Unmount \/ CloseSession \/ Type
    BY <1>2 DEF Unmount, Cleanup, CloseSession, Type, viewVars
  <1>3. ASSUME NEW e \in Effects, Opened(e) PROVE ViewTyped'
    BY <1>3 DEF Opened, Process, Fail
  <1>4. ASSUME NEW e \in Effects, Invoke(e) \/ CloseSessionReturns(e) \/ ResizeFails(e)
        PROVE  ViewTyped'
    BY <1>4 DEF Invoke, CloseSessionReturns, ResizeFails, Fail
  <1>5. ASSUME NEW e \in Effects, Backend(e) \/ Prints(e) \/ ShellEnds(e)
        PROVE  ViewTyped'
    BY <1>5 DEF Backend, OpenFails, OpenChannel, Register, PumpOutput, PumpClosed,
                PumpRemoves, CloseTerminal, ShutChannel, Prints, ShellEnds, viewVars
  <1>6. CASE Deliver
    BY <1>6 DEF Deliver
  <1>7. CASE Write
    BY <1>7 DEF Write, WriteNext, WriteTerminal, Written, Fail, viewVars
  <1>8. CASE UNCHANGED vars
    BY <1>8 DEF vars, viewVars
  <1> QED
    BY <1>1, <1>2, <1>3, <1>4, <1>5, <1>6, <1>7, <1>8 DEF Next, Operator, View

\* Every step keeps the counters natural.
LEMMA NextCountsTyped == CountsTyped /\ [Next]_vars => CountsTyped'
  <1> SUFFICES ASSUME CountsTyped, [Next]_vars PROVE CountsTyped'
    OBVIOUS
  <1> USE DEF CountsTyped
  <1>1. CASE Quiet
    BY <1>1, QuietFrame
  <1>2. CASE Type \/ Deliver
    BY <1>2 DEF Type, Deliver, backendVars, hostVars
  <1>4. CASE Write
    <2>1. UNCHANGED <<pumped, printed>>
      BY <1>4 DEF Write, WriteNext, WriteTerminal, Written, backendVars, hostVars
    <2> QED BY <2>1
  <1>3. ASSUME NEW e \in Effects, Opened(e) \/ PumpOutput(e) \/ PumpClosed(e) \/ Prints(e)
        PROVE  CountsTyped'
    <2>1. CASE PumpOutput(e)
      BY <2>1 DEF PumpOutput, hostVars
    <2>2. CASE Prints(e)
      BY <2>2 DEF Prints, backendVars
    <2>3. CASE Opened(e) \/ PumpClosed(e)
      BY <2>3 DEF Opened, PumpClosed, hostVars
    <2> QED BY <1>3, <2>1, <2>2, <2>3
  <1> QED BY <1>1, <1>2, <1>3, <1>4, StepCases

\* A change of one write's state.
LEMMA WriteGotoFact ==
    ASSUME KeysTyped, NEW k \in DOMAIN keys, NEW pc \in WritePc, WriteGoto(k, pc)
    PROVE  /\ keys' \in Seq(Keystroke)
           /\ DOMAIN keys' = DOMAIN keys
           /\ \A m \in DOMAIN keys :
                 /\ keys'[m].by = keys[m].by /\ keys'[m].to = keys[m].to
                 /\ keys'[m].pc = IF m = k THEN pc ELSE keys[m].pc
  <1> DEFINE new == [keys[k] EXCEPT !.pc = pc]
  <1>1. keys \in Seq(Keystroke) /\ keys[k] \in Keystroke
    BY DEF KeysTyped
  <1>2. /\ new \in Keystroke
        /\ new.by = keys[k].by /\ new.to = keys[k].to /\ new.pc = pc
    BY <1>1 DEF Keystroke
  <1>3. keys' = [keys EXCEPT ![k] = new]
    BY DEF WriteGoto
  <1> HIDE DEF new
  <1>4. keys' \in Seq(Keystroke) /\ DOMAIN keys' = DOMAIN keys
    BY <1>1, <1>2, <1>3
  <1>5. \A m \in DOMAIN keys : keys'[m] = IF m = k THEN new ELSE keys[m]
    BY <1>1, <1>3
  <1> QED BY <1>2, <1>4, <1>5

\* Every step keeps the types of the keystrokes.
LEMMA NextKeysTyped ==
    KeysTyped /\ ViewTyped /\ ShellTypes /\ [Next]_vars => KeysTyped'
  <1> SUFFICES ASSUME KeysTyped, ViewTyped, ShellTypes, [Next]_vars PROVE KeysTyped'
    OBVIOUS
  <1>1. CASE Quiet
    BY <1>1, QuietFrame DEF KeysTyped
  <1>2. CASE Type
    <2>1. [by |-> current, to |-> ref, pc |-> "queued"] \in Keystroke
      BY <1>2 DEF Type, ViewTyped, ShellTypes, WritePc, Keystroke
    <2> QED BY <1>2, <2>1 DEF Type, KeysTyped, hostVars
  <1>3. CASE Deliver
    BY <1>3 DEF Deliver, KeysTyped, hostVars
  <1>4. CASE Write
    <2>1. PICK k \in DOMAIN keys : WriteNext(k) \/ WriteTerminal(k) \/ Written(k)
      BY <1>4 DEF Write
    <2>5. k \in Nat /\ keys[k] \in Keystroke
      BY DEF KeysTyped
    <2>2. keys[k].to \in Effects
      BY <2>5 DEF Keystroke
    <2>3. PICK pc \in WritePc : WriteGoto(k, pc)
      BY <2>1 DEF WriteNext, WriteTerminal, Written, WritePc
    <2>4. received' \in [Effects -> Seq(Nat)]
      <3>1. received' = received
            \/ received' = [received EXCEPT ![keys[k].to] = Append(@, k)]
        BY <2>1 DEF WriteNext, WriteTerminal, Written, hostVars
      <3>2. received[keys[k].to] \in Seq(Nat)
        BY <2>2 DEF KeysTyped
      <3>3. Append(received[keys[k].to], k) \in Seq(Nat)
        BY <2>5, <3>2
      <3> QED BY <3>1, <3>3 DEF KeysTyped
    <2> QED BY <2>3, <2>4, WriteGotoFact DEF KeysTyped
  <1>5. ASSUME NEW e \in Effects, Opened(e) \/ PumpOutput(e) \/ PumpClosed(e) \/ Prints(e)
        PROVE  KeysTyped'
    BY <1>5 DEF KeysTyped, Opened, PumpOutput, PumpClosed, Prints, hostVars
  <1> QED BY <1>1, <1>2, <1>3, <1>4, <1>5, StepCases

\* Every step keeps the types of the events: a replay shows a sequence.
LEMMA NextEventsTyped ==
    EventsTyped /\ ClosureIsLast /\ CountsTyped /\ ViewTyped /\ ShellTypes
        /\ [Next]_vars => EventsTyped'
  <1> SUFFICES ASSUME EventsTyped, ClosureIsLast, CountsTyped, ViewTyped, ShellTypes,
                      [Next]_vars
               PROVE  EventsTyped'
    OBVIOUS
  <1> USE DEF EventsTyped, EventTypes
  <1>1. CASE Quiet
    BY <1>1, QuietFrame
  <1>2. CASE Type \/ Write
    BY <1>2 DEF Type, Write, WriteNext, WriteTerminal, Written, viewVars, backendVars
  <1>3. CASE Deliver
    <2>1. bus # <<>> /\ bus' = Tail(bus) /\ bus' \in Seq(Event)
      BY <1>3 DEF Deliver
    <2>5. Head(bus) \in Event
      BY <2>1
    <2>2. Head(bus).session \in Effects /\ Head(bus).item \in Nat
      BY <2>5 DEF Event
    <2>3. pending' \in [Effects -> [Effects -> Seq(Nat)]]
      <3>1. CASE pending' = pending
        BY <3>1
      <3>2. CASE /\ current \in Effects
                 /\ pending' = [pending EXCEPT ![current][Head(bus).session] =
                                  Append(@, Head(bus).item)]
        <4>1. pending[current][Head(bus).session] \in Seq(Nat)
          BY <2>2, <3>2
        <4>2. Append(pending[current][Head(bus).session], Head(bus).item) \in Seq(Nat)
          BY <2>2, <4>1
        <4> QED BY <2>2, <3>2, <4>2
      <3> QED BY <1>3, <3>1, <3>2 DEF Deliver, ViewTyped
    <2>4. rendered' \in [Effects -> Seq(Nat)]
      <3>1. CASE rendered' = rendered
        BY <3>1
      <3>2. CASE /\ ref \in Effects
                 /\ rendered' = [rendered EXCEPT ![ref] = Append(@, Head(bus).item)]
        <4>1. Append(rendered[ref], Head(bus).item) \in Seq(Nat)
          BY <2>2, <3>2
        <4> QED BY <3>2, <4>1
      <3> QED BY <1>3, <3>1, <3>2 DEF Deliver, ShellTypes
    <2> QED BY <2>1, <2>3, <2>4
  <1>4. ASSUME NEW e \in Effects, Opened(e) PROVE EventsTyped'
    <2>1. pending' \in [Effects -> [Effects -> Seq(Nat)]]
      BY <1>4 DEF Opened, Nothing
    <2>2. rendered' \in [Effects -> Seq(Nat)]
      <3>1. CASE rendered' = rendered
        BY <3>1
      <3>2. CASE Process(e, Replay(e))
        <4>1. [i \in Shown(Replay(e)) |-> Replay(e)[i]] \in Seq(Nat)
          BY ReplayFact, ShownFact
        <4> QED BY <3>2, <4>1 DEF Process
      <3> QED BY <1>4, <3>1, <3>2 DEF Opened
    <2> QED BY <1>4, <2>1, <2>2 DEF Opened
  <1>5. ASSUME NEW e \in Effects, PumpOutput(e) PROVE EventsTyped'
    <2>1. [session |-> e, item |-> pumped'[e]] \in Event
      BY <1>5 DEF PumpOutput, CountsTyped, Event
    <2>2. bus' \in Seq(Event)
      BY <1>5, <2>1 DEF PumpOutput
    <2> QED BY <1>5, <2>2 DEF PumpOutput, viewVars
  <1>6. ASSUME NEW e \in Effects, PumpClosed(e) PROVE EventsTyped'
    <2>1. [session |-> e, item |-> Closed] \in Event
      BY DEF Event, Closed
    <2>2. bus' \in Seq(Event)
      BY <1>6, <2>1 DEF PumpClosed
    <2> QED BY <1>6, <2>2 DEF PumpClosed, viewVars
  <1>7. ASSUME NEW e \in Effects, Prints(e) PROVE EventsTyped'
    BY <1>7 DEF Prints, viewVars, backendVars
  <1> QED BY <1>1, <1>2, <1>3, <1>4, <1>5, <1>6, <1>7, StepCases

\* What a step may do to a pump: an ended one stays so, and none but its own
\* step ends it.
LEMMA PumpFact ==
    ASSUME ShellInv, Quiet, NEW e \in Effects
    PROVE  /\ pump[e] \in Ended => pump'[e] \in Ended
           /\ pump'[e] = "none" => pump[e] = "none"
  <1> USE DEF ShellInv, ShellTypes, ShellLife, Ended
  <1>1. ASSUME NEW f \in Effects, Register(f) PROVE pump'[e] = pump[e] \/ (pump[e] = "none" /\ pump'[e] = "reading")
    BY <1>1 DEF Register
  <1>2. ASSUME NEW f \in Effects, PumpRemoves(f)
        PROVE  pump'[e] = pump[e] \/ (pump[e] = "removing" /\ pump'[e] = "done")
    BY <1>2 DEF PumpRemoves
  <1>3. CASE UNCHANGED pump
    BY <1>3
  <1>4. UNCHANGED pump \/ \E f \in Effects : Register(f) \/ PumpRemoves(f)
    BY DEF Quiet, Rerun, Invoke, CloseSessionReturns, OpenFails, OpenChannel,
           ResizeFails, ShellEnds, CloseTerminal, ShutChannel, Unmount,
           CloseSession, vars, viewVars, backendVars, hostVars
  <1> QED BY <1>1, <1>2, <1>3, <1>4

\* Every step keeps the order of the bus and the closures last.
LEMMA NextEvents ==
    TypeOK /\ ShellInv /\ BusInOrder /\ ClosureIsLast /\ [Next]_vars
        => BusInOrder' /\ ClosureIsLast'
  <1> SUFFICES ASSUME TypeOK, ShellInv, BusInOrder, ClosureIsLast, [Next]_vars
               PROVE  BusInOrder' /\ ClosureIsLast'
    OBVIOUS
  <1>0. /\ EventTypes /\ CountsTyped /\ ViewTyped /\ pump \in [Effects -> PumpPc]
        /\ \A i \in DOMAIN bus : bus[i].session \in Effects /\ bus[i].item \in Nat
    <2>1. EventTypes /\ CountsTyped /\ ViewTyped /\ pump \in [Effects -> PumpPc]
      BY TypeParts DEF EventsTyped, ShellTypes
    <2>2. \A i \in DOMAIN bus : bus[i] \in Event
      BY <2>1 DEF EventTypes
    <2> QED BY <2>1, <2>2 DEF Event
  <1>1. CASE Quiet
    <2>1. UNCHANGED <<bus, pending, pumped>>
      BY <1>1, QuietFrame
    <2>2. \A e \in Effects : /\ pump[e] \in Ended => pump'[e] \in Ended
                             /\ pump'[e] = "none" => pump[e] = "none"
      BY <1>1, PumpFact
    <2> QED BY <1>0, <2>1, <2>2 DEF BusInOrder, ClosureIsLast
  <1>2. CASE Type \/ Write \/ \E e \in Effects : Prints(e)
    <2>1. UNCHANGED <<bus, pending, pumped, pump>>
      BY <1>2 DEF Type, Write, WriteNext, WriteTerminal, Written, Prints, viewVars, backendVars
    <2> QED BY <2>1 DEF BusInOrder, ClosureIsLast
  <1>3. ASSUME NEW e \in Effects, Opened(e) PROVE BusInOrder' /\ ClosureIsLast'
    <2>1. UNCHANGED <<bus, pumped, pump>> /\ pending' = [pending EXCEPT ![e] = Nothing]
      BY <1>3 DEF Opened
    <2>2. \A g, f \in Effects : g # e => pending'[g][f] = pending[g][f]
      BY <1>0, <2>1 DEF EventTypes
    <2>3. \A f \in Effects : pending'[e][f] = <<>>
      BY <1>0, <2>1 DEF EventTypes, Nothing
    <2>4. ClosureIsLast'
      BY <2>1, <2>2, <2>3 DEF ClosureIsLast
    <2> QED BY <2>1, <2>4 DEF BusInOrder
  <1>4. ASSUME NEW e \in Effects, PumpOutput(e) PROVE BusInOrder' /\ ClosureIsLast'
    <2> DEFINE ev == [session |-> e, item |-> pumped'[e]]
    <2>1. /\ UNCHANGED <<pending, pump>> /\ pump[e] = "reading" /\ bus' = Append(bus, ev)
          /\ pumped' = [pumped EXCEPT ![e] = @ + 1]
      BY <1>4 DEF PumpOutput, viewVars
    <2>2. pumped'[e] = pumped[e] + 1 /\ pumped[e] \in Nat
      BY <1>0, <2>1 DEF CountsTyped
    <2>3. ev \in Event /\ ev.session = e /\ ev.item = pumped[e] + 1 /\ ev.item # Closed
      BY <2>2 DEF Event, Closed
    <2> HIDE DEF ev
    <2>4. /\ DOMAIN bus' = 1..(Len(bus) + 1) /\ DOMAIN bus = 1..Len(bus)
          /\ \A i \in DOMAIN bus : bus'[i] = bus[i]
          /\ bus'[Len(bus) + 1] = ev
      BY <1>0, <2>1, <2>3, BusFact DEF EventTypes
    <2>5. \A f \in Effects : pumped[f] \in Nat /\ pumped'[f] \in Nat /\ pumped[f] <= pumped'[f]
      BY <1>0, <2>1 DEF CountsTyped
    <2>6. BusInOrder'
      <3>1. ASSUME NEW i \in DOMAIN bus', NEW j \in DOMAIN bus', i < j,
                   bus'[i].session = bus'[j].session
            PROVE  /\ bus'[i].item # Closed
                   /\ bus'[j].item = Closed \/ bus'[i].item < bus'[j].item
        <4>1. i \in DOMAIN bus /\ (j \in DOMAIN bus \/ j = Len(bus) + 1)
          BY <2>4, <3>1
        <4>2. CASE j \in DOMAIN bus
          BY <2>4, <3>1, <4>1, <4>2 DEF BusInOrder
        <4>3. CASE j = Len(bus) + 1
          <5>1. bus[i].session = e
            BY <2>3, <2>4, <3>1, <4>1, <4>3
          <5>2. bus[i].item # Closed /\ bus[i].item <= pumped[e] /\ bus[i].item \in Nat
            BY <1>0, <2>1, <4>1, <5>1 DEF BusInOrder, Ended
          <5> QED BY <2>2, <2>3, <2>4, <4>1, <4>3, <5>2
        <4> QED BY <4>1, <4>2, <4>3
      <3>2. ASSUME NEW i \in DOMAIN bus'
            PROVE  /\ bus'[i].item <= pumped'[bus'[i].session]
                   /\ bus'[i].item = Closed => pump'[bus'[i].session] \in Ended
        <4>1. CASE i \in DOMAIN bus
          BY <1>0, <2>1, <2>4, <2>5, <4>1 DEF BusInOrder
        <4>2. CASE i = Len(bus) + 1
          BY <2>2, <2>3, <2>4, <4>2
        <4> QED BY <2>4, <4>1, <4>2
      <3>3. \A f \in Effects : pump'[f] = "none" => pumped'[f] = 0
        BY <1>0, <2>1 DEF BusInOrder, CountsTyped
      <3> QED BY <3>1, <3>2, <3>3 DEF BusInOrder
    <2>7. ClosureIsLast'
      <3>1. \A g, f \in Effects : \A i \in DOMAIN pending[g][f] :
               pending[g][f][i] = Closed => f # e
        BY <2>1 DEF ClosureIsLast, Ended
      <3> QED BY <2>1, <2>3, <2>4, <3>1 DEF ClosureIsLast
    <2> QED BY <2>6, <2>7
  <1>5. ASSUME NEW e \in Effects, PumpClosed(e) PROVE BusInOrder' /\ ClosureIsLast'
    <2> DEFINE ev == [session |-> e, item |-> Closed]
    <2>1. /\ UNCHANGED <<pending, pumped>> /\ pump[e] = "reading" /\ bus' = Append(bus, ev)
          /\ pump' = [pump EXCEPT ![e] = "removing"]
      BY <1>5 DEF PumpClosed, viewVars
    <2>2. /\ pump'[e] = "removing" /\ \A f \in Effects : f # e => pump'[f] = pump[f]
      BY <1>0, <2>1
    <2>3. ev \in Event /\ ev.session = e /\ ev.item = Closed
      BY DEF Event, Closed
    <2> HIDE DEF ev
    <2>4. /\ DOMAIN bus' = 1..(Len(bus) + 1) /\ DOMAIN bus = 1..Len(bus)
          /\ \A i \in DOMAIN bus : bus'[i] = bus[i]
          /\ bus'[Len(bus) + 1] = ev
      BY <1>0, <2>1, <2>3, BusFact DEF EventTypes
    <2>5. \A f \in Effects : pump[f] \in Ended => pump'[f] = pump[f]
      BY <2>1, <2>2 DEF Ended
    <2>6. BusInOrder'
      <3>1. ASSUME NEW i \in DOMAIN bus', NEW j \in DOMAIN bus', i < j,
                   bus'[i].session = bus'[j].session
            PROVE  /\ bus'[i].item # Closed
                   /\ bus'[j].item = Closed \/ bus'[i].item < bus'[j].item
        <4>1. i \in DOMAIN bus /\ (j \in DOMAIN bus \/ j = Len(bus) + 1)
          BY <2>4, <3>1
        <4>2. CASE j \in DOMAIN bus
          BY <2>4, <3>1, <4>1, <4>2 DEF BusInOrder
        <4>3. CASE j = Len(bus) + 1
          <5>1. bus[i].session = e
            BY <2>3, <2>4, <3>1, <4>1, <4>3
          <5>2. bus[i].item # Closed
            BY <2>1, <4>1, <5>1 DEF BusInOrder, Ended
          <5> QED BY <2>3, <2>4, <4>1, <4>3, <5>2
        <4> QED BY <4>1, <4>2, <4>3
      <3>2. ASSUME NEW i \in DOMAIN bus'
            PROVE  /\ bus'[i].item <= pumped'[bus'[i].session]
                   /\ bus'[i].item = Closed => pump'[bus'[i].session] \in Ended
        <4>1. CASE i \in DOMAIN bus
          BY <1>0, <2>1, <2>4, <2>5, <4>1 DEF BusInOrder
        <4>2. CASE i = Len(bus) + 1
          BY <1>0, <2>1, <2>2, <2>3, <2>4, <4>2 DEF CountsTyped, Closed, Ended
        <4> QED BY <2>4, <4>1, <4>2
      <3>3. \A f \in Effects : pump'[f] = "none" => pumped'[f] = 0
        BY <2>1, <2>2 DEF BusInOrder
      <3> QED BY <3>1, <3>2, <3>3 DEF BusInOrder
    <2>7. ClosureIsLast'
      <3>1. \A g, f \in Effects : \A i \in DOMAIN pending[g][f] :
               pending[g][f][i] = Closed => f # e
        BY <2>1 DEF ClosureIsLast, Ended
      <3> QED BY <2>1, <2>3, <2>4, <2>5, <3>1 DEF ClosureIsLast
    <2> QED BY <2>6, <2>7
  <1>6. CASE Deliver
    <2> DEFINE f == Head(bus).session
               x == Head(bus).item
    <2>1. bus # <<>> /\ bus' = Tail(bus) /\ UNCHANGED <<pump, pumped>>
      BY <1>6 DEF Deliver
    <2>2. /\ 1 \in DOMAIN bus /\ f = bus[1].session /\ x = bus[1].item
          /\ \A i \in DOMAIN bus' : i + 1 \in DOMAIN bus /\ bus'[i] = bus[i + 1]
          /\ DOMAIN bus' \subseteq Nat \ {0}
      BY <1>0, <2>1, BusFact DEF EventTypes
    <2>3. BusInOrder'
      <3>1. ASSUME NEW i \in DOMAIN bus', NEW j \in DOMAIN bus', i < j,
                   bus'[i].session = bus'[j].session
            PROVE  /\ bus'[i].item # Closed
                   /\ bus'[j].item = Closed \/ bus'[i].item < bus'[j].item
        <4>1. i + 1 < j + 1 /\ i + 1 \in DOMAIN bus /\ j + 1 \in DOMAIN bus
          BY <2>2, <3>1
        <4> QED BY <2>2, <3>1, <4>1 DEF BusInOrder
      <3>2. ASSUME NEW i \in DOMAIN bus'
            PROVE  /\ bus'[i].item <= pumped'[bus'[i].session]
                   /\ bus'[i].item = Closed => pump'[bus'[i].session] \in Ended
        BY <2>1, <2>2 DEF BusInOrder
      <3> QED BY <2>1, <3>1, <3>2 DEF BusInOrder
    <2>4. f \in Effects /\ x \in Nat
      BY <1>0, <2>2
    <2> HIDE DEF f, x
    <2>5. CASE pending' = pending
      BY <2>1, <2>2, <2>3, <2>5 DEF ClosureIsLast
    <2>6. CASE /\ current \in Effects
               /\ pending' = [pending EXCEPT ![current][f] = Append(@, x)]
      <3>1. pending[current][f] \in Seq(Nat)
        BY <1>0, <2>4, <2>6 DEF EventTypes
      <3>2. /\ pending'[current][f] = Append(pending[current][f], x)
            /\ \A g, h \in Effects : g # current \/ h # f => pending'[g][h] = pending[g][h]
        BY <1>0, <2>4, <2>6 DEF EventTypes
      <3>3. \A i \in DOMAIN pending[current][f] : pending[current][f][i] # Closed
        BY <2>2, <2>4, <2>6 DEF ClosureIsLast
      <3>4. ASSUME NEW g \in Effects, NEW h \in Effects, NEW i \in DOMAIN pending'[g][h],
                   pending'[g][h][i] = Closed
            PROVE  /\ i = Len(pending'[g][h]) /\ pump'[h] \in Ended
                   /\ \A j \in DOMAIN bus' : bus'[j].session # h
        <4>1. CASE g # current \/ h # f
          BY <2>1, <2>2, <3>2, <3>4, <4>1 DEF ClosureIsLast
        <4>2. CASE g = current /\ h = f
          <5>1. i = Len(pending[current][f]) + 1 /\ x = Closed
            <6>1. pending'[g][h] = Append(pending[current][f], x)
              BY <3>2, <4>2
            <6> QED BY <2>4, <3>1, <3>3, <3>4, <6>1, AppendFact
          <5>2. i = Len(pending'[g][h])
            BY <2>4, <3>1, <3>2, <4>2, <5>1, AppendFact
          <5>3. pump'[h] \in Ended
            BY <2>1, <2>2, <4>2, <5>1 DEF BusInOrder
          <5>4. \A j \in DOMAIN bus' : bus'[j].session # h
            <6> SUFFICES ASSUME NEW j \in DOMAIN bus', bus'[j].session = h PROVE FALSE
              OBVIOUS
            <6>1. j + 1 \in DOMAIN bus /\ 1 < j + 1 /\ bus[j + 1].session = f
              BY <2>2, <4>2
            <6>2. bus[1].item # Closed
              BY <2>2, <6>1 DEF BusInOrder
            <6> QED BY <2>2, <5>1, <6>2
          <5> QED BY <5>2, <5>3, <5>4
        <4> QED BY <4>1, <4>2
      <3> QED BY <2>3, <3>4 DEF ClosureIsLast
    <2>7. pending' = pending \/
            (current \in Effects /\ pending' = [pending EXCEPT ![current][f] = Append(@, x)])
      BY <1>0, <1>6 DEF Deliver, ViewTyped, f, x
    <2> QED BY <2>5, <2>6, <2>7
  <1> QED BY <1>1, <1>2, <1>3, <1>4, <1>5, <1>6, StepCases

-------------------------------------------------------------------------------
(* Nobody looks at a shell, and yet nobody closes it.                       *)

\* A Close button's reply came in after another view had taken over the ref.
LateReply(e) == \E f \in Effects \ {e} : close[f]["button"] = "done"

Kept(e) == ref = e \/ (\E c \in Closers : close[e][c] = "sent") \/ LateReply(e)

\* A running shell whose open has returned is shown, is being closed, or was
\* forgotten through a late reply.
Attended ==
    \A e \in Effects :
        e \in terminals /\ shell[e] = "up" /\ effect[e] # "invoking" => Kept(e)

\* A closed channel is why a view lets go of its session by itself.
LEMMA NextAttended ==
    TypeOK /\ ShellInv /\ BusInOrder /\ ClosureIsLast /\ Attended /\ [Next]_vars
        => Attended'
  <1> SUFFICES ASSUME TypeOK, ShellInv, BusInOrder, ClosureIsLast, Attended, [Next]_vars,
                      NEW g \in Effects,
                      (g \in terminals /\ shell[g] = "up" /\ effect[g] # "invoking")'
               PROVE  Kept(g)'
    BY DEF Attended
  <1>0. /\ ShellTypes /\ EventTypes /\ ShellLife /\ RefIsCurrent /\ ClosesOnce
        /\ g \in terminals /\ shell[g] = "up" /\ effect[g] # "invoking" => Kept(g)
    BY TypeParts DEF EventsTyped, ShellInv, Attended
  <1> USE TerminalsAssumption DEF ShellTypes, Closers, LateReply, Kept
  <1>1. ASSUME NEW e \in Effects, Rerun(e) PROVE Kept(g)'
    <2>1. /\ UNCHANGED <<terminals, shell, open>>
          /\ effect' = [effect EXCEPT ![e] = "listening"] /\ effect[e] = "idle"
      BY <1>1 DEF Rerun, hostVars
    <2>2. g # e /\ effect'[g] = effect[g]
      BY <1>0, <2>1 DEF ShellLife
    <2>3. Kept(g)
      BY <1>0, <2>1, <2>2
    <2>4. (close' = close /\ ref = None) \/ (ref # None /\ SendClose(ref, "cleanup"))
      BY <1>1 DEF Rerun, Cleanup
    <2> QED BY <1>0, <2>3, <2>4, SendCloseFact DEF ClosesOnce
  <1>2. CASE Unmount
    <2>1. Kept(g)
      BY <1>0, <1>2 DEF Unmount, hostVars
    <2>2. (close' = close /\ ref = None) \/ (ref # None /\ SendClose(ref, "cleanup"))
      BY <1>2 DEF Unmount, Cleanup
    <2> QED BY <1>0, <2>1, <2>2, SendCloseFact DEF ClosesOnce
  <1>3. CASE CloseSession
    <2>1. Kept(g) /\ ref # None /\ status = "attached" /\ ref' = ref /\ SendClose(ref, "button")
      BY <1>0, <1>3 DEF CloseSession, hostVars
    <2>2. close[ref]["button"] # "done"
      BY <1>0, <2>1 DEF ClosesOnce
    <2> QED BY <1>0, <2>1, <2>2, SendCloseFact
  <1>4. ASSUME NEW e \in Effects, Invoke(e) PROVE Kept(g)'
    <2>1. /\ UNCHANGED <<terminals, shell, ref, close>> /\ effect[e] = "listening"
          /\ effect' = [effect EXCEPT ![e] = "left"] \/ effect' = [effect EXCEPT ![e] = "invoking"]
      BY <1>4 DEF Invoke, hostVars
    <2>2. g # e /\ effect'[g] = effect[g]
      BY <1>0, <2>1 DEF ShellLife
    <2> QED BY <1>0, <2>1, <2>2
  <1>5. ASSUME NEW e \in Effects, Opened(e) PROVE Kept(g)'
    <2>1. /\ UNCHANGED <<terminals, shell, open>> /\ effect[e] = "invoking"
          /\ effect' = [effect EXCEPT ![e] = "settled"]
      BY <1>5 DEF Opened, hostVars
    <2>2. CASE Disposed(e)
      <3>1. ref' = ref /\ LateClose(e)
        BY <1>5, <2>2 DEF Opened
      <3>2. CASE g = e
        <4>1. SendClose(e, "cleanup")
          BY <1>0, <2>1, <3>1, <3>2 DEF LateClose, ShellLife
        <4> QED BY <1>0, <3>2, <4>1, SendCloseFact
      <3>3. CASE g # e
        <4>1. Kept(g)
          BY <1>0, <2>1, <3>3
        <4>2. close[e]["cleanup"] = "none" /\ close[e]["button"] = "none"
          BY <1>0, <2>1 DEF ClosesOnce, BeforeOpened
        <4>3. close' = close \/ SendClose(e, "cleanup")
          BY <3>1 DEF LateClose
        <4> QED BY <1>0, <3>1, <4>1, <4>2, <4>3, SendCloseFact
      <3> QED BY <3>2, <3>3
    <2>3. CASE ~Disposed(e)
      <3>1. close' = close
        BY <1>5, <2>3 DEF Opened
      <3>2. CASE g = e
        <4>1. open[e] = "ok" /\ Process(e, Replay(e))
          BY <1>0, <1>5, <2>1, <2>3, <3>2 DEF Opened, ShellLife
        <4>2. \A i \in DOMAIN Replay(e) : Replay(e)[i] # Closed
          <5> SUFFICES ASSUME NEW i \in DOMAIN Replay(e), Replay(e)[i] = Closed PROVE FALSE
            OBVIOUS
          <5>1. pump[e] \in Ended
            BY DEF ClosureIsLast, Replay
          <5> QED BY <1>0, <2>1, <3>2, <5>1 DEF ShellLife
        <4>3. Shown(Replay(e)) = DOMAIN Replay(e)
          BY <1>0, <4>2, ReplayFact, ShownFact
        <4> QED BY <3>2, <4>1, <4>3 DEF Process
      <3>3. CASE g # e
        <4>1. Kept(g) /\ ref # g
          BY <1>0, <2>1, <2>3, <3>3 DEF RefIsCurrent, Disposed
        <4> QED BY <3>1, <4>1
      <3> QED BY <3>2, <3>3
    <2> QED BY <2>2, <2>3
  <1>6. ASSUME NEW e \in Effects, CloseSessionReturns(e) PROVE Kept(g)'
    <2>1. /\ UNCHANGED <<terminals, shell, effect>> /\ close[e]["button"] = "replied"
          /\ close' = [close EXCEPT ![e]["button"] = "done"]
      BY <1>6 DEF CloseSessionReturns, hostVars
    <2>2. g # e
      BY <1>0, <2>1 DEF ShellLife
    <2>3. close'[e]["button"] = "done"
      BY <1>0, <2>1
    <2> QED BY <2>2, <2>3
  <1>7. ASSUME NEW e \in Effects, OpenFails(e) \/ PumpOutput(e) \/ PumpClosed(e) PROVE Kept(g)'
    <2>1. UNCHANGED <<terminals, shell, effect, ref, close>>
      BY <1>7 DEF OpenFails, PumpOutput, PumpClosed, viewVars, hostVars
    <2> QED BY <1>0, <2>1
  <1>8. ASSUME NEW e \in Effects, OpenChannel(e) PROVE Kept(g)'
    <2>1. /\ UNCHANGED <<terminals, effect, ref, close>> /\ open[e] = "sent"
          /\ shell' = [shell EXCEPT ![e] = "up"]
      BY <1>8 DEF OpenChannel, viewVars
    <2>2. g # e
      BY <1>0, <2>1 DEF ShellLife
    <2> QED BY <1>0, <2>1, <2>2
  <1>9. ASSUME NEW e \in Effects, Register(e) PROVE Kept(g)'
    <2>1. /\ UNCHANGED <<shell, effect, ref, close>> /\ open[e] = "channel"
          /\ terminals' = terminals \cup {e}
      BY <1>9 DEF Register, viewVars, hostVars
    <2>2. g # e
      BY <1>0, <2>1 DEF ShellLife
    <2> QED BY <1>0, <2>1, <2>2
  <1>10. ASSUME NEW e \in Effects, PumpRemoves(e) PROVE Kept(g)'
    <2>1. /\ UNCHANGED <<shell, effect, ref, close>> /\ terminals' \subseteq terminals
      BY <1>10 DEF PumpRemoves, viewVars, hostVars
    <2> QED BY <1>0, <2>1
  <1>11. ASSUME NEW e \in Effects, NEW c \in Closers, CloseTerminal(e, c) PROVE Kept(g)'
    <2>1. /\ UNCHANGED <<shell, effect, ref>> /\ terminals' = terminals \ {e}
          /\ close[e][c] = "sent"
          /\ \A f \in Effects : \A d \in Closers :
                f # e \/ d # c => close'[f][d] = close[f][d]
      BY <1>0, <1>11 DEF CloseTerminal, viewVars, hostVars
    <2> QED BY <1>0, <2>1
  <1>12. ASSUME NEW e \in Effects, NEW c \in Closers, ShutChannel(e, c) PROVE Kept(g)'
    <2>1. /\ UNCHANGED <<terminals, effect, ref>> /\ close[e][c] = "shutting"
          /\ \A f \in Effects : \A d \in Closers :
                f # e \/ d # c => close'[f][d] = close[f][d]
          /\ \A f \in Effects : shell'[f] = "up" => shell[f] = "up"
      BY <1>0, <1>12 DEF ShutChannel, viewVars
    <2> QED BY <1>0, <2>1
  <1>13. ASSUME NEW e \in Effects, ResizeFails(e) \/ Prints(e) \/ ShellEnds(e) PROVE Kept(g)'
    <2>1. /\ UNCHANGED <<terminals, effect, ref, close>>
          /\ \A f \in Effects : shell'[f] = "up" => shell[f] = "up"
      BY <1>0, <1>13 DEF ResizeFails, Prints, ShellEnds, viewVars, backendVars, hostVars
    <2> QED BY <1>0, <2>1
  <1>14. CASE Deliver
    <2>1. UNCHANGED <<terminals, effect, close, shell>>
      BY <1>14 DEF Deliver, hostVars
    <2>2. CASE ref' = ref
      BY <1>0, <2>1, <2>2
    <2>3. CASE ref' # ref
      <3>1. bus # <<>> /\ Head(bus).session = ref /\ Head(bus).item = Closed
        BY <1>14, <2>3 DEF Deliver
      <3>2. 1 \in DOMAIN bus /\ Head(bus) = bus[1]
        BY <1>0, <3>1 DEF EventTypes
      <3>3. pump[ref] \in Ended
        BY <3>1, <3>2 DEF BusInOrder
      <3>4. ref # g
        BY <1>0, <2>1, <3>3 DEF ShellLife
      <3> QED BY <1>0, <2>1, <3>4
    <2> QED BY <2>2, <2>3
  <1>15. CASE Type \/ Write \/ UNCHANGED vars
    <2>1. UNCHANGED <<terminals, effect, ref, close, shell>>
      BY <1>15 DEF Type, Write, WriteNext, WriteTerminal, Written, vars, viewVars,
                   backendVars, hostVars
    <2> QED BY <1>0, <2>1
  <1> QED
    BY <1>1, <1>2, <1>3, <1>4, <1>5, <1>6, <1>7, <1>8, <1>9, <1>10, <1>11, <1>12,
       <1>13, <1>14, <1>15 DEF Next, Operator, View, Backend

-------------------------------------------------------------------------------
(* Keystrokes.                                                             *)

\* The view will send nothing more of what was typed into effect e.
Dead(e) == Disposed(e) \/ ~inputOn \/ ref # e

\* The shell of effect e was sent keystroke k.
Got(e, k) == \E i \in DOMAIN received[e] : received[e][i] = k

\* A key goes to the session of the view it was typed into.
KeysOfTheirView ==
    \A k \in DOMAIN keys : keys[k].to = keys[k].by /\ effect[keys[k].by] = "settled"

\* A write starts when the ones before it are done.
OneWriteAtATime ==
    \A k \in DOMAIN keys : keys[k].pc # "queued" =>
        \A m \in 1..(k - 1) : keys[m].by = keys[k].by => keys[m].pc = "done"

\* A key is skipped only when nothing after it will be sent.
Accounted(k, e) ==
    /\ keys[k].pc = "ok" => Got(e, k)
    /\ keys[k].pc = "done" => Got(e, k) \/ Dead(e)
    /\ keys[k].pc = "sent" => \A m \in 1..(k - 1) : keys[m].by = e => Got(e, m)
NothingSkipped ==
    \A e \in Effects : \A k \in DOMAIN keys : keys[k].by = e => Accounted(k, e)

\* A shell has only keys of its view, whose writes have come back.
ReceivedWereSent ==
    \A e \in Effects : \A i \in DOMAIN received[e] :
        LET k == received[e][i] IN
        k \in DOMAIN keys /\ keys[k].by = e /\ keys[k].pc \in {"ok", "done"}

KeyInv ==
    /\ KeysOfTheirView /\ OneWriteAtATime /\ NothingSkipped /\ ReceivedWereSent
    /\ InputIsPrefix

\* An effect that has settled stays settled, and once its input is dead it is so
\* for good: no other effect gives the ref back.
LEMMA DeadStays ==
    ASSUME TypeOK, RefIsCurrent, [Next]_vars, NEW g \in Effects, effect[g] = "settled"
    PROVE  effect'[g] = "settled" /\ (Dead(g) => Dead(g)')
  <1>0. ViewTyped /\ ShellTypes
    BY TypeParts
  <1> USE <1>0, TerminalsAssumption DEF Dead, Disposed, ViewTyped, ShellTypes
  <1> DEFINE Goal == effect'[g] = "settled" /\ (Dead(g) => Dead(g)')
  <1>1. ASSUME NEW e \in Effects, Rerun(e) PROVE Goal
    BY <1>1 DEF Rerun, Cleanup
  <1>2. CASE Unmount \/ CloseSession
    BY <1>2 DEF Unmount, Cleanup, CloseSession
  <1>3. ASSUME NEW e \in Effects, Invoke(e) PROVE Goal
    BY <1>3 DEF Invoke
  <1>4. ASSUME NEW e \in Effects, Opened(e) PROVE Goal
    <2>1. /\ effect[e] = "invoking" /\ effect' = [effect EXCEPT ![e] = "settled"]
          /\ current' = current
      BY <1>4 DEF Opened
    <2>2. UNCHANGED <<ref, inputOn>> \/ (UNCHANGED ref /\ ~inputOn') \/ ref' \in {e, None}
      BY <1>4 DEF Opened, Process, Fail
    <2>3. g # e
      BY <2>1
    <2> QED BY <2>1, <2>2, <2>3
  <1>5. ASSUME NEW e \in Effects, CloseSessionReturns(e) \/ ResizeFails(e) PROVE Goal
    BY <1>5 DEF CloseSessionReturns, ResizeFails, Fail
  <1>6. ASSUME NEW e \in Effects, Backend(e) \/ Prints(e) \/ ShellEnds(e) PROVE Goal
    <2>1. UNCHANGED <<effect, current, ref, inputOn>>
      BY <1>6 DEF Backend, OpenFails, OpenChannel, Register, PumpOutput, PumpClosed,
                  PumpRemoves, CloseTerminal, ShutChannel, Prints, ShellEnds, viewVars
    <2> QED BY <2>1
  <1>7. CASE Deliver
    <2>1. UNCHANGED <<effect, current>> /\ (UNCHANGED <<ref, inputOn>> \/ ref' = None)
      BY <1>7 DEF Deliver
    <2> QED BY <2>1
  <1>8. CASE Type \/ Write \/ UNCHANGED vars
    <2>1. UNCHANGED <<effect, current, ref>> /\ (inputOn' = inputOn \/ ~inputOn')
      BY <1>8 DEF Type, Write, WriteNext, WriteTerminal, Written, Fail, vars, viewVars
    <2> QED BY <2>1
  <1> QED
    BY <1>1, <1>2, <1>3, <1>4, <1>5, <1>6, <1>7, <1>8 DEF Next, Operator, View

\* A step that touches neither the keys nor what the shells received.
LEMMA KeysFrame ==
    ASSUME TypeOK, RefIsCurrent, KeyInv, [Next]_vars, UNCHANGED <<keys, received>>
    PROVE  KeyInv'
  <1>0. KeysTyped /\ \A k \in DOMAIN keys : keys[k].by \in Effects
    <2>1. KeysTyped
      BY TypeParts
    <2>2. \A k \in DOMAIN keys : keys[k] \in Keystroke
      BY <2>1 DEF KeysTyped
    <2> QED BY <2>1, <2>2 DEF Keystroke
  <1>1. \A e \in Effects : effect[e] = "settled" =>
           effect'[e] = "settled" /\ (Dead(e) => Dead(e)')
    BY DeadStays
  <1>3. KeysOfTheirView' /\ OneWriteAtATime' /\ ReceivedWereSent' /\ InputIsPrefix'
    BY <1>0, <1>1 DEF KeyInv, KeysOfTheirView, OneWriteAtATime, ReceivedWereSent, InputIsPrefix
  <1>4. NothingSkipped'
    <2> SUFFICES ASSUME NEW e \in Effects, NEW k \in DOMAIN keys, keys[k].by = e
                 PROVE  Accounted(k, e)'
      BY DEF NothingSkipped
    <2>1. Accounted(k, e) /\ (Dead(e) => Dead(e)')
      BY <1>1 DEF KeyInv, NothingSkipped, KeysOfTheirView
    <2> QED BY <2>1 DEF Accounted, Got
  <1> QED BY <1>3, <1>4 DEF KeyInv

\* Keys typed, written and answered keep the order.
LEMMA NextKeys == TypeOK /\ RefIsCurrent /\ KeyInv /\ [Next]_vars => KeyInv'
  <1> SUFFICES ASSUME TypeOK, RefIsCurrent, KeyInv, [Next]_vars PROVE KeyInv'
    OBVIOUS
  <1>0. /\ KeysTyped /\ ViewTyped /\ ShellTypes
        /\ \A k \in DOMAIN keys : keys[k].by \in Effects /\ keys[k].pc \in WritePc
        /\ DOMAIN keys = 1..Len(keys) /\ Len(keys) \in Nat
    <2>1. KeysTyped /\ ViewTyped /\ ShellTypes
      BY TypeParts
    <2>2. \A k \in DOMAIN keys : keys[k] \in Keystroke
      BY <2>1 DEF KeysTyped
    <2>3. DOMAIN keys = 1..Len(keys) /\ Len(keys) \in Nat
      BY <2>1 DEF KeysTyped
    <2> QED BY <2>1, <2>2, <2>3 DEF Keystroke
  <1>d. \A e \in Effects : effect[e] = "settled" =>
           effect'[e] = "settled" /\ (Dead(e) => Dead(e)')
    BY DeadStays
  <1>r. \A e \in Effects : \A i \in DOMAIN received[e] :
           /\ received[e][i] \in DOMAIN keys
           /\ \A m \in 1..(received[e][i] - 1) : m \in DOMAIN keys
    BY <1>0 DEF KeyInv, ReceivedWereSent
  <1>1. CASE UNCHANGED <<keys, received>>
    BY <1>1, KeysFrame
  <1>2. CASE Type
    <2> DEFINE new == [by |-> current, to |-> ref, pc |-> "queued"]
    <2>1. /\ keys' = Append(keys, new) /\ received' = received
          /\ UNCHANGED <<current, effect, ref, inputOn>>
          /\ ref # None /\ current \in Effects
      BY <1>0, <1>2 DEF Type, viewVars, hostVars, ViewTyped
    <2>2. /\ new \in Keystroke /\ new.by = ref /\ new.to = ref /\ new.pc = "queued"
          /\ effect[ref] = "settled"
      BY <1>0, <2>1 DEF Keystroke, RefIsCurrent, WritePc, ShellTypes
    <2> HIDE DEF new
    <2>3. /\ DOMAIN keys' = 1..(Len(keys) + 1)
          /\ \A k \in DOMAIN keys : keys'[k] = keys[k]
          /\ keys'[Len(keys) + 1] = new
      BY <1>0, <2>1, <2>2 DEF KeysTyped
    <2>4. \A k \in DOMAIN keys' : k \in DOMAIN keys \/ (k = Len(keys) + 1 /\ keys'[k] = new)
      BY <1>0, <2>3
    <2>5. \A k \in DOMAIN keys' : \A m \in 1..(k - 1) : m \in DOMAIN keys
      BY <1>0, <2>3
    <2>6. KeysOfTheirView'
      BY <2>1, <2>2, <2>3, <2>4 DEF KeyInv, KeysOfTheirView
    <2>7. OneWriteAtATime'
      BY <2>2, <2>3, <2>4, <2>5 DEF KeyInv, OneWriteAtATime
    <2>8. NothingSkipped'
      <3> SUFFICES ASSUME NEW e \in Effects, NEW k \in DOMAIN keys', keys'[k].by = e
                   PROVE  Accounted(k, e)'
        BY DEF NothingSkipped
      <3>1. CASE k = Len(keys) + 1
        BY <2>2, <2>3, <3>1 DEF Accounted
      <3>2. CASE k \in DOMAIN keys
        <4>1. Accounted(k, e)
          BY <2>3, <3>2 DEF KeyInv, NothingSkipped
        <4>2. \A m \in 1..(k - 1) : keys'[m] = keys[m]
          BY <2>3, <2>5
        <4>3. keys'[k] = keys[k] /\ (Dead(e)' <=> Dead(e)) /\ \A m : Got(e, m)' <=> Got(e, m)
          BY <2>1, <2>3, <3>2 DEF Dead, Disposed, Got
        <4> QED BY <4>1, <4>2, <4>3 DEF Accounted
      <3> QED BY <2>4, <3>1, <3>2
    <2>9. ReceivedWereSent'
      BY <1>0, <2>1, <2>3 DEF KeyInv, ReceivedWereSent
    <2>10. InputIsPrefix'
      BY <1>r, <2>1, <2>3 DEF KeyInv, InputIsPrefix
    <2> QED BY <2>6, <2>7, <2>8, <2>9, <2>10 DEF KeyInv
  <1>3. CASE Write
    <2>1. PICK k \in DOMAIN keys : WriteNext(k) \/ WriteTerminal(k) \/ Written(k)
      BY <1>3 DEF Write
    <2>e. PICK e \in Effects : e = keys[k].by
      BY <1>0
    <2>2. /\ k \in Nat /\ e \in Effects /\ keys[k].to = e /\ effect[e] = "settled"
          /\ UNCHANGED <<current, ref, effect>>
      BY <1>0, <2>1, <2>e DEF KeyInv, KeysOfTheirView, WriteNext, WriteTerminal, Written, viewVars
    <2>3. ASSUME NEW pc \in WritePc, WriteGoto(k, pc)
          PROVE  /\ DOMAIN keys' = DOMAIN keys
                 /\ \A m \in DOMAIN keys :
                       /\ keys'[m].by = keys[m].by /\ keys'[m].to = keys[m].to
                       /\ keys'[m].pc = IF m = k THEN pc ELSE keys[m].pc
      BY <1>0, <2>3, WriteGotoFact
    <2>4. \A m \in DOMAIN keys : \A j \in 1..(m - 1) : j \in DOMAIN keys
      BY <1>0
    <2>5. CASE WriteNext(k)
      <3> DEFINE pc == IF Disposed(e) \/ ~inputOn \/ ref # e THEN "done" ELSE "sent"
      <3>1. /\ keys[k].pc = "queued" /\ UNCHANGED <<inputOn, received>>
            /\ \A m \in 1..(k - 1) : keys[m].by = e => keys[m].pc = "done"
            /\ WriteGoto(k, pc) /\ pc \in WritePc
        BY <2>e, <2>2, <2>5 DEF WriteNext, WriteReady, WritePc, viewVars, hostVars
      <3>2. pc = "sent" => ~Dead(e)
        BY DEF Dead
      <3>3. pc = "done" => Dead(e)
        BY DEF Dead
      <3>4. pc \in {"done", "sent"}
        OBVIOUS
      <3> HIDE DEF pc
      <3>5. /\ DOMAIN keys' = DOMAIN keys
            /\ \A m \in DOMAIN keys :
                  /\ keys'[m].by = keys[m].by /\ keys'[m].to = keys[m].to
                  /\ keys'[m].pc = IF m = k THEN pc ELSE keys[m].pc
        BY <2>3, <3>1
      <3>6. KeysOfTheirView'
        BY <2>2, <3>5 DEF KeyInv, KeysOfTheirView
      <3>7. OneWriteAtATime'
        BY <2>e, <2>4, <3>1, <3>4, <3>5 DEF KeyInv, OneWriteAtATime
      <3>8. NothingSkipped'
        <4> SUFFICES ASSUME NEW g \in Effects, NEW m \in DOMAIN keys, keys[m].by = g
                     PROVE  Accounted(m, g)'
          BY <3>5 DEF NothingSkipped
        <4>1. /\ Dead(g)' <=> Dead(g)
              /\ \A j : Got(g, j)' <=> Got(g, j)
              /\ \A j \in 1..(m - 1) : keys'[j].by = keys[j].by
          BY <2>2, <2>4, <3>1, <3>5 DEF Dead, Disposed, Got
        <4>2. CASE m # k
          <5>1. Accounted(m, g) /\ keys'[m].pc = keys[m].pc
            BY <3>5, <4>2 DEF KeyInv, NothingSkipped
          <5> QED BY <4>1, <5>1 DEF Accounted
        <4>3. CASE m = k
          <5>1. g = e /\ keys'[m].pc = pc
            BY <2>e, <3>5, <4>3
          <5>2. pc = "sent" => \A j \in 1..(k - 1) : keys[j].by = e => Got(e, j)
            BY <2>2, <2>4, <3>1, <3>2 DEF KeyInv, NothingSkipped, Accounted
          <5> QED BY <3>3, <3>4, <4>1, <4>3, <5>1, <5>2 DEF Accounted
        <4> QED BY <4>2, <4>3
      <3>9. ReceivedWereSent'
        BY <3>1, <3>5 DEF KeyInv, ReceivedWereSent
      <3>10. InputIsPrefix'
        BY <1>r, <3>1, <3>5 DEF KeyInv, InputIsPrefix
      <3> QED BY <3>6, <3>7, <3>8, <3>9, <3>10 DEF KeyInv
    <2>6. ASSUME NEW pc \in {"error", "done"}, WriteGoto(k, pc), received' = received,
                 keys[k].pc \in {"sent", "ok", "error"}, pc = "error" => keys[k].pc = "sent",
                 pc = "done" => Got(e, k) \/ Dead(e)'
          PROVE  KeyInv'
      <3>1. /\ DOMAIN keys' = DOMAIN keys
            /\ \A m \in DOMAIN keys :
                  /\ keys'[m].by = keys[m].by /\ keys'[m].to = keys[m].to
                  /\ keys'[m].pc = IF m = k THEN pc ELSE keys[m].pc
        BY <2>3, <2>6 DEF WritePc
      <3>2. KeysOfTheirView'
        BY <2>2, <3>1 DEF KeyInv, KeysOfTheirView
      <3>3. OneWriteAtATime'
        BY <2>4, <2>6, <3>1 DEF KeyInv, OneWriteAtATime
      <3>4. NothingSkipped'
        <4> SUFFICES ASSUME NEW g \in Effects, NEW m \in DOMAIN keys, keys[m].by = g
                     PROVE  Accounted(m, g)'
          BY <3>1 DEF NothingSkipped
        <4>1. /\ Dead(g) => Dead(g)'
              /\ \A j : Got(g, j)' <=> Got(g, j)
              /\ \A j \in 1..(m - 1) : keys'[j].by = keys[j].by
          BY <1>d, <2>4, <2>6, <3>1 DEF KeyInv, KeysOfTheirView, Got
        <4>2. CASE m # k
          <5>1. Accounted(m, g) /\ keys'[m].pc = keys[m].pc
            BY <3>1, <4>2 DEF KeyInv, NothingSkipped
          <5> QED BY <4>1, <5>1 DEF Accounted
        <4>3. CASE m = k
          <5>1. g = e /\ keys'[m].pc = pc
            BY <2>e, <3>1, <4>3
          <5>2. pc = "done" => Got(g, m)' \/ Dead(g)'
            BY <2>6, <4>1, <4>3, <5>1 DEF Dead, Disposed
          <5> QED BY <5>1, <5>2 DEF Accounted
        <4> QED BY <4>2, <4>3
      <3>5. ReceivedWereSent'
        BY <2>6, <3>1 DEF KeyInv, ReceivedWereSent
      <3>6. InputIsPrefix'
        BY <1>r, <2>6, <3>1 DEF KeyInv, InputIsPrefix
      <3> QED BY <3>2, <3>3, <3>4, <3>5, <3>6 DEF KeyInv
    <2>7. CASE Written(k)
      <3>1. /\ WriteGoto(k, "done") /\ received' = received
            /\ keys[k].pc \in {"ok", "error"}
            /\ keys[k].pc = "error" /\ ~Disposed(e) /\ ref = e => ~inputOn'
        BY <2>e, <2>2, <2>7 DEF Written, Fail, hostVars
      <3>2. keys[k].pc = "ok" => Got(e, k)
        BY <2>e, <2>2 DEF KeyInv, NothingSkipped, Accounted
      <3>3. keys[k].pc = "error" => Dead(e)'
        BY <2>e, <2>2, <3>1 DEF Dead, Disposed
      <3> QED BY <2>6, <3>1, <3>2, <3>3
    <2>8. CASE WriteTerminal(k) /\ received' = received
      <3>1. CASE WriteGoto(k, "error")
        BY <2>6, <2>8, <3>1 DEF WriteTerminal
      <3>2. CASE received' = [received EXCEPT ![e] = Append(@, k)]
        <4>1. received[e] \in Seq(Nat)
          BY <1>0, <2>2 DEF KeysTyped
        <4>2. received'[e] = Append(received[e], k)
          BY <1>0, <2>2, <3>2 DEF KeysTyped
        <4>3. Len(received'[e]) = Len(received[e]) + 1
          BY <2>2, <4>1, <4>2, AppendFact
        <4> QED BY <2>8, <4>1, <4>3
      <3> QED BY <2>e, <2>2, <2>8, <3>1, <3>2 DEF WriteTerminal
    <2>9. CASE WriteTerminal(k) /\ received' # received
      <3>1. /\ keys[k].pc = "sent" /\ WriteGoto(k, "ok") /\ UNCHANGED inputOn
            /\ received' = [received EXCEPT ![e] = Append(@, k)]
        BY <2>2, <2>9 DEF WriteTerminal, viewVars
      <3>2. /\ DOMAIN keys' = DOMAIN keys
            /\ \A m \in DOMAIN keys :
                  /\ keys'[m].by = keys[m].by /\ keys'[m].to = keys[m].to
                  /\ keys'[m].pc = IF m = k THEN "ok" ELSE keys[m].pc
        BY <2>3, <3>1 DEF WritePc
      <3>3. received[e] \in Seq(Nat) /\ received'[e] = Append(received[e], k)
        BY <1>0, <2>2, <3>1 DEF KeysTyped
      <3>4. /\ DOMAIN received'[e] = 1..(Len(received[e]) + 1)
            /\ DOMAIN received[e] = 1..Len(received[e]) /\ Len(received[e]) \in Nat
            /\ \A i \in DOMAIN received[e] : received'[e][i] = received[e][i]
            /\ received'[e][Len(received[e]) + 1] = k
        BY <2>2, <3>3, AppendFact
      <3>5. \A g \in Effects : g # e => received'[g] = received[g]
        BY <1>0, <3>1 DEF KeysTyped
      <3>6. /\ \A g \in Effects : \A j : Got(g, j) => Got(g, j)'
            /\ Got(e, k)'
        BY <2>2, <3>4, <3>5 DEF Got
      <3>7. KeysOfTheirView'
        BY <2>2, <3>2 DEF KeyInv, KeysOfTheirView
      <3>8. OneWriteAtATime'
        BY <2>4, <3>1, <3>2 DEF KeyInv, OneWriteAtATime
      <3>9. NothingSkipped'
        <4> SUFFICES ASSUME NEW g \in Effects, NEW m \in DOMAIN keys, keys[m].by = g
                     PROVE  Accounted(m, g)'
          BY <3>2 DEF NothingSkipped
        <4>1. /\ Dead(g) => Dead(g)'
              /\ \A j \in 1..(m - 1) : keys'[j].by = keys[j].by
          BY <1>d, <2>4, <3>2 DEF KeyInv, KeysOfTheirView
        <4>2. CASE m # k
          <5>1. Accounted(m, g) /\ keys'[m].pc = keys[m].pc
            BY <3>2, <4>2 DEF KeyInv, NothingSkipped
          <5> QED BY <3>6, <4>1, <5>1 DEF Accounted
        <4>3. CASE m = k
          BY <2>e, <3>2, <3>6, <4>3 DEF Accounted
        <4> QED BY <4>2, <4>3
      <3>10. \A i \in DOMAIN received[e] : received[e][i] < k
        <4> SUFFICES ASSUME NEW i \in DOMAIN received[e] PROVE received[e][i] < k
          OBVIOUS
        <4> DEFINE m == received[e][i]
        <4>1. m \in DOMAIN keys /\ keys[m].by = e /\ keys[m].pc \in {"ok", "done"}
          BY <2>2 DEF KeyInv, ReceivedWereSent
        <4>2. m # k
          BY <3>1, <4>1
        <4>3. ~(k < m)
          <5> SUFFICES ASSUME k < m PROVE FALSE
            OBVIOUS
          <5>1. k \in 1..(m - 1) /\ keys[k].by = keys[m].by /\ keys[m].pc # "queued"
            BY <2>e, <1>0, <4>1
          <5> QED BY <3>1, <4>1, <5>1 DEF KeyInv, OneWriteAtATime
        <4> QED BY <1>0, <2>2, <4>1, <4>2, <4>3
      <3>11. ReceivedWereSent'
        <4> SUFFICES ASSUME NEW g \in Effects, NEW i \in DOMAIN received'[g]
                     PROVE  LET m == received'[g][i] IN
                            /\ m \in DOMAIN keys /\ keys'[m].by = g
                            /\ keys'[m].pc \in {"ok", "done"}
          BY <3>2 DEF ReceivedWereSent
        <4>1. CASE g = e /\ i = Len(received[e]) + 1
          BY <2>e, <3>2, <3>4, <4>1
        <4>2. CASE i \in DOMAIN received[g] /\ received'[g][i] = received[g][i]
          BY <3>1, <3>2, <4>2 DEF KeyInv, ReceivedWereSent
        <4> QED BY <3>4, <3>5, <4>1, <4>2
      <3>12. InputIsPrefix'
        <4> SUFFICES ASSUME NEW g \in Effects, NEW i \in DOMAIN received'[g]
                     PROVE  LET m == received'[g][i] IN
                            /\ keys'[m].by = g
                            /\ \A j \in 1..(i - 1) : received'[g][j] < m
                            /\ \A n \in 1..(m - 1) : keys'[n].by = g =>
                                  \E j \in 1..(i - 1) : received'[g][j] = n
          BY DEF InputIsPrefix
        <4>1. CASE g = e /\ i = Len(received[e]) + 1
          <5>1. \A n \in 1..(k - 1) : keys[n].by = e => Got(e, n)
            BY <2>e, <2>2, <3>1 DEF KeyInv, NothingSkipped, Accounted
          <5>2. 1..(i - 1) = DOMAIN received[e] /\ received'[g][i] = k
            BY <3>4, <4>1
          <5> QED BY <2>e, <2>4, <3>2, <3>4, <3>10, <4>1, <5>1, <5>2 DEF Got
        <4>2. CASE /\ i \in DOMAIN received[g] /\ received'[g][i] = received[g][i]
                   /\ \A j \in 1..(i - 1) : received'[g][j] = received[g][j]
          BY <1>r, <3>2, <4>2 DEF KeyInv, InputIsPrefix
        <4>3. CASE g # e
          BY <3>5, <4>2, <4>3
        <4>4. CASE g = e /\ i \in DOMAIN received[e]
          <5>1. 1..(i - 1) \subseteq DOMAIN received[e]
            BY <3>4, <4>4
          <5> QED BY <3>4, <4>2, <4>4, <5>1
        <4> QED BY <3>4, <4>1, <4>3, <4>4
      <3> QED BY <3>7, <3>8, <3>9, <3>11, <3>12 DEF KeyInv
    <2> QED BY <2>1, <2>5, <2>7, <2>8, <2>9
  <1>4. CASE Deliver \/ \E e \in Effects : Opened(e) \/ PumpOutput(e) \/ PumpClosed(e) \/ Prints(e)
    <2>1. UNCHANGED <<keys, received>>
      BY <1>4 DEF Deliver, Opened, PumpOutput, PumpClosed, Prints, hostVars
    <2> QED BY <1>1, <2>1
  <1> QED BY <1>1, <1>2, <1>3, <1>4, StepCases, QuietFrame

-------------------------------------------------------------------------------
(* Output and closures, as long as pendingEvents does not overflow.        *)

Opening(e) == effect[e] \in {"listening", "invoking"}

\* The step does not drop an event because the buffer is full.
NothingDropped ==
    Deliver /\ current # None /\ Opening(current) => Buffered(current) < MaxPending

\* The effect is set up and will handle the events of its session.
Watching(e) == e = current /\ (Opening(e) \/ ref = e)

\* Its buffer has the closure already.
Shut(e) == Opening(e) /\ \E i \in DOMAIN pending[e][e] : pending[e][e][i] = Closed

\* How much output it has.
Have(e) == IF ref = e THEN Len(rendered[e]) ELSE Len(pending[e][e])

OnBus(e, x) == \E i \in DOMAIN bus : bus[i].session = e /\ bus[i].item = x

\* What it does not have yet is on the bus, and nothing else.
NoGap(e) ==
    /\ Have(e) <= pumped[e]
    /\ \A n \in Nat \ {Closed} : OnBus(e, n) => Have(e) < n
    /\ \A n \in Nat : Have(e) < n /\ n <= pumped[e] => OnBus(e, n)
    /\ pump[e] \in Ended => OnBus(e, Closed)

\* Output is buffered in order, then written in order.
BufferInOrder(e) ==
    /\ effect[e] # "settled" => rendered[e] = <<>>
    /\ effect[e] = "idle" => pending[e][e] = <<>>
    /\ Opening(e) => \A i \in DOMAIN pending[e][e] : pending[e][e][i] \in {i, Closed}
    /\ \A i \in DOMAIN rendered[e] : rendered[e][i] = i

ShowInv ==
    \A e \in Effects : BufferInOrder(e) /\ (Watching(e) /\ ~Shut(e) => NoGap(e))

\* What the view's quiet steps do to an effect.
LEMMA QuietView ==
    ASSUME ShellInv, ViewTyped, Quiet, NEW g \in Effects
    PROVE  /\ effect'[g] = "settled" <=> effect[g] = "settled"
           /\ effect'[g] = "idle" => effect[g] = "idle"
           /\ Opening(g)' => Opening(g) \/ effect[g] = "idle"
           /\ Watching(g)' => Watching(g) \/ effect[g] = "idle"
           /\ ref' \in {ref, None}
           /\ pump'[g] \in Ended => pump[g] \in Ended
  <1>0. ShellTypes /\ RefIsCurrent /\ ShellLife
    BY DEF ShellInv
  <1> USE <1>0, TerminalsAssumption
      DEF ShellTypes, ViewTyped, RefIsCurrent, Opening, Watching, Ended
  <1>1. ASSUME NEW e \in Effects, Rerun(e)
        PROVE  /\ current' = e /\ effect' = [effect EXCEPT ![e] = "listening"]
               /\ effect[e] = "idle" /\ ref' = None /\ pump' = pump
    BY <1>1 DEF Rerun, Cleanup
  <1>2. CASE Unmount \/ CloseSession
    BY <1>2 DEF Unmount, Cleanup, CloseSession
  <1>3. ASSUME NEW e \in Effects, Invoke(e)
        PROVE  /\ current' = current /\ effect[e] = "listening" /\ ref' = ref /\ pump' = pump
               /\ \/ effect' = [effect EXCEPT ![e] = "left"]
                  \/ effect' = [effect EXCEPT ![e] = "invoking"]
    BY <1>3 DEF Invoke
  <1>4. ASSUME NEW e \in Effects, CloseSessionReturns(e)
        PROVE  UNCHANGED <<current, effect, pump>> /\ ref' = None
    BY <1>4 DEF CloseSessionReturns
  <1>5. ASSUME NEW e \in Effects,
               OpenFails(e) \/ OpenChannel(e) \/ ResizeFails(e) \/ ShellEnds(e)
        PROVE  UNCHANGED <<current, effect, pump, ref>>
    BY <1>5 DEF OpenFails, OpenChannel, ResizeFails, ShellEnds, viewVars, backendVars
  <1>6. ASSUME NEW e \in Effects, NEW c \in Closers, CloseTerminal(e, c) \/ ShutChannel(e, c)
        PROVE  UNCHANGED <<current, effect, pump, ref>>
    BY <1>6 DEF CloseTerminal, ShutChannel, viewVars
  <1>7. ASSUME NEW e \in Effects, Register(e) \/ PumpRemoves(e)
        PROVE  UNCHANGED <<current, effect, ref>> /\ (pump'[g] \in Ended => pump[g] \in Ended)
    BY <1>7 DEF Register, PumpRemoves, viewVars
  <1>8. CASE \E e \in Effects : Rerun(e)
    BY <1>1, <1>8
  <1>9. CASE \E e \in Effects : Invoke(e)
    BY <1>3, <1>9
  <1>10. CASE UNCHANGED vars
    BY <1>10 DEF vars, viewVars, backendVars
  <1> QED BY <1>2, <1>4, <1>5, <1>6, <1>7, <1>8, <1>9, <1>10 DEF Quiet

\* Of a session that was not opened there are no events.
LEMMA NoEventsBefore ==
    ASSUME ShellInv, BusInOrder, CountsTyped, bus \in Seq(Event),
           NEW g \in Effects, effect[g] = "idle"
    PROVE  pumped[g] = 0 /\ pump[g] = "none" /\ \A n \in Nat : ~OnBus(g, n)
  <1>1. pump[g] = "none" /\ pumped[g] = 0
    BY DEF ShellInv, ShellLife, BusInOrder
  <1>2. ASSUME NEW n \in Nat, OnBus(g, n) PROVE FALSE
    <2>1. n <= 0
      BY <1>1, <1>2 DEF OnBus, BusInOrder
    <2>2. n = Closed
      BY <2>1 DEF Closed
    <2> QED BY <1>1, <1>2, <2>2 DEF OnBus, BusInOrder, Ended
  <1> QED BY <1>1, <1>2

\* Emitting and taking an event.
LEMMA OnBusFact ==
    ASSUME bus \in Seq(Event)
    PROVE  /\ \A ev \in Event : bus' = Append(bus, ev) =>
                 \A e \in Effects, n \in Nat :
                    OnBus(e, n)' <=> OnBus(e, n) \/ (ev.session = e /\ ev.item = n)
           /\ bus # <<>> /\ bus' = Tail(bus) =>
                 \A e \in Effects, n \in Nat :
                    OnBus(e, n) <=> OnBus(e, n)' \/ (Head(bus).session = e /\ Head(bus).item = n)
  <1>1. ASSUME NEW ev \in Event, bus' = Append(bus, ev), NEW e \in Effects, NEW n \in Nat
        PROVE  OnBus(e, n)' <=> OnBus(e, n) \/ (ev.session = e /\ ev.item = n)
    <2>1. /\ DOMAIN bus' = 1..(Len(bus) + 1) /\ DOMAIN bus = 1..Len(bus)
          /\ \A i \in DOMAIN bus : bus'[i] = bus[i]
          /\ bus'[Len(bus) + 1] = ev
      BY <1>1, BusFact
    <2> QED BY <2>1 DEF OnBus
  <1>2. ASSUME bus # <<>>, bus' = Tail(bus), NEW e \in Effects, NEW n \in Nat
        PROVE  OnBus(e, n) <=> OnBus(e, n)' \/ (Head(bus).session = e /\ Head(bus).item = n)
    <2>1. /\ 1 \in DOMAIN bus /\ Head(bus) = bus[1]
          /\ \A i \in DOMAIN bus' : i + 1 \in DOMAIN bus /\ bus'[i] = bus[i + 1]
          /\ \A i \in DOMAIN bus : i # 1 => i - 1 \in DOMAIN bus' /\ bus'[i - 1] = bus[i]
      BY <1>2, BusFact
    <2> QED BY <2>1 DEF OnBus
  <1> QED BY <1>1, <1>2

\* The event at the head of the bus is the next one of its session.
LEMMA HeadIsNext ==
    ASSUME bus \in Seq(Event), BusInOrder, CountsTyped, bus # <<>>, bus' = Tail(bus),
           NEW f \in Effects, f = Head(bus).session, NEW x \in Nat, x = Head(bus).item
    PROVE  /\ x <= pumped[f]
           /\ x = Closed => \A n \in Nat : ~OnBus(f, n)'
           /\ x # Closed => \A n \in Nat \ {Closed} : OnBus(f, n)' => x < n
           /\ x # Closed /\ NoGap(f) /\ Have(f) \in Nat => x = Have(f) + 1
  <1>1. /\ 1 \in DOMAIN bus /\ f = bus[1].session /\ x = bus[1].item
        /\ \A i \in DOMAIN bus' : i + 1 \in DOMAIN bus /\ bus'[i] = bus[i + 1] /\ i \in Nat \ {0}
    BY BusFact
  <1>2. x <= pumped[f]
    BY <1>1 DEF BusInOrder
  <1>3. ASSUME NEW n \in Nat, OnBus(f, n)' PROVE x # Closed /\ (n = Closed \/ x < n)
    <2>1. PICK i \in DOMAIN bus' : bus'[i].session = f /\ bus'[i].item = n
      BY <1>3 DEF OnBus
    <2>2. i + 1 \in DOMAIN bus /\ bus[i + 1].session = f /\ bus[i + 1].item = n /\ 1 < i + 1
      BY <1>1, <2>1
    <2> QED BY <1>1, <2>2 DEF BusInOrder
  <1>4. ASSUME x # Closed, NoGap(f), Have(f) \in Nat PROVE x = Have(f) + 1
    <2>1. PICK h \in Nat : h = Have(f)
      BY <1>4
    <2>2. h < x
      BY <1>1, <1>4, <2>1 DEF NoGap, OnBus
    <2>3. h + 1 <= pumped[f] /\ pumped[f] \in Nat
      BY <1>2, <2>2 DEF CountsTyped
    <2>4. OnBus(f, h + 1)
      BY <1>4, <2>1, <2>3 DEF NoGap
    <2>5. OnBus(f, h + 1)' \/ x = h + 1
      BY <2>4, OnBusFact
    <2>6. CASE OnBus(f, h + 1)'
      BY <1>3, <2>2, <2>6 DEF Closed
    <2> QED BY <2>1, <2>5, <2>6
  <1> QED BY <1>2, <1>3, <1>4

\* Every step keeps the output in order, unless a buffer overflows.
LEMMA NextShow ==
    TypeOK /\ ShellInv /\ BusInOrder /\ ClosureIsLast /\ ShowInv
      /\ [NothingDropped]_vars /\ [Next]_vars => ShowInv'
  <1> SUFFICES ASSUME TypeOK, ShellInv, BusInOrder, ClosureIsLast, ShowInv,
                      [NothingDropped]_vars, [Next]_vars
               PROVE  ShowInv'
    OBVIOUS
  <1>0. /\ EventsTyped /\ EventTypes /\ CountsTyped /\ ViewTyped /\ ShellTypes /\ RefIsCurrent
        /\ \A e \in Effects : /\ rendered[e] \in Seq(Nat) /\ pending[e][e] \in Seq(Nat)
                              /\ Have(e) \in Nat /\ pumped[e] \in Nat
    <2>1. EventsTyped /\ CountsTyped /\ ViewTyped /\ ShellTypes
      BY TypeParts
    <2>2. \A e \in Effects : /\ rendered[e] \in Seq(Nat) /\ pending[e][e] \in Seq(Nat)
                             /\ pumped[e] \in Nat
      BY <2>1 DEF EventsTyped, EventTypes, CountsTyped
    <2>3. \A e \in Effects : Have(e) \in Nat
      BY <2>2 DEF Have
    <2> QED BY <2>1, <2>2, <2>3 DEF ShellInv, EventsTyped
  <1>1. CASE Quiet
    <2> SUFFICES ASSUME NEW g \in Effects
                 PROVE  BufferInOrder(g)' /\ (Watching(g)' /\ ~Shut(g)' => NoGap(g)')
      BY DEF ShowInv
    <2>1. UNCHANGED <<pending, rendered, pumped, bus>>
      BY <1>1, QuietFrame
    <2>2. /\ effect'[g] = "settled" <=> effect[g] = "settled"
          /\ effect'[g] = "idle" => effect[g] = "idle"
          /\ Opening(g)' => Opening(g) \/ effect[g] = "idle"
          /\ Watching(g)' => Watching(g) \/ effect[g] = "idle"
          /\ ref' \in {ref, None}
          /\ pump'[g] \in Ended => pump[g] \in Ended
      BY <1>0, <1>1, QuietView
    <2>3. BufferInOrder(g)
      BY DEF ShowInv
    <2>4. BufferInOrder(g)'
      BY <2>1, <2>2, <2>3 DEF BufferInOrder
    <2>5. \A n : OnBus(g, n)' <=> OnBus(g, n)
      BY <2>1 DEF OnBus
    <2>6. ASSUME Watching(g)', ~Shut(g)', effect[g] = "idle" PROVE NoGap(g)'
      <3>1. pumped[g] = 0 /\ pump[g] = "none" /\ \A n \in Nat : ~OnBus(g, n)
        BY <1>0, <2>6, NoEventsBefore DEF EventTypes
      <3>2. Have(g)' = 0
        BY <1>0, <2>1, <2>2, <2>3, <2>6, TerminalsAssumption DEF BufferInOrder, RefIsCurrent, Have
      <3> QED BY <2>1, <2>2, <2>5, <3>1, <3>2 DEF NoGap, Ended
    <2>7. ASSUME Watching(g)', ~Shut(g)', effect[g] # "idle" PROVE NoGap(g)'
      <3>1. Watching(g)
        BY <2>2, <2>7
      <3>2. Opening(g)' <=> Opening(g)
        BY <1>0, <2>2, <2>7, <3>1, TerminalsAssumption DEF Watching, RefIsCurrent, Opening
      <3>3. Have(g)' = Have(g)
        BY <1>0, <2>1, <2>2, <2>7, <3>2, TerminalsAssumption
           DEF Have, Watching, RefIsCurrent, Opening
      <3>4. ~Shut(g)
        BY <2>1, <2>7, <3>2 DEF Shut
      <3>5. NoGap(g)
        BY <3>1, <3>4 DEF ShowInv
      <3> QED BY <2>1, <2>2, <2>5, <3>3, <3>5 DEF NoGap
    <2> QED BY <2>4, <2>6, <2>7
  <1>2. CASE Type \/ Write \/ \E e \in Effects : Prints(e)
    <2>1. UNCHANGED <<bus, pending, rendered, pumped, pump, effect, ref, current>>
      BY <1>2 DEF Type, Write, WriteNext, WriteTerminal, Written, Prints, viewVars, backendVars
    <2> QED BY <2>1 DEF ShowInv, BufferInOrder, Watching, Shut, Opening, NoGap, Have, OnBus
  <1>3. ASSUME NEW e \in Effects, PumpOutput(e) PROVE ShowInv'
    <2> DEFINE ev == [session |-> e, item |-> pumped[e] + 1]
    <2>1. /\ UNCHANGED <<pending, rendered, pump, effect, ref, current>>
          /\ pump[e] = "reading" /\ pumped' = [pumped EXCEPT ![e] = @ + 1]
          /\ bus' = Append(bus, [session |-> e, item |-> pumped'[e]])
      BY <1>3 DEF PumpOutput, viewVars
    <2>2. /\ pumped'[e] = pumped[e] + 1 /\ bus' = Append(bus, ev)
          /\ \A g \in Effects : g # e => pumped'[g] = pumped[g]
      BY <1>0, <2>1 DEF CountsTyped
    <2>3. ev \in Event /\ ev.session = e /\ ev.item = pumped[e] + 1
      BY <1>0 DEF Event
    <2> HIDE DEF ev
    <2>4. \A g \in Effects, n \in Nat :
             OnBus(g, n)' <=> OnBus(g, n) \/ (g = e /\ n = pumped[e] + 1)
      BY <1>0, <2>2, <2>3, OnBusFact DEF EventTypes
    <2> SUFFICES ASSUME NEW g \in Effects
                 PROVE  BufferInOrder(g)' /\ (Watching(g)' /\ ~Shut(g)' => NoGap(g)')
      BY DEF ShowInv
    <2>5. BufferInOrder(g)'
      BY <2>1 DEF ShowInv, BufferInOrder, Opening
    <2>6. ASSUME Watching(g)', ~Shut(g)' PROVE NoGap(g)'
      <3>1. NoGap(g) /\ Have(g)' = Have(g)
        BY <2>1, <2>6 DEF ShowInv, Watching, Shut, Opening, Have
      <3>2. CASE g # e
        <4>1. \A n \in Nat : OnBus(g, n)' <=> OnBus(g, n)
          BY <2>4, <3>2
        <4> QED BY <2>1, <2>2, <3>1, <3>2, <4>1 DEF NoGap, Closed
      <3>3. CASE g = e
        <4>1. Have(g) <= pumped[g] /\ Have(g) \in Nat /\ pumped[g] \in Nat
          BY <1>0, <3>1 DEF NoGap
        <4>2. \A n \in Nat \ {Closed} : OnBus(g, n)' => Have(g) < n
          BY <2>4, <3>1, <3>3, <4>1 DEF NoGap
        <4>3. \A n \in Nat : Have(g) < n /\ n <= pumped'[g] => OnBus(g, n)'
          <5> SUFFICES ASSUME NEW n \in Nat, Have(g) < n, n <= pumped[g] + 1
                       PROVE  OnBus(g, n)'
            BY <2>2, <3>3
          <5>1. n <= pumped[g] \/ n = pumped[g] + 1
            BY <4>1
          <5> QED BY <2>4, <3>1, <3>3, <5>1 DEF NoGap
        <4> QED BY <2>1, <2>2, <3>1, <3>3, <4>1, <4>2, <4>3 DEF NoGap, Ended
      <3> QED BY <3>2, <3>3
    <2> QED BY <2>5, <2>6
  <1>4. ASSUME NEW e \in Effects, PumpClosed(e) PROVE ShowInv'
    <2> DEFINE ev == [session |-> e, item |-> Closed]
    <2>1. /\ UNCHANGED <<pending, rendered, pumped, effect, ref, current>>
          /\ pump' = [pump EXCEPT ![e] = "removing"] /\ bus' = Append(bus, ev)
      BY <1>4 DEF PumpClosed, viewVars
    <2>2. ev \in Event /\ ev.session = e /\ ev.item = Closed
      BY DEF Event, Closed
    <2> HIDE DEF ev
    <2>3. \A g \in Effects, n \in Nat : OnBus(g, n)' <=> OnBus(g, n) \/ (g = e /\ n = Closed)
      BY <1>0, <2>1, <2>2, OnBusFact DEF EventTypes
    <2>4. \A g \in Effects : g # e => pump'[g] = pump[g]
      BY <1>0, <2>1 DEF ShellTypes
    <2> SUFFICES ASSUME NEW g \in Effects
                 PROVE  BufferInOrder(g)' /\ (Watching(g)' /\ ~Shut(g)' => NoGap(g)')
      BY DEF ShowInv
    <2>5. BufferInOrder(g)'
      BY <2>1 DEF ShowInv, BufferInOrder, Opening
    <2>6. ASSUME Watching(g)', ~Shut(g)' PROVE NoGap(g)'
      <3>1. NoGap(g) /\ Have(g)' = Have(g)
        BY <2>1, <2>6 DEF ShowInv, Watching, Shut, Opening, Have
      <3>2. Closed \in Nat /\ ~(Have(g) < Closed)
        BY <1>0 DEF Closed
      <3> QED BY <1>0, <2>1, <2>3, <2>4, <3>1, <3>2 DEF NoGap
    <2> QED BY <2>5, <2>6
  <1>5. CASE Deliver
    <2>1. PICK f \in Effects, x \in Nat :
             /\ bus # <<>> /\ bus' = Tail(bus) /\ f = Head(bus).session /\ x = Head(bus).item
      <3>1. bus # <<>> /\ bus' = Tail(bus) /\ Head(bus) \in Event
        BY <1>0, <1>5 DEF Deliver, EventTypes
      <3> QED BY <3>1 DEF Event
    <2>2. UNCHANGED <<current, effect, pump, pumped>>
      BY <1>5 DEF Deliver
    <2>3. \A g \in Effects, n \in Nat : OnBus(g, n) <=> OnBus(g, n)' \/ (g = f /\ n = x)
      BY <1>0, <2>1, OnBusFact DEF EventTypes
    <2>4. /\ x <= pumped[f]
          /\ x = Closed => \A n \in Nat : ~OnBus(f, n)'
          /\ x # Closed => \A n \in Nat \ {Closed} : OnBus(f, n)' => x < n
          /\ x # Closed /\ NoGap(f) => x = Have(f) + 1
      BY <1>0, <2>1, HeadIsNext DEF EventTypes
    <2>5. OnBus(f, x)
      BY <2>3
    <2>6. ASSUME NEW g \in Effects, UNCHANGED <<pending[g][g], rendered[g]>>,
                 ref' = g <=> ref = g, f # g \/ ~Watching(g)
          PROVE  BufferInOrder(g)' /\ (Watching(g)' /\ ~Shut(g)' => NoGap(g)')
      <3>1. BufferInOrder(g)'
        BY <2>2, <2>6 DEF ShowInv, BufferInOrder, Opening
      <3>2. ASSUME Watching(g)', ~Shut(g)' PROVE NoGap(g)'
        <4>1. NoGap(g) /\ Have(g)' = Have(g) /\ f # g
          BY <2>2, <2>6, <3>2 DEF ShowInv, Watching, Shut, Opening, Have
        <4>2. \A n \in Nat : OnBus(g, n)' <=> OnBus(g, n)
          BY <2>3, <4>1
        <4> QED BY <2>2, <4>1, <4>2 DEF NoGap, Closed
      <3> QED BY <3>1, <3>2
    <2>7. CASE current = None
      <3>1. UNCHANGED <<ref, pending, rendered>>
        BY <1>5, <2>7 DEF Deliver
      <3> QED BY <2>6, <2>7, <3>1, TerminalsAssumption DEF ShowInv, Watching
    <2>8. CASE current # None /\ Opening(current)
      <3>1. /\ UNCHANGED <<ref, rendered>> /\ current \in Effects /\ ref # current
            /\ pending' = [pending EXCEPT ![current][f] = Append(@, x)]
        <4>1. ~UNCHANGED bus
          BY <1>0, <1>5 DEF Deliver, EventsTyped, EventTypes
        <4>2. Buffered(current) < MaxPending
          BY <1>5, <2>8, <4>1 DEF NothingDropped, vars, backendVars
        <4> QED BY <1>0, <1>5, <2>1, <2>8, <4>2, TerminalsAssumption
                DEF Deliver, Opening, ViewTyped, RefIsCurrent
      <3>2. \A g, h \in Effects : g # current \/ h # f => pending'[g][h] = pending[g][h]
        BY <1>0, <3>1 DEF EventTypes
      <3>3. \A g \in Effects : g # current \/ g # f =>
               BufferInOrder(g)' /\ (Watching(g)' /\ ~Shut(g)' => NoGap(g)')
        BY <2>6, <3>1, <3>2 DEF Watching
      <3>4. CASE f # current
        BY <3>3, <3>4 DEF ShowInv
      <3>5. CASE f = current
        <4>1. /\ pending[f][f] \in Seq(Nat) /\ pending'[f][f] = Append(pending[f][f], x)
          BY <1>0, <3>1, <3>5 DEF EventTypes
        <4>2. /\ Len(pending'[f][f]) = Len(pending[f][f]) + 1
              /\ DOMAIN pending'[f][f] = 1..(Len(pending[f][f]) + 1)
              /\ DOMAIN pending[f][f] = 1..Len(pending[f][f])
              /\ \A i \in DOMAIN pending[f][f] : pending'[f][f][i] = pending[f][f][i]
              /\ pending'[f][f][Len(pending[f][f]) + 1] = x
          BY <4>1, AppendFact
        <4>3. ~Shut(f)
          <5>1. \E j \in DOMAIN bus : bus[j].session = f
            BY <2>5 DEF OnBus
          <5> QED BY <5>1 DEF ClosureIsLast, Shut
        <4>4. NoGap(f) /\ Have(f) = Len(pending[f][f]) /\ BufferInOrder(f)
          BY <2>8, <3>1, <3>5, <4>3 DEF ShowInv, Watching, Have
        <4>5. x = Closed \/ x = Len(pending[f][f]) + 1
          BY <2>4, <4>4
        <4>6. BufferInOrder(f)'
          BY <2>2, <2>8, <3>1, <3>5, <4>2, <4>4, <4>5 DEF BufferInOrder, Opening
        <4>7. ASSUME ~Shut(f)' PROVE NoGap(f)'
          <5>1. x # Closed
            BY <2>2, <2>8, <3>5, <4>1, <4>2, <4>7 DEF Shut, Opening
          <5>2. Have(f)' = x
            BY <3>1, <3>5, <4>2, <4>5, <5>1 DEF Have
          <5>3. \A n \in Nat : x < n /\ n <= pumped'[f] => OnBus(f, n)'
            BY <2>2, <2>3, <4>4, <4>5, <5>1 DEF NoGap
          <5>4. pump'[f] \in Ended => OnBus(f, Closed)'
            BY <2>2, <2>3, <4>4, <5>1 DEF NoGap, Closed
          <5> QED BY <2>2, <2>4, <5>1, <5>2, <5>3, <5>4 DEF NoGap
        <4> QED BY <3>3, <3>5, <4>6, <4>7 DEF ShowInv
      <3> QED BY <3>4, <3>5
    <2>9. CASE current # None /\ ~Opening(current)
      <3>1. UNCHANGED pending /\ (ref # None => ref = current)
        BY <1>0, <1>5, <2>9 DEF Deliver, Opening, RefIsCurrent
      <3>2. CASE ref = None \/ ref # f
        <4>1. UNCHANGED <<ref, rendered>>
          BY <1>5, <2>1, <2>9, <3>2 DEF Deliver, Opening
        <4>2. \A g \in Effects : f # g \/ ~Watching(g)
          BY <2>9, <3>2, TerminalsAssumption DEF Watching
        <4> QED BY <2>6, <3>1, <4>1, <4>2 DEF ShowInv
      <3>3. CASE ref = f /\ x = Closed
        <4>1. ref' = None /\ UNCHANGED rendered
          BY <1>5, <2>1, <2>9, <3>3, TerminalsAssumption DEF Deliver, Opening
        <4>2. \A g \in Effects : g # f => BufferInOrder(g)' /\ (Watching(g)' /\ ~Shut(g)' => NoGap(g)')
          BY <2>6, <3>1, <3>3, <4>1, TerminalsAssumption
        <4>3. ~Watching(f)'
          BY <2>2, <2>9, <3>1, <3>3, <4>1, TerminalsAssumption DEF Watching, Opening
        <4>4. BufferInOrder(f)'
          BY <2>2, <3>1, <4>1 DEF ShowInv, BufferInOrder, Opening
        <4> QED BY <4>2, <4>3, <4>4 DEF ShowInv
      <3>4. CASE ref = f /\ x # Closed
        <4>1. ref' = ref /\ rendered' = [rendered EXCEPT ![f] = Append(@, x)]
          BY <1>5, <2>1, <2>9, <3>4, TerminalsAssumption DEF Deliver, Opening
        <4>2. /\ rendered[f] \in Seq(Nat) /\ rendered'[f] = Append(rendered[f], x)
              /\ \A g \in Effects : g # f => rendered'[g] = rendered[g]
          BY <1>0, <4>1 DEF EventsTyped
        <4>3. \A g \in Effects : g # f => BufferInOrder(g)' /\ (Watching(g)' /\ ~Shut(g)' => NoGap(g)')
          BY <2>6, <3>1, <4>1, <4>2
        <4>4. f = current /\ effect[f] = "settled" /\ ~Opening(f)
          BY <1>0, <3>4, TerminalsAssumption DEF RefIsCurrent, Opening
        <4>5. NoGap(f) /\ Have(f) = Len(rendered[f]) /\ BufferInOrder(f)
          BY <3>4, <4>4 DEF ShowInv, Watching, Shut, Have
        <4>6. x = Len(rendered[f]) + 1
          BY <2>4, <3>4, <4>5
        <4>7. /\ Len(rendered'[f]) = x
              /\ DOMAIN rendered'[f] = 1..x /\ DOMAIN rendered[f] = 1..(x - 1)
              /\ \A i \in DOMAIN rendered[f] : rendered'[f][i] = rendered[f][i]
              /\ rendered'[f][x] = x
          BY <4>2, <4>6, AppendFact
        <4>8. BufferInOrder(f)'
          <5>1. \A i \in 1..x : i = x \/ i \in 1..(x - 1)
            OBVIOUS
          <5>2. \A i \in DOMAIN rendered'[f] : rendered'[f][i] = i
            BY <4>5, <4>7, <5>1 DEF BufferInOrder
          <5> QED BY <2>2, <4>4, <5>2 DEF BufferInOrder, Opening
        <4>9. NoGap(f)'
          <5>1. Have(f)' = x
            BY <3>4, <4>1, <4>7 DEF Have
          <5>2. \A n \in Nat : x < n /\ n <= pumped'[f] => OnBus(f, n)'
            BY <2>2, <2>3, <4>5, <4>6 DEF NoGap
          <5>3. pump'[f] \in Ended => OnBus(f, Closed)'
            BY <2>2, <2>3, <3>4, <4>5 DEF NoGap, Closed
          <5> QED BY <2>2, <2>4, <3>4, <5>1, <5>2, <5>3 DEF NoGap
        <4> QED BY <4>3, <4>8, <4>9 DEF ShowInv
      <3> QED BY <3>2, <3>3, <3>4
    <2> QED BY <2>7, <2>8, <2>9
  <1>6. ASSUME NEW e \in Effects, Opened(e) PROVE ShowInv'
    <2>1. /\ effect[e] = "invoking" /\ effect' = [effect EXCEPT ![e] = "settled"]
          /\ pending' = [pending EXCEPT ![e] = Nothing]
          /\ UNCHANGED <<current, pump, pumped, bus>>
      BY <1>6 DEF Opened
    <2>2. /\ effect'[e] = "settled" /\ \A g \in Effects : g # e => effect'[g] = effect[g]
          /\ \A g \in Effects : g # e => pending'[g][g] = pending[g][g]
          /\ \A g \in Effects, n \in Nat : OnBus(g, n)' <=> OnBus(g, n)
      BY <1>0, <2>1 DEF ShellTypes, EventTypes, OnBus
    <2>3. BufferInOrder(e) /\ rendered[e] = <<>>
      BY <2>1 DEF ShowInv, BufferInOrder
    <2>4. ASSUME NEW g \in Effects, g # e, rendered'[g] = rendered[g], ref' = g <=> ref = g
          PROVE  BufferInOrder(g)' /\ (Watching(g)' /\ ~Shut(g)' => NoGap(g)')
      <3>1. BufferInOrder(g)'
        BY <2>2, <2>4 DEF ShowInv, BufferInOrder, Opening
      <3>2. ASSUME Watching(g)', ~Shut(g)' PROVE NoGap(g)'
        <4>1. NoGap(g) /\ Have(g)' = Have(g)
          BY <2>1, <2>2, <2>4, <3>2 DEF ShowInv, Watching, Shut, Opening, Have
        <4> QED BY <2>1, <2>2, <4>1 DEF NoGap, Closed
      <3> QED BY <3>1, <3>2
    <2>5. CASE UNCHANGED <<ref, rendered>>
      <3>1. ~Watching(e)'
        BY <1>0, <2>1, <2>2, <2>5, TerminalsAssumption DEF Watching, Opening, RefIsCurrent
      <3>2. BufferInOrder(e)'
        BY <2>2, <2>3, <2>5 DEF BufferInOrder, Opening
      <3> QED BY <2>4, <2>5, <3>1, <3>2 DEF ShowInv
    <2>6. CASE ~Disposed(e) /\ Process(e, Replay(e))
      <3> DEFINE s == Replay(e)
                 t == [i \in Shown(s) |-> s[i]]
      <3>1. /\ s \in Seq(Nat) /\ s = pending[e][e]
            /\ \A i \in DOMAIN s : s[i] = Closed => i = Len(s)
        BY <1>0, ReplayFact DEF Replay
      <3>2. /\ t \in Seq(Nat) /\ Shown(s) = 1..Len(t) /\ Shown(s) \subseteq DOMAIN s
            /\ Shown(s) = DOMAIN s <=> \A i \in DOMAIN s : s[i] # Closed
            /\ Shown(s) = DOMAIN s => Len(t) = Len(s)
            /\ \A i \in Shown(s) : t[i] = s[i] /\ s[i] # Closed
        <4>1. /\ t \in Seq(Nat) /\ Shown(s) = 1..Len(t)
              /\ Shown(s) = DOMAIN s <=> \A i \in DOMAIN s : s[i] # Closed
              /\ Shown(s) = DOMAIN s => Len(t) = Len(s)
          BY <3>1, ShownFact
        <4>2. Shown(s) \subseteq DOMAIN s /\ \A i \in Shown(s) : t[i] = s[i]
          BY DEF Shown
        <4>3. \A i \in Shown(s) : s[i] # Closed
          BY <4>1 DEF Shown
        <4> QED BY <4>1, <4>2, <4>3
      <3>3. /\ rendered' = [rendered EXCEPT ![e] = @ \o t]
            /\ IF Shown(s) = DOMAIN s THEN ref' = e ELSE ref' = None
        BY <2>6 DEF Process
      <3>4. e = current /\ ref # e /\ Opening(e)
        BY <1>0, <2>1, <2>6, TerminalsAssumption DEF Disposed, RefIsCurrent, Opening
      <3>5. \A i \in DOMAIN s : s[i] \in {i, Closed}
        BY <2>3, <3>1, <3>4 DEF BufferInOrder
      <3> HIDE DEF s, t
      <3>6. rendered'[e] = t /\ \A g \in Effects : g # e => rendered'[g] = rendered[g]
        BY <1>0, <2>3, <3>2, <3>3 DEF EventsTyped
      <3>7. \A i \in DOMAIN rendered'[e] : rendered'[e][i] = i
        BY <3>2, <3>5, <3>6
      <3>8. BufferInOrder(e)'
        BY <2>2, <3>7 DEF BufferInOrder, Opening
      <3>9. ASSUME Watching(e)' PROVE NoGap(e)'
        <4>1. ref' = e /\ Shown(s) = DOMAIN s
          BY <2>2, <3>3, <3>9, TerminalsAssumption DEF Watching, Opening
        <4>2. ~Shut(e)
          BY <3>1, <3>2, <4>1 DEF Shut
        <4>3. NoGap(e) /\ Have(e) = Len(s)
          BY <3>1, <3>4, <4>2 DEF ShowInv, Watching, Have
        <4>4. Have(e)' = Len(s)
          BY <3>2, <3>6, <4>1 DEF Have
        <4> QED BY <2>1, <2>2, <4>3, <4>4 DEF NoGap, Closed
      <3>10. \A g \in Effects : g # e =>
                BufferInOrder(g)' /\ (Watching(g)' /\ ~Shut(g)' => NoGap(g)')
        <4>1. \A g \in Effects : g # e => ref' # g /\ ref # g
          BY <1>0, <3>3, <3>4, TerminalsAssumption DEF RefIsCurrent
        <4> QED BY <2>4, <3>6, <4>1
      <3> QED BY <3>8, <3>9, <3>10 DEF ShowInv
    <2> QED BY <1>6, <2>5, <2>6 DEF Opened
  <1> QED BY <1>1, <1>2, <1>3, <1>4, <1>5, <1>6, StepCases

-------------------------------------------------------------------------------
(* The theorems.                                                           *)

IInv ==
    /\ TypeOK /\ ShellInv /\ BusInOrder /\ ClosureIsLast
    /\ Attended /\ KeyInv

\* Initially nothing was opened, typed or printed.
LEMMA InitIInv == Init => IInv /\ ShowInv
  <1> SUFFICES ASSUME Init PROVE IInv /\ ShowInv
    OBVIOUS
  <1>1. ShellInv
    BY InitShellInv
  <1>2. TypeOK
    <2>1. EventsTyped /\ KeysTyped
      BY DEF Init, EventsTyped, EventTypes, KeysTyped, Nothing
    <2>2. CountsTyped /\ ViewTyped
      BY DEF Init, CountsTyped, ViewTyped, TerminalStatus
    <2> QED BY <1>1, <2>1, <2>2, TypeParts DEF ShellInv
  <1>3. BusInOrder /\ ClosureIsLast
    BY DEF Init, BusInOrder, ClosureIsLast, Nothing
  <1>4. Attended /\ KeyInv
    BY DEF Init, Attended, KeyInv, KeysOfTheirView, OneWriteAtATime, NothingSkipped,
           ReceivedWereSent, InputIsPrefix
  <1>5. ShowInv
    BY TerminalsAssumption
       DEF Init, ShowInv, BufferInOrder, Watching, Opening, Nothing
  <1> QED BY <1>1, <1>2, <1>3, <1>4, <1>5 DEF IInv

\* The inductive invariant holds of every reachable state.
LEMMA Invariance == Spec => []IInv
  <1>1. IInv /\ [Next]_vars => IInv'
    <2> SUFFICES ASSUME IInv, [Next]_vars PROVE IInv'
      OBVIOUS
    <2> USE DEF IInv
    <2>1. ShellInv'
      BY NextShellInv
    <2>2. TypeOK'
      <3>1. ShellTypes /\ EventsTyped /\ KeysTyped /\ CountsTyped /\ ViewTyped
        BY TypeParts
      <3>2. EventsTyped' /\ KeysTyped' /\ CountsTyped' /\ ViewTyped'
        BY <3>1, NextViewTyped, NextCountsTyped, NextKeysTyped, NextEventsTyped
      <3>3. ShellTypes'
        BY <2>1 DEF ShellInv
      <3> QED BY <3>2, <3>3, TypeParts, PTL
    <2>3. BusInOrder' /\ ClosureIsLast'
      BY NextEvents
    <2>4. Attended' /\ KeyInv'
      BY NextAttended, NextKeys DEF ShellInv
    <2> QED BY <2>1, <2>2, <2>3, <2>4
  <1>2. Init => IInv
    BY InitIInv
  <1> QED BY <1>1, <1>2, PTL DEF Spec

\* As long as no event is dropped at a full buffer, output keeps its order.
LEMMA ShowInvariance == Spec /\ [][NothingDropped]_vars => []ShowInv
  <1>1. IInv /\ ShowInv /\ [NothingDropped]_vars /\ [Next]_vars => ShowInv'
    BY NextShow DEF IInv
  <1>2. Init => ShowInv
    BY InitIInv
  <1> QED BY Invariance, <1>1, <1>2, PTL DEF Spec

\* The view, the commands, the pumps and the shells keep to their types.
THEOREM TypeCorrect == Spec => []TypeOK
  <1>1. IInv => TypeOK
    BY DEF IInv
  <1> QED BY Invariance, <1>1, PTL

\* terminal.rs:162-171: at every moment a running shell can be closed, because
\* the map has its handle or a command is about to shut it.
THEOREM RunningShellsAreClosable == Spec => []ShellsClosable
  <1>1. IInv => ShellsClosable
    BY DEF IInv, ShellInv
  <1> QED BY Invariance, <1>1, PTL

\* TerminalView.tsx:197-200, 212-227: with any number of effects, a shell that
\* nobody shows is being closed unless a late reply took the ref from its view.
THEOREM OnlyLateRepliesAbandon == Spec => []AbandonedOnlyByLateReply
  <1>1. IInv => AbandonedOnlyByLateReply
    <2> SUFFICES ASSUME IInv, NEW e \in Effects, Abandoned(e)
                 PROVE  \E f \in Effects \ {e} : close[f]["button"] = "done"
      BY DEF AbandonedOnlyByLateReply
    <2>1. Kept(e) /\ (ref # None => ref = current)
      BY DEF IInv, Attended, Abandoned, ShellInv, RefIsCurrent
    <2> QED BY <2>1, TerminalsAssumption DEF Kept, LateReply, Abandoned, Disposed
  <1> QED BY Invariance, <1>1, PTL

\* TerminalView.tsx:141-153: whatever fails or is disposed of in between, a shell
\* receives a prefix of what was typed into its view.
THEOREM ShellsReceiveAPrefix == Spec => []InputIsPrefix
  <1>1. IInv => InputIsPrefix
    BY DEF IInv, KeyInv
  <1> QED BY Invariance, <1>1, PTL

\* TerminalView.tsx:175-183, 206-210: unless an event is dropped because MaxPending
\* others came before the session id, a view shows a prefix of what its shell printed.
THEOREM ViewsShowAPrefix == Spec /\ [][NothingDropped]_vars => []OutputIsPrefix
  <1>1. ShowInv => OutputIsPrefix
    BY DEF ShowInv, BufferInOrder, OutputIsPrefix
  <1> QED BY ShowInvariance, <1>1, PTL

\* terminal.rs:99-112: under the same condition a view whose shell is gone will be
\* told, for any number of shells and however the events interleave.
THEOREM ClosuresArrive == Spec /\ [][NothingDropped]_vars => []ClosureOnItsWay
  <1>1. IInv /\ ShowInv => ClosureOnItsWay
    <2> SUFFICES ASSUME IInv, ShowInv, NEW e \in Effects, ref = e, shell[e] = "gone",
                        pump[e] # "reading"
                 PROVE  \E i \in DOMAIN bus : bus[i] = [session |-> e, item |-> Closed]
      BY DEF ClosureOnItsWay
    <2>1. e = current /\ effect[e] = "settled" /\ pump[e] \in PumpPc /\ bus \in Seq(Event)
      BY TerminalsAssumption, TypeParts
         DEF IInv, ShellInv, RefIsCurrent, ShellTypes, EventsTyped, EventTypes
    <2>2. pump[e] \in Ended
      BY <2>1, TerminalsAssumption DEF IInv, ShellInv, ShellLife, RefIsCurrent, PumpPc, Ended
    <2>3. OnBus(e, Closed)
      BY <2>1, <2>2 DEF ShowInv, Watching, Shut, Opening, NoGap
    <2>4. PICK i \in DOMAIN bus : bus[i].session = e /\ bus[i].item = Closed
      BY <2>3 DEF OnBus
    <2>5. bus[i] \in Event
      BY <2>1
    <2> QED BY <2>4, <2>5 DEF Event
  <1> QED BY Invariance, ShowInvariance, <1>1, PTL
=============================================================================
