------------------------------- MODULE Terminals -------------------------------
(***************************************************************************)
(* Interactive terminals, from the tab to the shell: one mounted           *)
(* TerminalView (features/terminal/TerminalView.tsx), the terminal         *)
(* commands of the backend (commands/terminal.rs), the pump task each open *)
(* spawns, and the PTY channel (kyvon-ssh/session.rs).                     *)
(*                                                                         *)
(* An effect e is one run of TerminalView's useEffect: the first mount,    *)
(* and one more for every retry, reopen or change of server.  It opens at  *)
(* most one terminal, which is named by e.  Effects follow each other in   *)
(* one component, so they share its refs: ref (sessionIdRef), inputOn      *)
(* (inputEnabledRef) and status.  JavaScript runs one callback at a time;  *)
(* the backend's commands and pumps run beside it, and events and command  *)
(* replies reach it in no particular order.                                *)
(***************************************************************************)
EXTENDS Naturals, Sequences, FiniteSetsExt

CONSTANTS Effects,     \* effect runs (bounds how often the view is reopened)
          None,        \* no effect, no session
          MaxPending,  \* TerminalView.tsx:179, events kept while opening
          MaxTraffic   \* bound: keystrokes and printed chunks together

ASSUME TerminalsAssumption ==
    /\ None \notin Effects
    /\ MaxPending \in Nat /\ MaxTraffic \in Nat

VARIABLES
    \* the view
    current,    \* the effect that is set up, or None
    effect,     \* [Effects -> EffectPc]
    ref,        \* sessionIdRef.current
    inputOn,    \* inputEnabledRef.current
    status,     \* TerminalStatus
    pending,    \* pendingEvents of each effect, by the session they are of
    rendered,   \* what each terminal's output was written to the screen
    keys,       \* keystrokes: the effect, the session id captured, the IPC write
    \* the backend
    open,       \* [Effects -> OpenPc]: the open_terminal command
    close,      \* [Effects -> [Closers -> ClosePc]]: close_terminal commands
    terminals,  \* AppState.terminals
    pump,       \* [Effects -> PumpPc]
    pumped,     \* chunks the pump has emitted
    bus,        \* events emitted on kyvon://terminal, not yet delivered
    \* the host
    shell,      \* [Effects -> ShellState]
    printed,    \* chunks the shell has printed
    received    \* the keystrokes each shell was sent

viewVars    == <<current, effect, ref, inputOn, status, pending, rendered>>
backendVars == <<open, close, terminals, pump, pumped, bus>>
hostVars    == <<shell, printed, received>>
vars == <<viewVars, keys, backendVars, hostVars>>

\* "settled": the openTerminal call returned.
EffectPc == {"idle", "listening", "invoking", "settled", "left"}
TerminalStatus == {"opening", "attached", "closing", "closed", "failed"}
WritePc == {"queued", "sent", "ok", "error", "done"}
OpenPc  == {"none", "sent", "channel", "ok", "error"}
PumpPc  == {"none", "reading", "removing", "done"}
\* "shut": EOF and close were sent.
ShellState == {"none", "up", "shut", "gone"}

\* Who calls close_terminal: the Close button, which waits for the reply, or
\* the effect's cleanup, which does not.
Closers == {"button", "cleanup"}
ClosePc == {"none", "sent", "shutting", "replied", "done"}

Closed == 0   \* TerminalClosed; TerminalOutput events carry their number
Event  == [session : Effects, item : Nat]
Keystroke == [by : Effects, to : Effects, pc : WritePc]

\* No pending events.  processEvent skips the events of other sessions, so only
\* the order within each session counts.
Nothing == [f \in Effects |-> <<>>]

TypeOK ==
    /\ current \in Effects \cup {None}
    /\ effect \in [Effects -> EffectPc]
    /\ ref \in Effects \cup {None}
    /\ inputOn \in BOOLEAN
    /\ status \in TerminalStatus
    /\ pending \in [Effects -> [Effects -> Seq(Nat)]]
    /\ rendered \in [Effects -> Seq(Nat)]
    /\ keys \in Seq(Keystroke)
    /\ open \in [Effects -> OpenPc]
    /\ close \in [Effects -> [Closers -> ClosePc]]
    /\ terminals \subseteq Effects
    /\ pump \in [Effects -> PumpPc]
    /\ pumped \in [Effects -> Nat]
    /\ bus \in Seq(Event)
    /\ shell \in [Effects -> ShellState]
    /\ printed \in [Effects -> Nat]
    /\ received \in [Effects -> Seq(Nat)]

Init ==
    /\ current = None
    /\ effect = [e \in Effects |-> "idle"]
    /\ ref = None
    /\ inputOn = FALSE
    /\ status = "opening"
    /\ pending = [e \in Effects |-> Nothing]
    /\ rendered = [e \in Effects |-> <<>>]
    /\ keys = <<>>
    /\ open = [e \in Effects |-> "none"]
    /\ close = [e \in Effects |-> [c \in Closers |-> "none"]]
    /\ terminals = {}
    /\ pump = [e \in Effects |-> "none"]
    /\ pumped = [e \in Effects |-> 0]
    /\ bus = <<>>
    /\ shell = [e \in Effects |-> "none"]
    /\ printed = [e \in Effects |-> 0]
    /\ received = [e \in Effects |-> <<>>]

Disposed(e) == e # current

\* What was typed and printed so far, which MaxTraffic bounds.
Traffic == Len(keys) + MapThenSumSet(LAMBDA e : printed[e], Effects)

SendClose(e, c) == close' = [close EXCEPT ![e][c] = "sent"]

-------------------------------------------------------------------------------
(* The effect: set-up, opening, clean-up.                                  *)

\* Cleanup closes the terminal the ref names, if it names one.
Cleanup ==
    /\ ref' = None
    /\ inputOn' = FALSE
    /\ IF ref # None THEN SendClose(ref, "cleanup") ELSE UNCHANGED close

\* Mount, retry, reopen or another server: the effect that is set up is cleaned
\* up and a new one starts, in one go.
Rerun(e) ==
    /\ effect[e] = "idle"
    /\ current # None \/ \A f \in Effects : effect[f] = "idle"
    /\ Cleanup
    /\ current' = e
    /\ effect' = [effect EXCEPT ![e] = "listening"]
    /\ status' = "opening"
    /\ UNCHANGED <<pending, rendered, keys, open, terminals, pump, pumped,
                   bus, hostVars>>

Unmount ==
    /\ current # None
    /\ Cleanup
    /\ current' = None
    /\ UNCHANGED <<effect, status, pending, rendered, keys, open,
                   terminals, pump, pumped, bus, hostVars>>

\* The listener is subscribed, an animation frame has passed: openTerminal.
Invoke(e) ==
    /\ effect[e] = "listening"
    /\ IF Disposed(e)
       THEN /\ effect' = [effect EXCEPT ![e] = "left"]
            /\ UNCHANGED open
       ELSE /\ effect' = [effect EXCEPT ![e] = "invoking"]
            /\ open' = [open EXCEPT ![e] = "sent"]
    /\ UNCHANGED <<current, ref, inputOn, status, pending, rendered, keys,
                   close, terminals, pump, pumped, bus, hostVars>>

\* Mutant: of what arrived while opening, only a closure is replayed.
Replay_Dropped(e) ==
    IF \E i \in DOMAIN pending[e][e] : pending[e][e][i] = Closed
    THEN <<Closed>> ELSE <<>>

\* What an effect handles when it learns its session id: the items of its own.
Replay(e) == pending[e][e]

\* The items of s that are handled before its closure, if it has one.
Shown(s) == {i \in DOMAIN s : \A j \in 1..i : s[j] # Closed}

\* processEvent for every item of s, when the ref is to be e: output is written
\* until a closure detaches the view.
Process(e, s) ==
    /\ rendered' = [rendered EXCEPT ![e] = @ \o [i \in Shown(s) |-> s[i]]]
    /\ IF Shown(s) = DOMAIN s
       THEN ref' = e /\ inputOn' = TRUE /\ status' = "attached"
       ELSE ref' = None /\ inputOn' = FALSE /\ status' = "closed"

\* fail(): a disposed effect reports nothing.
Fail == inputOn' = FALSE /\ status' = "failed"

\* Mutant: a disposed effect just returns.
LateClose_Forgotten(e) == UNCHANGED close

\* A disposed effect closes the terminal it opened in vain.
LateClose(e) ==
    IF open[e] = "ok" THEN SendClose(e, "cleanup") ELSE UNCHANGED close

\* openTerminal returned.  The effect may be disposed by now.
Opened(e) ==
    /\ effect[e] = "invoking" /\ open[e] \in {"ok", "error"}
    /\ effect' = [effect EXCEPT ![e] = "settled"]
    /\ pending' = [pending EXCEPT ![e] = Nothing]
    /\ \/ /\ Disposed(e)
          /\ LateClose(e)
          /\ UNCHANGED <<ref, inputOn, status, rendered>>
       \/ /\ ~Disposed(e) /\ open[e] = "error"
          /\ Fail
          /\ UNCHANGED <<ref, rendered, close>>
       \/ /\ ~Disposed(e) /\ open[e] = "ok"
          /\ Process(e, Replay(e))
          /\ UNCHANGED close
    /\ UNCHANGED <<current, keys, open, terminals, pump, pumped, bus,
                   hostVars>>

\* How many events an effect has buffered.
Buffered(e) == MapThenSumSet(LAMBDA f : Len(pending[e][f]), Effects)

\* A terminal event reaches the listener of the effect that is set up.
Deliver ==
    /\ bus # <<>>
    /\ bus' = Tail(bus)
    /\ IF current = None
       THEN UNCHANGED <<ref, inputOn, status, pending, rendered>>
       ELSE IF effect[current] \in {"listening", "invoking"}
       THEN /\ pending' = IF Buffered(current) < MaxPending
                          THEN [pending EXCEPT ![current][Head(bus).session] =
                                  Append(@, Head(bus).item)]
                          ELSE pending
            /\ UNCHANGED <<ref, inputOn, status, rendered>>
       ELSE /\ UNCHANGED pending
            /\ IF ref = None \/ ref # Head(bus).session
               THEN UNCHANGED <<ref, inputOn, status, rendered>>
               ELSE IF Head(bus).item = Closed
               THEN /\ ref' = None /\ inputOn' = FALSE /\ status' = "closed"
                    /\ UNCHANGED rendered
               ELSE /\ rendered' = [rendered EXCEPT ![ref] = Append(@, Head(bus).item)]
                    /\ UNCHANGED <<ref, inputOn, status>>
    /\ UNCHANGED <<current, effect, keys, open, close, terminals, pump,
                   pumped, hostVars>>

-------------------------------------------------------------------------------
(* Keystrokes, resizing and the Close button.                              *)

\* Mutant: input is enabled, so a session is assumed.
Type_NoSession ==
    /\ current # None /\ inputOn
    /\ Traffic < MaxTraffic
    /\ keys' = Append(keys, [by |-> current, to |-> ref, pc |-> "queued"])
    /\ UNCHANGED <<viewVars, backendVars, hostVars>>

\* onData: the session id is captured when the key is pressed.
Type ==
    /\ current # None /\ inputOn /\ ref # None
    /\ Traffic < MaxTraffic
    /\ keys' = Append(keys, [by |-> current, to |-> ref, pc |-> "queued"])
    /\ UNCHANGED <<viewVars, backendVars, hostVars>>

WriteGoto(k, pc) == keys' = [keys EXCEPT ![k].pc = pc]

\* Mutant: a write does not wait for the one before it.
WriteReady_Unqueued(k) == keys[k].pc = "queued"

\* writeQueue: one write of an effect at a time.
WriteReady(k) ==
    /\ keys[k].pc = "queued"
    /\ \A m \in 1..(k - 1) : keys[m].by = keys[k].by => keys[m].pc = "done"

\* The queued callback runs: the keystroke is dropped if the view moved on.
WriteNext(k) ==
    /\ WriteReady(k)
    /\ WriteGoto(k, IF Disposed(keys[k].by) \/ ~inputOn \/ ref # keys[k].to
                     THEN "done" ELSE "sent")
    /\ UNCHANGED <<viewVars, backendVars, hostVars>>

\* write_terminal: an unknown session or a closed channel is an error.
WriteTerminal(k) ==
    LET t == keys[k].to IN
    /\ keys[k].pc = "sent"
    /\ \/ /\ t \in terminals /\ shell[t] = "up"
          /\ received' = [received EXCEPT ![t] = Append(@, k)]
          /\ WriteGoto(k, "ok")
       \/ /\ t \notin terminals \/ shell[t] # "up"
          /\ WriteGoto(k, "error")
          /\ UNCHANGED received
    /\ UNCHANGED <<viewVars, backendVars, shell, printed>>

\* Its reply; a failure is reported while the view still shows that session.
Written(k) ==
    /\ keys[k].pc \in {"ok", "error"}
    /\ WriteGoto(k, "done")
    /\ IF keys[k].pc = "error" /\ ~Disposed(keys[k].by) /\ ref = keys[k].to
       THEN Fail ELSE UNCHANGED <<inputOn, status>>
    /\ UNCHANGED <<current, effect, ref, pending, rendered, backendVars, hostVars>>

\* resize_terminal changes nothing kept here; only its failure shows.
ResizeFails(e) ==
    /\ e = current /\ ref = e
    /\ e \notin terminals \/ shell[e] # "up"
    /\ Fail
    /\ UNCHANGED <<current, effect, ref, pending, rendered, keys,
                   backendVars, hostVars>>

\* closeSession, up to its await.  The button is there while attached.
CloseSession ==
    /\ current # None /\ status = "attached" /\ ref # None
    /\ inputOn' = FALSE
    /\ status' = "closing"
    /\ SendClose(ref, "button")
    /\ UNCHANGED <<current, effect, ref, pending, rendered, keys, open,
                   terminals, pump, pumped, bus, hostVars>>

\* closeSession, after it.
CloseSessionReturns(e) ==
    /\ close[e]["button"] = "replied"
    /\ close' = [close EXCEPT ![e]["button"] = "done"]
    /\ ref' = None
    /\ status' = "closed"
    /\ UNCHANGED <<current, effect, inputOn, pending, rendered, keys,
                   open, terminals, pump, pumped, bus, hostVars>>

-------------------------------------------------------------------------------
(* The backend's commands and the pump.                                    *)

\* No session for the server, or the channel, PTY or shell request fails.
OpenFails(e) ==
    /\ open[e] = "sent"
    /\ open' = [open EXCEPT ![e] = "error"]
    /\ UNCHANGED <<viewVars, keys, close, terminals, pump, pumped, bus,
                   hostVars>>

OpenChannel(e) ==
    /\ open[e] = "sent"
    /\ open' = [open EXCEPT ![e] = "channel"]
    /\ shell' = [shell EXCEPT ![e] = "up"]
    /\ UNCHANGED <<viewVars, keys, close, terminals, pump, pumped, bus,
                   printed, received>>

\* The handle is registered, the pump spawned and the id returned.
Register(e) ==
    /\ open[e] = "channel"
    /\ open' = [open EXCEPT ![e] = "ok"]
    /\ terminals' = terminals \cup {e}
    /\ pump' = [pump EXCEPT ![e] = "reading"]
    /\ UNCHANGED <<viewVars, keys, close, pumped, bus, hostVars>>

PumpOutput(e) ==
    /\ pump[e] = "reading" /\ pumped[e] < printed[e]
    /\ pumped' = [pumped EXCEPT ![e] = @ + 1]
    /\ bus' = Append(bus, [session |-> e, item |-> pumped'[e]])
    /\ UNCHANGED <<viewVars, keys, open, close, terminals, pump, hostVars>>

\* Mutant: a channel that closed without an exit status ends the pump silently.
PumpClosed_Silent(e) ==
    /\ pump[e] = "reading" /\ pumped[e] = printed[e] /\ shell[e] = "gone"
    /\ pump' = [pump EXCEPT ![e] = "removing"]
    /\ UNCHANGED <<viewVars, keys, open, close, terminals, pumped, bus, hostVars>>

\* Exited or a closed channel, once everything before it was read.
PumpClosed(e) ==
    /\ pump[e] = "reading" /\ pumped[e] = printed[e] /\ shell[e] = "gone"
    /\ pump' = [pump EXCEPT ![e] = "removing"]
    /\ bus' = Append(bus, [session |-> e, item |-> Closed])
    /\ UNCHANGED <<viewVars, keys, open, close, terminals, pumped, hostVars>>

PumpRemoves(e) ==
    /\ pump[e] = "removing"
    /\ pump' = [pump EXCEPT ![e] = "done"]
    /\ terminals' = terminals \ {e}
    /\ UNCHANGED <<viewVars, keys, open, close, pumped, bus, hostVars>>

\* Mutant: the entry is dropped and the channel is left to the handle's Drop.
CloseTerminal_DropOnly(e, c) ==
    /\ close[e][c] = "sent"
    /\ close' = [close EXCEPT ![e][c] = "replied"]
    /\ terminals' = terminals \ {e}
    /\ UNCHANGED <<viewVars, keys, open, pump, pumped, bus, hostVars>>

\* close_terminal: absent is success.
CloseTerminal(e, c) ==
    /\ close[e][c] = "sent"
    /\ close' = [close EXCEPT ![e][c] =
                   IF e \in terminals THEN "shutting" ELSE "replied"]
    /\ terminals' = terminals \ {e}
    /\ UNCHANGED <<viewVars, keys, open, pump, pumped, bus, hostVars>>

\* TerminalHandle::close sends EOF and close.
ShutChannel(e, c) ==
    /\ close[e][c] = "shutting"
    /\ close' = [close EXCEPT ![e][c] = "replied"]
    /\ shell' = [shell EXCEPT ![e] = IF @ = "up" THEN "shut" ELSE @]
    /\ UNCHANGED <<viewVars, keys, open, terminals, pump, pumped, bus,
                   printed, received>>

-------------------------------------------------------------------------------
(* The host.                                                               *)

Prints(e) ==
    /\ shell[e] \in {"up", "shut"} /\ Traffic < MaxTraffic
    /\ printed' = [printed EXCEPT ![e] = @ + 1]
    /\ UNCHANGED <<viewVars, keys, backendVars, shell, received>>

\* The shell exits, the channel closes or the transport is lost.
ShellEnds(e) ==
    /\ shell[e] \in {"up", "shut"}
    /\ shell' = [shell EXCEPT ![e] = "gone"]
    /\ UNCHANGED <<viewVars, keys, backendVars, printed, received>>

-------------------------------------------------------------------------------
View(e) ==
    \/ Invoke(e) \/ Opened(e) \/ CloseSessionReturns(e)

Backend(e) ==
    \/ OpenFails(e) \/ OpenChannel(e) \/ Register(e)
    \/ PumpOutput(e) \/ PumpClosed(e) \/ PumpRemoves(e)
    \/ \E c \in Closers : CloseTerminal(e, c) \/ ShutChannel(e, c)

Operator ==
    \/ \E e \in Effects : Rerun(e)
    \/ Unmount \/ Type \/ CloseSession

Write == \E k \in DOMAIN keys : WriteNext(k) \/ WriteTerminal(k) \/ Written(k)

Next ==
    \/ Operator
    \/ \E e \in Effects : View(e) \/ Backend(e) \/ ResizeFails(e)
                          \/ Prints(e) \/ ShellEnds(e)
    \/ Deliver \/ Write

Spec == Init /\ [][Next]_vars

-------------------------------------------------------------------------------
(* Properties.                                                             *)

\* The terminal of an effect that is gone and whose shell still runs: nobody
\* has asked to close it, and no reply is on its way that would.
Abandoned(e) ==
    /\ e \in terminals /\ shell[e] = "up"
    /\ Disposed(e) /\ effect[e] # "invoking"
    /\ \A c \in Closers : close[e][c] # "sent"

\* A shell nobody looks at is being closed, unless a Close button's late reply
\* wiped the view's session id (TerminalView.tsx:197-200, 221-223).
AbandonedOnlyByLateReply ==
    \A e \in Effects :
        Abandoned(e) => \E f \in Effects \ {e} : close[f]["button"] = "done"

\* A shell runs on only while a command or the terminals map has its handle, so
\* that it can be closed (terminal.rs:58-66, 162-171).
ShellsClosable ==
    \A e \in Effects :
        shell[e] = "up" => \/ open[e] = "channel" \/ e \in terminals
                           \/ \E c \in Closers : close[e][c] = "shutting"

\* What a shell receives is a prefix of what was typed into its own view, in
\* order: nothing from another view, nothing twice, no gap after a failed write
\* (TerminalView.tsx:141-153).
InputIsPrefix ==
    \A e \in Effects : \A i \in DOMAIN received[e] :
        LET k == received[e][i] IN
        /\ keys[k].by = e
        /\ \A j \in 1..(i - 1) : received[e][j] < k
        /\ \A m \in 1..(k - 1) :
              keys[m].by = e => \E j \in 1..(i - 1) : received[e][j] = m

\* What a view shows of its shell is a prefix of what the shell printed, also
\* what arrived before the view knew its session id, as long as pendingEvents
\* does not overflow (TerminalView.tsx:175-183, 206-210).
OutputIsPrefix ==
    \A e \in Effects : \A i \in DOMAIN rendered[e] : rendered[e][i] = i

\* A view attached to a shell that is gone is going to learn of it: its pump has
\* the closure to read, or the event is on its way (terminal.rs:99-112,
\* TerminalView.tsx:98-107, 175-183, 206-210).
ClosureOnItsWay ==
    \A e \in Effects :
        ref = e /\ shell[e] = "gone" =>
            \/ pump[e] = "reading"
            \/ \E i \in DOMAIN bus : bus[i] = [session |-> e, item |-> Closed]

-------------------------------------------------------------------------------
(* A statement of the documentation that the code does not meet.           *)

\* "so a shell is not left running on the server after the operator has stopped
\* looking at it" (terminal.rs:13-15).
NoShellLeftRunning == \A e \in Effects : ~Abandoned(e)
=============================================================================
