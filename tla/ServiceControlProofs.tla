------------------------- MODULE ServiceControlProofs -------------------------
(***************************************************************************)
(* Proofs about ServiceControl, for any number of servers, commands and    *)
(* operations.                                                             *)
(*                                                                         *)
(* What the ledger says is decided several steps before it is written, so  *)
(* the invariant follows the outcome from the exit status to the record    *)
(* (OutcomesEarned); and an operation can return without a record only     *)
(* when its command was never sent (NotYetRun).                            *)
(***************************************************************************)
EXTENDS ServiceControl, TLAPS

\* A command runs only after its operation took a session.
NotYetRun == \A o \in Ops : op[o] \in {"idle", "sent"} => o \notin ran

\* An outcome other than failure is only set for a command that ran.
OutcomesEarned ==
    \A o \in Ops :
        /\ op[o] = "verify" => o \in ran
        /\ op[o] = "record" => outcome[o] \in Outcome
        /\ op[o] = "record" /\ outcome[o] # "failure" => o \in ran

IInv == TypeOK /\ LockedWhileRunning /\ NotYetRun /\ OutcomesEarned
          /\ RanIsRecorded /\ LedgerClaimsWereRun

-------------------------------------------------------------------------------
\* No outstanding call is within the bound.
LEMMA NoCallsType ==
    NoLists \in [Servers -> 0..MaxCalls] /\ NoAsks \in [Commands -> 0..MaxCalls]
  <1>1. 0 \in 0..MaxCalls
    BY ServiceAssumption
  <1> QED BY <1>1 DEF NoLists, NoAsks

\* Initially nothing runs and the ledger is empty.
LEMMA InitIInv == Init => IInv
  <1> SUFFICES ASSUME Init PROVE IInv
    OBVIOUS
  <1>1. TypeOK
    <2>1. \A o \in Ops : ~InFlight(o)
      BY DEF Init, InFlight
    <2>2. sessions \in [Servers -> Session] /\ op \in [Ops -> OpPc]
      BY DEF Init, Session, OpPc
    <2>3. lists \in [Servers -> 0..MaxCalls] /\ asks \in [Commands -> 0..MaxCalls]
      BY NoCallsType DEF Init
    <2>4. /\ refreshing \in BOOLEAN /\ assessing \in BOOLEAN /\ executing \in BOOLEAN
          /\ selected \in Servers \cup {None} /\ shown \in Servers \cup {None}
          /\ pending \in Commands \cup {None} /\ assessment \in Commands \cup {None}
      BY DEF Init
    <2>5. /\ of \in [Ops -> Servers \cup {None}] /\ cmd \in [Ops -> Commands \cup {None}]
          /\ outcome \in [Ops -> Outcome \cup {None}]
          /\ ledger \in [Ops -> Outcome \cup {None}]
      BY DEF Init
    <2>6. /\ listed \subseteq Servers /\ awaited \subseteq Ops /\ linked \subseteq Ops
          /\ refused \subseteq Ops /\ ran \subseteq Ops /\ inventory \subseteq Servers
      BY DEF Init
    <2> QED BY <2>1, <2>2, <2>3, <2>4, <2>5, <2>6 DEF TypeOK
  <1>2. NotYetRun /\ OutcomesEarned /\ RanIsRecorded /\ LedgerClaimsWereRun
    BY ServiceAssumption DEF Init, NotYetRun, OutcomesEarned, RanIsRecorded,
                             LedgerClaimsWereRun, Outcome
  <1>3. LockedWhileRunning
    BY DEF Init, LockedWhileRunning
  <1> QED BY <1>1, <1>2, <1>3 DEF IInv

\* Types are kept by every step of the screen.
LEMMA ScreenTypes == TypeOK /\ Screen => TypeOK'
  <1> SUFFICES ASSUME TypeOK, Screen PROVE TypeOK'
    OBVIOUS
  <1> USE ServiceAssumption DEF TypeOK, InFlight
  <1>1. ASSUME NEW s \in Servers, Load(s)
        PROVE  lists' \in [Servers -> 0..MaxCalls] /\ refreshing' \in BOOLEAN
    BY <1>1 DEF Load
  <1>2. ASSUME NEW s \in Servers, Select(s) PROVE TypeOK'
    BY <1>1, <1>2 DEF Select, dialogVars, opVars, linkVars, dbVars
  <1>3. ASSUME NEW s \in Servers, ListArrives(s) PROVE TypeOK'
    <2>1. lists' \in [Servers -> 0..MaxCalls] /\ shown' \in Servers \cup {None}
      BY <1>3 DEF ListArrives
    <2> QED BY <1>3, <2>1 DEF ListArrives, dialogVars, opVars, linkVars, dbVars
  <1>4. CASE Leave
    BY <1>4, NoCallsType DEF Leave, Unmount, opVars, linkVars, dbVars
  <1>5. CASE Refresh
    BY <1>1, <1>5 DEF Refresh, dialogVars, opVars, linkVars, dbVars
  <1>6. CASE CloseModal
    BY <1>6 DEF CloseModal, opVars, linkVars, dbVars
  <1>7. ASSUME NEW c \in Commands, Initiate(c) PROVE TypeOK'
    BY <1>7 DEF Initiate, opVars, linkVars, dbVars
  <1>8. ASSUME NEW c \in Commands, Assessed(c) PROVE TypeOK'
    <2>1. asks' \in [Commands -> 0..MaxCalls]
      BY <1>8 DEF Assessed
    <2> QED BY <1>8, <2>1 DEF Assessed, opVars, linkVars, dbVars
  <1>9. ASSUME NEW o \in Ops, Confirm(o) PROVE TypeOK'
    BY <1>9 DEF Confirm, MayConfirm, linkVars, dbVars, OpPc
  <1>10. ASSUME NEW o \in Ops, ControlReturns(o) PROVE TypeOK'
    <2>1. /\ op' \in [Ops -> OpPc] /\ of' \in [Ops -> Servers \cup {None}]
          /\ cmd' \in [Ops -> Commands \cup {None}]
          /\ outcome' \in [Ops -> Outcome \cup {None}] /\ linked' \subseteq Ops
          /\ \A p \in Ops : InFlight(p)' => of'[p] # None /\ cmd'[p] # None
      BY <1>10 DEF ControlReturns, Drop, OpPc
    <2>2. of[o] \in Servers
      BY <1>10 DEF ControlReturns
    <2>3. lists' \in [Servers -> 0..MaxCalls] /\ refreshing' \in BOOLEAN
      BY <1>1, <1>10, <2>2 DEF ControlReturns
    <2> QED BY <1>10, <2>1, <2>3 DEF ControlReturns, dbVars
  <1> QED
    BY <1>2, <1>3, <1>4, <1>5, <1>6, <1>7, <1>8, <1>9, <1>10 DEF Screen

\* Types are kept by every other step.
LEMMA OtherTypes ==
    TypeOK /\ ((\E o \in Ops : Control(o)) \/ Environment) => TypeOK'
  <1> SUFFICES ASSUME TypeOK, (\E o \in Ops : Control(o)) \/ Environment
               PROVE  TypeOK'
    OBVIOUS
  <1> USE ServiceAssumption DEF TypeOK, InFlight, viewVars, dialogVars, OpPc, Outcome,
                                Goto, RecordAs
  <1>1. ASSUME NEW o \in Ops, NoSession(o) PROVE TypeOK'
    BY <1>1 DEF NoSession, linkVars, dbVars
  <1>2. ASSUME NEW o \in Ops, Begin(o) PROVE TypeOK'
    BY <1>2 DEF Begin, dbVars
  <1>3. ASSUME NEW o \in Ops, ExecError(o) PROVE TypeOK'
    BY <1>3 DEF ExecError, linkVars, dbVars
  <1>4. ASSUME NEW o \in Ops, NEW status \in ExitStatus, ExecEnds(o, status)
        PROVE  TypeOK'
    BY <1>4 DEF ExecEnds, linkVars, dbVars
  <1>5. ASSUME NEW o \in Ops, Verified(o) PROVE TypeOK'
    BY <1>5 DEF Verified, linkVars, dbVars
  <1>6. ASSUME NEW o \in Ops, Record(o) PROVE TypeOK'
    BY <1>6 DEF Record, linkVars
  <1>7. ASSUME NEW o \in Ops, HostRuns(o) PROVE TypeOK'
    BY <1>7 DEF HostRuns, opVars, linkVars, dbVars
  <1>8. ASSUME NEW s \in Servers, Connected(s) PROVE TypeOK'
    BY <1>8 DEF Connected, opVars, dbVars, Session
  <1>9. ASSUME NEW s \in Servers, NEW entry \in Session, LinkLost(s, entry)
        PROVE  TypeOK'
    BY <1>9 DEF LinkLost, opVars, dbVars, Session
  <1>10. ASSUME NEW s \in Servers, SessionDropped(s) PROVE TypeOK'
    BY <1>10 DEF SessionDropped, opVars, dbVars, Session
  <1>11. ASSUME NEW s \in Servers, RowDeleted(s) PROVE TypeOK'
    BY <1>11 DEF RowDeleted, opVars, linkVars
  <1>12. CASE Restart
    <2>1. /\ op' \in [Ops -> OpPc] /\ of' \in [Ops -> Servers \cup {None}]
          /\ cmd' \in [Ops -> Commands \cup {None}]
          /\ outcome' \in [Ops -> Outcome \cup {None}] /\ linked' \subseteq Ops
          /\ \A p \in Ops : InFlight(p)' => of'[p] # None /\ cmd'[p] # None
      BY <1>12 DEF Restart, Drop
    <2> QED BY <1>12, <2>1, NoCallsType DEF Restart, Unmount, dbVars, Session
  <1> QED
    BY <1>1, <1>2, <1>3, <1>4, <1>5, <1>6, <1>7, <1>8, <1>9, <1>10, <1>11, <1>12
       DEF Control, Environment

-------------------------------------------------------------------------------
\* The steps of the screen keep the lock and touch neither ledger nor host.
LEMMA ScreenIInv == IInv /\ Screen => IInv'
  <1> SUFFICES ASSUME IInv, Screen PROVE IInv'
    OBVIOUS
  <1>1. TypeOK'
    BY ScreenTypes DEF IInv
  <1>2. UNCHANGED <<ledger, refused, ran>>
    BY DEF Screen, Select, ListArrives, Leave, Refresh, CloseModal, Initiate, Assessed,
           Confirm, ControlReturns, dbVars
  <1>3. ASSUME NEW s \in Servers, Select(s) \/ ListArrives(s) PROVE IInv'
    BY <1>1, <1>2, <1>3 DEF IInv, Select, ListArrives, dialogVars, opVars, InFlight,
         LockedWhileRunning, NotYetRun, OutcomesEarned, RanIsRecorded, LedgerClaimsWereRun
  <1>4. CASE Leave
    BY <1>1, <1>2, <1>4 DEF IInv, Leave, Unmount, opVars, InFlight,
         LockedWhileRunning, NotYetRun, OutcomesEarned, RanIsRecorded, LedgerClaimsWereRun
  <1>5. CASE Refresh \/ CloseModal
    BY <1>1, <1>2, <1>5 DEF IInv, Refresh, CloseModal, dialogVars, opVars, InFlight,
         LockedWhileRunning, NotYetRun, OutcomesEarned, RanIsRecorded, LedgerClaimsWereRun
  <1>6. ASSUME NEW c \in Commands, Initiate(c) \/ Assessed(c) PROVE IInv'
    BY <1>1, <1>2, <1>6 DEF IInv, Initiate, Assessed, opVars, InFlight,
         LockedWhileRunning, NotYetRun, OutcomesEarned, RanIsRecorded, LedgerClaimsWereRun
  <1>7. ASSUME NEW o \in Ops, Confirm(o) PROVE IInv'
    <2>1. op' = [op EXCEPT ![o] = "sent"] /\ op[o] = "idle" /\ outcome' = outcome
      BY <1>7 DEF Confirm
    <2>2. executing' = TRUE /\ awaited' = {o}
      BY <1>7 DEF Confirm, MayConfirm, IInv, LockedWhileRunning
    <2>3. LockedWhileRunning'
      BY <2>1, <2>2 DEF LockedWhileRunning, InFlight, IInv, TypeOK
    <2>4. NotYetRun' /\ OutcomesEarned' /\ RanIsRecorded' /\ LedgerClaimsWereRun'
      BY <1>2, <2>1 DEF IInv, TypeOK, NotYetRun, OutcomesEarned, RanIsRecorded,
                        LedgerClaimsWereRun
    <2> QED BY <1>1, <2>3, <2>4 DEF IInv
  <1>8. ASSUME NEW o \in Ops, ControlReturns(o) PROVE IInv'
    <2>1. /\ op' = [p \in Ops |-> IF p = o THEN "done" ELSE op[p]]
          /\ outcome' = [p \in Ops |-> IF p = o THEN None ELSE outcome[p]]
          /\ awaited' = awaited \ {o}
          /\ executing' = IF o \in awaited THEN FALSE ELSE executing
      BY <1>8 DEF ControlReturns, Drop
    <2>2. LockedWhileRunning'
      <3>1. CASE o \in awaited
        BY <2>1, <3>1 DEF IInv, LockedWhileRunning
      <3>2. CASE o \notin awaited
        BY <2>1, <3>2 DEF IInv, LockedWhileRunning, InFlight
      <3> QED BY <3>1, <3>2
    <2>3. NotYetRun' /\ OutcomesEarned' /\ RanIsRecorded' /\ LedgerClaimsWereRun'
      BY <1>2, <2>1 DEF IInv, TypeOK, NotYetRun, OutcomesEarned, RanIsRecorded,
                        LedgerClaimsWereRun
    <2> QED BY <1>1, <2>2, <2>3 DEF IInv
  <1> QED
    BY <1>3, <1>4, <1>5, <1>6, <1>7, <1>8 DEF Screen

\* The steps of control earn the outcome they record.
LEMMA ControlIInv == ASSUME NEW o \in Ops PROVE IInv /\ Control(o) => IInv'
  <1> SUFFICES ASSUME IInv, Control(o) PROVE IInv'
    OBVIOUS
  <1>1. TypeOK'
    BY OtherTypes DEF IInv
  <1>2. UNCHANGED <<executing, awaited, ran>>
    BY DEF Control, NoSession, Begin, ExecError, ExecEnds, Verified, Record, viewVars,
           dialogVars
  <1>3. \E pc \in OpPc \ {"idle", "done"} :
           InFlight(o) /\ op' = [op EXCEPT ![o] = pc]
    BY DEF Control, NoSession, Begin, ExecError, ExecEnds, Verified, Record, RecordAs,
           Goto, InFlight, OpPc
  <1>4. LockedWhileRunning'
    BY <1>2, <1>3 DEF IInv, TypeOK, LockedWhileRunning, InFlight, OpPc
  <1> USE DEF IInv, TypeOK, NotYetRun, OutcomesEarned, RanIsRecorded,
              LedgerClaimsWereRun, Goto
  <1>5. CASE NoSession(o)
    BY <1>1, <1>2, <1>4, <1>5 DEF NoSession, dbVars
  <1>6. CASE Begin(o)
    BY <1>1, <1>2, <1>4, <1>6 DEF Begin, dbVars
  <1>7. CASE ExecError(o)
    BY <1>1, <1>2, <1>4, <1>7 DEF ExecError, RecordAs, Outcome, dbVars
  <1>8. ASSUME NEW status \in ExitStatus, ExecEnds(o, status) PROVE IInv'
    <2>1. CASE Success(status)
      BY <1>1, <1>2, <1>4, <1>8, <2>1 DEF ExecEnds, ChannelEnds, Success, dbVars
    <2>2. CASE ~Success(status)
      BY <1>1, <1>2, <1>4, <1>8, <2>2 DEF ExecEnds, RecordAs, Outcome, dbVars
    <2> QED BY <2>1, <2>2
  <1>9. CASE Verified(o)
    BY <1>1, <1>2, <1>4, <1>9 DEF Verified, RecordAs, Outcome, dbVars
  <1>10. CASE Record(o)
    <2>1. outcome[o] \in Outcome /\ outcome[o] # None
      BY <1>10, ServiceAssumption DEF Record
    <2> QED BY <1>1, <1>2, <1>4, <1>10, <2>1 DEF Record, Outcome
  <1> QED
    BY <1>5, <1>6, <1>7, <1>8, <1>9, <1>10 DEF Control

\* Neither the host, the sessions, a deletion nor a restart breaks the invariant.
LEMMA EnvironmentIInv == IInv /\ Environment => IInv'
  <1> SUFFICES ASSUME IInv, Environment PROVE IInv'
    OBVIOUS
  <1>1. TypeOK'
    BY OtherTypes DEF IInv
  <1> USE DEF IInv, TypeOK, LockedWhileRunning, InFlight, NotYetRun, OutcomesEarned,
              RanIsRecorded, LedgerClaimsWereRun
  <1>2. ASSUME NEW o \in Ops, HostRuns(o) PROVE IInv'
    BY <1>1, <1>2 DEF HostRuns, viewVars, dialogVars, opVars, dbVars
  <1>3. ASSUME NEW s \in Servers, Connected(s) \/ SessionDropped(s) \/ RowDeleted(s)
        PROVE  IInv'
    BY <1>1, <1>3 DEF Connected, SessionDropped, RowDeleted, viewVars, dialogVars,
                      opVars, dbVars
  <1>4. ASSUME NEW s \in Servers, NEW entry \in Session, LinkLost(s, entry) PROVE IInv'
    BY <1>1, <1>4 DEF LinkLost, viewVars, dialogVars, opVars, dbVars
  <1>5. CASE Restart
    <2>1. /\ \A o \in Ops : op'[o] = IF InFlight(o) THEN "done" ELSE op[o]
          /\ executing' = FALSE /\ awaited' = {}
          /\ UNCHANGED <<ledger, refused, ran>>
      BY <1>5 DEF Restart, Drop, Unmount, dbVars
    <2> QED BY <1>1, <2>1
  <1> QED
    BY <1>2, <1>3, <1>4, <1>5 DEF Environment

\* The inductive invariant holds of every reachable state.
LEMMA Invariance == Spec => []IInv
  <1>1. IInv /\ UNCHANGED vars => IInv'
    BY DEF IInv, TypeOK, LockedWhileRunning, InFlight, NotYetRun, OutcomesEarned,
           RanIsRecorded, LedgerClaimsWereRun, vars, viewVars, dialogVars, opVars,
           linkVars, dbVars
  <1>2. IInv /\ [Next]_vars => IInv'
    BY <1>1, ScreenIInv, ControlIInv, EnvironmentIInv DEF Next
  <1> QED BY InitIInv, <1>2, PTL DEF Spec

\* The screen, the commands, the sessions and the ledger keep to their types.
THEOREM TypeCorrect == Spec => []TypeOK
  <1>1. IInv => TypeOK
    BY DEF IInv
  <1> QED BY Invariance, <1>1, PTL

\* ServiceManager.tsx:65-87: the dialog is locked while exactly one operation runs.
THEOREM DialogLock == Spec => []LockedWhileRunning
  <1>1. IInv => LockedWhileRunning
    BY DEF IInv
  <1> QED BY Invariance, <1>1, PTL

\* services.rs:162-239: no path of control returns without a record of what ran.
THEOREM NothingRunsUnrecorded == Spec => []RanIsRecorded
  <1>1. IInv => RanIsRecorded
    BY DEF IInv
  <1> QED BY Invariance, <1>1, PTL

\* audit.rs:14-24: the ledger claims success only for commands that ran.
THEOREM LedgerIsEarned == Spec => []LedgerClaimsWereRun
  <1>1. IInv => LedgerClaimsWereRun
    BY DEF IInv
  <1> QED BY Invariance, <1>1, PTL
=============================================================================
