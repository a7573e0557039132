--------------------------- MODULE ConnectionProofs ---------------------------
(***************************************************************************)
(* Proofs about Connection for every set of servers, hosts, keys and       *)
(* connect commands.                                                       *)
(***************************************************************************)
EXTENDS Connection, TLAPS

\* Where a command is bounds where its task can be, and both name a server.
CommandOwnsTask ==
    \A a \in Attempts :
        /\ cmd[a] # "idle" => target[a] \in Servers
        /\ cmd[a] \in {"idle", "check", "secret"} => task[a] = "none"
        /\ cmd[a] = "dial" => task[a] \notin {"up", "loose"}
        /\ cmd[a] \in {"auth", "offered", "land", "duplicate", "connected"}
              => task[a] \in {"up", "loose", "ended"}

\* A session in the map was put there by a command that finished.
SessionsLanded ==
    \A s \in Servers :
        sessions[s] # None => /\ cmd[sessions[s]] = "connected"
                              /\ target[sessions[s]] = s

\* A verifier is asked about a definite key.
KeyPresented ==
    \A a \in Attempts :
        task[a] \notin {"none", "kex", "rejected", "ended"} => key[a] \in Keys

\* An answer exists only for a prompt that was asked, and a yes is recorded.
AnswersApproved ==
    \A a \in Attempts :
        /\ answer[a] # "none" => task[a] \notin {"none", "kex", "verify"}
        /\ answer[a] = "trust" => <<Host(a), key[a]>> \in approved

\* From the verdict on, the presented key is one the operator confirmed.
TaskTrusted ==
    \A a \in Attempts :
        task[a] \in {"persist", "granted", "trusted", "up", "loose"}
            => <<Host(a), key[a]>> \in approved

\* The inductive strengthening of the trust invariants.
TrustInv ==
    /\ CommandOwnsTask
    /\ SessionsLanded
    /\ KeyPresented
    /\ PromptsHaveAVerifier
    /\ AnswersApproved
    /\ TaskTrusted
    /\ KeysPinnedByOperator
    /\ CredentialsOnlyToApproved

IInv == TypeOK /\ TrustInv

-------------------------------------------------------------------------------
\* Initially no command, prompt or session exists and every pin counts as
\* confirmed.
LEMMA InitIInv == Init => IInv
  BY ConnectionAssumption
     DEF Init, IInv, TypeOK, TrustInv, CommandOwnsTask, SessionsLanded, KeyPresented,
         PromptsHaveAVerifier, AnswersApproved, TaskTrusted,
         KeysPinnedByOperator, CredentialsOnlyToApproved, CmdPc, TaskPc,
         ConnectionState, Host

\* One step of the program keeps every part of the invariant.
LEMMA NextIInv == IInv /\ [Next]_vars => IInv'
  <1> SUFFICES ASSUME IInv, [Next]_vars PROVE IInv'
    OBVIOUS
  <1> USE ConnectionAssumption DEF IInv, TypeOK, TrustInv, CommandOwnsTask, SessionsLanded, KeyPresented,
          PromptsHaveAVerifier, AnswersApproved, TaskTrusted,
          KeysPinnedByOperator, CredentialsOnlyToApproved, CmdPc, TaskPc,
          ConnectionState, Host, dbVars, promptVars, attemptVars, opVars,
          historyVars, Goto, TaskGoto, Emit
  <1>1. ASSUME NEW a \in Attempts, NEW s \in Servers, Connect(a, s) PROVE IInv'
    <2>1. TypeOK'
      BY <1>1 DEF Connect
    <2>2. CommandOwnsTask'
      BY <1>1 DEF Connect
    <2>3. SessionsLanded'
      BY <1>1 DEF Connect
    <2>4. KeyPresented'
      BY <1>1 DEF Connect
    <2>5. PromptsHaveAVerifier'
      BY <1>1 DEF Connect
    <2>6. AnswersApproved'
      <3>1. answer[a] = "none"
        BY <1>1 DEF Connect
      <3>2. ASSUME NEW b \in Attempts, b # a
            PROVE  Host(b)' = Host(b) /\ key'[b] = key[b]
        BY <1>1, <3>2 DEF Connect
      <3>3. QED
        BY <1>1, <3>1, <3>2 DEF Connect
    <2>7. TaskTrusted'
      BY <1>1 DEF Connect
    <2>8. KeysPinnedByOperator'
      BY <1>1 DEF Connect
    <2>9. CredentialsOnlyToApproved'
      BY <1>1 DEF Connect
    <2> QED
      BY <2>1, <2>2, <2>3, <2>4, <2>5, <2>6, <2>7, <2>8, <2>9
  <1>2. ASSUME NEW a \in Attempts, NEW v \in {"trust", "decline"}, Resolve(a, v)
        PROVE  IInv'
    BY <1>2 DEF Resolve, Deliver
  <1>3. ASSUME NEW a \in Attempts, CheckExisting(a) PROVE IInv'
    BY <1>3 DEF CheckExisting, HasLiveSession
  <1>4. ASSUME NEW a \in Attempts, ResolveSecret(a) PROVE IInv'
    BY <1>4 DEF ResolveSecret
  <1>5. ASSUME NEW a \in Attempts, ConnectError(a) PROVE IInv'
    BY <1>5 DEF ConnectError
  <1>6. ASSUME NEW a \in Attempts, ConnectTimeout(a) PROVE IInv'
    BY <1>6 DEF ConnectTimeout
  <1>7. ASSUME NEW a \in Attempts, Land(a) PROVE IInv'
    BY <1>7 DEF Land, HasLiveSession
  <1>8. ASSUME NEW a \in Attempts, DropDuplicate(a) PROVE IInv'
    BY <1>8 DEF DropDuplicate
  <1>9. ASSUME NEW a \in Attempts, StatusUnreadable(a) PROVE IInv'
    BY <1>9 DEF StatusUnreadable
  <1>10. ASSUME NEW a \in Attempts, StatusKnown(a) PROVE IInv'
    BY <1>10 DEF StatusKnown, IsKnown
  <1>11. ASSUME NEW a \in Attempts, Ask(a) PROVE IInv'
    <2>1. TypeOK'
      BY <1>11 DEF Ask, Register, IsKnown
    <2>2. CommandOwnsTask'
      BY <1>11 DEF Ask, Register, IsKnown
    <2>3. SessionsLanded'
      BY <1>11 DEF Ask, Register, IsKnown
    <2>4. KeyPresented'
      BY <1>11 DEF Ask, Register, IsKnown
    <2>5. PromptsHaveAVerifier'
      <3>1. answer[a] = "none" /\ answer' = answer
        BY <1>11 DEF Ask, Register
      <3>2. a \notin waiting
        BY <1>11 DEF Ask, Register
      <3>3. waiting' \subseteq waiting \cup {a}
        BY <1>11 DEF Ask, Register
      <3>4. a \in waiting' => task'[a] = "wait"
        BY <1>11, <3>2 DEF Ask, Register
      <3>5. \A b \in Attempts : b # a => task'[b] = task[b]
        BY <1>11 DEF Ask, Register
      <3>6. QED
        BY <3>1, <3>3, <3>4, <3>5
    <2>6. AnswersApproved'
      BY <1>11 DEF Ask, Register, IsKnown
    <2>7. TaskTrusted'
      BY <1>11 DEF Ask, Register, IsKnown
    <2>8. KeysPinnedByOperator'
      BY <1>11 DEF Ask, Register, IsKnown
    <2>9. CredentialsOnlyToApproved'
      BY <1>11 DEF Ask, Register, IsKnown
    <2> QED
      BY <2>1, <2>2, <2>3, <2>4, <2>5, <2>6, <2>7, <2>8, <2>9
  <1>12. ASSUME NEW a \in Attempts, Answered(a) PROVE IInv'
    BY <1>12 DEF Answered, Verdict
  <1>13. ASSUME NEW a \in Attempts, PromptTimeout(a) PROVE IInv'
    BY <1>13 DEF PromptTimeout, Verdict, Forget
  <1>14. ASSUME NEW a \in Attempts, Persist(a) PROVE IInv'
    BY <1>14 DEF Persist, TrustKey
  <1>15. ASSUME NEW a \in Attempts, Grant(a) PROVE IInv'
    BY <1>15 DEF Grant
  <1>16. ASSUME NEW a \in Attempts, DialFails(a) PROVE IInv'
    BY <1>16 DEF DialFails
  <1>17. ASSUME NEW a \in Attempts, TcpUp(a) PROVE IInv'
    BY <1>17 DEF TcpUp
  <1>18. ASSUME NEW a \in Attempts, KexFails(a) PROVE IInv'
    BY <1>18 DEF KexFails
  <1>19. ASSUME NEW a \in Attempts, CheckServerKey(a) PROVE IInv'
    <2>1. TypeOK'
      BY <1>19 DEF CheckServerKey
    <2>2. CommandOwnsTask'
      BY <1>19 DEF CheckServerKey
    <2>3. SessionsLanded'
      BY <1>19 DEF CheckServerKey
    <2>4. KeyPresented'
      BY <1>19 DEF CheckServerKey
    <2>5. PromptsHaveAVerifier'
      BY <1>19 DEF CheckServerKey
    <2>6. AnswersApproved'
      <3>1. answer[a] = "none"
        BY <1>19 DEF CheckServerKey
      <3>2. ASSUME NEW b \in Attempts, b # a
            PROVE  Host(b)' = Host(b) /\ key'[b] = key[b] /\ task'[b] = task[b]
        BY <1>19, <3>2 DEF CheckServerKey
      <3>3. QED
        BY <1>19, <3>1, <3>2 DEF CheckServerKey
    <2>7. TaskTrusted'
      BY <1>19 DEF CheckServerKey
    <2>8. KeysPinnedByOperator'
      BY <1>19 DEF CheckServerKey
    <2>9. CredentialsOnlyToApproved'
      BY <1>19 DEF CheckServerKey
    <2> QED
      BY <2>1, <2>2, <2>3, <2>4, <2>5, <2>6, <2>7, <2>8, <2>9
  <1>20. ASSUME NEW a \in Attempts, KexDone(a) PROVE IInv'
    BY <1>20 DEF KexDone
  <1>21. ASSUME NEW a \in Attempts, TaskEnds(a) PROVE IInv'
    BY <1>21 DEF TaskEnds
  <1>22. ASSUME NEW a \in Attempts, TransportLost(a) PROVE IInv'
    BY <1>22 DEF TransportLost
  <1>23. ASSUME NEW a \in Attempts, OfferCredential(a) PROVE IInv'
    BY <1>23 DEF OfferCredential
  <1>24. ASSUME NEW a \in Attempts, AuthFails(a) PROVE IInv'
    BY <1>24 DEF AuthFails
  <1>25. ASSUME NEW a \in Attempts, AuthSucceeds(a) PROVE IInv'
    BY <1>25 DEF AuthSucceeds
  <1>26. ASSUME NEW s \in Servers, Disconnect(s) PROVE IInv'
    BY <1>26 DEF Disconnect
  <1>27. ASSUME NEW s \in Servers, DeleteServer(s) PROVE IInv'
    BY <1>27 DEF DeleteServer
  <1>28. ASSUME NEW s \in Servers, DisconnectEmit(s) PROVE IInv'
    BY <1>28 DEF DisconnectEmit
  <1>29. ASSUME NEW s \in Servers, DeleteRow(s) PROVE IInv'
    BY <1>29 DEF DeleteRow
  <1>30. CASE Restart
    BY <1>30 DEF Restart
  <1>31. CASE UNCHANGED vars
    BY <1>31 DEF vars
  <1> HIDE DEF IInv
  <1>32. QED
    BY <1>1, <1>2, <1>3, <1>4, <1>5, <1>6, <1>7, <1>8, <1>9, <1>10, <1>11, <1>12, <1>13, <1>14, <1>15, <1>16, <1>17, <1>18, <1>19, <1>20, <1>21, <1>22, <1>23, <1>24, <1>25, <1>26, <1>27, <1>28, <1>29, <1>30, <1>31
       DEF Next, Operator, Command, Verifier, Network

\* The inductive invariant holds of every reachable state.
LEMMA Invariance == Spec => []IInv
  BY InitIInv, NextIInv, PTL DEF Spec

\* Type correctness, for any number of servers and connect commands.
THEOREM TypeCorrect == Spec => []TypeOK
  BY Invariance, PTL DEF IInv

\* hosts.rs:57-61: a pin is only ever the result of an explicit confirmation.
THEOREM PinsAreConfirmed == Spec => []KeysPinnedByOperator
  BY Invariance, PTL DEF IInv, TrustInv

\* session.rs:95-97: no credential goes to a host whose key was not confirmed.
THEOREM CredentialsAreSafe == Spec => []CredentialsOnlyToApproved
  BY Invariance, PTL DEF IInv, TrustInv

\* hostkey.rs:38-57: no prompt outlives its verifier, so none is answered late.
THEOREM NoOrphanPrompts == Spec => []PromptsHaveAVerifier
  BY Invariance, PTL DEF IInv, TrustInv

-------------------------------------------------------------------------------
(* No live session is stranded.                                            *)

\* A step loses a live session only by closing it or by putting it in the map.
LEMMA ReachableStep ==
    IInv /\ LiveSessionsReachable /\ [Next]_vars => LiveSessionsReachable'
  <1> SUFFICES ASSUME IInv, LiveSessionsReachable, [Next]_vars
               PROVE  LiveSessionsReachable'
    OBVIOUS
  <1> USE DEF LiveSessionsReachable
  <1>1. TypeOK /\ CommandOwnsTask /\ SessionsLanded
    BY DEF IInv, TrustInv
  <1>2. ASSUME NEW a \in Attempts, NEW s \in Servers, Connect(a, s)
        PROVE  LiveSessionsReachable'
    BY <1>1, <1>2 DEF Connect, Goto, TypeOK, CommandOwnsTask
  <1>3. ASSUME NEW a \in Attempts, Land(a)
        PROVE  LiveSessionsReachable'
    <2>1. CASE HasLiveSession(target[a])
      BY <1>1, <1>3, <2>1
         DEF Land, Goto, TypeOK, attemptVars
    <2>2. CASE ~HasLiveSession(target[a])
      <3>1. /\ sessions' = [sessions EXCEPT ![target[a]] = a]
            /\ cmd' = [cmd EXCEPT ![a] = "connected"]
            /\ task' = task /\ target' = target
        BY <1>3, <2>2 DEF Land, Goto, attemptVars
      <3>2. target[a] \in Servers
        BY <1>1, <1>3 DEF CommandOwnsTask, Land
      <3>3. ASSUME NEW b \in Attempts, b # a, task[b] = "up",
                   sessions[target[b]] = b, target[b] = target[a]
            PROVE  FALSE
        BY <2>2, <3>3, ConnectionAssumption DEF HasLiveSession, IsClosed
      <3>4. QED
        BY <1>1, <3>1, <3>2, <3>3 DEF TypeOK
    <2>3. QED
      BY <2>1, <2>2
  <1>4. ASSUME NEW a \in Attempts,
               \/ CheckExisting(a) \/ ResolveSecret(a) \/ ConnectError(a)
               \/ ConnectTimeout(a) \/ DropDuplicate(a)
        PROVE  LiveSessionsReachable'
    BY <1>1, <1>4
       DEF CheckExisting, ResolveSecret, ConnectError, ConnectTimeout,
           DropDuplicate, Goto, TaskGoto, TypeOK, CommandOwnsTask, attemptVars
  <1>5. ASSUME NEW a \in Attempts, Verifier(a)
        PROVE  LiveSessionsReachable'
    BY <1>1, <1>5
       DEF Verifier, StatusUnreadable, StatusKnown, Ask, Register, Answered, Verdict,
           PromptTimeout, Persist, TrustKey, Grant, TaskGoto, TypeOK, attemptVars
  <1>6. ASSUME NEW a \in Attempts, Network(a)
        PROVE  LiveSessionsReachable'
    BY <1>1, <1>6
       DEF Network, DialFails, TcpUp, KexFails, CheckServerKey, KexDone,
           TaskEnds, TransportLost, OfferCredential, AuthFails, AuthSucceeds,
           Goto, TaskGoto, TypeOK, CommandOwnsTask, attemptVars
  <1>7. ASSUME NEW s \in Servers, Disconnect(s) \/ DeleteServer(s)
        PROVE  LiveSessionsReachable'
    BY <1>1, <1>7, ConnectionAssumption
       DEF Disconnect, DeleteServer, TypeOK, CommandOwnsTask, SessionsLanded,
           attemptVars
  <1>8. ASSUME NEW a \in Attempts, NEW v \in {"trust", "decline"}, Resolve(a, v)
        PROVE  LiveSessionsReachable'
    BY <1>8 DEF Resolve, Deliver, attemptVars
  <1>9. ASSUME NEW s \in Servers, DisconnectEmit(s) \/ DeleteRow(s)
        PROVE  LiveSessionsReachable'
    BY <1>9 DEF DisconnectEmit, DeleteRow, attemptVars
  <1>10. CASE Restart
    BY <1>1, <1>10 DEF Restart, TypeOK, TaskPc
  <1>11. CASE UNCHANGED vars
    BY <1>11 DEF vars, attemptVars
  <1> HIDE DEF LiveSessionsReachable
  <1>12. QED
    BY <1>2, <1>3, <1>4, <1>5, <1>6, <1>7, <1>8, <1>9, <1>10, <1>11
       DEF Next, Operator, Command

\* connection.rs:67-80: whatever connects, disconnects and deletions race, an
\* open session is held by its connect command or by the session map.
THEOREM NoStrandedSession == Spec => []LiveSessionsReachable
  <1>1. Init => LiveSessionsReachable
    BY DEF Init, LiveSessionsReachable
  <1>2. QED
    BY <1>1, Invariance, ReachableStep, PTL DEF Spec

-------------------------------------------------------------------------------
(* The verifier implements the abstract trust specification.               *)

\* Only three steps touch the trust variables, each as HostTrust allows.
LEMMA TrustStep == IInv /\ [Next]_vars => [Trust!Next]_Trust!vars
  <1> SUFFICES ASSUME IInv, [Next]_vars PROVE [Trust!Next]_Trust!vars
    OBVIOUS
  <1> USE DEF Trust!vars
  <1>1. TypeOK /\ CommandOwnsTask /\ KeyPresented /\ TaskTrusted
        /\ PromptsHaveAVerifier
    BY DEF IInv, TrustInv
  <1>2. ASSUME NEW a \in Attempts, task[a] \notin {"none", "kex", "rejected", "ended"}
        PROVE  Host(a) \in Hosts /\ key[a] \in Keys
    BY <1>1, <1>2, ConnectionAssumption
       DEF Host, CommandOwnsTask, KeyPresented, TypeOK
  <1>3. ASSUME NEW a \in Attempts, NEW v \in {"trust", "decline"}, Resolve(a, v)
        PROVE  [Trust!Next]_Trust!vars
    <2>1. Host(a) \in Hosts /\ key[a] \in Keys
      BY <1>1, <1>2, <1>3 DEF Resolve, Deliver, PromptsHaveAVerifier
    <2>2. CASE v = "trust"
      BY <1>3, <2>1, <2>2 DEF Resolve, Deliver, dbVars, Trust!Next, Trust!Approve
    <2>3. CASE v = "decline"
      BY <1>3, <2>3 DEF Resolve, Deliver, dbVars
    <2>4. QED
      BY <2>2, <2>3
  <1>4. ASSUME NEW a \in Attempts, Persist(a)
        PROVE  [Trust!Next]_Trust!vars
    <2>1. Host(a) \in Hosts /\ key[a] \in Keys /\ <<Host(a), key[a]>> \in approved
      BY <1>1, <1>2, <1>4 DEF Persist, TrustKey, TaskTrusted
    <2>2. QED
      BY <1>4, <2>1 DEF Persist, TrustKey, historyVars, Trust!Next, Trust!Pin
  <1>5. ASSUME NEW a \in Attempts, OfferCredential(a)
        PROVE  [Trust!Next]_Trust!vars
    <2>1. Host(a) \in Hosts /\ key[a] \in Keys /\ <<Host(a), key[a]>> \in approved
      BY <1>1, <1>2, <1>5 DEF OfferCredential, TaskTrusted
    <2>2. QED
      BY <1>5, <2>1 DEF OfferCredential, dbVars, Trust!Next, Trust!Offer
  <1>6. ASSUME NEW a \in Attempts,
               \/ Command(a)
               \/ StatusUnreadable(a) \/ StatusKnown(a) \/ Ask(a) \/ Answered(a)
               \/ PromptTimeout(a) \/ Grant(a)
               \/ DialFails(a) \/ TcpUp(a) \/ KexFails(a) \/ CheckServerKey(a)
               \/ KexDone(a) \/ TaskEnds(a) \/ TransportLost(a)
               \/ AuthFails(a) \/ AuthSucceeds(a)
        PROVE  UNCHANGED Trust!vars
    BY <1>6
       DEF Command, CheckExisting, ResolveSecret, ConnectError, ConnectTimeout,
           Land, DropDuplicate, StatusUnreadable, StatusKnown, Ask, Register, Answered,
           PromptTimeout, Grant, DialFails, TcpUp, KexFails, CheckServerKey,
           KexDone, TaskEnds, TransportLost, AuthFails, AuthSucceeds, dbVars,
           historyVars
  <1>7. ASSUME NEW a \in Attempts, NEW s \in Servers, Connect(a, s)
        PROVE  UNCHANGED Trust!vars
    BY <1>7 DEF Connect, dbVars, historyVars
  <1>8. ASSUME NEW s \in Servers,
               Disconnect(s) \/ DeleteServer(s) \/ DisconnectEmit(s) \/ DeleteRow(s)
        PROVE  UNCHANGED Trust!vars
    BY <1>8 DEF Disconnect, DeleteServer, DisconnectEmit, DeleteRow, dbVars,
                historyVars
  <1>9. CASE Restart
    BY <1>9 DEF Restart, dbVars, historyVars
  <1>10. CASE UNCHANGED vars
    BY <1>10 DEF vars, dbVars, historyVars
  <1>11. QED
    BY <1>3, <1>4, <1>5, <1>6, <1>7, <1>8, <1>9, <1>10
       DEF Next, Operator, Verifier, Network

\* Everything the program does to pins, confirmations and credentials is
\* behaviour of HostTrust.
THEOREM ImplementsTrust == Spec => TrustSpec
  <1>1. Init => Trust!Init
    BY DEF Init, Trust!Init
  <1>2. QED
    BY <1>1, Invariance, TrustStep, PTL DEF Spec, TrustSpec, Trust!Spec

-------------------------------------------------------------------------------
(* What is shown as connected.                                             *)

\* A command that landed stays so, for its server.
LandedStay ==
    \A a \in Attempts : cmd[a] = "connected" => cmd'[a] = "connected" /\ target'[a] = target[a]

\* "Connected" is newly shown only by a command that lands.
ShownByLanding ==
    \A s \in Servers : shown'[s] = "Connected" =>
        \/ shown[s] = "Connected"
        \/ \E a \in Attempts : target'[a] = s /\ cmd'[a] = "connected"

\* Nothing but a restart, which clears what is shown, forgets that a command landed.
LEMMA ShownStep ==
    IInv /\ ConnectedWasAuthenticated /\ [Next]_vars => ConnectedWasAuthenticated'
  <1> SUFFICES ASSUME IInv, ConnectedWasAuthenticated, [Next]_vars
               PROVE  ConnectedWasAuthenticated'
    OBVIOUS
  <1>0. TypeOK /\ CommandOwnsTask
    BY DEF IInv, TrustInv
  <1>q. LandedStay /\ ShownByLanding => ConnectedWasAuthenticated'
    BY DEF LandedStay, ShownByLanding, ConnectedWasAuthenticated
  <1>s. ASSUME NEW s, NEW st \in ConnectionState \ {"Connected"}, Emit(s, st)
        PROVE  ShownByLanding
    BY <1>0, <1>s DEF Emit, ShownByLanding, TypeOK
  <1>u. UNCHANGED shown => ShownByLanding
    BY DEF ShownByLanding
  <1>g. ASSUME NEW a \in Attempts, NEW pc, Goto(a, pc), cmd[a] # "connected", UNCHANGED target
        PROVE  LandedStay
    BY <1>0, <1>g DEF Goto, LandedStay, TypeOK
  <1>k. UNCHANGED <<cmd, target>> => LandedStay
    BY DEF LandedStay
  <1>e. {"Error", "Connecting", "VerifyingHost", "Authenticating", "Disconnected"}
           \subseteq ConnectionState \ {"Connected"}
    BY DEF ConnectionState
  <1>1. ASSUME NEW a \in Attempts, NEW s \in Servers, Connect(a, s)
        PROVE  ConnectedWasAuthenticated'
    <2>1. LandedStay
      BY <1>0, <1>1 DEF Connect, Goto, LandedStay, TypeOK
    <2> QED BY <1>1, <1>q, <1>u, <2>1 DEF Connect
  <1>2. ASSUME NEW a \in Attempts,
               CheckExisting(a) \/ ResolveSecret(a) \/ ConnectError(a) \/ ConnectTimeout(a)
        PROVE  ConnectedWasAuthenticated'
    <2>1. LandedStay
      BY <1>2, <1>g
         DEF CheckExisting, ResolveSecret, ConnectError, ConnectTimeout, attemptVars
    <2>2. ShownByLanding
      BY <1>2, <1>s, <1>u, <1>e
         DEF CheckExisting, ResolveSecret, ConnectError, ConnectTimeout
    <2> QED BY <1>q, <2>1, <2>2
  <1>3. ASSUME NEW a \in Attempts, Land(a) \/ DropDuplicate(a)
        PROVE  ConnectedWasAuthenticated'
    <2>1. LandedStay /\ UNCHANGED target
      BY <1>3, <1>g DEF Land, DropDuplicate, attemptVars
    <2>2. ShownByLanding
      <3>1. CASE UNCHANGED shown
        BY <1>u, <3>1
      <3>2. CASE Goto(a, "connected") /\ Emit(target[a], "Connected")
        BY <1>0, <2>1, <3>2 DEF Goto, Emit, ShownByLanding, TypeOK
      <3> QED BY <1>3, <3>1, <3>2 DEF Land, DropDuplicate
    <2> QED BY <1>q, <2>1, <2>2
  <1>4. ASSUME NEW a \in Attempts, Verifier(a) PROVE ConnectedWasAuthenticated'
    <2>1. LandedStay
      BY <1>4, <1>k
         DEF Verifier, StatusUnreadable, StatusKnown, Ask, Answered, PromptTimeout, Persist,
             Grant, attemptVars
    <2>2. ShownByLanding
      BY <1>4, <1>s, <1>u, <1>e
         DEF Verifier, StatusUnreadable, StatusKnown, Ask, Answered, PromptTimeout, Persist,
             Grant
    <2> QED BY <1>q, <2>1, <2>2
  <1>5. ASSUME NEW a \in Attempts, Network(a) PROVE ConnectedWasAuthenticated'
    <2>1. LandedStay
      BY <1>5, <1>g, <1>k
         DEF Network, DialFails, TcpUp, KexFails, CheckServerKey, KexDone, TaskEnds,
             TransportLost, OfferCredential, AuthFails, AuthSucceeds, attemptVars
    <2>2. ShownByLanding
      BY <1>5, <1>s, <1>u, <1>e
         DEF Network, DialFails, TcpUp, KexFails, CheckServerKey, KexDone, TaskEnds,
             TransportLost, OfferCredential, AuthFails, AuthSucceeds
    <2> QED BY <1>q, <2>1, <2>2
  <1>6. ASSUME NEW a \in Attempts, NEW v \in {"trust", "decline"}, Resolve(a, v)
        PROVE  ConnectedWasAuthenticated'
    BY <1>6, <1>q, <1>u, <1>k DEF Resolve, attemptVars
  <1>7. ASSUME NEW s \in Servers,
               Disconnect(s) \/ DeleteServer(s) \/ DisconnectEmit(s) \/ DeleteRow(s)
        PROVE  ConnectedWasAuthenticated'
    BY <1>7, <1>q, <1>s, <1>u, <1>k, <1>e
       DEF Disconnect, DeleteServer, DisconnectEmit, DeleteRow, attemptVars
  <1>8. CASE Restart
    BY <1>8 DEF Restart, ConnectedWasAuthenticated
  <1>9. CASE UNCHANGED vars
    BY <1>9, <1>q, <1>u, <1>k DEF vars, attemptVars
  <1> QED
    BY <1>1, <1>2, <1>3, <1>4, <1>5, <1>6, <1>7, <1>8, <1>9 DEF Next, Operator, Command

\* inventory.rs:131-133: what is shown as connected was authenticated and landed
\* in this run of the program, whatever other attempts, timeouts and deletions
\* emitted in between.
THEOREM ShownConnectedIsEarned == Spec => []ConnectedWasAuthenticated
  <1>1. Init => ConnectedWasAuthenticated
    BY DEF Init, ConnectedWasAuthenticated
  <1> QED BY <1>1, Invariance, ShownStep, PTL DEF Spec

=============================================================================
