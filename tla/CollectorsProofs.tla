--------------------------- MODULE CollectorsProofs ---------------------------
(* Proofs about Collectors for every set of servers, runs and sessions.    *)
EXTENDS Collectors, TLAPS

\* The map registers runs under their own server, after their spawn; only
\* registered runs are aborted and only spawned ones have a task.
Registry ==
    /\ \A r \in Runs : start[r] # "idle" => of[r] \in Servers
    /\ \A r \in Runs : task[r] # "none" => start[r] \in {"spawned", "registered"}
    /\ \A s \in Servers :
          tasks[s] # None => of[tasks[s]] = s /\ start[tasks[s]] = "registered"

IInv == TypeOK /\ Registry /\ LostOnlyToForget

\* Initially nothing runs and nothing is registered.
LEMMA InitIInv == Init => IInv
  BY DEF Init, IInv, TypeOK, Registry, LostOnlyToForget, StartPc, TaskPc, Streaming

\* Types and the registry are kept by every step.
LEMMA NextRegistry == TypeOK /\ Registry /\ [Next]_vars => TypeOK' /\ Registry'
  <1> SUFFICES ASSUME TypeOK, Registry, [Next]_vars PROVE TypeOK' /\ Registry'
    OBVIOUS
  <1> USE CollectorsAssumption DEF TypeOK, Registry, StartPc, TaskPc, sessionVars
  <1>1. ASSUME NEW r \in Runs, NEW s \in Servers, StartCollector(r, s)
        PROVE  TypeOK' /\ Registry'
    BY <1>1 DEF StartCollector
  <1>2. ASSUME NEW r \in Runs, OpenStream(r) \/ OpenFails(r)
        PROVE  TypeOK' /\ Registry'
    BY <1>2 DEF OpenStream, OpenFails
  <1>3. ASSUME NEW r \in Runs, Replace(r)
        PROVE  TypeOK' /\ Registry'
    BY <1>3 DEF Replace, Abort
  <1>4. ASSUME NEW r \in Runs, StreamExits(r) \/ Forget(r) \/ Cancelled(r)
        PROVE  TypeOK' /\ Registry'
    BY <1>4 DEF StreamExits, Forget, Cancelled, Streaming
  <1>5. ASSUME NEW s \in Servers, NEW x \in Sessions, SessionLands(s, x)
        PROVE  TypeOK' /\ Registry'
    BY <1>5 DEF SessionLands
  <1>6. ASSUME NEW s \in Servers, StopCollector(s)
        PROVE  TypeOK' /\ Registry'
    BY <1>6 DEF StopCollector, Abort
  <1>7. ASSUME NEW s \in Servers, SessionClosed(s) \/ SessionDropped(s)
        PROVE  TypeOK' /\ Registry'
    BY <1>7 DEF SessionClosed, SessionDropped
  <1>8. ASSUME NEW x \in Sessions, TransportLost(x)
        PROVE  TypeOK' /\ Registry'
    BY <1>8 DEF TransportLost
  <1>9. CASE UNCHANGED vars
    BY <1>9 DEF vars
  <1> HIDE DEF TypeOK, Registry
  <1>10. QED
    BY <1>1, <1>2, <1>3, <1>4, <1>5, <1>6, <1>7, <1>8, <1>9 DEF Next

\* The steps that change the map abort what they remove, or are a forget().
LEMMA NextLost == IInv /\ [Next]_vars => LostOnlyToForget'
  <1> SUFFICES ASSUME IInv, [Next]_vars PROVE LostOnlyToForget'
    OBVIOUS
  <1> USE CollectorsAssumption
      DEF IInv, TypeOK, Registry, LostOnlyToForget, Streaming, sessionVars
  <1>1. ASSUME NEW r \in Runs, NEW s \in Servers, StartCollector(r, s)
        PROVE  LostOnlyToForget'
    BY <1>1 DEF StartCollector
  <1>2. ASSUME NEW r \in Runs, OpenStream(r) \/ OpenFails(r)
        PROVE  LostOnlyToForget'
    BY <1>2 DEF OpenStream, OpenFails
  <1>3. ASSUME NEW r \in Runs, Replace(r)
        PROVE  LostOnlyToForget'
    BY <1>3 DEF Replace, Abort
  <1>4. ASSUME NEW r \in Runs, StreamExits(r) \/ Cancelled(r)
        PROVE  LostOnlyToForget'
    BY <1>4 DEF StreamExits, Cancelled
  <1>5. ASSUME NEW r \in Runs, Forget(r)
        PROVE  LostOnlyToForget'
    BY <1>5 DEF Forget
  <1>6. ASSUME NEW s \in Servers, StopCollector(s)
        PROVE  LostOnlyToForget'
    BY <1>6 DEF StopCollector, Abort
  <1>7. CASE UNCHANGED <<start, of, task, aborted, tasks>>
    BY <1>7
  <1> HIDE DEF LostOnlyToForget, IInv
  <1>8. QED
    BY <1>1, <1>2, <1>3, <1>4, <1>5, <1>6, <1>7
       DEF Next, SessionLands, SessionClosed, SessionDropped, TransportLost, vars

\* The inductive invariant holds of every reachable state.
LEMMA Invariance == Spec => []IInv
  <1>1. IInv /\ [Next]_vars => IInv'
    BY NextRegistry, NextLost DEF IInv
  <1> QED BY InitIInv, <1>1, PTL DEF Spec

\* The commands, the tasks and the registry keep to their types.
THEOREM TypeCorrect == Spec => []TypeOK
  <1>1. IInv => TypeOK
    BY DEF IInv
  <1> QED BY Invariance, <1>1, PTL

\* A running collector's handle is never lost by start, stop or a session's end,
\* only by another task's forget(), for any number of servers and runs.
THEOREM HandlesLostOnlyToForget == Spec => []LostOnlyToForget
  <1>1. IInv => LostOnlyToForget
    BY DEF IInv
  <1> QED BY Invariance, <1>1, PTL
=============================================================================
