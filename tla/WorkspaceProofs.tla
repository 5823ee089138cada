-------------------------- MODULE WorkspaceProofs --------------------------
(***************************************************************************)
(* Proofs about Workspace: whatever the forwarded connections do, the      *)
(* connection core in it behaves as Client and the tunnels as Tunnels, so  *)
(* what ClientProofs and TunnelsProofs establish holds of the composition; *)
(* and nobody waits in a circle.                                           *)
(***************************************************************************)
EXTENDS Workspace, TLAPS

CP == INSTANCE ClientProofs WITH
        Callers <- Callers \cup Links,
        Tools <- [g \in Callers \cup Links |->
                     IF g \in Links THEN {"forward"} ELSE Tools]

TP == INSTANCE TunnelsProofs WITH Closers <- Callers

\* The parts' assumptions hold of their instances here.
LEMMA PartsAssumptions ==
  /\ [g \in Callers \cup Links |-> IF g \in Links THEN {"forward"} ELSE Tools]
        \in [Callers \cup Links -> SUBSET CP!Handlers]
  /\ None \notin (Callers \cup Links) \cup Hosts \cup Conns \cup {Root, Torn}
  /\ None \notin Ids \cup Callers
  BY WorkspaceAssumption DEF C!Handlers, CP!Handlers

\* CP and C are instances of one module with one substitution, and so are TP
\* and T: their definitions are the same formulas.
LEMMA SameCore ==
  /\ C!NewClient <=> CP!NewClient
  /\ [C!Next]_(C!vars) <=> [CP!Next]_(CP!vars)
  /\ (C!IInv <=> CP!IInv) /\ (C!IInv' <=> CP!IInv')
  <1>1. C!NewClient <=> CP!NewClient
    BY DEF C!NewClient, CP!NewClient
  <1>2. [C!Next]_(C!vars) <=> [CP!Next]_(CP!vars)
    BY DEF
       C!Live, CP!Live, C!Goto, CP!Goto, C!Return, CP!Return, C!RacesWith, CP!RacesWith,
       C!CwdReads, CP!CwdReads, C!CwdAfter, CP!CwdAfter, C!Ensured, CP!Ensured,
       C!Enter, CP!Enter, C!InvokeConnect, CP!InvokeConnect,
       C!InvokeDisconnect, CP!InvokeDisconnect, C!InvokeRun, CP!InvokeRun,
       C!InvokeSearch, CP!InvokeSearch, C!InvokeFile, CP!InvokeFile,
       C!InvokeForward, CP!InvokeForward, C!InvokeSetSudo, CP!InvokeSetSudo,
       C!CloseLock, CP!CloseLock, C!CloseClients, CP!CloseClients,
       C!SetConfig, CP!SetConfig, C!SetSudo, CP!SetSudo, C!ConnectLock, CP!ConnectLock,
       C!DialFails, CP!DialFails, C!DialSucceeds, CP!DialSucceeds,
       C!SftpFails, CP!SftpFails, C!Install, CP!Install,
       C!ConnectReturns, CP!ConnectReturns, C!CwdIsSet, CP!CwdIsSet,
       C!CwdIsUnset, CP!CwdIsUnset, C!InitCwd, CP!InitCwd,
       C!ReportConnected, CP!ReportConnected, C!EnsureCheck, CP!EnsureCheck,
       C!EnsureSnapshot, CP!EnsureSnapshot, C!Probe, CP!Probe, C!GetClient, CP!GetClient,
       C!ReadCwd, CP!ReadCwd, C!PickSudo, CP!PickSudo, C!StartCommand, CP!StartCommand,
       C!CommandDetaches, CP!CommandDetaches, C!CommandEnds, CP!CommandEnds,
       C!SetCwd, CP!SetCwd, C!ResolvePath, CP!ResolvePath, C!MkdirAll, CP!MkdirAll, C!Mkdir, CP!Mkdir,
       C!UseEnds, CP!UseEnds, C!SftpDies, CP!SftpDies, C!GoSilent, CP!GoSilent,
       C!TransportFails, CP!TransportFails, C!Invoke, CP!Invoke, C!LockStep, CP!LockStep,
       C!Step, CP!Step, C!Network, CP!Network, C!Next, CP!Next, C!state, CP!state,
       C!world, CP!world, C!locals, CP!locals, C!vars, CP!vars
  <1>3. (C!IInv <=> CP!IInv) /\ (C!IInv' <=> CP!IInv')
    BY DEF
       C!IInv, CP!IInv, C!TypeOK, CP!TypeOK, C!MutexHeld, CP!MutexHeld,
       C!ClientsArePaired, CP!ClientsArePaired, C!ClientInstalled, CP!ClientInstalled,
       C!NeverNilClient, CP!NeverNilClient, C!LegsInOrder, CP!LegsInOrder,
       C!DialInProgress, CP!DialInProgress, C!InstalledWasDialled, CP!InstalledWasDialled,
       C!SwitchInProgress, CP!SwitchInProgress, C!Connectors, CP!Connectors,
       C!Critical, CP!Critical, C!Dirs, CP!Dirs, C!Ops, CP!Ops, C!Legs, CP!Legs,
       C!NetStates, CP!NetStates, C!PCs, CP!PCs
  <1>4. QED
    BY <1>1, <1>2, <1>3

\* The same for the tunnels.
LEMMA SameTunnels ==
  /\ T!Init <=> TP!Init
  /\ [T!Next]_(T!vars) <=> [TP!Next]_(TP!vars)
  /\ (T!IInv <=> TP!IInv) /\ (T!IInv' <=> TP!IInv')
  <1>1. T!Init <=> TP!Init
    BY DEF T!Init, TP!Init
  <1>2. [T!Next]_(T!vars) <=> [TP!Next]_(TP!vars)
    BY DEF
       T!Bind, TP!Bind, T!Register, TP!Register, T!StartLoop, TP!StartLoop,
       T!LoopGoes, TP!LoopGoes, T!AcceptFails, TP!AcceptFails,
       T!CheckStopped, TP!CheckStopped, T!LoopReturns, TP!LoopReturns, T!Goto, TP!Goto,
       T!InvokeClose, TP!InvokeClose, T!Unlock, TP!Unlock, T!LockClose, TP!LockClose,
       T!LockCloseAll, TP!LockCloseAll, T!NextTunnel, TP!NextTunnel,
       T!CloseAllReturns, TP!CloseAllReturns, T!CompareAndSwap, TP!CompareAndSwap,
       T!CloseStopChan, TP!CloseStopChan, T!CloseListener, TP!CloseListener,
       T!Delete, TP!Delete, T!OpenStep, TP!OpenStep, T!LoopStep, TP!LoopStep,
       T!LockStep, TP!LockStep, T!CloseStep, TP!CloseStep, T!Next, TP!Next,
       T!tunnels, TP!tunnels, T!held, TP!held, T!closers, TP!closers, T!vars, TP!vars
  <1>3. (T!IInv <=> TP!IInv) /\ (T!IInv' <=> TP!IInv')
    BY DEF
       T!IInv, TP!IInv, T!TypeOK, TP!TypeOK, T!LockInOrder, TP!LockInOrder,
       T!ClosingInOrder, TP!ClosingInOrder, T!Holding, TP!Holding,
       T!Registered, TP!Registered, T!BeingClosed, TP!BeingClosed
  <1>4. QED
    BY <1>1, <1>2, <1>3

-----------------------------------------------------------------------------
(* Every step of Workspace is one of Client or leaves it alone, and one of *)
(* Tunnels or leaves them alone                                            *)

\* The variables of the connection core.
LEMMA ClientStutter ==
  ASSUME UNCHANGED client
  PROVE  UNCHANGED C!vars
  BY DEF client, C!vars, C!state, C!world, C!locals

\* The variables of the tunnels.
LEMMA TunnelsStutter ==
  ASSUME UNCHANGED tunnels
  PROVE  UNCHANGED T!vars
  BY DEF tunnels, T!vars, T!tunnels, T!closers, T!held

\* Every step is one of Client, with an accepted connection as a caller.
LEMMA CoreSteps == [Next]_vars => [C!Next]_(C!vars)
  <1> SUFFICES ASSUME [Next]_vars PROVE [C!Next]_(C!vars)
    OBVIOUS
  <1>1. ASSUME NEW g \in Callers, Invoke(g) \/ CloseLock(g) \/ CloseClients(g)
        PROVE  [C!Next]_(C!vars)
    BY <1>1, ClientStutter DEF Invoke, CloseLock, CloseClients, C!Next, C!LockStep, C!Step
  <1>2. ASSUME NEW g \in Callers \cup Links, ClientLock(g) \/ ClientStep(g)
        PROVE  [C!Next]_(C!vars)
    BY <1>2 DEF ClientLock, ClientStep, C!Next
  <1>3. ASSUME NEW k \in Conns, Network(k) PROVE [C!Next]_(C!vars)
    BY <1>3 DEF Network, C!Next
  <1>4. CASE TunnelStep
    BY <1>4, ClientStutter DEF TunnelStep
  <1>5. ASSUME NEW k \in Links, (\E t \in Ids : Accept(t, k)) \/ Dial(k)
        PROVE  [C!Next]_(C!vars)
    BY <1>5 DEF Accept, Dial, C!Next, C!Invoke, C!Step
  <1>6. ASSUME NEW k \in Links,
               \/ NoClient(k) \/ ReceiveDone(k) \/ CloseConn(k)
               \/ \E w \in Ways : CopyEnds(k, w) \/ SendDone(k, w)
        PROVE  [C!Next]_(C!vars)
    BY <1>6, ClientStutter DEF NoClient, ReceiveDone, CloseConn, CopyEnds, SendDone
  <1>7. CASE UNCHANGED vars
    BY <1>7, ClientStutter DEF vars
  <1>8. QED
    BY <1>1, <1>2, <1>3, <1>4, <1>5, <1>6, <1>7 DEF Next, LinkStep

\* Every step is one of Tunnels, with the tool calls as closers.
LEMMA TunnelSteps == [Next]_vars => [T!Next]_(T!vars)
  <1> SUFFICES ASSUME [Next]_vars PROVE [T!Next]_(T!vars)
    OBVIOUS
  <1>1. ASSUME NEW g \in Callers, Invoke(g) \/ CloseLock(g) \/ CloseClients(g)
        PROVE  [T!Next]_(T!vars)
    BY <1>1, TunnelsStutter DEF Invoke, CloseLock, CloseClients, T!Next
  <1>2. ASSUME NEW g \in Callers \cup Links, ClientLock(g) \/ ClientStep(g)
        PROVE  [T!Next]_(T!vars)
    BY <1>2, TunnelsStutter DEF ClientLock, ClientStep
  <1>3. ASSUME NEW k \in Conns, Network(k) PROVE [T!Next]_(T!vars)
    BY <1>3, TunnelsStutter DEF Network
  <1>4. CASE TunnelStep
    BY <1>4 DEF TunnelStep, T!Next
  <1>5. ASSUME NEW k \in Links,
               \/ \E t \in Ids : Accept(t, k)
               \/ Dial(k) \/ NoClient(k) \/ ReceiveDone(k) \/ CloseConn(k)
               \/ \E w \in Ways : CopyEnds(k, w) \/ SendDone(k, w)
        PROVE  [T!Next]_(T!vars)
    BY <1>5, TunnelsStutter
       DEF Accept, Dial, NoClient, ReceiveDone, CloseConn, CopyEnds, SendDone
  <1>6. CASE UNCHANGED vars
    BY <1>6, TunnelsStutter DEF vars
  <1>7. QED
    BY <1>1, <1>2, <1>3, <1>4, <1>5, <1>6 DEF Next, LinkStep

\* The connection core of the composition is Client: forwarded connections
\* and disconnects that close tunnels do nothing to it that Client does not.
THEOREM ImplementsClient == Spec => C!Spec
  BY CoreSteps, PTL DEF Spec, Init, C!Spec

\* The tunnels of the composition are Tunnels.
THEOREM ImplementsTunnels == Spec => T!Spec
  BY TunnelSteps, PTL DEF Spec, Init, T!Spec

-----------------------------------------------------------------------------
(* The inductive invariant *)

\* The parts' invariants are inductive here as well.
LEMMA PartsKeepTheirs ==
  ASSUME IInv, [Next]_vars
  PROVE  C!IInv' /\ T!IInv'
  <1>1. C!IInv'
    BY CP!NextKeepsIInv, CoreSteps, SameCore, PartsAssumptions DEF IInv
  <1>2. T!IInv'
    BY TP!NextKeepsIInv, TunnelSteps, SameTunnels, PartsAssumptions DEF IInv
  <1>3. QED
    BY <1>1, <1>2

\* Each part is in one of its initial states, and nothing is forwarded yet.
LEMMA InitIInv == Init => IInv
  <1> SUFFICES ASSUME Init PROVE IInv
    OBVIOUS
  <1>1. C!IInv
    BY CP!InitIInv, SameCore, PartsAssumptions DEF Init
  <1>2. T!IInv
    BY TP!InitIInv, SameTunnels, PartsAssumptions DEF Init
  <1>3. TypeOK
    BY <1>1, <1>2 DEF Init, TypeOK, ForwardingTyped, C!IInv, T!IInv, Ways, Capacity
  <1>4. LocksNest
    BY DEF Init, LocksNest, T!Init
  <1>5. MessagesCounted
    BY DEF Init, MessagesCounted, Sent, Received, Ways
  <1>6. QED
    BY <1>1, <1>2, <1>3, <1>4, <1>5 DEF IInv

\* What a step of Client outside Close, in which CloseAll may be running, does
\* to c.mu.
LEMMA CallerStep ==
  ASSUME C!IInv, NEW g \in Callers \cup Links,
         C!Invoke(g) \/ C!LockStep(g) \/ (C!Step(g) /\ pc[g] # "closing")
  PROVE  /\ pc[g] # "closing"
         /\ C!Invoke(g) \/ pc[g] # "idle"
         /\ \A h \in (Callers \cup Links) \ {g} : pc'[h] = pc[h]
         /\ mu' = mu \/ mu = None \/ mu = g
  <1> USE DEF C!IInv, C!TypeOK, C!MutexHeld, C!Critical, C!Goto, C!Return
  <1>1. CASE C!Invoke(g)
    BY <1>1 DEF C!Invoke, C!InvokeConnect, C!InvokeDisconnect, C!InvokeRun, C!InvokeSearch,
                C!InvokeFile, C!InvokeForward, C!InvokeSetSudo, C!Enter
  <1>2. CASE C!LockStep(g)
    BY <1>2 DEF C!LockStep, C!CloseLock, C!SetConfig, C!ConnectLock, C!EnsureCheck,
                C!EnsureSnapshot, C!locals
  <1>3. CASE C!Step(g) /\ pc[g] # "closing"
    BY <1>3 DEF C!Step, C!CloseClients, C!SetSudo, C!DialFails, C!DialSucceeds, C!SftpFails,
                C!Install, C!CwdIsSet, C!CwdIsUnset, C!InitCwd, C!ConnectReturns,
                C!ReportConnected, C!Probe, C!GetClient, C!ReadCwd, C!PickSudo,
                C!StartCommand, C!CommandDetaches, C!CommandEnds, C!SetCwd, C!ResolvePath, C!MkdirAll,
                C!Mkdir, C!UseEnds, C!locals
  <1>4. QED
    BY <1>1, <1>2, <1>3

\* So nobody takes c.mu from a goroutine in CloseAll, and none of the callers
\* in Close or CloseAll of the tunnels moves meanwhile.
LEMMA CallerStepNests ==
  ASSUME IInv, NEW g \in Callers \cup Links, UNCHANGED tunnels,
         C!Invoke(g) \/ C!LockStep(g) \/ (C!Step(g) /\ pc[g] # "closing"),
         g \in Callers /\ C!Invoke(g) => cpc[g] = "idle"
  PROVE  LocksNest'
  <1>1. /\ pc[g] # "closing"
        /\ C!Invoke(g) \/ pc[g] # "idle"
        /\ \A h \in (Callers \cup Links) \ {g} : pc'[h] = pc[h]
        /\ mu' = mu \/ mu = None \/ mu = g
    BY CallerStep DEF IInv
  <1>2. QED
    BY <1>1, WorkspaceAssumption DEF LocksNest, IInv, tunnels

\* The network and the forwarded connections touch neither mutex nor caller.
LEMMA UntouchedNests ==
  ASSUME IInv, UNCHANGED <<mu, cpc, arg>>, \A h \in Callers : pc'[h] = pc[h]
  PROVE  LocksNest'
  BY DEF LocksNest, IInv

\* No step breaks the order of the locks.
LEMMA LocksNestKept ==
  ASSUME IInv, [Next]_vars
  PROVE  LocksNest'
  <1>1. ASSUME NEW g \in Callers, Invoke(g) PROVE LocksNest'
    <2>1. CASE C!Invoke(g) /\ UNCHANGED tunnels
      BY <1>1, <2>1, CallerStepNests DEF Invoke
    <2>2. CASE T!InvokeClose(g) /\ arg'[g] # None /\ UNCHANGED client
      BY <1>1, <2>2 DEF Invoke, T!InvokeClose, T!Goto, LocksNest, IInv, T!IInv, T!TypeOK,
                        client
    <2>3. QED
      BY <1>1, <2>1, <2>2 DEF Invoke
  <1>2. ASSUME NEW g \in Callers, CloseLock(g) PROVE LocksNest'
    BY <1>2, WorkspaceAssumption
       DEF CloseLock, C!CloseLock, C!Goto, T!InvokeClose, T!Goto, LocksNest, IInv, C!IInv,
           C!TypeOK, T!IInv, T!TypeOK
  <1>3. ASSUME NEW g \in Callers, CloseClients(g) PROVE LocksNest'
    <2>1. mu = g /\ cpc[g] = "idle" /\ UNCHANGED <<cpc, arg>>
      BY <1>3 DEF CloseClients, C!CloseClients, IInv, C!IInv, C!MutexHeld, C!Critical, tunnels
    <2>2. \A h \in Callers \ {g} : pc'[h] = pc[h]
      BY <1>3 DEF CloseClients, C!CloseClients, C!Goto, C!Return, IInv, C!IInv, C!TypeOK
    <2>3. QED
      BY <2>1, <2>2 DEF LocksNest, IInv
  <1>4. ASSUME NEW g \in Callers \cup Links, ClientLock(g) \/ ClientStep(g) PROVE LocksNest'
    <2>1. pc[g] # "idle"
      BY <1>4 DEF ClientLock, ClientStep, C!LockStep, C!CloseLock, C!SetConfig,
                  C!ConnectLock, C!EnsureCheck, C!EnsureSnapshot,
                  C!Step, C!CloseClients, C!SetSudo, C!DialFails, C!DialSucceeds,
                  C!SftpFails, C!Install, C!CwdIsSet, C!CwdIsUnset, C!InitCwd,
                  C!ReportConnected, C!Probe, C!GetClient, C!ReadCwd, C!PickSudo,
                  C!StartCommand, C!CommandDetaches, C!CommandEnds, C!SetCwd, C!ResolvePath, C!MkdirAll,
                  C!Mkdir, C!UseEnds
    <2>2. ~ C!Invoke(g)
      BY <2>1 DEF C!Invoke, C!InvokeConnect, C!InvokeDisconnect, C!InvokeRun,
                  C!InvokeSearch, C!InvokeFile, C!InvokeForward, C!InvokeSetSudo, C!Enter
    <2>3. QED
      BY <1>4, <2>2, CallerStepNests DEF ClientLock, ClientStep
  <1>5. CASE TunnelStep
    <2>1. UNCHANGED <<mu, pc>>
      BY <1>5 DEF TunnelStep, client
    <2>2. ASSUME NEW t \in Ids, T!Bind(t) \/ T!OpenStep(t) \/ T!AcceptFails(t) \/ T!LoopStep(t)
          PROVE  LocksNest'
      BY <2>1, <2>2, UntouchedNests
         DEF T!Bind, T!OpenStep, T!Register, T!StartLoop, T!AcceptFails, T!LoopStep,
             T!CheckStopped, T!LoopReturns, T!closers, T!held
    <2>3. ASSUME NEW g \in Callers, T!LockStep(g) \/ T!CloseStep(g) PROVE LocksNest'
      <3>1. cpc[g] # "idle" /\ arg' = arg /\ \A h \in Callers \ {g} : cpc'[h] = cpc[h]
        BY <2>3 DEF T!LockStep, T!LockClose, T!LockCloseAll, T!CloseStep, T!NextTunnel,
                    T!CloseAllReturns, T!CompareAndSwap, T!CloseStopChan, T!CloseListener,
                    T!Delete, T!Goto, T!held, IInv, T!IInv, T!TypeOK
      <3>2. QED
        BY <2>1, <3>1 DEF LocksNest, IInv
    <2>4. QED
      BY <1>5, <2>2, <2>3 DEF TunnelStep
  <1>6. ASSUME NEW k \in Conns, Network(k) PROVE LocksNest'
    BY <1>6, UntouchedNests
       DEF Network, C!Network, C!SftpDies, C!GoSilent, C!TransportFails, tunnels
  <1>7. ASSUME NEW k \in Links, (\E t \in Ids : Accept(t, k)) \/ Dial(k) PROVE LocksNest'
    <2>1. k \notin Callers /\ UNCHANGED tunnels
      BY <1>7, WorkspaceAssumption DEF Accept, Dial
    <2>2. C!Invoke(k) \/ (C!Step(k) /\ pc[k] # "closing")
      BY <1>7 DEF Accept, Dial, C!Invoke, C!Step, C!UseEnds
    <2>3. QED
      BY <2>1, <2>2, CallerStepNests
  <1>8. ASSUME NEW k \in Links,
               \/ NoClient(k) \/ ReceiveDone(k) \/ CloseConn(k)
               \/ \E w \in Ways : CopyEnds(k, w) \/ SendDone(k, w)
        PROVE  LocksNest'
    BY <1>8, UntouchedNests
       DEF NoClient, ReceiveDone, CloseConn, CopyEnds, SendDone, client, tunnels
  <1>9. CASE UNCHANGED vars
    BY <1>9, UntouchedNests DEF vars, client, tunnels
  <1>10. QED
    BY <1>1, <1>2, <1>3, <1>4, <1>5, <1>6, <1>7, <1>8, <1>9 DEF Next, LinkStep

\* The bookkeeping of the forwarded connections.
LEMMA ForwardingKept ==
  ASSUME IInv, [Next]_vars
  PROVE  ForwardingTyped' /\ MessagesCounted'
  <1> USE DEF IInv, TypeOK, ForwardingTyped, MessagesCounted, Sent, Received, Ways, Capacity
  <1>1. CASE UNCHANGED forwarding
    BY <1>1 DEF forwarding
  <1>2. ASSUME NEW k \in Links, NEW t \in Ids, Accept(t, k) PROVE ForwardingTyped' /\ MessagesCounted'
    BY <1>2 DEF Accept, LinkGoes
  <1>3. ASSUME NEW k \in Links, NoClient(k) \/ CloseConn(k) PROVE ForwardingTyped' /\ MessagesCounted'
    <2>1. /\ UNCHANGED <<via, copier, done>>
          /\ \/ link[k] = "client" /\ link' = [link EXCEPT ![k] = "local"]
             \/ link[k] = "remote" /\ link' = [link EXCEPT ![k] = "local"]
             \/ link[k] = "local" /\ link' = [link EXCEPT ![k] = "done"]
      BY <1>3 DEF NoClient, CloseConn, LinkGoes
    <2>2. QED
      BY <2>1
  <1>4. ASSUME NEW k \in Links, Dial(k) PROVE ForwardingTyped' /\ MessagesCounted'
    <2>1. cli[k] \in Conns
      BY <1>4 DEF Dial, C!UseEnds, C!IInv, C!NeverNilClient, C!TypeOK
    <2>2. /\ copier[k]["up"] = "none" /\ copier[k]["down"] = "none" /\ link[k] = "client"
          /\ done[k] = 0
      BY <1>4 DEF Dial
    <2>3. CASE LinkGoes(k, "client", "local") /\ UNCHANGED <<via, copier>>
      BY <1>4, <2>2, <2>3 DEF Dial, LinkGoes
    <2>4. CASE /\ LinkGoes(k, "client", "wait")
               /\ via' = [via EXCEPT ![k] = cli[k]]
               /\ copier' = [copier EXCEPT ![k] = [w \in Ways |-> "copy"]]
      <3>1. done' = done
        BY <1>4 DEF Dial
      <3>2. ForwardingTyped'
        BY <2>1, <2>4, <3>1 DEF LinkGoes
      <3>3. /\ link'[k] = "wait" /\ copier'[k]["up"] = "copy" /\ copier'[k]["down"] = "copy"
            /\ \A j \in Links \ {k} : link'[j] = link[j] /\ copier'[j] = copier[j]
        BY <2>4 DEF LinkGoes
      <3>4. MessagesCounted'
        <4>1. ASSUME NEW j \in Links \ {k}
              PROVE  /\ link'[j] = link[j] /\ copier'[j] = copier[j] /\ done'[j] = done[j]
                     /\ Received(j)' = Received(j)
                     /\ Sent(j, "up")' = Sent(j, "up") /\ Sent(j, "down")' = Sent(j, "down")
          BY <3>1, <3>3
        <4>2. /\ done'[k] = 0 /\ Received(k)' = 0 /\ Sent(k, "up")' = 0 /\ Sent(k, "down")' = 0
          BY <2>2, <3>1, <3>3
        <4>3. QED
          BY <3>3, <4>1, <4>2
      <3>5. QED
        BY <3>2, <3>4
    <2>5. QED
      BY <1>4, <2>3, <2>4 DEF Dial
  <1>5. ASSUME NEW k \in Links, NEW w \in Ways, CopyEnds(k, w) PROVE ForwardingTyped' /\ MessagesCounted'
    BY <1>5 DEF CopyEnds, CopierGoes
  <1>6. ASSUME NEW k \in Links, NEW w \in Ways, SendDone(k, w) PROVE ForwardingTyped' /\ MessagesCounted'
    BY <1>6 DEF SendDone, CopierGoes
  <1>7. ASSUME NEW k \in Links, ReceiveDone(k) PROVE ForwardingTyped' /\ MessagesCounted'
    BY <1>7 DEF ReceiveDone, LinkGoes
  <1>8. QED
    <2>1. \/ UNCHANGED forwarding
          \/ \E k \in Links :
                \/ \E t \in Ids : Accept(t, k)
                \/ LinkStep(k)
                \/ \E w \in Ways : CopyEnds(k, w) \/ SendDone(k, w)
      BY Zenon DEF Next, vars, Invoke, CloseLock, CloseClients, ClientLock, ClientStep,
                   TunnelStep, Network
    <2>2. QED
      BY <1>1, <1>2, <1>3, <1>4, <1>5, <1>6, <1>7, <2>1 DEF LinkStep

\* The invariant is inductive.
LEMMA NextKeepsIInv == IInv /\ [Next]_vars => IInv'
  <1> SUFFICES ASSUME IInv, [Next]_vars PROVE IInv'
    OBVIOUS
  <1>1. C!IInv' /\ T!IInv'
    BY PartsKeepTheirs
  <1>2. LocksNest'
    BY LocksNestKept
  <1>3. ForwardingTyped' /\ MessagesCounted'
    BY ForwardingKept
  <1>4. TypeOK'
    BY <1>1, <1>3 DEF TypeOK, C!IInv, T!IInv
  <1>5. QED
    BY <1>1, <1>2, <1>3, <1>4 DEF IInv

-----------------------------------------------------------------------------
(* The theorems *)

\* IInv is invariant, for any number of callers, tunnels, forwarded connections
\* and reconnections.
THEOREM Inductive == Spec => []IInv
  BY InitIInv, NextKeepsIInv, PTL DEF Spec

\* Nobody waits in a circle for c.mu and tm.mu, and no copying goroutine is left
\* on a full channel done.
THEOREM WaitsAreOrdered == Spec => []WaitsInOrder
  <1>1. IInv => WaitsInOrder
    <2> SUFFICES ASSUME IInv PROVE WaitsInOrder
      OBVIOUS
    <2>1. ASSUME NEW k \in Links, NEW w \in Ways, copier[k][w] = "send"
          PROVE  done[k] < Capacity
      <3>1. /\ Received(k) \in {0, 1} /\ done[k] \in Nat
            /\ Sent(k, "up") + Sent(k, "down") <= 1
        BY <2>1 DEF Sent, Received, Ways, IInv, TypeOK, ForwardingTyped, Capacity
      <3>2. QED
        BY <3>1 DEF IInv, MessagesCounted, Capacity
    <2>2. QED
      BY <2>1 DEF WaitsInOrder, SendersReturn, IInv
  <1>2. QED
    BY <1>1, Inductive, PTL

\* What the composition's parts are relied on for, they do here too: forwarded
\* connections and tool calls never use a nil client, a Connect works for the
\* configured host, a reported switch has taken effect next to them, and the
\* tunnels that are listed are those that listen.
THEOREM PartsAreSafe ==
  Spec => []( /\ C!NeverNilClient
              /\ C!DialsConfiguredHost
              /\ C!SwitchTakesEffect
              /\ T!ListedIsListening)
  <1>1. C!IInv => C!NeverNilClient /\ C!DialsConfiguredHost /\ C!SwitchTakesEffect
    BY DEF C!IInv, C!DialInProgress, C!DialsConfiguredHost, C!SwitchInProgress,
           C!ClientInstalled, C!SwitchTakesEffect
  <1>2. TP!Init /\ [][TP!Next]_(TP!vars) => []TP!ListedIsListening
    BY TP!ListIsTrue, PartsAssumptions DEF TP!Spec
  <1>3. TP!ListedIsListening <=> T!ListedIsListening
    BY DEF TP!ListedIsListening, T!ListedIsListening, TP!Registered, T!Registered
  <1>4. QED
    BY <1>1, <1>2, <1>3, Inductive, SameTunnels, TunnelSteps, PTL DEF Spec, Init, IInv

\* Open, Close and CloseAll of the tunnels take effect at one moment each, also
\* when it is a disconnect that closes them all and connections are forwarded.
THEOREM ImplementsBook == Spec => T!BookSpec
  <1>1. TP!Init /\ [][TP!Next]_(TP!vars) => TP!BookSpec
    BY TP!Implements, PartsAssumptions DEF TP!Spec
  <1>2. TP!Book!Init <=> T!Book!Init
    BY DEF TP!Book!Init, T!Book!Init, TP!PhaseOf, T!PhaseOf, TP!Registered, T!Registered,
           TP!Clearing, T!Clearing
  <1>3. [TP!Book!Next]_<<[t \in Ids |-> TP!PhaseOf(t)], TP!Clearing>>
          <=> [T!Book!Next]_<<[t \in Ids |-> T!PhaseOf(t)], T!Clearing>>
    BY DEF TP!Book!Next, T!Book!Next, TP!Book!Open, T!Book!Open, TP!Book!Close, T!Book!Close,
           TP!Book!BeginClear, T!Book!BeginClear, TP!Book!Clear, T!Book!Clear,
           TP!PhaseOf, T!PhaseOf, TP!Registered, T!Registered, TP!Clearing, T!Clearing
  <1>4. TP!BookSpec <=> T!BookSpec
    BY <1>2, <1>3, PTL DEF TP!BookSpec, T!BookSpec, TP!Book!Spec, T!Book!Spec
  <1>5. QED
    BY <1>1, <1>4, SameTunnels, TunnelSteps, PTL DEF Spec, Init
=============================================================================
