---------------------------- MODULE ClientProofs ----------------------------
(***************************************************************************)
(* Proofs about Client for any set of goroutines, tools, hosts and         *)
(* connections.  IInv, the inductive invariant, is defined in Client, where *)
(* the run client_switch checks it on a small instance.                    *)
(***************************************************************************)
EXTENDS Client, TLAPS

\* A client as NewClient and the boot leave it satisfies the invariant.
LEMMA InitIInv == NewClient => IInv
  <1> SUFFICES ASSUME NewClient PROVE IInv
    OBVIOUS
  <1> USE ClientAssumption DEF NewClient
  <1>1. TypeOK
    BY DEF TypeOK, PCs, Ops, Legs, NetStates, Dirs
  <1>2. MutexHeld /\ ClientsArePaired /\ ClientInstalled
    BY DEF MutexHeld, Critical, ClientsArePaired, ClientInstalled
  <1>3. NeverNilClient /\ LegsInOrder /\ DialInProgress
    BY DEF NeverNilClient, LegsInOrder, DialInProgress
  <1>4. InstalledWasDialled /\ SwitchInProgress
    BY DEF InstalledWasDialled, SwitchInProgress
  <1>5. QED
    BY <1>1, <1>2, <1>3, <1>4 DEF IInv

\* The definitions every step of the induction needs: the invariant's parts,
\* and the parts of an action that say what it leaves alone.
LEMMA InvokeKeepsIInv ==
  ASSUME IInv, NEW g \in Callers, Invoke(g)
  PROVE  IInv'
  <1> USE ClientAssumption
      DEF IInv, TypeOK, MutexHeld, ClientsArePaired, ClientInstalled,
          NeverNilClient, LegsInOrder, DialInProgress, InstalledWasDialled,
          SwitchInProgress, Connectors, Critical, PCs, Ops, Legs, Dirs,
          Enter, Goto, state, world, locals
  <1>1. CASE \E h \in Hosts : InvokeConnect(g, h)
    BY <1>1 DEF InvokeConnect
  <1>2. CASE InvokeDisconnect(g)
    BY <1>2 DEF InvokeDisconnect
  <1>3. CASE InvokeRun(g)
    BY <1>3 DEF InvokeRun, CwdReads
  <1>4. CASE InvokeFile(g)
    BY <1>4 DEF InvokeFile
  <1>5. CASE InvokeForward(g)
    BY <1>5 DEF InvokeForward
  <1>6. CASE InvokeSetSudo(g)
    BY <1>6 DEF InvokeSetSudo
  <1>7. CASE InvokeSearch(g)
    BY <1>7 DEF InvokeSearch, CwdReads
  <1>8. QED
    BY <1>1, <1>2, <1>3, <1>4, <1>5, <1>6, <1>7 DEF Invoke

\* The critical sections that begin when c.mu is free.
LEMMA LockStepKeepsIInv ==
  ASSUME IInv, NEW g \in Callers, LockStep(g)
  PROVE  IInv'
  <1> USE ClientAssumption
      DEF IInv, TypeOK, MutexHeld, ClientsArePaired, ClientInstalled,
          NeverNilClient, LegsInOrder, DialInProgress, InstalledWasDialled,
          SwitchInProgress, Connectors, Critical, PCs, Ops, Legs, Dirs,
          Goto, state, world, locals
  <1>1. CASE CloseLock(g)
    BY <1>1 DEF CloseLock
  <1>2. CASE SetConfig(g)
    BY <1>2 DEF SetConfig, CwdAfter
  <1>3. CASE ConnectLock(g)
    BY <1>3 DEF ConnectLock
  <1>4. CASE EnsureCheck(g)
    <2>1. CASE cfgHost = None
      BY <1>4, <2>1, SMTT(30) DEF EnsureCheck, Return
    <2>2. CASE cfgHost # None /\ sshClient = None
      <3>1. /\ pc[g] = "ensure"
            /\ Goto(g, "connect")
            /\ UNCHANGED <<mu, state, world, locals>>
        BY <1>4, <2>2 DEF EnsureCheck
      <3>2. QED
        BY <3>1
    <2>3. CASE cfgHost # None /\ sshClient # None
      <3>1. Goto(g, "snapshot") /\ UNCHANGED <<mu, state, world, locals>>
        BY <1>4, <2>3 DEF EnsureCheck
      <3>2. QED
        BY <1>4, <2>3, <3>1 DEF EnsureCheck
    <2>4. QED
      BY <2>1, <2>2, <2>3
  <1>5. CASE EnsureSnapshot(g)
    BY <1>5 DEF EnsureSnapshot
  <1>6. QED
    BY <1>1, <1>2, <1>3, <1>4, <1>5 DEF LockStep

\* Where EnsureConnected returns to, by the leg it was called on.
LEMMA EnsuredValue ==
  ASSUME IInv, NEW g \in Callers
  PROVE  \/ leg[g] = "entry"  /\ Ensured(g) = "cwd"
         \/ leg[g] = "client" /\ Ensured(g) = "get"
         \/ leg[g] = "mkdir"  /\ Ensured(g) = "mkdir"
  BY DEF IInv, TypeOK, Legs, Ensured

\* The steps of ConnectTo, Connect and Close that hold c.mu or follow it.
LEMMA ConnectStepKeepsIInv ==
  ASSUME IInv, NEW g \in Callers,
         \/ CloseClients(g) \/ SetSudo(g)   \/ DialFails(g)  \/ DialSucceeds(g)
         \/ SftpFails(g)    \/ Install(g)   \/ CwdIsSet(g)   \/ CwdIsUnset(g)
         \/ InitCwd(g)      \/ ReportConnected(g)
  PROVE  IInv'
  <1> USE ClientAssumption
      DEF IInv, TypeOK, MutexHeld, ClientsArePaired, ClientInstalled,
          NeverNilClient, LegsInOrder, DialInProgress, InstalledWasDialled,
          SwitchInProgress, Connectors, Critical, PCs, Ops, Legs, Dirs,
          NetStates, Goto, Return, state, world, locals
  <1>1. CASE CloseClients(g)
    <2>1. /\ pc[g] = "closing" /\ mu' = None /\ UNCHANGED <<state, peer>>
          /\ net' = IF sshClient = None THEN net ELSE [net EXCEPT ![sshClient] = "closed"]
      BY <1>1 DEF CloseClients
    <2>2. CASE op[g] = "connect" /\ Goto(g, "setcfg") /\ UNCHANGED locals
      BY <2>1, <2>2
    <2>3. CASE Return(g)
      BY <2>1, <2>3
    <2>4. QED
      BY <1>1, <2>2, <2>3 DEF CloseClients
  <1>2. CASE SetSudo(g)
    BY <1>2 DEF SetSudo
  <1>3. CASE DialFails(g)
    BY <1>3 DEF DialFails
  <1>4. CASE DialSucceeds(g)
    BY <1>4 DEF DialSucceeds
  <1>5. CASE SftpFails(g)
    BY <1>5 DEF SftpFails
  <1>6. CASE Install(g)
    BY <1>6 DEF Install
  <1>7. CASE CwdIsSet(g)
    BY <1>7 DEF CwdIsSet, ConnectReturns, Ensured
  <1>8. CASE CwdIsUnset(g)
    BY <1>8 DEF CwdIsUnset
  <1>9. CASE InitCwd(g)
    BY <1>9 DEF InitCwd, CwdAfter, ConnectReturns, Ensured
  <1>10. CASE ReportConnected(g)
    BY <1>10 DEF ReportConnected
  <1>11. QED
    BY <1>1, <1>2, <1>3, <1>4, <1>5, <1>6, <1>7, <1>8, <1>9, <1>10

\* What is read of the cwd is a directory, and when calls do not overlap the
\* stored one.
LEMMA CwdRead ==
  ASSUME TypeOK, NEW g \in Callers, ResolvePath(g)
  PROVE  \E d \in Dirs : /\ dir' = [dir EXCEPT ![g] = d]
                         /\ Callers = {g} => d \in {currentCwd, Root}
  BY DEF TypeOK, ResolvePath, CwdReads, RacesWith, Dirs

\* The steps that do not touch c.mu: probe, read the client, use it.
LEMMA UseStepKeepsIInv ==
  ASSUME IInv, NEW g \in Callers,
         \/ Probe(g)        \/ GetClient(g)       \/ ReadCwd(g) \/ PickSudo(g)
         \/ StartCommand(g) \/ CommandDetaches(g) \/ CommandEnds(g)
         \/ SetCwd(g)       \/ ResolvePath(g)     \/ MkdirAll(g) \/ Mkdir(g)
         \/ UseEnds(g)
  PROVE  IInv'
  <1> USE ClientAssumption
      DEF IInv, TypeOK, MutexHeld, ClientsArePaired, ClientInstalled,
          NeverNilClient, LegsInOrder, DialInProgress, InstalledWasDialled,
          SwitchInProgress, Connectors, Critical, PCs, Ops, Legs, Dirs,
          Goto, Return, state, world, locals
  <1>1. CASE Probe(g)
    <2>1. CASE Goto(g, Ensured(g))
      BY <1>1, <2>1, EnsuredValue DEF Probe
    <2>2. CASE Goto(g, "connect")
      BY <1>1, <2>2 DEF Probe
    <2>3. QED
      BY <1>1, <2>1, <2>2 DEF Probe
  <1>2. CASE GetClient(g)
    BY <1>2 DEF GetClient
  <1>3. CASE ReadCwd(g)
    BY <1>3 DEF ReadCwd, CwdReads
  <1>4. CASE PickSudo(g)
    BY <1>4 DEF PickSudo
  <1>5. CASE StartCommand(g)
    <2>1. CASE Return(g)
      <3>1. pc[g] = "use" /\ UNCHANGED <<mu, state, world>>
        BY <1>5 DEF StartCommand
      <3>2. QED
        BY <2>1, <3>1
    <2>2. CASE Goto(g, "running") /\ UNCHANGED locals
      <3>1. pc[g] = "use" /\ UNCHANGED <<mu, state, world>>
        BY <1>5 DEF StartCommand
      <3>2. QED
        BY <2>2, <3>1
    <2>3. QED
      BY <1>5, <2>1, <2>2 DEF StartCommand
  <1>6. CASE CommandDetaches(g)
    BY <1>6 DEF CommandDetaches
  <1>7. CASE CommandEnds(g)
    BY <1>7 DEF CommandEnds
  <1>8. CASE SetCwd(g)
    BY <1>8 DEF SetCwd, CwdAfter
  <1>9. CASE MkdirAll(g)
    BY <1>9 DEF MkdirAll
  <1>10. CASE Mkdir(g)
    BY <1>10 DEF Mkdir
  <1>11. CASE UseEnds(g)
    BY <1>11 DEF UseEnds
  <1>12. CASE ResolvePath(g)
    <2>1. PICK d \in Dirs : dir' = [dir EXCEPT ![g] = d]
      BY <1>12, CwdRead
    <2>2. /\ pc[g] = "resolve" /\ Goto(g, "use")
          /\ UNCHANGED <<mu, state, world, op, leg, want, pass, cli, aux>>
      BY <1>12 DEF ResolvePath
    <2>3. QED
      BY <2>1, <2>2
  <1>13. QED
    BY <1>1, <1>2, <1>3, <1>4, <1>5, <1>6, <1>7, <1>8, <1>9, <1>10, <1>11,
       <1>12

\* What the network does to a connection changes no pointer.
LEMMA NetworkKeepsIInv ==
  ASSUME IInv, NEW k \in Conns, Network(k)
  PROVE  IInv'
  <1> USE ClientAssumption
      DEF IInv, TypeOK, MutexHeld, ClientsArePaired, ClientInstalled,
          NeverNilClient, LegsInOrder, DialInProgress, InstalledWasDialled,
          SwitchInProgress, NetStates, state, locals, Live
  <1>1. CASE SftpDies(k)
    BY <1>1 DEF SftpDies
  <1>2. CASE GoSilent(k)
    BY <1>2 DEF GoSilent
  <1>3. CASE TransportFails(k)
    BY <1>3 DEF TransportFails
  <1>4. QED
    BY <1>1, <1>2, <1>3 DEF Network

\* The invariant is inductive.
LEMMA NextKeepsIInv == IInv /\ [Next]_vars => IInv'
  <1> SUFFICES ASSUME IInv, [Next]_vars PROVE IInv'
    OBVIOUS
  <1>1. ASSUME NEW g \in Callers, Invoke(g) PROVE IInv'
    BY <1>1, InvokeKeepsIInv
  <1>2. ASSUME NEW g \in Callers, LockStep(g) PROVE IInv'
    BY <1>2, LockStepKeepsIInv
  <1>3. ASSUME NEW g \in Callers, Step(g) PROVE IInv'
    BY <1>3, ConnectStepKeepsIInv, UseStepKeepsIInv DEF Step
  <1>4. ASSUME NEW k \in Conns, Network(k) PROVE IInv'
    BY <1>4, NetworkKeepsIInv
  <1>5. CASE UNCHANGED vars
    BY <1>5 DEF vars, state, world, locals, IInv, TypeOK, MutexHeld,
        ClientsArePaired, ClientInstalled, NeverNilClient, LegsInOrder,
        DialInProgress, InstalledWasDialled, SwitchInProgress
  <1>6. QED
    BY <1>1, <1>2, <1>3, <1>4, <1>5 DEF Next

\* IInv is invariant: the strengthening all the safety theorems follow from.
THEOREM Inductive == Spec => []IInv
  <1>1. QED
    BY InitIInv, NextKeepsIInv, PTL DEF Spec

\* Every variable of Client keeps its type.
THEOREM TypeCorrect == Spec => []TypeOK
  <1>1. IInv => TypeOK
    BY DEF IInv
  <1>2. QED
    BY <1>1, Inductive, PTL

\* c.mu excludes: two Connects, or a Connect and a Close, never overlap.
THEOREM MutualExclusion == Spec => []MutexHeld
  <1>1. IInv => MutexHeld
    BY DEF IInv
  <1>2. QED
    BY <1>1, Inductive, PTL

\* No handler past an error-free EnsureConnected uses a nil client, although
\* SSH() and SFTP() read the field unlocked after the check.
THEOREM NoNilClient == Spec => []NeverNilClient
  <1>1. IInv => NeverNilClient
    BY DEF IInv
  <1>2. QED
    BY <1>1, Inductive, PTL

\* The SSH and the SFTP client always come from the same Connect.
THEOREM Paired == Spec => []ClientsArePaired
  <1>1. IInv => ClientsArePaired
    BY DEF IInv
  <1>2. QED
    BY <1>1, Inductive, PTL

\* A Connect in progress works for the configured host, whatever the other
\* goroutines do to the configuration.
THEOREM DialsConfigured == Spec => []DialsConfiguredHost
  <1>1. IInv => DialsConfiguredHost
    BY DEF IInv, DialInProgress, DialsConfiguredHost
  <1>2. QED
    BY <1>1, Inductive, PTL

\* A remote_connect that reports success has installed a connection to its
\* host, if only one goroutine issues remote_connect.
THEOREM SwitchIsEffective == Spec => []SwitchTakesEffect
  <1>1. IInv => SwitchTakesEffect
    BY DEF IInv, SwitchInProgress, ClientInstalled, SwitchTakesEffect
  <1>2. QED
    BY <1>1, Inductive, PTL

\* The only caller takes its next tool call.
LEMMA InvokeKeepsSolo ==
  ASSUME IInv, SoloInv, NEW g \in Callers, Invoke(g)
  PROVE  SoloInv'
  <1> USE ClientAssumption
      DEF IInv, TypeOK, ClientsArePaired, ClientInstalled, NeverNilClient,
          LegsInOrder, DialInProgress, InstalledWasDialled, SwitchInProgress,
          Connectors, SoloInv, Live, Goto, Enter, state, world, locals
  <1>1. CASE \E h \in Hosts : InvokeConnect(g, h)
    BY <1>1 DEF InvokeConnect
  <1>2. CASE InvokeDisconnect(g)
    BY <1>2 DEF InvokeDisconnect
  <1>3. CASE InvokeRun(g)
    BY <1>3 DEF InvokeRun, CwdReads, RacesWith
  <1>4. CASE InvokeFile(g)
    BY <1>4 DEF InvokeFile
  <1>5. CASE InvokeForward(g)
    BY <1>5 DEF InvokeForward
  <1>6. CASE InvokeSetSudo(g)
    BY <1>6 DEF InvokeSetSudo
  <1>7. CASE InvokeSearch(g)
    BY <1>7 DEF InvokeSearch, CwdReads, RacesWith
  <1>8. QED
    BY <1>1, <1>2, <1>3, <1>4, <1>5, <1>6, <1>7 DEF Invoke

\* Its critical sections that begin when c.mu is free.
LEMMA LockStepKeepsSolo ==
  ASSUME IInv, SoloInv, NEW g \in Callers, LockStep(g)
  PROVE  SoloInv'
  <1> USE ClientAssumption
      DEF IInv, TypeOK, ClientsArePaired, ClientInstalled, NeverNilClient,
          LegsInOrder, DialInProgress, InstalledWasDialled, SwitchInProgress,
          Connectors, SoloInv, Live, Goto, Return, state, world, locals
  <1>1. CASE CloseLock(g)
    BY <1>1 DEF CloseLock
  <1>2. CASE SetConfig(g)
    BY <1>2 DEF SetConfig, CwdAfter, RacesWith
  <1>3. CASE ConnectLock(g)
    BY <1>3 DEF ConnectLock
  <1>4. CASE EnsureCheck(g)
    BY <1>4 DEF EnsureCheck
  <1>5. CASE EnsureSnapshot(g)
    BY <1>5 DEF EnsureSnapshot
  <1>6. QED
    BY <1>1, <1>2, <1>3, <1>4, <1>5 DEF LockStep

\* Its steps in Close, ConnectTo and Connect.
LEMMA ConnectStepKeepsSolo ==
  ASSUME IInv, SoloInv, NEW g \in Callers,
         \/ CloseClients(g) \/ SetSudo(g) \/ DialFails(g) \/ DialSucceeds(g)
         \/ SftpFails(g) \/ Install(g) \/ CwdIsSet(g) \/ CwdIsUnset(g)
         \/ InitCwd(g) \/ ReportConnected(g)
  PROVE  SoloInv'
  <1> USE ClientAssumption
      DEF IInv, TypeOK, ClientsArePaired, ClientInstalled, NeverNilClient,
          LegsInOrder, DialInProgress, InstalledWasDialled, SwitchInProgress,
          Connectors, SoloInv, Live, Goto, Return, state, world, locals
  <1>1. CASE CloseClients(g)
    BY <1>1 DEF CloseClients
  <1>2. CASE SetSudo(g)
    BY <1>2 DEF SetSudo
  <1>3. CASE DialFails(g)
    BY <1>3 DEF DialFails
  <1>4. CASE DialSucceeds(g)
    BY <1>4 DEF DialSucceeds
  <1>5. CASE SftpFails(g)
    BY <1>5 DEF SftpFails
  <1>6. CASE Install(g)
    BY <1>6 DEF Install
  <1>7. CASE CwdIsSet(g)
    BY <1>7, EnsuredValue DEF CwdIsSet, ConnectReturns
  <1>8. CASE CwdIsUnset(g)
    BY <1>8 DEF CwdIsUnset
  <1>9. CASE InitCwd(g)
    BY <1>9, EnsuredValue DEF InitCwd, CwdAfter, RacesWith, ConnectReturns
  <1>10. CASE ReportConnected(g)
    BY <1>10 DEF ReportConnected
  <1>11. QED
    BY <1>1, <1>2, <1>3, <1>4, <1>5, <1>6, <1>7, <1>8, <1>9, <1>10

\* Its steps in EnsureConnected and in the tools that use the client.
LEMMA UseStepKeepsSolo ==
  ASSUME IInv, SoloInv, NEW g \in Callers,
         \/ Probe(g) \/ GetClient(g) \/ ReadCwd(g) \/ PickSudo(g)
         \/ StartCommand(g) \/ CommandDetaches(g) \/ CommandEnds(g) \/ SetCwd(g)
         \/ ResolvePath(g) \/ MkdirAll(g) \/ Mkdir(g) \/ UseEnds(g)
  PROVE  SoloInv'
  <1> USE ClientAssumption
      DEF IInv, TypeOK, ClientsArePaired, ClientInstalled, NeverNilClient,
          LegsInOrder, DialInProgress, InstalledWasDialled, SwitchInProgress,
          Connectors, SoloInv, Live, Goto, Return, state, world, locals
  <1>1. CASE Probe(g)
    <2>1. CASE Goto(g, Ensured(g))
      BY <1>1, <2>1, EnsuredValue DEF Probe
    <2>2. CASE Goto(g, "connect")
      BY <1>1, <2>2 DEF Probe
    <2>3. QED
      BY <1>1, <2>1, <2>2 DEF Probe
  <1>2. CASE GetClient(g)
    BY <1>2 DEF GetClient
  <1>3. CASE ReadCwd(g)
    BY <1>3 DEF ReadCwd, CwdReads, RacesWith
  <1>4. CASE PickSudo(g)
    BY <1>4 DEF PickSudo
  <1>5. CASE StartCommand(g)
    BY <1>5 DEF StartCommand
  <1>6. CASE CommandDetaches(g)
    BY <1>6 DEF CommandDetaches
  <1>7. CASE CommandEnds(g)
    BY <1>7 DEF CommandEnds
  <1>8. CASE SetCwd(g)
    BY <1>8 DEF SetCwd, CwdAfter, RacesWith
  <1>9. CASE MkdirAll(g)
    BY <1>9 DEF MkdirAll
  <1>10. CASE Mkdir(g)
    BY <1>10 DEF Mkdir
  <1>11. CASE UseEnds(g)
    BY <1>11 DEF UseEnds
  <1>12. CASE ResolvePath(g)
    <2>1. PICK d : /\ dir' = [dir EXCEPT ![g] = d]
                   /\ Callers = {g} => d \in {currentCwd, Root}
      BY <1>12, CwdRead
    <2>2. /\ pc[g] = "resolve" /\ Goto(g, "use")
          /\ UNCHANGED <<mu, state, world, op, leg, want, pass, cli, aux>>
      BY <1>12 DEF ResolvePath
    <2>3. QED
      BY <2>1, <2>2
  <1>13. QED
    BY <1>1, <1>2, <1>3, <1>4, <1>5, <1>6, <1>7, <1>8, <1>9, <1>10, <1>11,
       <1>12

\* A connection that fails stays connected to the host it was dialled for.
LEMMA NetworkKeepsSolo ==
  ASSUME IInv, SoloInv, NEW k \in Conns, Network(k)
  PROVE  SoloInv'
  <1> USE ClientAssumption
      DEF IInv, TypeOK, InstalledWasDialled, SoloInv, Live, state, locals
  <1>1. CASE SftpDies(k)
    BY <1>1 DEF SftpDies
  <1>2. CASE GoSilent(k)
    BY <1>2 DEF GoSilent
  <1>3. CASE TransportFails(k)
    BY <1>3 DEF TransportFails
  <1>4. QED
    BY <1>1, <1>2, <1>3 DEF Network

\* SoloInv is inductive relative to IInv.
LEMMA NextKeepsSolo == IInv /\ SoloInv /\ [Next]_vars => SoloInv'
  <1> SUFFICES ASSUME IInv, SoloInv, [Next]_vars PROVE SoloInv'
    OBVIOUS
  <1>1. ASSUME NEW g \in Callers, Invoke(g) PROVE SoloInv'
    BY <1>1, InvokeKeepsSolo
  <1>2. ASSUME NEW g \in Callers, LockStep(g) PROVE SoloInv'
    BY <1>2, LockStepKeepsSolo
  <1>3. ASSUME NEW g \in Callers, Step(g) PROVE SoloInv'
    BY <1>3, ConnectStepKeepsSolo, UseStepKeepsSolo DEF Step
  <1>4. ASSUME NEW k \in Conns, Network(k) PROVE SoloInv'
    BY <1>4, NetworkKeepsSolo
  <1>5. CASE UNCHANGED vars
    BY <1>5 DEF vars, state, world, locals, SoloInv, Live
  <1>6. QED
    BY <1>1, <1>2, <1>3, <1>4, <1>5 DEF Next

\* It holds of the client that the boot leaves.
LEMMA InitSolo == NewClient => SoloInv
  BY ClientAssumption DEF NewClient, SoloInv, Live

\* When a single goroutine makes all tool calls, SoloInv is invariant too: what
\* EnsureConnected and RunCommand picked up is still that of the configured host.
THEOREM SoloInductive == Spec => [](IInv /\ SoloInv)
  <1>1. QED
    BY InitIInv, NextKeepsIInv, InitSolo, NextKeepsSolo, PTL DEF Spec

\* With tool calls that do not overlap, a failed or successful remote_connect
\* leaves no live connection to another host than the configured one.
THEOREM SoloLink ==
  ASSUME NEW g \in Callers, Callers = {g}
  PROVE  Spec => []LinkFollowsConfig
  <1>1. IInv /\ SoloInv => LinkFollowsConfig
    BY DEF SoloInv, LinkFollowsConfig
  <1>2. QED
    BY <1>1, SoloInductive, PTL

\* With tool calls that do not overlap, the cwd and the sudo password stored
\* between calls are those of the configured host.
THEOREM SoloStoredState ==
  ASSUME NEW g \in Callers, Callers = {g}
  PROVE  Spec => []StoredStateFollowsConfig
  <1>1. IInv /\ SoloInv => StoredStateFollowsConfig
    BY DEF SoloInv, StoredStateFollowsConfig, CwdFollowsConfig, Quiescent
  <1>2. QED
    BY <1>1, SoloInductive, PTL

\* With tool calls that do not overlap, a command starts on the host whose
\* directory and sudo password it was given, and a file tool works, and makes
\* directories, on the host that its path was resolved for.
THEOREM SoloCall ==
  ASSUME NEW g \in Callers, Callers = {g}
  PROVE  Spec => []CallCarriesItsHostsState
  <1>1. IInv /\ SoloInv => CallCarriesItsHostsState
    BY DEF SoloInv, CallCarriesItsHostsState
  <1>2. QED
    BY <1>1, SoloInductive, PTL

\* With tool calls that do not overlap, a live connection is only replaced by
\* one to the same host, although any error of the probe has it replaced.
THEOREM SoloReplaces ==
  ASSUME NEW g \in Callers, Callers = {g}
  PROVE  Spec => ReplacesSameHost
  <1> DEFINE A == (sshClient' # sshClient /\ sshClient # None /\ Live(sshClient)) =>
                     peer'[sshClient'] = peer[sshClient]
  <1>1. IInv /\ SoloInv /\ [Next]_vars => [A]_vars
    <2> SUFFICES ASSUME IInv, SoloInv, Next PROVE A
      BY DEF vars
    <2>1. ASSUME NEW h \in Callers, Invoke(h) PROVE A
      BY <2>1 DEF Invoke, InvokeConnect, InvokeDisconnect, InvokeRun,
          InvokeSearch, InvokeFile, InvokeForward, InvokeSetSudo, Enter, state
    <2>2. ASSUME NEW h \in Callers, LockStep(h) PROVE A
      BY <2>2 DEF LockStep, CloseLock, SetConfig, ConnectLock, EnsureCheck,
          EnsureSnapshot, state
    <2>3. ASSUME NEW h \in Callers, Step(h) PROVE A
      <3>1. CASE Install(h)
        <4>1. pc[h] = "sftp" /\ sshClient' = aux[h] /\ peer' = peer
          BY <3>1 DEF Install, world
        <4>2. peer[aux[h]] = cfgHost
          BY <4>1 DEF IInv, DialInProgress
        <4>3. (sshClient # None /\ Live(sshClient)) => peer[sshClient] = cfgHost
          BY DEF SoloInv
        <4>4. QED
          BY <4>1, <4>2, <4>3
      <3>2. CASE ~ Install(h)
        BY <2>3, <3>2 DEF Step, CloseClients, SetSudo, DialFails,
            DialSucceeds, SftpFails, CwdIsSet, CwdIsUnset, InitCwd,
            ReportConnected, Probe, GetClient, ReadCwd, PickSudo,
            StartCommand, CommandDetaches, CommandEnds, SetCwd, ResolvePath,
            MkdirAll, Mkdir, UseEnds, state
      <3>3. QED
        BY <3>1, <3>2
    <2>4. ASSUME NEW k \in Conns, Network(k) PROVE A
      BY <2>4 DEF Network, SftpDies, GoSilent, TransportFails, state
    <2>5. QED
      BY <2>1, <2>2, <2>3, <2>4 DEF Next
  <1>2. QED
    BY <1>1, SoloInductive, PTL DEF Spec, ReplacesSameHost
=============================================================================
