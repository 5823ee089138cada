------------------------------- MODULE Client -------------------------------
(***************************************************************************)
(* The connection core of mcp-ssh-workspace: sshclient.Client, shared by   *)
(* every tool handler and by every tunnel-forwarding goroutine.            *)
(*                                                                         *)
(* A caller is one such goroutine.  Its control state pc[g] names the      *)
(* statement it executes next; the steps are the critical sections of      *)
(* c.mu, the unlocked reads, and the calls that wait for the network.      *)
(* c.mu is held across Dial, sftp.NewClient and Getwd exactly as in        *)
(* Connect, and across the two Close calls exactly as in Close.            *)
(***************************************************************************)
EXTENDS Naturals, FiniteSets

CONSTANTS
    Callers,     \* goroutines that use the client
    Tools,       \* the handlers each caller may run
    Hosts,       \* remote hosts, after alias resolution
    Conns,       \* SSH connections that may be dialled (bounds the dials)
    None,        \* nil pointer, "" string, free mutex
    Root,        \* a directory of no particular host: "/", or one the tool names
    Torn         \* a string torn by a data race: one write's pointer, another's length

Handlers == {"connect", "disconnect", "run", "file", "forward", "sudo"}

ASSUME ClientAssumption ==
    /\ Tools \in [Callers -> SUBSET Handlers]
    /\ None \notin Callers \cup Hosts \cup Conns \cup {Root, Torn}

VARIABLES
    mu,           \* holder of c.mu, or None
    cfgHost,      \* c.cfg.Host
    sshClient,    \* c.sshClient
    sftpClient,   \* c.sftpClient
    currentCwd,   \* c.currentCwd, abstracted to the host it is a directory of
    sudoPassword, \* c.sudoPassword, abstracted to the host it belongs to
    net,          \* state of each SSH connection, as the network leaves it
    peer,         \* host each SSH connection leads to
    pc,           \* next statement of each caller
    op,           \* handler each caller runs
    leg,          \* which call of EnsureConnected the caller is in
    want,         \* host argument of ConnectTo
    dir,          \* activeCwd of RunCommand
    pass,         \* sudoPass of RunCommand
    cli,          \* client pointer returned by SSH() or SFTP()
    aux           \* client pointer local to EnsureConnected, Connect, mkdirAll

state  == <<cfgHost, sshClient, sftpClient, currentCwd, sudoPassword>>
world  == <<net, peer>>
locals == <<op, leg, want, dir, pass, cli, aux>>
vars   == <<mu, state, world, pc, locals>>

Dirs      == Hosts \cup {None, Root, Torn}
Ops       == {"none", "connect", "disconnect", "run", "file", "forward"}
Legs      == {"entry", "client", "mkdir"}
NetStates == {"unused", "up", "sftpdown", "silent", "down", "closed"}
PCs       == {"idle", "close", "closing", "setcfg", "setsudo", "connect",
              "dial", "sftp", "initcwd", "getwd", "connected", "ensure",
              "snapshot", "probe", "cwd", "sudo", "get", "resolve", "use",
              "mkdir", "running", "setcwd"}

\* The statements executed while holding c.mu beyond a single atomic section.
Critical  == {"closing", "dial", "sftp", "initcwd", "getwd"}

TypeOK ==
    /\ mu \in Callers \cup {None}
    /\ cfgHost \in Hosts \cup {None}
    /\ sshClient \in Conns \cup {None}
    /\ sftpClient \in Conns \cup {None}
    /\ currentCwd \in Dirs
    /\ sudoPassword \in Hosts \cup {None}
    /\ net \in [Conns -> NetStates]
    /\ peer \in [Conns -> Hosts \cup {None}]
    /\ pc \in [Callers -> PCs]
    /\ op \in [Callers -> Ops]
    /\ leg \in [Callers -> Legs]
    /\ want \in [Callers -> Hosts \cup {None}]
    /\ dir \in [Callers -> Dirs]
    /\ pass \in [Callers -> Hosts \cup {None}]
    /\ cli \in [Callers -> Conns \cup {None}]
    /\ aux \in [Callers -> Conns \cup {None}]

-----------------------------------------------------------------------------
(* Helpers *)

Live(k) == net[k] \in {"up", "sftpdown", "silent"}

Goto(g, l) == pc' = [pc EXCEPT ![g] = l]

\* The handler returns: its stack is gone.
Return(g) ==
    /\ Goto(g, "idle")
    /\ op'   = [op   EXCEPT ![g] = "none"]
    /\ leg'  = [leg  EXCEPT ![g] = "entry"]
    /\ want' = [want EXCEPT ![g] = None]
    /\ dir'  = [dir  EXCEPT ![g] = None]
    /\ pass' = [pass EXCEPT ![g] = None]
    /\ cli'  = [cli  EXCEPT ![g] = None]
    /\ aux'  = [aux  EXCEPT ![g] = None]

\* Connect and ConnectTo write currentCwd under c.mu, GetCwd and SetCwd access
\* it under cwdMu: next to such an unsynchronised write, a read or a write of
\* the two-word string may be torn.
RacesWith(g, ps) == \E o \in Callers \ {g} : pc[o] \in ps

CwdReads(g) ==
    {currentCwd} \cup IF RacesWith(g, {"setcfg", "getwd"}) THEN {Torn} ELSE {}

CwdAfter(g, d, ps) == {d} \cup IF RacesWith(g, ps) THEN {Torn} ELSE {}

\* Where EnsureConnected returns nil to: RunCommand reads the cwd after its
\* own call, SSH() and SFTP() read the client, mkdirAll's SFTP() likewise.
Ensured(g) ==
    [entry |-> "cwd", client |-> "get", mkdir |-> "mkdir"][leg[g]]

-----------------------------------------------------------------------------
(* NewClient: dynamic mode (no host), or a host from the flags with the    *)
(* boot-time Connect having failed (a warning) or succeeded.               *)

NewClient ==
    /\ mu = None
    /\ pc = [g \in Callers |-> "idle"]
    /\ op = [g \in Callers |-> "none"]
    /\ leg = [g \in Callers |-> "entry"]
    /\ want = [g \in Callers |-> None]
    /\ dir = [g \in Callers |-> None]
    /\ pass = [g \in Callers |-> None]
    /\ cli = [g \in Callers |-> None]
    /\ aux = [g \in Callers |-> None]
    /\ cfgHost \in Hosts \cup {None}
    /\ sudoPassword \in {None, cfgHost}
    /\ \/ /\ sshClient = None
          /\ sftpClient = None
          /\ currentCwd \in {None, cfgHost}
          /\ net = [k \in Conns |-> "unused"]
          /\ peer = [k \in Conns |-> None]
       \/ /\ cfgHost # None
          /\ \E k \in Conns :
                /\ sshClient = k
                /\ sftpClient = k
                /\ net = [c \in Conns |-> IF c = k THEN "up" ELSE "unused"]
                /\ peer = [c \in Conns |-> IF c = k THEN cfgHost ELSE None]
          /\ currentCwd \in {cfgHost, Root}

-----------------------------------------------------------------------------
(* Tool handlers are entered *)

Enter(g, o, l, first) ==
    /\ pc[g] = "idle"
    /\ o \in Tools[g]
    /\ op' = [op EXCEPT ![g] = o]
    /\ leg' = [leg EXCEPT ![g] = l]
    /\ Goto(g, first)
    /\ UNCHANGED <<mu, state, world, cli, aux>>

\* Mutant of InvokeConnect: ConnectTo without its Close.
InvokeConnectUnclosed(g, h) ==
    /\ Enter(g, "connect", "client", "setcfg")
    /\ want' = [want EXCEPT ![g] = h]
    /\ UNCHANGED <<dir, pass>>

\* remote_connect with a host.
InvokeConnect(g, h) ==
    /\ Enter(g, "connect", "client", "close")
    /\ want' = [want EXCEPT ![g] = h]
    /\ UNCHANGED <<dir, pass>>

\* remote_disconnect.
InvokeDisconnect(g) ==
    /\ Enter(g, "disconnect", "client", "close")
    /\ UNCHANGED <<want, dir, pass>>

\* remote_run_command with an optional cwd and sudo password.
InvokeRun(g) ==
    /\ Enter(g, "run", "entry", "ensure")
    /\ \E d \in {None, Root} : dir' = [dir EXCEPT ![g] = d]
    /\ \E p \in {None, cfgHost} : pass' = [pass EXCEPT ![g] = p]
    /\ UNCHANGED want

\* remote_grep_search, remote_find_by_name and remote_session_info run a command
\* of their own in client.GetCwd(), read before the connection is ensured.
InvokeSearch(g) ==
    /\ Enter(g, "run", "entry", "ensure")
    /\ \E d \in CwdReads(g) : dir' = [dir EXCEPT ![g] = d]
    /\ UNCHANGED <<want, pass>>

\* The file tools, all of which start with SFTP().
InvokeFile(g) ==
    /\ Enter(g, "file", "client", "ensure")
    /\ UNCHANGED <<want, dir, pass>>

\* A tunnel has accepted a local connection and calls tm.sshClient().
InvokeForward(g) ==
    /\ Enter(g, "forward", "client", "ensure")
    /\ UNCHANGED <<want, dir, pass>>

\* remote_set_sudo_password: the password is for the configured host, and for
\* no host in particular when there is none.
InvokeSetSudo(g) ==
    /\ pc[g] = "idle"
    /\ "sudo" \in Tools[g]
    /\ sudoPassword' = cfgHost
    /\ UNCHANGED <<mu, cfgHost, sshClient, sftpClient, currentCwd, world, pc,
                   locals>>

-----------------------------------------------------------------------------
(* Close, alone or as the first call of ConnectTo *)

\* Mutant of CloseLock: Close does not take c.mu.
CloseUnlocked(g) ==
    /\ pc[g] = "close"
    /\ mu' = g
    /\ Goto(g, "closing")
    /\ UNCHANGED <<state, world, locals>>

CloseLock(g) ==
    /\ pc[g] = "close"
    /\ mu = None
    /\ mu' = g
    /\ Goto(g, "closing")
    /\ UNCHANGED <<state, world, locals>>

\* Mutant of CloseClients: Close also resets the pointers.
CloseToNil(g) ==
    /\ pc[g] = "closing"
    /\ sftpClient # None => net[sftpClient] # "silent"
    /\ net' = IF sshClient = None THEN net
                                  ELSE [net EXCEPT ![sshClient] = "closed"]
    /\ sshClient' = None
    /\ sftpClient' = None
    /\ mu' = None
    /\ IF op[g] = "connect"
       THEN Goto(g, "setcfg") /\ UNCHANGED locals
       ELSE Return(g)
    /\ UNCHANGED <<cfgHost, currentCwd, sudoPassword, peer>>

\* sftpClient.Close waits for its receive loop, which ends only when the peer
\* answers or the transport fails.  Neither pointer is reset to nil.
CloseClients(g) ==
    /\ pc[g] = "closing"
    /\ sftpClient # None => net[sftpClient] # "silent"
    /\ net' = IF sshClient = None THEN net
                                  ELSE [net EXCEPT ![sshClient] = "closed"]
    /\ mu' = None
    /\ IF op[g] = "connect"
       THEN Goto(g, "setcfg") /\ UNCHANGED locals
       ELSE Return(g)
    /\ UNCHANGED <<state, peer>>

-----------------------------------------------------------------------------
(* ConnectTo *)

\* Mutants of SetConfig: without c.mu, and without resetting the cwd.
SetConfigUnlocked(g) ==
    /\ pc[g] = "setcfg"
    /\ cfgHost' = want[g]
    /\ currentCwd' \in CwdAfter(g, None, {"setcwd"})
    /\ Goto(g, "setsudo")
    /\ UNCHANGED <<mu, sshClient, sftpClient, sudoPassword, world, locals>>

SetConfigKeepsCwd(g) ==
    /\ pc[g] = "setcfg"
    /\ mu = None
    /\ cfgHost' = want[g]
    /\ Goto(g, "setsudo")
    /\ UNCHANGED <<mu, sshClient, sftpClient, currentCwd, sudoPassword, world,
                   locals>>

SetConfig(g) ==
    /\ pc[g] = "setcfg"
    /\ mu = None
    /\ cfgHost' = want[g]
    /\ currentCwd' \in CwdAfter(g, None, {"setcwd"})
    /\ Goto(g, "setsudo")
    /\ UNCHANGED <<mu, sshClient, sftpClient, sudoPassword, world, locals>>

\* Mutant of SetSudo: the old password stays when no new one is given.
SetSudoIfGiven(g) ==
    /\ pc[g] = "setsudo"
    /\ \E p \in {want[g], sudoPassword} : sudoPassword' = p
    /\ Goto(g, "connect")
    /\ UNCHANGED <<mu, cfgHost, sshClient, sftpClient, currentCwd, world,
                   locals>>

\* The sudo password given for this host, or the login password, or none.
SetSudo(g) ==
    /\ pc[g] = "setsudo"
    /\ \E p \in {want[g], None} : sudoPassword' = p
    /\ Goto(g, "connect")
    /\ UNCHANGED <<mu, cfgHost, sshClient, sftpClient, currentCwd, world,
                   locals>>

-----------------------------------------------------------------------------
(* Connect: c.mu is held from ConnectLock to the return *)

ConnectLock(g) ==
    /\ pc[g] = "connect"
    /\ mu = None
    /\ mu' = g
    /\ Goto(g, "dial")
    /\ UNCHANGED <<state, world, locals>>

\* Mutant of DialFails: ConnectTo ignores the error.
DialFailsIgnored(g) ==
    /\ pc[g] = "dial"
    /\ mu' = None
    /\ IF op[g] = "connect"
       THEN Goto(g, "connected") /\ UNCHANGED locals
       ELSE Return(g)
    /\ UNCHANGED <<state, world>>

\* No authentication method, or ssh.Dial fails.
DialFails(g) ==
    /\ pc[g] = "dial"
    /\ mu' = None
    /\ Return(g)
    /\ UNCHANGED <<state, world>>

DialSucceeds(g) ==
    /\ pc[g] = "dial"
    /\ \E k \in Conns :
          /\ net[k] = "unused"
          /\ net' = [net EXCEPT ![k] = "up"]
          /\ peer' = [peer EXCEPT ![k] = cfgHost]
          /\ aux' = [aux EXCEPT ![g] = k]
    /\ Goto(g, "sftp")
    /\ UNCHANGED <<mu, state, op, leg, want, dir, pass, cli>>

\* Mutant of SftpFails: sshClient was assigned before sftp.NewClient failed.
SftpFailsHalfway(g) ==
    /\ pc[g] = "sftp"
    /\ net[aux[g]] # "silent"
    /\ net' = [net EXCEPT ![aux[g]] = "closed"]
    /\ sshClient' = aux[g]
    /\ mu' = None
    /\ Return(g)
    /\ UNCHANGED <<cfgHost, sftpClient, currentCwd, sudoPassword, peer>>

\* sftp.NewClient fails: the new SSH client is closed again.
SftpFails(g) ==
    /\ pc[g] = "sftp"
    /\ net[aux[g]] # "silent"
    /\ net' = [net EXCEPT ![aux[g]] = "closed"]
    /\ mu' = None
    /\ Return(g)
    /\ UNCHANGED <<state, peer>>

\* Both pointers are overwritten; the clients they held are not closed.
Install(g) ==
    /\ pc[g] = "sftp"
    /\ net[aux[g]] = "up"
    /\ sshClient' = aux[g]
    /\ sftpClient' = aux[g]
    /\ Goto(g, "initcwd")
    /\ UNCHANGED <<mu, cfgHost, currentCwd, sudoPassword, world, locals>>

ConnectReturns(g) ==
    /\ mu' = None
    /\ Goto(g, IF op[g] = "connect" THEN "connected" ELSE Ensured(g))
    /\ aux' = [aux EXCEPT ![g] = None]
    /\ UNCHANGED <<op, leg, want, dir, pass, cli>>

CwdIsSet(g) ==
    /\ pc[g] = "initcwd"
    /\ currentCwd # None
    /\ ConnectReturns(g)
    /\ UNCHANGED <<state, world>>

CwdIsUnset(g) ==
    /\ pc[g] = "initcwd"
    /\ currentCwd = None
    /\ Goto(g, "getwd")
    /\ UNCHANGED <<mu, state, world, locals>>

\* The remote home, or "/" when Getwd fails or returns nothing.  The write
\* is under c.mu, not under the cwdMu that GetCwd and SetCwd use.
InitCwd(g) ==
    /\ pc[g] = "getwd"
    /\ net[aux[g]] # "silent"
    /\ \/ /\ net[aux[g]] = "up"
          /\ currentCwd' \in CwdAfter(g, peer[aux[g]], {"setcwd"})
       \/ currentCwd' \in CwdAfter(g, Root, {"setcwd"})
    /\ ConnectReturns(g)
    /\ UNCHANGED <<cfgHost, sshClient, sftpClient, sudoPassword, world>>

\* The remote_connect handler reports "Successfully connected to <host>".
ReportConnected(g) ==
    /\ pc[g] = "connected"
    /\ Return(g)
    /\ UNCHANGED <<mu, state, world>>

-----------------------------------------------------------------------------
(* EnsureConnected *)

\* First critical section: no host is an error, no client a first connect.
EnsureCheck(g) ==
    /\ pc[g] = "ensure"
    /\ mu = None
    /\ IF cfgHost = None
       THEN Return(g)
       ELSE /\ Goto(g, IF sshClient = None THEN "connect" ELSE "snapshot")
            /\ UNCHANGED locals
    /\ UNCHANGED <<mu, state, world>>

\* Second critical section: take the SFTP client to probe.
EnsureSnapshot(g) ==
    /\ pc[g] = "snapshot"
    /\ mu = None
    /\ aux' = [aux EXCEPT ![g] = sftpClient]
    /\ Goto(g, IF sftpClient = None THEN "connect" ELSE "probe")
    /\ UNCHANGED <<mu, state, world, op, leg, want, dir, pass, cli>>

\* Getwd on the snapshot, without the lock.  Every error means reconnect: that
\* of a dead subsystem or transport, and a status error of a healthy one.
Probe(g) ==
    /\ pc[g] = "probe"
    /\ net[aux[g]] # "silent"
    /\ \/ net[aux[g]] = "up" /\ Goto(g, Ensured(g))
       \/ Goto(g, "connect")
    /\ aux' = [aux EXCEPT ![g] = None]
    /\ UNCHANGED <<mu, state, world, op, leg, want, dir, pass, cli>>

\* SSH() and SFTP() re-read the field after EnsureConnected, without c.mu.
GetClient(g) ==
    /\ pc[g] = "get"
    /\ cli' = [cli EXCEPT ![g] = IF op[g] = "file" THEN sftpClient
                                                   ELSE sshClient]
    /\ Goto(g, IF op[g] = "file" THEN "resolve" ELSE "use")
    /\ UNCHANGED <<mu, state, world, op, leg, want, dir, pass, aux>>

-----------------------------------------------------------------------------
(* RunCommand, seen from the client *)

ReadCwd(g) ==
    /\ pc[g] = "cwd"
    /\ \E d \in CwdReads(g) :
          dir' = [dir EXCEPT ![g] = IF @ = None THEN d ELSE @]
    /\ Goto(g, "sudo")
    /\ UNCHANGED <<mu, state, world, op, leg, want, pass, cli, aux>>

\* A password passed with the command replaces the stored one.
PickSudo(g) ==
    /\ pc[g] = "sudo"
    /\ sudoPassword' = IF pass[g] # None THEN pass[g] ELSE sudoPassword
    /\ pass' = [pass EXCEPT ![g] = sudoPassword']
    /\ leg' = [leg EXCEPT ![g] = "client"]
    /\ Goto(g, "ensure")
    /\ UNCHANGED <<mu, cfgHost, sshClient, sftpClient, currentCwd, world, op,
                   want, dir, cli, aux>>

\* NewSession, StdinPipe and Start.
StartCommand(g) ==
    /\ pc[g] = "use"
    /\ op[g] = "run"
    /\ net[cli[g]] # "silent"
    /\ \/ /\ net[cli[g]] \in {"up", "sftpdown"}
          /\ Goto(g, "running")
          /\ UNCHANGED locals
       \/ Return(g)
    /\ UNCHANGED <<mu, state, world>>

\* The command is a daemon, outlives waitMs, or ends without the cwd marker.
CommandDetaches(g) ==
    /\ pc[g] = "running"
    /\ Return(g)
    /\ UNCHANGED <<mu, state, world>>

\* The command ends in time and its output carries the directory it ended in.
CommandEnds(g) ==
    /\ pc[g] = "running"
    /\ net[cli[g]] \in {"up", "sftpdown"}
    /\ Goto(g, "setcwd")
    /\ UNCHANGED <<mu, state, world, locals>>

SetCwd(g) ==
    /\ pc[g] = "setcwd"
    /\ currentCwd' \in CwdAfter(g, peer[cli[g]], {"setcfg", "getwd"})
    /\ Return(g)
    /\ UNCHANGED <<mu, cfgHost, sshClient, sftpClient, sudoPassword, world>>

-----------------------------------------------------------------------------
(* The file tools and the tunnels, seen from the client *)

\* A relative path is one in the cwd, an absolute one in no host's in particular.
ResolvePath(g) ==
    /\ pc[g] = "resolve"
    /\ \E d \in CwdReads(g) \cup {Root} : dir' = [dir EXCEPT ![g] = d]
    /\ Goto(g, "use")
    /\ UNCHANGED <<mu, state, world, op, leg, want, pass, cli, aux>>

\* WriteFile and UploadFile run mkdirAll, which asks for the SFTP client a
\* second time.
MkdirAll(g) ==
    /\ pc[g] = "use"
    /\ op[g] = "file"
    /\ leg[g] = "client"
    /\ leg' = [leg EXCEPT ![g] = "mkdir"]
    /\ Goto(g, "ensure")
    /\ UNCHANGED <<mu, state, world, op, want, dir, pass, cli, aux>>

Mkdir(g) ==
    /\ pc[g] = "mkdir"
    /\ aux' = [aux EXCEPT ![g] = sftpClient]
    /\ Goto(g, "use")
    /\ UNCHANGED <<mu, state, world, op, leg, want, dir, pass, cli>>

\* The requests of the file tool, or the tunnel's Dial, end either way.
UseEnds(g) ==
    /\ pc[g] = "use"
    /\ op[g] \in {"file", "forward"}
    /\ net[cli[g]] # "silent"
    /\ Return(g)
    /\ UNCHANGED <<mu, state, world>>

-----------------------------------------------------------------------------
(* The network and the remote host *)

\* The remote ends the SFTP subsystem; the SSH transport stays up.
SftpDies(k) ==
    /\ net[k] = "up"
    /\ net' = [net EXCEPT ![k] = "sftpdown"]
    /\ UNCHANGED <<mu, state, peer, pc, locals>>

\* The peer stops answering and no error has been seen yet.
GoSilent(k) ==
    /\ net[k] \in {"up", "sftpdown"}
    /\ net' = [net EXCEPT ![k] = "silent"]
    /\ UNCHANGED <<mu, state, peer, pc, locals>>

\* The transport fails with an error (reset, or TCP keep-alive).
TransportFails(k) ==
    /\ Live(k)
    /\ net' = [net EXCEPT ![k] = "down"]
    /\ UNCHANGED <<mu, state, peer, pc, locals>>

-----------------------------------------------------------------------------
(* The specification *)

Invoke(g) ==
    \/ \E h \in Hosts : InvokeConnect(g, h)
    \/ InvokeDisconnect(g)
    \/ InvokeRun(g)
    \/ InvokeSearch(g)
    \/ InvokeFile(g)
    \/ InvokeForward(g)
    \/ InvokeSetSudo(g)

\* Steps that wait for c.mu.
LockStep(g) ==
    \/ CloseLock(g)
    \/ SetConfig(g)
    \/ ConnectLock(g)
    \/ EnsureCheck(g)
    \/ EnsureSnapshot(g)

Step(g) ==
    \/ CloseClients(g)
    \/ SetSudo(g)
    \/ DialFails(g)
    \/ DialSucceeds(g)
    \/ SftpFails(g)
    \/ Install(g)
    \/ CwdIsSet(g)
    \/ CwdIsUnset(g)
    \/ InitCwd(g)
    \/ ReportConnected(g)
    \/ Probe(g)
    \/ GetClient(g)
    \/ ReadCwd(g)
    \/ PickSudo(g)
    \/ StartCommand(g)
    \/ CommandDetaches(g)
    \/ CommandEnds(g)
    \/ SetCwd(g)
    \/ ResolvePath(g)
    \/ MkdirAll(g)
    \/ Mkdir(g)
    \/ UseEnds(g)

Network(k) == SftpDies(k) \/ GoSilent(k) \/ TransportFails(k)

Next ==
    \/ \E g \in Callers : Invoke(g) \/ LockStep(g) \/ Step(g)
    \/ \E k \in Conns : Network(k)

Spec == NewClient /\ [][Next]_vars

-----------------------------------------------------------------------------
(* Properties *)

\* c.mu excludes: exactly its holder is between Lock and Unlock of Close or
\* Connect, so a Connect never overlaps another, nor a Close.
MutexHeld ==
    \A g \in Callers : (pc[g] \in Critical) <=> (mu = g)

\* A handler that got no error from EnsureConnected never uses a nil client:
\* SSH() and SFTP() read the field without the lock, after the check, and rely
\* on it never going back to nil, whatever Close and Connect do meanwhile.
NeverNilClient ==
    \A g \in Callers :
        /\ pc[g] \in {"resolve", "use", "running", "setcwd"} => cli[g] # None
        /\ (pc[g] = "use" /\ leg[g] = "mkdir") => aux[g] # None

\* The SSH and the SFTP client always come from the same Connect, also after
\* a Connect that failed half-way.
ClientsArePaired == sshClient = sftpClient

\* Connect works for the configured host from its dial to its return: the
\* configuration cannot change under a Connect in progress.
DialsConfiguredHost ==
    \A g \in Callers :
        pc[g] \in {"sftp", "initcwd", "getwd"} => peer[aux[g]] = cfgHost

Connectors == {g \in Callers : "connect" \in Tools[g]}

\* With one goroutine issuing remote_connect, when it reports success the
\* installed connection leads to the host it names, whatever the other
\* handlers reconnect, disconnect or run meanwhile.
SwitchTakesEffect ==
    \A g \in Callers :
        (Connectors = {g} /\ pc[g] = "connected") =>
            sshClient # None /\ peer[sshClient] = want[g]

Quiescent == \A g \in Callers : pc[g] = "idle"

\* Between tool calls, a live installed connection leads to the configured
\* host: a failed remote_connect leaves no way to run on the host left behind.
LinkFollowsConfig ==
    (Quiescent /\ sshClient # None /\ Live(sshClient)) =>
        peer[sshClient] = cfgHost

\* Between tool calls, the stored cwd is a directory of the configured host
\* (SetCwd after a command, the reset in ConnectTo, Getwd in Connect).
CwdFollowsConfig == Quiescent => currentCwd \in {None, Root, cfgHost}

\* Between tool calls nothing stored for the host left behind survives a
\* switch: neither its directory nor its sudo password.
StoredStateFollowsConfig ==
    CwdFollowsConfig /\ (Quiescent => sudoPassword \in {None, cfgHost})

\* A command starts on the host whose directory and sudo password it carries, a
\* file tool works on the host that its path was resolved for, and makes missing
\* directories there, although each is read or asked for at another moment.
CallCarriesItsHostsState ==
    \A g \in Callers :
        /\ pc[g] = "running" =>
              /\ dir[g] \in {None, Root, peer[cli[g]]}
              /\ pass[g] \in {None, peer[cli[g]]}
        /\ (pc[g] = "use" /\ op[g] = "file") =>
              /\ dir[g] \in {None, Root, peer[cli[g]]}
              /\ leg[g] = "mkdir" => peer[aux[g]] = peer[cli[g]]

\* Between tool calls the only live connection is the installed one: a
\* reconnect never leaves a connection open that no pointer leads to.
NoLeakedConnection ==
    Quiescent => \A k \in Conns : Live(k) => k = sshClient

\* A live connection is only ever replaced by one to the same host: the probe
\* may drop a healthy connection, but a switch has closed the one it leaves, and a
\* handler that reconnects after a failed switch cannot find its way back.
ReplacesSameHost ==
    [][(sshClient' # sshClient /\ sshClient # None /\ Live(sshClient)) =>
          peer'[sshClient'] = peer[sshClient]]_vars

-----------------------------------------------------------------------------
(* The inductive invariant behind the safety properties *)

\* EnsureConnected or Connect has returned, or is past, a non-nil check.
ClientInstalled ==
    \A g \in Callers :
        pc[g] \in {"snapshot", "probe", "initcwd", "getwd", "connected", "cwd",
                  "sudo", "get", "mkdir"} => sshClient # None

\* The leg says where EnsureConnected returns to.
LegsInOrder ==
    \A g \in Callers :
        /\ pc[g] \in {"get", "resolve"} => leg[g] = "client"
        /\ pc[g] = "mkdir" => leg[g] = "mkdir"
        /\ leg[g] = "mkdir" => cli[g] # None
        /\ pc[g] = "probe" => aux[g] # None

\* Connect's local client is dialled, leads to the configured host, and is the
\* installed one from Install on.
DialInProgress ==
    \A g \in Callers :
        /\ pc[g] \in {"sftp", "initcwd", "getwd"} =>
              /\ aux[g] # None
              /\ net[aux[g]] # "unused"
              /\ peer[aux[g]] = cfgHost
        /\ pc[g] \in {"initcwd", "getwd"} => sshClient = aux[g]

InstalledWasDialled == sshClient # None => net[sshClient] # "unused"

\* From SetConfig to the report of the only connecting goroutine, the
\* configuration is the one it wrote.
SwitchInProgress ==
    \A g \in Callers :
        /\ op[g] = "connect" => g \in Connectors
        /\ pc[g] \in {"setcfg", "setsudo", "connected"} => op[g] = "connect"
        /\ op[g] = "connect" =>
              /\ want[g] \in Hosts
              /\ pc[g] \in {"close", "closing", "setcfg", "setsudo", "connect",
                           "dial", "sftp", "initcwd", "getwd", "connected"}
        /\ (/\ Connectors = {g}
            /\ op[g] = "connect"
            /\ pc[g] \in {"setsudo", "connect", "dial", "sftp", "initcwd",
                          "getwd", "connected"}) => cfgHost = want[g]
        /\ (Connectors = {g} /\ pc[g] = "connected") =>
              peer[sshClient] = cfgHost

\* The inductive invariant: NeverNilClient, DialsConfiguredHost and
\* SwitchTakesEffect, with the control-flow facts they rest on (what the mutex,
\* the nil checks and the configuration writes of the code establish where).
IInv ==
    /\ TypeOK
    /\ MutexHeld
    /\ ClientsArePaired
    /\ ClientInstalled
    /\ NeverNilClient
    /\ LegsInOrder
    /\ DialInProgress
    /\ InstalledWasDialled
    /\ SwitchInProgress

\* What holds besides when tool calls do not overlap: the installed connection
\* is dead or leads to the configured host, and so does all that a handler has
\* picked up on its way (inductive together with IInv).
SoloInv ==
    \A g \in Callers : Callers = {g} =>
        /\ (sshClient # None /\ Live(sshClient)) => peer[sshClient] = cfgHost
        /\ (sshClient # None /\ pc[g] \in {"setcfg", "setsudo"}) =>
              ~ Live(sshClient)
        /\ pc[g] = "probe" => aux[g] = sftpClient
        /\ pc[g] \in {"cwd", "sudo", "get", "mkdir"} =>
              sshClient # None /\ peer[sshClient] = cfgHost
        /\ (pc[g] \in {"resolve", "use", "running", "setcwd"} \/ leg[g] = "mkdir") =>
              cli[g] # None /\ net[cli[g]] # "unused" /\ peer[cli[g]] = cfgHost
        /\ (pc[g] = "use" /\ leg[g] = "mkdir") =>
              aux[g] # None /\ net[aux[g]] # "unused" /\ peer[aux[g]] = cfgHost
        /\ op[g] = "connect" => leg[g] = "client" /\ dir[g] = None /\ pass[g] = None
        /\ pc[g] = "idle" => dir[g] = None /\ pass[g] = None
        /\ currentCwd \in {None, Root, cfgHost}
        /\ pc[g] # "setsudo" => sudoPassword \in {None, cfgHost}
        /\ dir[g] \in {None, Root, cfgHost}
        /\ pass[g] \in {None, cfgHost}
=============================================================================
