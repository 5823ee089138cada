----------------------------- MODULE Workspace -----------------------------
(***************************************************************************)
(* Client and Tunnels together, with the goroutines of the connections     *)
(* the tunnels accept.  Client.Close calls CloseAll while it holds c.mu,   *)
(* and every accepted connection calls Client.SSH(), which takes c.mu and  *)
(* may reconnect; the two then meet on the SSH connection itself.          *)
(***************************************************************************)
EXTENDS Naturals

CONSTANTS
    Callers, Tools,      \* tool calls, as in Client
    Links,               \* local connections ever accepted (bounds them)
    Hosts, Conns, Ids, None, Root, Torn

VARIABLES
    mu, cfgHost, sshClient, sftpClient, currentCwd, sudoPassword, net, peer,
    pc, op, leg, want, dir, pass, cli, aux,                     \* Client
    tmu, table, opener, listener, closed, stopChan, loop, cpc, arg, batch,
    cur,                                                        \* Tunnels
    link,      \* next statement of the goroutine of each local connection
    via,       \* the SSH connection its remote end runs over
    copier,    \* its two copying goroutines
    done       \* messages in its channel done

C == INSTANCE Client WITH
        Callers <- Callers \cup Links,
        Tools <- [g \in Callers \cup Links |->
                     IF g \in Links THEN {"forward"} ELSE Tools]

T == INSTANCE Tunnels WITH Closers <- Callers

ASSUME WorkspaceAssumption ==
    /\ Tools \subseteq C!Handlers
    /\ Callers \cap Links = {}
    /\ None \notin Callers \cup Links \cup Hosts \cup Conns \cup Ids \cup {Root, Torn}

client     == <<mu, cfgHost, sshClient, sftpClient, currentCwd, sudoPassword,
                net, peer, pc, op, leg, want, dir, pass, cli, aux>>
tunnels    == <<tmu, table, opener, listener, closed, stopChan, loop, cpc, arg,
                batch, cur>>
forwarding == <<link, via, copier, done>>
vars       == <<client, tunnels, forwarding>>

Ways     == {"up", "down"}
Capacity == 2                   \* of done

ForwardingTyped ==
    /\ link \in [Links -> {"none", "client", "wait", "remote", "local", "done"}]
    /\ via \in [Links -> Conns \cup {None}]
    /\ copier \in [Links -> [Ways -> {"none", "copy", "send", "done"}]]
    /\ done \in [Links -> 0..Capacity]

TypeOK == C!TypeOK /\ T!TypeOK /\ ForwardingTyped

Init ==
    /\ C!NewClient
    /\ T!Init
    /\ link = [k \in Links |-> "none"]
    /\ via = [k \in Links |-> None]
    /\ copier = [k \in Links |-> [w \in Ways |-> "none"]]
    /\ done = [k \in Links |-> 0]

-----------------------------------------------------------------------------
(* Tool calls *)

\* A handler is at work in one of the two.
Invoke(g) ==
    /\ pc[g] = "idle"
    /\ cpc[g] = "idle"
    /\ \/ C!Invoke(g) /\ UNCHANGED tunnels
       \/ T!InvokeClose(g) /\ arg'[g] # None /\ UNCHANGED client
    /\ UNCHANGED forwarding

\* Mutant of CloseLock: the forwarded connections are waited for.
CloseLockDrained(g) ==
    /\ \A k \in Links : link[k] \in {"none", "done"}
    /\ C!CloseLock(g)
    /\ T!InvokeClose(g)
    /\ arg'[g] = None
    /\ UNCHANGED forwarding

\* Close takes c.mu and calls CloseAll.
CloseLock(g) ==
    /\ C!CloseLock(g)
    /\ T!InvokeClose(g)
    /\ arg'[g] = None
    /\ UNCHANGED forwarding

\* Mutant of CloseClients: CloseAll runs in a goroutine of its own.
CloseClientsAtOnce(g) ==
    /\ C!CloseClients(g)
    /\ UNCHANGED <<tunnels, forwarding>>

\* After CloseAll has returned.
CloseClients(g) ==
    /\ cpc[g] = "idle"
    /\ C!CloseClients(g)
    /\ UNCHANGED <<tunnels, forwarding>>

ClientLock(g) ==
    /\ pc[g] # "close"
    /\ C!LockStep(g)
    /\ UNCHANGED <<tunnels, forwarding>>

ClientStep(g) ==
    /\ pc[g] # "closing"
    /\ g \in Links => pc[g] # "use"
    /\ C!Step(g)
    /\ UNCHANGED <<tunnels, forwarding>>

TunnelStep ==
    /\ \/ \E t \in Ids :
             T!Bind(t) \/ T!OpenStep(t) \/ T!AcceptFails(t) \/ T!LoopStep(t)
       \/ \E g \in Callers : T!LockStep(g) \/ T!CloseStep(g)
    /\ UNCHANGED <<client, forwarding>>

Network(k) == C!Network(k) /\ UNCHANGED <<tunnels, forwarding>>

-----------------------------------------------------------------------------
(* The goroutine of an accepted connection *)

LinkGoes(k, from, to) ==
    link[k] = from /\ link' = [link EXCEPT ![k] = to]

\* Accept returns a connection; its goroutine calls tm.sshClient(), while the
\* loop goes back to Accept.
Accept(t, k) ==
    /\ T!MayAccept(t)
    /\ LinkGoes(k, "none", "client")
    /\ C!InvokeForward(k)
    /\ UNCHANGED <<tunnels, via, copier, done>>

\* SSH() has returned an error.
NoClient(k) ==
    /\ pc[k] = "idle"
    /\ LinkGoes(k, "client", "local")
    /\ UNCHANGED <<client, tunnels, via, copier, done>>

\* Dial on the client SSH() returned; both copying goroutines are started.
Dial(k) ==
    /\ link[k] = "client"
    /\ C!UseEnds(k)
    /\ \/ /\ net[cli[k]] \in {"up", "sftpdown"}
          /\ LinkGoes(k, "client", "wait")
          /\ via' = [via EXCEPT ![k] = cli[k]]
          /\ copier' = [copier EXCEPT ![k] = [w \in Ways |-> "copy"]]
       \/ LinkGoes(k, "client", "local") /\ UNCHANGED <<via, copier>>
    /\ UNCHANGED <<tunnels, done>>

CopierGoes(k, w, from, to) ==
    copier[k][w] = from /\ copier' = [copier EXCEPT ![k][w] = to]

\* The copy has to end: its connection is closed, or the SSH transport is.
Cut(k) == link[k] = "wait" => ~ C!Live(via[k])

\* io.Copy reads the end of its stream, or fails to read or to write.
CopyEnds(k, w) ==
    /\ CopierGoes(k, w, "copy", "send")
    /\ UNCHANGED <<client, tunnels, link, via, done>>

\* Mutant of SendDone: an unbuffered channel.
SendDoneUnbuffered(k, w) ==
    /\ CopierGoes(k, w, "send", "done")
    /\ link[k] = "wait"
    /\ done[k] = 0
    /\ done' = [done EXCEPT ![k] = @ + 1]
    /\ UNCHANGED <<client, tunnels, link, via>>

SendDone(k, w) ==
    /\ CopierGoes(k, w, "send", "done")
    /\ done[k] < Capacity
    /\ done' = [done EXCEPT ![k] = @ + 1]
    /\ UNCHANGED <<client, tunnels, link, via>>

\* The first direction that ends ends the connection.
ReceiveDone(k) ==
    /\ LinkGoes(k, "wait", "remote")
    /\ done[k] > 0
    /\ done' = [done EXCEPT ![k] = @ - 1]
    /\ UNCHANGED <<client, tunnels, via, copier>>

\* The deferred closes, last deferred first.
CloseConn(k) ==
    /\ LinkGoes(k, "remote", "local") \/ LinkGoes(k, "local", "done")
    /\ UNCHANGED <<client, tunnels, via, copier, done>>

-----------------------------------------------------------------------------
(* The specification *)

LinkStep(k) == NoClient(k) \/ Dial(k) \/ ReceiveDone(k) \/ CloseConn(k)

Next ==
    \/ \E g \in Callers : Invoke(g) \/ CloseLock(g) \/ CloseClients(g)
    \/ \E g \in Callers \cup Links : ClientLock(g) \/ ClientStep(g)
    \/ \E k \in Conns : Network(k)
    \/ TunnelStep
    \/ \E k \in Links :
          \/ \E t \in Ids : Accept(t, k)
          \/ LinkStep(k)
          \/ \E w \in Ways : CopyEnds(k, w) \/ SendDone(k, w)

Spec == Init /\ [][Next]_vars

\* As in Client and Tunnels.  Sending and receiving goroutines are scheduled;
\* a copy ends when its connection does.
Fairness ==
    /\ \A g \in Callers :
          /\ SF_vars(CloseLock(g)) /\ WF_vars(CloseClients(g))
          /\ SF_vars(T!LockStep(g) /\ UNCHANGED <<client, forwarding>>)
          /\ WF_vars(T!CloseStep(g) /\ UNCHANGED <<client, forwarding>>)
    /\ \A g \in Callers \cup Links : SF_vars(ClientLock(g)) /\ WF_vars(ClientStep(g))
    /\ \A k \in Conns : WF_vars(net[k] = "silent" /\ C!TransportFails(k)
                                /\ UNCHANGED <<tunnels, forwarding>>)
    /\ \A k \in Links :
          /\ WF_vars(LinkStep(k))
          /\ \A w \in Ways : WF_vars(SendDone(k, w)) /\ WF_vars(Cut(k) /\ CopyEnds(k, w))

FairSpec == Spec /\ Fairness

-----------------------------------------------------------------------------
(* Properties *)

\* Every tool call ends, also a disconnect that closes tunnels whose accepted
\* connections are just asking for the client, and whatever the network does:
\* c.mu and tm.mu are never waited for in a circle.
CallsReturn ==
    \A g \in Callers : (pc[g] # "idle" \/ cpc[g] # "idle")
                           ~> (pc[g] = "idle" /\ cpc[g] = "idle")

\* Once one of its directions has ended, or the SSH connection is gone (a
\* disconnect, a failed transport), nothing of a forwarded connection is left:
\* its goroutine and both copying goroutines return.
ForwardingEnds ==
    \A k \in Links :
        (link[k] = "wait" /\ (~ C!Live(via[k]) \/ \E w \in Ways : copier[k][w] # "copy"))
        ~> (link[k] = "done" /\ \A w \in Ways : copier[k][w] = "done")

\* c.mu comes before tm.mu: who closes all tunnels holds c.mu all the while, and
\* whoever else is in Close or CloseAll of the tunnels wants nothing of the client.
LocksNest ==
    \A g \in Callers : cpc[g] # "idle" =>
        IF arg[g] = None THEN mu = g /\ pc[g] = "closing" ELSE pc[g] = "idle"

\* The channel done has room for whoever sends, also when the one goroutine that
\* receives from it has returned.
SendersReturn ==
    \A k \in Links, w \in Ways : copier[k][w] = "send" => done[k] < Capacity

\* Nobody waits in a circle, or for somebody who is gone: neither the tool calls
\* for the two mutexes, nor the copying goroutines of a forwarded connection.
WaitsInOrder == LocksNest /\ SendersReturn

-----------------------------------------------------------------------------
(* The inductive invariant *)

Sent(k, w)  == IF copier[k][w] = "done" THEN 1 ELSE 0
Received(k) == IF copier[k]["up"] # "none" /\ link[k] # "wait" THEN 1 ELSE 0

\* What has been sent to done and not been received is there.
MessagesCounted ==
    \A k \in Links :
        /\ (copier[k]["up"] = "none") <=> (copier[k]["down"] = "none")
        /\ link[k] = "wait" => copier[k]["up"] # "none"
        /\ link[k] \in {"none", "client"} => copier[k]["up"] = "none"
        /\ done[k] + Received(k) = Sent(k, "up") + Sent(k, "down")

\* The connection core and the tunnels keep their own invariants; besides, the
\* locks nest and no message is lost.
IInv ==
    /\ TypeOK
    /\ C!IInv
    /\ T!IInv
    /\ LocksNest
    /\ MessagesCounted
=============================================================================
