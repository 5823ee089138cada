------------------------------ MODULE Tunnels ------------------------------
(***************************************************************************)
(* sshclient.TunnelManager: the goroutines that open and close tunnels     *)
(* under tm.mu, and the accept loop of every tunnel, which runs without    *)
(* that lock.  The goroutines of accepted connections are in Workspace.    *)
(*                                                                         *)
(* An id stands for one call of Open that gets past the bind (one that     *)
(* does not leaves nothing behind).  List reads the table under tm.mu,     *)
(* that is, when tmu = None.                                               *)
(***************************************************************************)
EXTENDS Naturals

CONSTANTS
    Ids,       \* tunnels ever opened (bounds the calls of Open)
    Closers,   \* goroutines in Close or CloseAll
    None       \* free mutex, no id

ASSUME TunnelsAssumption == None \notin Ids \cup Closers

VARIABLES
    tmu,       \* holder of tm.mu, or None; Open and List hold it for one step
    table,     \* tm.tunnels
    opener,    \* how far Open is
    listener,  \* t.listener
    closed,    \* t.closed
    stopChan,  \* t.stopChan is closed
    loop,      \* next statement of forwardLoop
    cpc,       \* next statement of each closer
    arg,       \* the id given to Close; None: CloseAll
    batch,     \* the tunnels the holder of tm.mu found there to close
    cur        \* the one it is at

tunnels == <<table, opener, listener, closed, stopChan>>
held    == <<tmu, arg, batch, cur>>
closers == <<cpc, held>>
vars    == <<tunnels, loop, closers>>

Holding == {"next", "cas", "stop", "listener", "delete"}

TypeOK ==
    /\ tmu \in Closers \cup {None}
    /\ table \subseteq Ids
    /\ opener \in [Ids -> {"none", "bound", "registered", "open"}]
    /\ listener \in [Ids -> {"none", "open", "closed"}]
    /\ closed \in [Ids -> BOOLEAN]
    /\ stopChan \in [Ids -> BOOLEAN]
    /\ loop \in [Ids -> {"none", "accept", "check", "select", "exit", "done"}]
    /\ cpc \in [Closers -> Holding \cup {"idle", "lock"}]
    /\ arg \in [Closers -> Ids \cup {None}]
    /\ batch \subseteq Ids
    /\ cur \in Ids \cup {None}

Init ==
    /\ tmu = None
    /\ table = {}
    /\ opener = [t \in Ids |-> "none"]
    /\ listener = [t \in Ids |-> "none"]
    /\ closed = [t \in Ids |-> FALSE]
    /\ stopChan = [t \in Ids |-> FALSE]
    /\ loop = [t \in Ids |-> "none"]
    /\ cpc = [c \in Closers |-> "idle"]
    /\ arg = [c \in Closers |-> None]
    /\ batch = {}
    /\ cur = None

-----------------------------------------------------------------------------
(* Open *)

\* The port is bound: the kernel takes connections from now on.
Bind(t) ==
    /\ opener[t] = "none"
    /\ opener' = [opener EXCEPT ![t] = "bound"]
    /\ listener' = [listener EXCEPT ![t] = "open"]
    /\ UNCHANGED <<table, closed, stopChan, loop, closers>>

\* Mutant of Register: the table is written without tm.mu.
RegisterUnlocked(t) ==
    /\ opener[t] = "bound"
    /\ table' = table \cup {t}
    /\ opener' = [opener EXCEPT ![t] = "registered"]
    /\ UNCHANGED <<listener, closed, stopChan, loop, closers>>

Register(t) ==
    /\ opener[t] = "bound"
    /\ tmu = None
    /\ table' = table \cup {t}
    /\ opener' = [opener EXCEPT ![t] = "registered"]
    /\ UNCHANGED <<listener, closed, stopChan, loop, closers>>

\* go forwardLoop, possibly for a tunnel that has been closed meanwhile.
StartLoop(t) ==
    /\ opener[t] = "registered"
    /\ opener' = [opener EXCEPT ![t] = "open"]
    /\ loop' = [loop EXCEPT ![t] = "accept"]
    /\ UNCHANGED <<table, listener, closed, stopChan, closers>>

-----------------------------------------------------------------------------
(* forwardLoop *)

LoopGoes(t, from, to) ==
    loop[t] = from /\ loop' = [loop EXCEPT ![t] = to]

\* Accept returns a connection, and the loop goes back to Accept.
MayAccept(t) == loop[t] = "accept" /\ listener[t] = "open"

\* Mutant of AcceptFails: the loop gives up at any error.
AcceptFailsForGood(t) ==
    /\ LoopGoes(t, "accept", "exit")
    /\ UNCHANGED <<tunnels, closers>>

\* Accept returns an error: the listener has been closed, or the process is
\* out of file descriptors for the moment.
AcceptFails(t) ==
    /\ LoopGoes(t, "accept", "check")
    /\ UNCHANGED <<tunnels, closers>>

\* Two tests, the flag and then the channel, before Accept is retried.
CheckStopped(t) ==
    /\ \/ LoopGoes(t, "check", IF closed[t] THEN "exit" ELSE "select")
       \/ LoopGoes(t, "select", IF stopChan[t] THEN "exit" ELSE "accept")
    /\ UNCHANGED <<tunnels, closers>>

\* The deferred Close; the listener may be closed already.
LoopReturns(t) ==
    /\ LoopGoes(t, "exit", "done")
    /\ listener' = [listener EXCEPT ![t] = "closed"]
    /\ UNCHANGED <<table, opener, closed, stopChan, closers>>

-----------------------------------------------------------------------------
(* Close and CloseAll *)

Goto(c, l) == cpc' = [cpc EXCEPT ![c] = l]

\* The tool's close of one tunnel, or a disconnect.
InvokeClose(c) ==
    /\ cpc[c] = "idle"
    /\ \E a \in Ids \cup {None} : arg' = [arg EXCEPT ![c] = a]
    /\ Goto(c, "lock")
    /\ UNCHANGED <<tunnels, loop, tmu, batch, cur>>

Unlock ==
    /\ tmu' = None
    /\ batch' = {}
    /\ cur' = None

\* Close finds its tunnel in the table, or returns an error.
LockClose(c) ==
    /\ cpc[c] = "lock"
    /\ arg[c] # None
    /\ tmu = None
    /\ IF arg[c] \in table
       THEN tmu' = c /\ batch' = {arg[c]} /\ cur' = arg[c] /\ Goto(c, "cas")
       ELSE Goto(c, "idle") /\ UNCHANGED <<tmu, batch, cur>>
    /\ UNCHANGED <<tunnels, loop, arg>>

LockCloseAll(c) ==
    /\ cpc[c] = "lock"
    /\ arg[c] = None
    /\ tmu = None
    /\ tmu' = c
    /\ batch' = table
    /\ Goto(c, "next")
    /\ UNCHANGED <<tunnels, loop, arg, cur>>

\* range tm.tunnels: an entry that was there and still is, in any order.
NextTunnel(c) ==
    /\ cpc[c] = "next"
    /\ cur' \in batch \cap table
    /\ Goto(c, "cas")
    /\ UNCHANGED <<tunnels, loop, tmu, arg, batch>>

CloseAllReturns(c) ==
    /\ cpc[c] = "next"
    /\ batch \cap table = {}
    /\ Unlock
    /\ Goto(c, "idle")
    /\ UNCHANGED <<tunnels, loop, arg>>

CompareAndSwap(c) ==
    /\ cpc[c] = "cas"
    /\ closed' = [closed EXCEPT ![cur] = TRUE]
    /\ Goto(c, IF closed[cur] THEN "delete" ELSE "stop")
    /\ UNCHANGED <<table, opener, listener, stopChan, loop, held>>

CloseStopChan(c) ==
    /\ cpc[c] = "stop"
    /\ stopChan' = [stopChan EXCEPT ![cur] = TRUE]
    /\ Goto(c, "listener")
    /\ UNCHANGED <<table, opener, listener, closed, loop, held>>

\* Mutants of CloseListener: the loop's deferred Close is left to do it; it
\* waits for the loop to return first.
LeaveListener(c) ==
    /\ cpc[c] = "listener"
    /\ Goto(c, "delete")
    /\ UNCHANGED <<tunnels, loop, held>>

CloseListenerAfterLoop(c) ==
    /\ cpc[c] = "listener"
    /\ loop[cur] = "done"
    /\ Goto(c, "delete")
    /\ UNCHANGED <<tunnels, loop, held>>

CloseListener(c) ==
    /\ cpc[c] = "listener"
    /\ listener' = [listener EXCEPT ![cur] = "closed"]
    /\ Goto(c, "delete")
    /\ UNCHANGED <<table, opener, closed, stopChan, loop, held>>

Delete(c) ==
    /\ cpc[c] = "delete"
    /\ table' = table \ {cur}
    /\ IF arg[c] = None
       THEN Goto(c, "next") /\ UNCHANGED <<tmu, batch, cur>>
       ELSE Goto(c, "idle") /\ Unlock
    /\ UNCHANGED <<opener, listener, closed, stopChan, loop, arg>>

-----------------------------------------------------------------------------
(* The specification *)

OpenStep(t) == Register(t) \/ StartLoop(t)

LoopStep(t) == CheckStopped(t) \/ LoopReturns(t)

LockStep(c) == LockClose(c) \/ LockCloseAll(c)

CloseStep(c) ==
    \/ NextTunnel(c)
    \/ CloseAllReturns(c)
    \/ CompareAndSwap(c)
    \/ CloseStopChan(c)
    \/ CloseListener(c)
    \/ Delete(c)

Next ==
    \/ \E t \in Ids :
          \/ Bind(t)
          \/ OpenStep(t)
          \/ AcceptFails(t)
          \/ LoopStep(t)
    \/ \E c \in Closers : InvokeClose(c) \/ LockStep(c) \/ CloseStep(c)

Spec == Init /\ [][Next]_vars

\* Goroutines are scheduled, and a goroutine that waits for a sync.Mutex is
\* not starved.  Accept on a closed listener fails; nothing makes it fail on an
\* open one.
Fairness ==
    /\ \A t \in Ids :
          /\ WF_vars(StartLoop(t)) /\ SF_vars(Register(t))
          /\ WF_vars(LoopStep(t) \/ (listener[t] = "closed" /\ AcceptFails(t)))
    /\ \A c \in Closers : WF_vars(CloseStep(c)) /\ SF_vars(LockStep(c))

FairSpec == Spec /\ Fairness

-----------------------------------------------------------------------------
(* Properties *)

Registered(t) == opener[t] \in {"registered", "open"}

\* What remote_tunnel lists is what listens: whenever tm.mu is free, the
\* registered tunnels in the table have an open listener that is not being
\* stopped, and the others have released their port.
ListedIsListening ==
    tmu = None =>
        \A t \in Ids : Registered(t) =>
            IF t \in table
            THEN listener[t] = "open" /\ ~ closed[t] /\ ~ stopChan[t]
            ELSE listener[t] = "closed" /\ closed[t] /\ stopChan[t]

\* The accept loop of a tunnel stops only when that tunnel is being closed,
\* whatever errors Accept returns before.
LoopServesUntilClosed ==
    \A t \in Ids : loop[t] \in {"exit", "done"} => closed[t]

\* A tunnel that is closed, also one closed before its accept loop started,
\* leaves no goroutine in Accept.
ClosedLoopsEnd == \A t \in Ids : closed[t] ~> (loop[t] = "done")

\* Close and CloseAll return, whoever else is closing and opening.
ClosesReturn == \A c \in Closers : (cpc[c] = "lock") ~> (cpc[c] = "idle")

-----------------------------------------------------------------------------
(* The manager implements TunnelBook *)

\* A tunnel counts as open until the lock under which it was closed is free.
PhaseOf(t) ==
    IF ~ Registered(t) THEN "new"
    ELSE IF t \in table \cup batch THEN "open"
    ELSE "closed"

Clearing == \E c \in Closers : tmu = c /\ arg[c] = None

Book == INSTANCE TunnelBook WITH
    phase <- [t \in Ids |-> PhaseOf(t)], clearing <- Clearing

\* Open, Close and CloseAll take effect at one moment each.
BookSpec == Book!Spec

-----------------------------------------------------------------------------
(* The inductive invariant *)

\* tm.mu is held from Lock to Unlock, with what its holder works on.
LockInOrder ==
    /\ \A c \in Closers : (cpc[c] \in Holding) <=> (tmu = c)
    /\ tmu = None => batch = {} /\ cur = None
    /\ tmu # None =>
          /\ arg[tmu] # None => batch = {arg[tmu]} /\ cpc[tmu] # "next"
          /\ cpc[tmu] # "next" => cur \in batch \cap table
          /\ table \subseteq batch \/ arg[tmu] # None

\* How far closing is where.
BeingClosed(t, ls) == tmu # None /\ cpc[tmu] \in ls /\ t = cur

ClosingInOrder ==
    \A t \in Ids :
        /\ t \in table \cup batch => Registered(t)
        /\ opener[t] # "none" => listener[t] # "none"
        /\ Registered(t) =>
              /\ closed[t] <=> (t \notin table \/ BeingClosed(t, {"stop", "listener", "delete"}))
              /\ stopChan[t] <=> (t \notin table \/ BeingClosed(t, {"listener", "delete"}))
              /\ (t \notin table \/ BeingClosed(t, {"delete"})) => listener[t] = "closed"
        /\ ~ Registered(t) => ~ closed[t] /\ ~ stopChan[t]
        /\ listener[t] = "closed" => closed[t]
        /\ (loop[t] # "none") <=> (opener[t] = "open")
        /\ loop[t] \in {"exit", "done"} => closed[t]
        /\ loop[t] = "done" => listener[t] = "closed"

IInv == TypeOK /\ LockInOrder /\ ClosingInOrder
=============================================================================
