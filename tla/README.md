# A TLA+ model of mcp-ssh-workspace

`mcp-ssh-workspace` is an MCP server that gives an AI agent fourteen tools on a
remote host: commands, background tasks, files and port forwarding, all of them
over one shared SSH/SFTP connection that reconnects by itself and can be switched
to another host. These modules model its own code (`src/internal`,
`src/cmd`); everything under `src/vendor` is taken for what that code uses it for.

## 1. The system

| Component | Source | State | Operations | Talks to |
| --- | --- | --- | --- | --- |
| Connection core, `Client` | `sshclient/client.go` | `cfg`, `sshClient`, `sftpClient` (under `mu`), `currentCwd` (under `cwdMu`, and under `mu`), `sudoPassword` (under `sudoMu`) | `ConnectTo`, `Connect`, `EnsureConnected`, `SSH`, `SFTP`, `Close`, `GetCwd`, `SetCwd`, `SetSudoPassword` | network; calls `TunnelManager.CloseAll` with `mu` held |
| Command execution | `sshclient/exec.go` | one session, its buffers, the goroutine in `Wait` | `RunCommand`, `WrapCommand`, `parseCommandMarkers` | reads cwd and sudo password from `Client`, stores the new cwd, registers a `Task` |
| Task supervisor, `TaskManager` | `sshclient/tasks.go`, `tools/register.go` 178-296 | table of `Task`s, each with `Completed`, `DoneChan`, `ExitCode`, `ErrorMsg` | `Register`, `Get`, `List`, `Kill`, `Tail`, send input | sessions started by `RunCommand`, whose goroutines write the tasks |
| Tunnels, `TunnelManager` | `sshclient/tunnel.go` | table of listeners, `closed` flags | `Open`, `forwardLoop`, `Close`, `CloseAll`, `List` | every accepted connection calls `Client.SSH` |
| Remote files | `sshclient/sftp.go` | none of its own; the remote file system | view, replace, write, list, mkdir, upload, download | `Client.SFTP`, twice when it makes directories |
| Tool handlers | `tools/register.go` | none | decode parameters, call one of the above | run in the worker goroutines of the MCP server |
| Configuration | `config/config.go` | none | flags, environment, `~/.ssh/config` | `main`, `ConnectTo` |
| MCP stdio server | vendored `mcp-go/server/stdio.go` | queue of 100 calls, 5 workers | dispatches tool calls | calls the handlers concurrently |

What is hard here:

- *Concurrency.* Up to five handlers, every forwarded tunnel connection and every
  task's goroutine share the client. `mu` protects single statements, not the
  sequences the callers need: `ConnectTo` is four critical sections; `SSH()` and
  `SFTP()` return fields read after the lock has been released.
- *Waiting for the network with a lock held.* `Connect` and `Close` do.
- *Failure half-way.* A dial succeeds and the SFTP subsystem does not; a switch
  has closed the old connection and cannot open the new one; a kill cannot be sent;
  the connection is lost while a command runs.
- *Races of a timer with a result.* `waitMs` turns a waiting call into a background
  task while its result may already be in the channel.
- *File edits in several requests.* Create, write, remove, rename and a fallback, each of
  which may be refused, or executed and its reply lost, next to other calls on the same file.
- *Stale values.* cwd, sudo password and client pointers are read, then used across
  a reconnect or a switch to another host.

What makes each part correct:

- Connection core: no handler ever uses a nil or half-made client; a switch that is
  reported has taken effect; what is stored for a host is not used on another one; a
  connection that is alive is replaced only by one to the same host; every call ends.
- Task supervisor: a task is DONE exactly when its session has ended, for good, once,
  and eventually; its recorded outcome is its session's; a call returns the status of
  the command; `remote_run_command` returns although the command never ends.
- Tunnels: listed means listening; an accept loop stops only for a close and then always;
  a disconnect closes all that is open; nothing of a forwarded connection is left behind.
- Files: a replacement never loses the text, and one that reports success is in place;
  `overwrite: false` does not overwrite a file that `Stat` showed; a reader gets a whole version.
- Texts and settings: pages cover a file, line numbers mean the same to the viewer and the
  editor, a command's output comes back as it was, what the user gives is used.

`PROJECT.json` lists each component with its status and every hazard at its line.

## 2. The modules

| Module | What it is |
| --- | --- |
| `Client` | `client.go`, and the parts of `exec.go`, `sftp.go`, `tunnel.go` and `register.go` that use the connection |
| `MCClient` | instances: which caller runs which tools, symmetry |
| `ClientProofs` | theorems about `Client` |
| `TaskLifecycle` | abstract specification: what the supervisor promises of a task |
| `Tasks` | `RunCommand` from `Session.Start` on, the goroutines it leaves, `TaskManager`, kill |
| `MCTasks` | instances of `Tasks` |
| `TasksProofs` | theorems about `Tasks`, among them that it implements `TaskLifecycle` |
| `TunnelBook` | abstract specification: what the tunnel manager promises |
| `Tunnels` | `tunnel.go`: `Open`, `Close`, `CloseAll`, the accept loops |
| `TunnelsProofs` | theorems about `Tunnels`, among them that it implements `TunnelBook` |
| `Workspace` | `Client` and `Tunnels` composed, and the goroutines of accepted connections |
| `MCWorkspace` | instance of `Workspace` |
| `WorkspaceProofs` | theorems about the composition: what its parts' theorems say of it, and the order of the locks |
| `RemoteFiles` | the file methods of `sftp.go` on one path, an SFTP request a step |
| `MCRemoteFiles` | symmetry for `RemoteFiles` |
| `RemoteFilesProofs` | theorems about `RemoteFiles` |
| `Texts` | pure functions: pages, line-range edits, tails, command markers |
| `TextsProofs` | theorems about the operators of `Texts`, for texts of every length |
| `Settings` | pure functions: argument aliases, flags, `~/.ssh/config` |
| `MCValues` | `Texts` and `Settings` evaluated on all small inputs |
| `ValuesProofs` | theorems about command markers, settings and the properties of `MCValues`, for all inputs |

### Client

A *caller* is a goroutine that runs one tool handler after another, or forwards
connections of a tunnel. `pc[g]` is the statement it executes next. One action is one
critical section of `c.mu`, one unlocked read or write, or one wait for the network.
Where the code holds `c.mu` across several of those (`Connect`, from `dial` to
`getwd`; `Close`), `mu` names the holder meanwhile and the other callers' critical
sections are disabled. The rest of the correspondence:

- `cfgHost`, `sshClient`, `sftpClient`, `currentCwd`, `sudoPassword` are the fields.
  Hosts stand for the whole configuration. The cwd and the sudo password are
  abstracted to the host they belong to, which is what the properties ask; `Root` is
  a directory of no particular host (`/`, or one named in a tool call) and `Torn` a
  string read or written in a data race. `RacesWith` says when that can happen:
  another caller is about to access `currentCwd` under the other of its two locks.
- `net[k]` is what has become of the k-th connection: *up*; *sftpdown*, the SFTP
  subsystem has ended but the transport is alive; *silent*, the peer does not answer
  and no error has been seen; *down*; *closed* by us. Requests on a silent connection
  wait. A closed connection remains in the fields, as in the code.
- `leg[g]` says which call of `EnsureConnected` the caller is in: `RunCommand` makes
  two (its own and the one in `SSH()`), `WriteFile` and `UploadFile` make two
  `SFTP()` calls.
- `EnsureCheck`, `EnsureSnapshot`, `Probe`, `ConnectLock`, `DialFails`/`DialSucceeds`,
  `SftpFails`/`Install`, `CwdIsSet`/`CwdIsUnset`, `InitCwd` are `EnsureConnected` and
  `Connect` statement by statement; `CloseLock`, `CloseClients`, `SetConfig`,
  `SetSudo` are `Close` and `ConnectTo`. `Probe` may fail on any connection, a healthy one
  included (a status error of the server), and then goes on to `Connect`.
- A file tool, having its client, resolves its path (`ResolvePath`): a relative one is in the cwd
  it reads then. `MkdirAll` and `Mkdir` are the second `SFTP()` call that follows.
- The initial states are all those of `NewClient`: dynamic mode, a host from the flags
  with the first connect having failed or succeeded, `--workdir` given or not.

### Tasks

A task stands for the `RunCommand` call that registers it. The statements that record
the end of its session occur three times in the code (waiting handler, daemon
goroutine, goroutine started when `waitMs` runs out); `fin[t]` is their program
counter and `mode[t]` says which of the three runs them. `done[t]` is the channel of
capacity one, `waiter[t]` the goroutine in `Wait`. `command[t]` and `code[t]` are the
remote command and the status it ends with; the wrapper script prints a marker line
with that status (`trailer[t]`) and itself ends with the status of `pwd`, 0. `answer[t]`
is what `Wait` returns: a status, or `Missing` for any error without one (lost
connection, channel closed by kill). A kill closes the channel and sends SIGKILL: the server may answer
the close first (`ChannelCloses`), or the signal arrives first (`SignalArrives`) and ends the session
with a status other than 0, also when the command was over and only the rest of its script was running.

The outcome of `parseCommandMarkers` and the test for an `*ssh.ExitError` that follows
it are one operator, `ParsedCode`. The store of the new cwd that goes with it is in
`Client` (`SetCwd`).

`StatusLoad` and `StatusReturns` are the two reads of a status answer: the flag first, the
rest of the record later, with the goroutine that finishes the task possibly in between.

### Tunnels

An id stands for one call of `Open` that got past the bind. `opener[t]`, `loop[t]` and `cpc[c]`
are the program counters of `Open`, of the accept loop and of a goroutine in `Close` or
`CloseAll` (`arg[c]` is the id, `None` for `CloseAll`). `tmu` is `tm.mu`: `Open` and `List` hold it
for one step, `Close` and `CloseAll` from `LockClose`/`LockCloseAll` to `Delete`/`CloseAllReturns`.
`batch` is what the `range` over the table was started on. `closed`, `stopChan` and `listener`
are three variables because the loop tests them at different moments. `AcceptFails` is any
error: of a closed listener, or a passing one.

`TunnelBook` knows new, open and closed tunnels and disconnects that close them all at one moment.
Under the mapping a tunnel is open from `Register` on until the lock under which it was
closed is released (`PhaseOf`), and a disconnect is in progress while `CloseAll` holds `tm.mu`.

### Workspace

`Client` and `Tunnels` are instantiated side by side over one set of variables. `CloseLock` is
the step where `Client.Close`, with `c.mu` held, enters `CloseAll`; `CloseClients` waits until it has
returned. `Accept` starts the goroutine of a local connection, which is a caller of `Client`
with the tool *forward*, takes the client, dials through it (`via[k]`), and starts two copying
goroutines (`copier[k]`) that report to the channel `done[k]` of capacity two.

### RemoteFiles

One path, the files that have had its name or a temporary one (`Inodes`), and the calls at work.
`pc[w]` is the next SFTP request of call `w`; `OnError` says where the code goes when that request
fails. `Request` executes a request whose reply may be lost with the connection, `Fails` does not
execute it. After a loss, calls that hold a client of the old connection (`cli[w] # gen`) can
only fail. A content is a set of edits (`has`), whether it is complete (`whole`) and who opened
the file for writing last (`by`): an `O_TRUNC` open or a half-done write leaves a part. `Reads`
lets a reader see a mixture when the file changed since it was opened. `Stat` may be refused
although the file is there; the code takes that for its absence. `past` is a history variable of the
properties: whether changing calls have overlapped, one has fallen back, or one (*blind*) was refused the
`Stat` of a file that was there.

### Texts, Settings, MCValues

A text is a sequence of characters, the markers of a command's output being single tokens; a
setting is the name of its origin (a flag, an argument, a `Host` block, the environment). Flags exist
under their long names only, any other ends the program (`Usage`); the defaults of all but the port are
variables. Each
operator follows its Go function, `Panic` standing for a slice out of range; a loop over a text is a
recursive function over its places. In `MCValues` a
behaviour is one evaluation: the inputs are picked, the result is stored, and the properties
compare it with what its users rely on.

### Mutants

An operator whose comment begins with "Mutant of" states a plausible bug (a dropped
guard, a forgotten reset, an inverted test). `PROJECT.json` pairs every property with
one that breaks it. They are not part of any specification.

## 3. What the runs check

| Run | Instance | Shows |
| --- | --- | --- |
| `client_switch` | 2 callers (one connects and disconnects, the other does all else), 2 hosts, 2 connections | `NeverNilClient`, `DialsConfiguredHost`, `SwitchTakesEffect`, `IInv` (with `MutexHeld` and `ClientsArePaired`) |
| `client_solo` | 1 caller with all tools, 2 hosts, 3 connections | `LinkFollowsConfig`, `StoredStateFollowsConfig`, `CallCarriesItsHostsState`, `SoloInv`, `ReplacesSameHost` |
| `tasks_safe` | 2 tasks, 1 management handler, statuses 0 and 1 | `WatchedUntilDone`, `DoneChanClosedOnce`, `ResultIsTheCommands`, `OutcomeRecorded`, `StatusIsTrue`, `IInv`, `LifecycleSafe` |
| `tasks_live` | 1 task, 2 management handlers, fair | `LifecycleSpec`, `RunReturns`, `KilledIsDone` |
| `tunnels` | 2 tunnels, 2 closing goroutines, fair | `ListedIsListening`, `LoopServesUntilClosed`, `IInv`, `BookSpec`, `ClosedLoopsEnd`, `ClosesReturn` |
| `workspace` | 1 caller that disconnects and closes tunnels, 1 tunnel, 1 accepted connection, 2 SSH connections, fair | `WaitsInOrder`, `IInv`, `CallsReturn`, `ForwardingEnds` |
| `files` | 3 calls of any kind, 1 loss of the connection | `TextSurvives`, `NoOverwrite`, `ReadsAreWhole`, `IInv`, `ReplaceTakesEffect` |
| `values` | texts of up to 5 characters, line numbers up to 4, all settings | `PagesCoverFile`, `ViewedIsFound`, `OutsideIsKept`, `TailIsTheEnd`, `MarkersRoundTrip`, `GivenIsUsed` |

The type invariants `TypeOK` are conjuncts of the `IInv`s.

Runs whose property the code does not have, each one a statement of the
documentation or of a tool's answer:

| Run | Finding |
| --- | --- |
| `client_leaked_link` | "Single long-lived SSH/SFTP connection" (README.md:44): after any error of the probe, also a status error on a healthy connection (client.go:191-193), `Connect` overwrites the clients without closing them (client.go:154). The trace is one call; two callers that both reconnect do the same |
| `tasks_exit_code` | "exit code capture" (README.md:177): a task that a waiting call finished keeps -1, which a later status reports (exec.go:167, the trace), and a background task records 0, the status of the wrapper's `pwd`, whatever its command returned (exec.go:136) |
| `files_atomic` | "Write back atomically" (sftp.go:208), "atomic SFTP renames, completely preventing truncated or corrupted remote files" (README.md:438): the original is removed first, and rewritten in place when the rename fails (sftp.go:223) |
| `values_alias` | "Auto-resolves hosts, ports" (README.md:172): without a port argument the handler passes 22, so the `Port` of the `Host` block is never looked up (register.go:84, the trace); `SSH_PORT` and the short flags (README.md:320-325) are read by nothing (config.go:29-37) |

What the code does not do, and the properties therefore do not ask (all but the last are in the models):

- Of two overlapping `remote_connect` calls one may report success while the client is connected
  to the other's host; `SwitchTakesEffect` is stated for one connecting goroutine.
- A command or a search that ends during a switch, or after another call's `cd`, stores its
  own directory as the cwd; `StoredStateFollowsConfig` is about calls that do not overlap.
- A status error of the probe makes the client replace a healthy connection and leave it open; the
  sessions on it go on unseen by `Close`.
- A kill that arrives between a command's marker line and the end of its script makes a waiting call
  report 137 although the command succeeded.
- A connection lost while `remote_run_command` waits gives `exit_code` 0 and no error, and a kill
  over a lost connection reports success while the remote command runs on.
- Of two overlapping replacements of one file one edit is lost; a write without `overwrite`
  overwrites a file that another call made after its `Stat`, and any file whose `Stat` was refused.
- In a line-range edit a `startLine` more than one past `endLine` panics (the worker of the stdio
  server recovers), and if the only line before the range is empty its line feed is lost.
- A view drops carriage returns, so a line shown may not be found by the editor; a single
  line longer than `maxBytes` gives an empty page for ever.
- Output that a left-behind process prints after the marker line becomes a part of the cwd.

### Bounds

- *Callers.* Two callers show every interleaving of a pair of handlers. In
  `client_switch` one of them can connect: with two that can, `SwitchTakesEffect`
  does not hold. The theorems have no bound on callers.
- *Connections.* `Conns` bounds the dials of a behaviour; nothing reuses one. Two allow a
  switch or a reconnect after the first connection; three, in the sequential run, a
  reconnect, a switch and another reconnect. When they are used up only failing dials
  remain, so the runs do not stop there.
- *Tasks.* `Tasks` bounds the commands started, which is why deadlock is not checked: when
  all commands have ended and nothing is left to kill, the model stops and the server
  waits for its next call. Tasks share only the connection and the handlers that kill.
- *Statuses.* 0 and 1: the code tests for 0 and copies anything else.
- *Tunnels.* Two tunnels and two closing goroutines give a close of either, a disconnect, and
  two of them at once, with `Open` at any point. The theorems have no bound.
- *Workspace.* The caller disconnects or closes a tunnel; one accepted connection is enough for
  a circle of `c.mu`, `tm.mu` and a reconnect, and two SSH connections for the reconnect. What plays
  no part (cwd, sudo password, which connection boot used) is fixed at the start.
- *File calls.* `Calls` bounds the calls (each is made once, which is why deadlock is not checked):
  three give a replacement, one that disturbs or follows it, and a reader. One loss of the
  connection can hit any request of one of them; refused requests are not bounded.
- *Values.* Five characters give up to six lines, empty lines anywhere and a text with and
  without a final line feed; line numbers reach past `endLine` and, for short texts, past the
  end. Page sizes are chosen around one, two and three lines. One evaluation ends a behaviour: deadlock is not checked.
- Symmetry is used for connections, hosts, tasks, handlers and file calls, in runs of safety
  and action properties only; no specification or property tells their elements apart.

### Fairness

`Workspace!Fairness`: goroutines that can run do (`WF` of the steps that wait for nobody);
a goroutine that waits for `c.mu` or `tm.mu` gets it (`SF`: Go's `sync.Mutex` hands over to a waiter
that has starved for a millisecond, and a waiting writer of an `RWMutex` keeps new readers out); a silent
transport eventually fails, as TCP keep-alive, which Go's dialer switches on, brings about for
a peer that has vanished; a copy ends when its connection does (`Cut`). A
peer whose kernel keeps acknowledging while its SSH server never answers again is
*not* covered: nothing in the code bounds that wait, and `CallsReturn` would not hold.
No tool has to be called, no connection has to be accepted, to fail or to succeed; no peer has to
close a forwarded connection.

`Tunnels!Fairness`: the same of its goroutines and of `tm.mu`; `Accept` on a closed listener
fails. Nothing makes it fail on an open one, and nothing makes anyone open or close a tunnel.

`Tasks!Fairness`: goroutines run and the timer fires (`Local`); a script that has printed its
last line ends; a signal sent over a working connection arrives. Nothing makes
a running command end: `RunReturns` holds because of the timer.

## 4. What is proved

TLAPS checks every proof. The theorems hold for any sets of callers, hosts, connections, tasks,
handlers, statuses, tunnels, accepted connections and file calls that satisfy the assumptions
named in the modules: `ClientAssumption`, `TasksAssumption`, `TunnelsAssumption` and
`FilesAssumption` (the special values are none of the ordinary ones, 0 is a status, the file that is
there in the beginning is none that a call makes) and `WorkspaceAssumption` (the same for the
composition, and no accepted connection is a caller of a tool), and for the evaluations `BoundsAssumption` (the
bounds are numbers) and `OutcomesAssumption` (an error is no text and no page). No theorem has a bound; those about
properties that the code keeps for one caller only say so.

**Client.** The safety properties are not inductive: that a caller past the nil check uses
a non-nil client needs to know where the pointer was last written, by whom, and that nobody
resets it. `IInv` adds to them `ClientInstalled` (from a successful check on, `sshClient`
is not nil), `LegsInOrder`, `DialInProgress` (the client `Connect` works with was dialled for the
configured host, and is the installed one after `Install`), `InstalledWasDialled`, and
`SwitchInProgress` (the only connecting goroutine's configuration stands until it reports).
`Inductive` proves `Spec => []IInv`, one case per action; `TypeCorrect`, `MutualExclusion`,
`NoNilClient`, `Paired`, `DialsConfigured` and `SwitchIsEffective` follow.

`SoloInv` strengthens it for a single caller: the installed connection is dead or leads
to the configured host, and so does everything a handler has picked up. `SoloLink`,
`SoloStoredState`, `SoloCall` and the action property `SoloReplaces` follow from it; `SoloInductive` proves it an
invariant. With more callers these four do not hold. `SoloReplaces` does not say that a healthy connection stays
(a refused probe replaces it), but that what replaces a live one leads to the same host.

**Tasks.** `IInv` ties the record of a task to the program counter of whoever writes it
(`RecordInOrder`, `OutcomeInOrder`), says where the result of `Wait` is at any moment: in `Wait`,
in the channel or with its receiver (`AnswerInTransit`), and what it says about the command
(`AnswerIsTheCommands`: after the marker line it is 0, or the signal's for a killed task). `NoOrphan`, `ClosedOnce`, `ResultCorrect`, `OutcomeKept`, `StatusCorrect` follow, and
`Implements`: under the mapping `phase <- PhaseOf`, every step of `Tasks` is a step of
`TaskLifecycle` or a stutter. `LinkLost` maps to the end of any number of sessions at once.

**Tunnels.** That listed tunnels listen whenever `tm.mu` is free says nothing of what its holder
is doing. `IInv` adds `LockInOrder` (who holds `tm.mu`, and that `CloseAll` works on a batch that
contains the table) and `ClosingInOrder` (flag, channel, listener and table of a tunnel agree,
up to the statement its closer is at). `ListIsTrue` and `ServesUntilClosed` follow, and `Implements`: with
the lock held, every close happens inside one phase of the holder, so the step that
releases `tm.mu` is the step of `TunnelBook`.

**Remote files.** `TextSurvives` says where a complete version is, but not why the next request
cannot destroy it. `IInv` says, in eight parts: which method sends which request (`InMethod`); that a
temporary file holds the new text from its write to its rename, and that nobody writes it any more
once it bears the path (`TempsInOrder`); that without an overlap one call is at work (`OneAtATime`)
and finds things as it left them (`Undisturbed`; a write past its `Stat` finds no file unless it was blind); that a complete version is where the call at
work leaves it alone (`VersionKept`); that a file which readers may have open never changes
(`Steady`); and that every replacement reported successful is in the text that will stay
(`AllSaved`). `NothingLost`, `WholeReads`, `NothingOverwritten` and the action property `EffectOnSuccess` follow.
The case that needs most of this is a failed rename whose fallback fails as well: the temporary file,
which nobody removes then, is the copy that is left, also for the next replacement (`Kept`).

**Workspace.** Every step of the composition is a step of `Client` or a stutter (`ImplementsClient`),
an accepted connection being one more caller, and likewise of `Tunnels` (`ImplementsTunnels`). The
theorems of both modules therefore hold of it: `WorkspaceProofs` instantiates `ClientProofs` and
`TunnelsProofs` next to the model's own instances and shows that they speak of the same definitions
(`SameCore`, `SameTunnels`). `PartsAreSafe` and `ImplementsBook` are the results. What no part knows is how
the locks nest: `LocksNest` (who is in the tunnel manager holds `c.mu` already, or is in no method of the client)
and `SendersReturn` (the channel of capacity two always has room) make `WaitsInOrder`. It needs the
count of messages sent and received, `MessagesCounted`. `Inductive` and `WaitsAreOrdered` are its theorems:
the safety part of the absence of deadlock. That everyone is then served is `CallsReturn`, left to TLC.

**Texts.** What a loop over a text computes is proved by induction over the text. The library's induction
theorems take the property as an operator, which no installed prover can instantiate, so `TextsProofs` begins with
its own forms, in which the property is a *set* of numbers or of sequences: `Induction` (from the well-foundedness of
`<`: a least number outside the set would have a predecessor in it), `TextInduction` (by the last
character) and `Recursion` (a recursive function on `0 .. n` exists, so that the operator defined by it
satisfies its equation). From them come the equations of `Split`, `Join`, `Places`, `Replace` and `PageSize` and
four theorems without a bound:

- `SplitAndJoin`: splitting and joining are inverse to each other.
- `TailIsLast`: the tail is the last lines, as many as asked for or as there are, whether or not the last
  is finished. It needs that trimming commutes with joining, the last line not being empty (`JoinEnds`).
- `OutsideStays`: an edit of a range leaves the lines outside it as they are, even if the new text
  contains line feeds. A line feed between two texts divides their lines (`SplitConcat`); with it `AroundChunk`
  splits the edited text. The exception in its hypothesis, a single empty
  line before the range, is needed: its line feed is lost (sftp.go:161).
- `ViewedIsAccepted`: the lines and the range of a page, given back to the editor, are not refused.
  The viewer's lines are the editor's, possibly without a last empty one (`ScanLinesAre`), so the page is a range
  of what the editor splits; `PlacesAre` finds it there.

`TailShown`, `OutsideKept` and `ViewedFound` state the properties of the run `values` from these and from
`TextStays` (every text is one of the characters). `PagesCover` rests on `PagedIsAll`: from any line on, reading on
yields the rest of the file, by induction over the lines that are left, since a page of lines that each fit
alone shows at least one (`OpenPage`).

**Markers and settings.** `MarkersRecovered`: whatever a command of any length prints, markers
included, output, status and directory come back from `parseCommandMarkers`, if the directory's
name does not hold the first marker or begin or end with a blank. It locates the last
first marker (`LastMarker`), the first second marker behind it (`CwdMarker`), and what is trimmed
(`TrimmedDirectory`). `ArgumentsAreUsed`: what `remote_connect` is given under any name of a setting
reaches the configuration, whatever the file and the environment say. `RoundTrip` and `GivenUsed` state the
properties of the run `values` from these.

**Only model-checked.** Every invariant and every action property of the passing runs is a theorem. Liveness
is not: for `RunReturns`, `KilledIsDone`, `ClosedLoopsEnd`, `ClosesReturn`, `CallsReturn`,
`ForwardingEnds` and the fairness part of `LifecycleSpec` there is only TLC, as the prover does not handle
liveness under fairness and `ENABLED`. The four findings are counterexamples, which TLC shows.

## 5. What is not modelled

- JSON, schemas, wording; authentication methods (a dial succeeds or fails); the shell
  text of the wrapper and of the search tools, except for the marker line.
- `send_input`: it writes to the session's standard input, but the wrapped command reads from
  a pipe (exec.go:60), so nothing that is modelled changes.
- The directories that `mkdirAll` makes, `remote_list_dir` (it only reads), and the local side of a
  download (which truncates the local file before it reads the remote one).
- The kernel's table of ports: a bind succeeds or leaves nothing behind.
- Growth without bound: the task table, which nothing empties, and the connections to the SSH agent.
- The vendored libraries and the worker pool of the stdio server (callers stand for its workers).
- `main` itself: what it calls is `Boot` (`Settings`) and `NewClient` (`Client`).

## 6. Plan

Done: every module is model-checked, and every safety property of the passing runs is proved. Next:

1. Sessions that end with their connection: `Client` and `Tasks` composed, as `Workspace` composes
   `Client` and `Tunnels`.
2. The directories that `mkdirAll` makes on the way to a file, when several calls make the same ones.
