------------------------------- MODULE Tasks -------------------------------
(***************************************************************************)
(* The task supervisor: RunCommand from Session.Start on, the goroutines   *)
(* it leaves behind, the Task records of the TaskManager, and the          *)
(* remote_manage_task handlers that read and kill tasks.                   *)
(*                                                                         *)
(* A task stands for the RunCommand call that registers it.  The           *)
(* statements that record the end of its session are the same in three     *)
(* places of the code (the waiting handler, the daemon's goroutine, the    *)
(* goroutine started when waitMs runs out); fin[t] is their program        *)
(* counter, and mode[t] says which of the three runs them.                 *)
(***************************************************************************)
EXTENDS Integers, FiniteSets

CONSTANTS
    Tasks,      \* RunCommand calls (bounds the commands started)
    Managers,   \* goroutines that run remote_manage_task
    Codes,      \* exit statuses of a command
    Missing,    \* Wait's error when the session ends without an exit status
    None        \* no value yet, free goroutine

ASSUME TasksAssumption ==
    /\ Codes \subseteq Nat
    /\ 0 \in Codes
    /\ Missing \notin Codes
    /\ None \notin Codes \cup Tasks \cup {Missing}

VARIABLES
    link,       \* the SSH connection: "up" or "lost"
    command,    \* the remote command of each task
    code,       \* the status the command itself ended with
    trailer,    \* the marker line with code is in the task's stdout
    answer,     \* what Wait returns: 0 (nil), an exit status, or Missing
    mode,       \* who finishes the task
    table,      \* tm.tasks
    waiter,     \* the goroutine in sess.Wait
    done,       \* the buffered channel it sends to, unless it is a daemon's
    err,        \* the error the finishing goroutine works with
    fin,        \* next statement of the finishing goroutine
    completed,  \* task.Completed
    doneChan,   \* task.DoneChan is closed
    exitCode,   \* task.ExitCode
    errorMsg,   \* task.ErrorMsg is set
    result,     \* ExitCode of the ExecResult returned by a waiting RunCommand
    mpc,        \* next statement of each management handler
    mtask,      \* the task it works on
    seen,       \* what Completed.Load returned to it
    killed      \* tasks whose kill was reported as successful

remote  == <<link, command, code, trailer, answer>>
record  == <<completed, doneChan, exitCode, errorMsg>>
runner  == <<mode, table, waiter, done, err, fin, result>>
manager == <<mpc, mtask, seen, killed>>
vars    == <<remote, record, runner, manager>>

\* Wait's results; no exit code yet (Register sets it to -1).
Results == Codes \cup {Missing}
Unset   == -1

TypeOK ==
    /\ link \in {"up", "lost"}
    /\ command \in [Tasks -> {"none", "running", "printed", "ended"}]
    /\ code \in [Tasks -> Codes \cup {None}]
    /\ trailer \in [Tasks -> BOOLEAN]
    /\ answer \in [Tasks -> Results \cup {None}]
    /\ mode \in [Tasks -> {"none", "sync", "daemon", "async"}]
    /\ table \subseteq Tasks
    /\ waiter \in [Tasks -> {"none", "waiting", "gone"}]
    /\ done \in [Tasks -> Results \cup {None}]
    /\ err \in [Tasks -> Results \cup {None}]
    /\ fin \in [Tasks -> {"none", "wait", "store", "close", "set", "sessclose",
                          "parse", "done"}]
    /\ completed \in [Tasks -> BOOLEAN]
    /\ doneChan \in [Tasks -> BOOLEAN]
    /\ exitCode \in [Tasks -> Codes \cup {Unset}]
    /\ errorMsg \in [Tasks -> BOOLEAN]
    /\ result \in [Tasks -> Codes \cup {None}]
    /\ mpc \in [Managers -> {"idle", "kill", "status"}]
    /\ mtask \in [Managers -> Tasks \cup {None}]
    /\ seen \in [Managers -> BOOLEAN]
    /\ killed \subseteq Tasks

Init ==
    /\ link = "up"
    /\ command = [t \in Tasks |-> "none"]
    /\ code = [t \in Tasks |-> None]
    /\ trailer = [t \in Tasks |-> FALSE]
    /\ answer = [t \in Tasks |-> None]
    /\ mode = [t \in Tasks |-> "none"]
    /\ table = {}
    /\ waiter = [t \in Tasks |-> "none"]
    /\ done = [t \in Tasks |-> None]
    /\ err = [t \in Tasks |-> None]
    /\ fin = [t \in Tasks |-> "none"]
    /\ completed = [t \in Tasks |-> FALSE]
    /\ doneChan = [t \in Tasks |-> FALSE]
    /\ exitCode = [t \in Tasks |-> Unset]
    /\ errorMsg = [t \in Tasks |-> FALSE]
    /\ result = [t \in Tasks |-> None]
    /\ mpc = [m \in Managers |-> "idle"]
    /\ mtask = [m \in Managers |-> None]
    /\ seen = [m \in Managers |-> FALSE]
    /\ killed = {}

Set(f, t, v) == [f EXCEPT ![t] = v]

-----------------------------------------------------------------------------
(* RunCommand *)

\* NewSession and Start succeed (on an error nothing is left behind).
StartCommand(t) ==
    /\ mode[t] = "none"
    /\ link = "up"
    /\ \E m \in {"sync", "daemon"} : mode' = Set(mode, t, m)
    /\ command' = Set(command, t, "running")
    /\ UNCHANGED <<link, code, trailer, answer, record, table, waiter, done,
                   err, fin, result, manager>>

\* TaskManager.Register, and the goroutine that waits for the session.
Register(t) ==
    /\ mode[t] # "none"
    /\ t \notin table
    /\ table' = table \cup {t}
    /\ waiter' = Set(waiter, t, "waiting")
    /\ fin' = Set(fin, t, "wait")
    /\ UNCHANGED <<remote, record, mode, done, err, result, manager>>

\* The Wait goroutine of a waiting RunCommand sends into the buffered channel,
\* also when nobody receives any more.
WaitSends(t) ==
    /\ waiter[t] = "waiting"
    /\ mode[t] # "daemon"
    /\ answer[t] # None
    /\ done' = Set(done, t, answer[t])
    /\ waiter' = Set(waiter, t, "gone")
    /\ UNCHANGED <<remote, record, mode, table, err, fin, result, manager>>

\* Mutant of DaemonEnds: an error without a status is dropped.
DaemonEndsOnStatus(t) ==
    /\ waiter[t] = "waiting"
    /\ mode[t] = "daemon"
    /\ answer[t] \notin {None, Missing}
    /\ err' = Set(err, t, answer[t])
    /\ fin' = Set(fin, t, "store")
    /\ waiter' = Set(waiter, t, "gone")
    /\ UNCHANGED <<remote, record, mode, table, done, result, manager>>

\* A daemon's goroutine goes on from Wait by itself.
DaemonEnds(t) ==
    /\ waiter[t] = "waiting"
    /\ mode[t] = "daemon"
    /\ answer[t] # None
    /\ err' = Set(err, t, answer[t])
    /\ fin' = Set(fin, t, "store")
    /\ waiter' = Set(waiter, t, "gone")
    /\ UNCHANGED <<remote, record, mode, table, done, result, manager>>

\* Mutants of SelectTimer: the detached goroutine waits on a channel of its
\* own; the timer is only looked at once the result is there.
SelectTimerForgets(t) ==
    /\ mode[t] = "sync"
    /\ fin[t] = "wait"
    /\ mode' = Set(mode, t, "async")
    /\ done' = Set(done, t, None)
    /\ UNCHANGED <<remote, record, table, waiter, err, fin, result, manager>>

SelectTimerLate(t) ==
    /\ mode[t] = "sync"
    /\ fin[t] = "wait"
    /\ done[t] # None
    /\ mode' = Set(mode, t, "async")
    /\ UNCHANGED <<remote, record, table, waiter, done, err, fin, result, manager>>

\* waitMs runs out, possibly with the result already in the channel: the
\* handler returns and a goroutine takes over.
SelectTimer(t) ==
    /\ mode[t] = "sync"
    /\ fin[t] = "wait"
    /\ mode' = Set(mode, t, "async")
    /\ UNCHANGED <<remote, record, table, waiter, done, err, fin, result, manager>>

\* The select of the handler, or the goroutine that took over, receives.
Receive(t) ==
    /\ mode[t] \in {"sync", "async"}
    /\ fin[t] = "wait"
    /\ done[t] # None
    /\ err' = Set(err, t, done[t])
    /\ done' = Set(done, t, None)
    /\ fin' = Set(fin, t, "store")
    /\ UNCHANGED <<remote, record, mode, table, waiter, result, manager>>

-----------------------------------------------------------------------------
(* Recording the end of a session *)

StoreCompleted(t) ==
    /\ fin[t] = "store"
    /\ completed' = Set(completed, t, TRUE)
    /\ fin' = Set(fin, t, "close")
    /\ UNCHANGED <<remote, doneChan, exitCode, errorMsg, mode, table, waiter,
                   done, err, result, manager>>

\* A waiting handler does not record the exit code in the task.
CloseDoneChan(t) ==
    /\ fin[t] = "close"
    /\ doneChan' = Set(doneChan, t, TRUE)
    /\ fin' = Set(fin, t, IF mode[t] = "sync" THEN "sessclose" ELSE "set")
    /\ UNCHANGED <<remote, completed, exitCode, errorMsg, mode, table, waiter,
                   done, err, result, manager>>

\* Mutant of SetOutcome: the exit code is only set when there is no error.
SetOutcomeOfSuccess(t) ==
    /\ fin[t] = "set"
    /\ exitCode' = IF err[t] = 0 THEN Set(exitCode, t, 0) ELSE exitCode
    /\ errorMsg' = IF err[t] = 0 THEN errorMsg ELSE Set(errorMsg, t, TRUE)
    /\ fin' = Set(fin, t, "sessclose")
    /\ UNCHANGED <<remote, completed, doneChan, mode, table, waiter, done, err,
                   result, manager>>

\* The exit status of an *ssh.ExitError, or the text of any other error.
SetOutcome(t) ==
    /\ fin[t] = "set"
    /\ exitCode' = IF err[t] = Missing THEN exitCode
                                       ELSE Set(exitCode, t, err[t])
    /\ errorMsg' = IF err[t] = Missing THEN Set(errorMsg, t, TRUE)
                                       ELSE errorMsg
    /\ fin' = Set(fin, t, "sessclose")
    /\ UNCHANGED <<remote, completed, doneChan, mode, table, waiter, done, err,
                   result, manager>>

CloseSession(t) ==
    /\ fin[t] = "sessclose"
    /\ fin' = Set(fin, t, IF mode[t] = "sync" THEN "parse" ELSE "done")
    /\ UNCHANGED <<remote, record, mode, table, waiter, done, err, result, manager>>

\* Mutant of ParsedCode: the error of Wait is not consulted.
MarkerCode(t) == IF trailer[t] THEN code[t] ELSE 0

\* parseCommandMarkers, then the status of an *ssh.ExitError if that gave 0.
ParsedCode(t) ==
    LET parsed == IF trailer[t] THEN code[t] ELSE 0
    IN  IF parsed = 0 /\ err[t] # Missing THEN err[t] ELSE parsed

ParseAndReturn(t) ==
    /\ fin[t] = "parse"
    /\ result' = Set(result, t, ParsedCode(t))
    /\ fin' = Set(fin, t, "done")
    /\ UNCHANGED <<remote, record, mode, table, waiter, done, err, manager>>

-----------------------------------------------------------------------------
(* The remote command, wrapped by WrapCommand in a script that prints the    *)
(* marker line with the command's status and the output of pwd.              *)

\* The command ends and the script prints its last line, which is received unless
\* the channel has ended.
PrintTrailer(t) ==
    /\ command[t] = "running"
    /\ \E c \in Codes : code' = Set(code, t, c)
    /\ command' = Set(command, t, "printed")
    /\ trailer' = Set(trailer, t, answer[t] = None)
    /\ UNCHANGED <<link, answer, record, runner, manager>>

Answers(t, v) ==
    answer' = IF answer[t] = None THEN Set(answer, t, v) ELSE answer

\* The status of the script is that of pwd.
ScriptEnds(t) ==
    /\ command[t] = "printed"
    /\ command' = Set(command, t, "ended")
    /\ Answers(t, 0)
    /\ UNCHANGED <<link, code, trailer, record, runner, manager>>

\* The command leaves the script (exit).
CommandEnds(t) ==
    /\ command[t] = "running"
    /\ \E c \in Codes : code' = Set(code, t, c) /\ Answers(t, c)
    /\ command' = Set(command, t, "ended")
    /\ UNCHANGED <<link, trailer, record, runner, manager>>

\* SIGKILL ends the script, and the session with an exit-signal: 128 + 9.  It ends
\* the command as well, unless that was over and its status printed already.
SignalArrives(t) ==
    /\ t \in killed
    /\ link = "up"
    /\ command[t] \in {"running", "printed"}
    /\ \E c \in Codes \ {0} :
          /\ code' = IF command[t] = "running" THEN Set(code, t, c) ELSE code
          /\ Answers(t, c)
    /\ command' = Set(command, t, "ended")
    /\ UNCHANGED <<link, trailer, record, runner, manager>>

\* Kill has closed the channel, and the server closes it in turn without
\* sending a status (ssh.ExitMissingError).
ChannelCloses(t) ==
    /\ t \in killed
    /\ answer[t] = None
    /\ answer' = Set(answer, t, Missing)
    /\ UNCHANGED <<link, command, code, trailer, record, runner, manager>>

\* Every Wait that has no status yet returns an error; what runs on the remote
\* host goes on running.
LinkLost ==
    /\ link = "up"
    /\ link' = "lost"
    /\ answer' = [t \in Tasks |->
                     IF command[t] # "none" /\ answer[t] = None
                     THEN Missing ELSE answer[t]]
    /\ UNCHANGED <<command, code, trailer, record, runner, manager>>

-----------------------------------------------------------------------------
(* TaskManager.Kill *)

\* Get and Completed.Load: a finished or unknown task is an error.
KillLoad(m, t) ==
    /\ mpc[m] = "idle"
    /\ t \in table
    /\ ~ completed[t]
    /\ mpc' = Set(mpc, m, "kill")
    /\ mtask' = Set(mtask, m, t)
    /\ UNCHANGED <<remote, record, runner, seen, killed>>

\* Mutant of KillSession: Kill marks the task as finished itself.
KillMarksDone(m) ==
    /\ mpc[m] = "kill"
    /\ LET t == mtask[m]
       IN  /\ completed' = Set(completed, t, TRUE)
           /\ doneChan' = Set(doneChan, t, TRUE)
           /\ killed' = killed \cup {t}
    /\ mpc' = Set(mpc, m, "idle")
    /\ mtask' = Set(mtask, m, None)
    /\ UNCHANGED <<remote, exitCode, errorMsg, runner, seen>>

\* Signal(SIGKILL) and Close, whose errors are ignored; the tool then reports
\* "successfully terminated".  The script may be at any point, and goes on until the
\* signal arrives.
KillSession(m) ==
    /\ mpc[m] = "kill"
    /\ killed' = killed \cup {mtask[m]}
    /\ mpc' = Set(mpc, m, "idle")
    /\ mtask' = Set(mtask, m, None)
    /\ UNCHANGED <<remote, record, runner, seen>>

-----------------------------------------------------------------------------
(* The status, list and tail actions of remote_manage_task *)

\* The flag is loaded first, the rest of the record is read after it; the
\* finishing goroutine may be at work in between.
StatusLoad(m, t) ==
    /\ mpc[m] = "idle"
    /\ t \in table
    /\ mpc' = Set(mpc, m, "status")
    /\ mtask' = Set(mtask, m, t)
    /\ seen' = Set(seen, m, completed[t])
    /\ UNCHANGED <<remote, record, runner, killed>>

\* The answer is DONE or RUNNING as seen[m] says, with the exit code now there.
StatusReturns(m) ==
    /\ mpc[m] = "status"
    /\ mpc' = Set(mpc, m, "idle")
    /\ mtask' = Set(mtask, m, None)
    /\ seen' = Set(seen, m, FALSE)
    /\ UNCHANGED <<remote, record, runner, killed>>

-----------------------------------------------------------------------------
(* The specification *)

\* The goroutines of the server.
Local(t) ==
    \/ Register(t)
    \/ WaitSends(t)
    \/ DaemonEnds(t)
    \/ SelectTimer(t)
    \/ Receive(t)
    \/ StoreCompleted(t)
    \/ CloseDoneChan(t)
    \/ SetOutcome(t)
    \/ CloseSession(t)
    \/ ParseAndReturn(t)

\* The remote host.
Remote(t) ==
    \/ PrintTrailer(t)
    \/ ScriptEnds(t)
    \/ CommandEnds(t)
    \/ SignalArrives(t)
    \/ ChannelCloses(t)

Next ==
    \/ \E t \in Tasks : StartCommand(t) \/ Local(t) \/ Remote(t)
    \/ \E m \in Managers :
          \/ KillSession(m)
          \/ StatusReturns(m)
          \/ \E t \in Tasks : KillLoad(m, t) \/ StatusLoad(m, t)
    \/ LinkLost

Spec == Init /\ [][Next]_vars

\* Goroutines are scheduled and the timer fires; the script ends once it has
\* printed its last line, and a signal arrives.  Nothing makes a running command
\* end.
Fairness ==
    /\ \A t \in Tasks :
          /\ WF_vars(Local(t))
          /\ WF_vars(ScriptEnds(t))
          /\ WF_vars(SignalArrives(t))
    /\ \A m \in Managers : WF_vars(KillSession(m))

FairSpec == Spec /\ Fairness

-----------------------------------------------------------------------------
(* Properties *)

\* Until a registered task is marked completed, its end is still going to be
\* noticed: a goroutine is in Wait, or the result is in the channel, or the
\* goroutine that received it is about to mark it - also when waitMs runs out
\* while the result is on its way.
WatchedUntilDone ==
    \A t \in table :
        completed[t] \/ waiter[t] = "waiting" \/ done[t] # None \/ fin[t] = "store"

\* DoneChan is closed once (closing it again would end the server): whoever
\* is about to close it finds it open, and the task marked completed.
DoneChanClosedOnce ==
    \A t \in Tasks : fin[t] = "close" => completed[t] /\ ~ doneChan[t]

\* A waiting RunCommand returns the status of the command itself, whether the
\* marker line came or the script left early, if the server sent a status; and of
\* a task whose kill was reported, that or the status of the kill.
ResultIsTheCommands ==
    \A t \in Tasks :
        (result[t] # None /\ answer[t] # Missing) =>
            \/ result[t] = code[t]
            \/ t \in killed /\ result[t] = answer[t]

\* A finished background task has recorded how its session ended: the status
\* of the session, or the error that replaced it, never both and never none.
OutcomeRecorded ==
    \A t \in Tasks :
        (mode[t] # "sync" /\ fin[t] = "done") =>
            IF answer[t] = Missing THEN errorMsg[t] /\ exitCode[t] = Unset
                                   ELSE ~ errorMsg[t] /\ exitCode[t] = answer[t]

\* What a status answer says of a task is true although the record is read in
\* two steps: DONE means that the session has ended, a code is the one Wait
\* returned, and a DONE without a code is that of an error, of a task that a
\* waiting handler finished, or of one whose code is being written just now.
StatusIsTrue ==
    \A m \in Managers : mpc[m] = "status" =>
        LET t == mtask[m]
        IN  /\ seen[m] => answer[t] # None
            /\ exitCode[t] # Unset => exitCode[t] = answer[t]
            /\ (seen[m] /\ exitCode[t] = Unset) =>
                  errorMsg[t] \/ mode[t] = "sync" \/ fin[t] \in {"close", "set"}

\* The exit code a caller is given of a command that is over is the command's
\* own, from RunCommand and from the status of a task, if the server sent one.
ReportedCodeIsTheCommands ==
    /\ ResultIsTheCommands
    /\ \A m \in Managers :
          (/\ mpc[m] = "status" /\ seen[m]
           /\ fin[mtask[m]] = "done" /\ answer[mtask[m]] # Missing)
          => exitCode[mtask[m]] = code[mtask[m]]

\* RunCommand returns or detaches, whatever the command and the network do.
RunReturns ==
    \A t \in Tasks :
        (mode[t] = "sync") ~> (mode[t] = "async" \/ result[t] # None)

\* A task whose kill was reported is eventually DONE.
KilledIsDone == \A t \in Tasks : (t \in killed) ~> completed[t]

-----------------------------------------------------------------------------
(* The supervisor implements TaskLifecycle *)

PhaseOf(t) ==
    IF t \notin table THEN "none"
    ELSE IF completed[t] THEN "done"
    ELSE IF answer[t] # None THEN "ended"
    ELSE "running"

Lifecycle == INSTANCE TaskLifecycle WITH phase <- [t \in Tasks |-> PhaseOf(t)]

\* DONE only after the session ended, for good, and eventually.
LifecycleSpec == Lifecycle!Spec

\* The safety part of it.
LifecycleSafe == Lifecycle!Safe

-----------------------------------------------------------------------------
(* The inductive invariant *)

\* fin[t] determines what of the record has been written, and err[t].
RecordInOrder ==
    \A t \in Tasks :
        /\ t \in table <=> fin[t] # "none"
        /\ t \in table => mode[t] # "none"
        /\ (mode[t] = "none") <=> (command[t] = "none")
        /\ completed[t] <=> fin[t] \in {"close", "set", "sessclose", "parse", "done"}
        /\ doneChan[t] <=> fin[t] \in {"set", "sessclose", "parse", "done"}
        /\ fin[t] = "set" => mode[t] # "sync"
        /\ fin[t] = "parse" => mode[t] = "sync"
        /\ fin[t] \in {"none", "wait"} => err[t] = None
        /\ fin[t] \notin {"none", "wait"} => err[t] # None /\ err[t] = answer[t]

\* Until then one of Wait, the channel and the receiver holds the answer.
AnswerInTransit ==
    \A t \in Tasks :
        /\ waiter[t] = "none" <=> t \notin table
        /\ waiter[t] = "waiting" => fin[t] = "wait" /\ done[t] = None
        /\ done[t] # None => fin[t] = "wait" /\ mode[t] # "daemon" /\ done[t] = answer[t]
        /\ (fin[t] = "wait" /\ waiter[t] = "gone") => done[t] # None

\* What Wait returns agrees with the command and its marker line.
AnswerIsTheCommands ==
    \A t \in Tasks :
        /\ command[t] = "none" => answer[t] = None
        /\ answer[t] \in Codes =>
              /\ command[t] = "ended"
              /\ IF trailer[t] THEN answer[t] = 0 \/ t \in killed
                               ELSE answer[t] = code[t]
        /\ answer[t] = Missing => link = "lost" \/ t \in killed
        /\ trailer[t] => command[t] \in {"printed", "ended"}
        /\ (command[t] = "printed" /\ answer[t] = None) => trailer[t]
        /\ command[t] \in {"printed", "ended"} => code[t] # None
        /\ (answer[t] = None /\ command[t] # "none") =>
              link = "up" /\ command[t] # "ended"

OutcomeInOrder ==
    \A t \in Tasks :
        /\ fin[t] \in {"none", "wait", "store", "close", "set"} =>
              exitCode[t] = Unset /\ ~ errorMsg[t]
        /\ mode[t] = "sync" => exitCode[t] = Unset
        /\ (fin[t] = "sessclose" /\ mode[t] # "sync") =>
              IF err[t] = Missing THEN errorMsg[t] /\ exitCode[t] = Unset
                                  ELSE ~ errorMsg[t] /\ exitCode[t] = err[t]
        /\ result[t] # None =>
              fin[t] = "done" /\ mode[t] = "sync" /\ result[t] = ParsedCode(t)

ManagersInOrder ==
    /\ \A m \in Managers :
          /\ mpc[m] # "idle" => mtask[m] \in table
          /\ mpc[m] = "status" /\ seen[m] => completed[mtask[m]]
    /\ killed \subseteq table

\* The inductive invariant behind the safety properties.
IInv ==
    /\ TypeOK
    /\ RecordInOrder
    /\ AnswerInTransit
    /\ AnswerIsTheCommands
    /\ OutcomeInOrder
    /\ ManagersInOrder
    /\ OutcomeRecorded
=============================================================================
