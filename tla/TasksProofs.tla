----------------------------- MODULE TasksProofs -----------------------------
(***************************************************************************)
(* Proofs about Tasks for any set of calls, handlers and exit statuses.    *)
(* IInv, the inductive invariant, is defined in Tasks and checked by the   *)
(* run tasks_safe.                                                         *)
(***************************************************************************)
EXTENDS Tasks, TLAPS

\* Without tasks there is nothing to keep.
LEMMA InitIInv == Init => IInv
  <1> SUFFICES ASSUME Init PROVE IInv
    OBVIOUS
  <1> USE TasksAssumption DEF Init
  <1>1. TypeOK
    BY DEF TypeOK, Results
  <1>2. RecordInOrder /\ AnswerInTransit
    BY DEF RecordInOrder, AnswerInTransit
  <1>3. AnswerIsTheCommands
    <2>1. \A t \in Tasks : answer[t] = None /\ command[t] = "none" /\ ~ trailer[t]
      OBVIOUS
    <2>2. None \notin Codes /\ None # Missing
      OBVIOUS
    <2>3. QED
      BY <2>1, <2>2 DEF AnswerIsTheCommands
  <1>4. OutcomeInOrder /\ ManagersInOrder /\ OutcomeRecorded
    BY DEF OutcomeInOrder, ManagersInOrder, OutcomeRecorded
  <1>5. QED
    BY <1>1, <1>2, <1>3, <1>4 DEF IInv

\* The steps of the server's own goroutines.
LEMMA LocalKeepsIInv ==
  ASSUME IInv, NEW t \in Tasks, Local(t)
  PROVE  IInv'
  <1> USE TasksAssumption
      DEF IInv, TypeOK, RecordInOrder, AnswerInTransit, AnswerIsTheCommands,
          OutcomeInOrder, ManagersInOrder, OutcomeRecorded, ParsedCode,
          Results, Unset, Set, Answers, remote, record, runner, manager
  <1>1. CASE Register(t)
    BY <1>1 DEF Register
  <1>2. CASE WaitSends(t)
    BY <1>2 DEF WaitSends
  <1>3. CASE DaemonEnds(t)
    BY <1>3 DEF DaemonEnds
  <1>4. CASE SelectTimer(t)
    BY <1>4 DEF SelectTimer
  <1>5. CASE Receive(t)
    BY <1>5 DEF Receive
  <1>6. CASE StoreCompleted(t)
    BY <1>6 DEF StoreCompleted
  <1>7. CASE CloseDoneChan(t)
    BY <1>7 DEF CloseDoneChan
  <1>8. CASE SetOutcome(t)
    <2>1. TypeOK'
      <3>1. CASE err[t] = Missing
        <4>1. errorMsg' \in [Tasks -> BOOLEAN]
          BY <1>8, <3>1 DEF SetOutcome
        <4>2. /\ fin' = [fin EXCEPT ![t] = "sessclose"]
              /\ UNCHANGED <<remote, completed, doneChan, exitCode, mode, table,
                             waiter, done, err, result, manager>>
          BY <1>8, <3>1 DEF SetOutcome
        <4>3. QED
          BY <4>1, <4>2
      <3>2. CASE err[t] # Missing
        <4>1. err[t] \in Codes
          BY <1>8, <3>2 DEF SetOutcome
        <4>2. QED
          BY <1>8, <3>2, <4>1 DEF SetOutcome
      <3>3. QED
        BY <3>1, <3>2
    <2>2. RecordInOrder'
      BY <1>8 DEF SetOutcome
    <2>3. AnswerInTransit'
      BY <1>8 DEF SetOutcome
    <2>4. AnswerIsTheCommands'
      BY <1>8 DEF SetOutcome
    <2>5. OutcomeInOrder'
      BY <1>8 DEF SetOutcome
    <2>6. ManagersInOrder'
      BY <1>8 DEF SetOutcome
    <2>7. OutcomeRecorded'
      BY <1>8 DEF SetOutcome
    <2>8. QED
      BY <2>1, <2>2, <2>3, <2>4, <2>5, <2>6, <2>7
  <1>9. CASE CloseSession(t)
    BY <1>9 DEF CloseSession
  <1>10. CASE ParseAndReturn(t)
    <2>1. TypeOK'
      BY <1>10 DEF ParseAndReturn
    <2>2. RecordInOrder'
      BY <1>10 DEF ParseAndReturn
    <2>3. AnswerInTransit'
      BY <1>10 DEF ParseAndReturn
    <2>4. AnswerIsTheCommands'
      BY <1>10 DEF ParseAndReturn
    <2>5. OutcomeInOrder'
      BY <1>10 DEF ParseAndReturn
    <2>6. ManagersInOrder'
      BY <1>10 DEF ParseAndReturn
    <2>7. OutcomeRecorded'
      BY <1>10 DEF ParseAndReturn
    <2>8. QED
      BY <2>1, <2>2, <2>3, <2>4, <2>5, <2>6, <2>7
  <1>11. QED
    BY <1>1, <1>2, <1>3, <1>4, <1>5, <1>6, <1>7, <1>8, <1>9, <1>10 DEF Local

\* The remote command and its channel end.
LEMMA RemoteKeepsIInv ==
  ASSUME IInv, NEW t \in Tasks, Remote(t)
  PROVE  IInv'
  <1> USE TasksAssumption
      DEF IInv, TypeOK, RecordInOrder, AnswerInTransit, AnswerIsTheCommands,
          OutcomeInOrder, ManagersInOrder, OutcomeRecorded, ParsedCode,
          Results, Unset, Set, Answers, remote, record, runner, manager
  <1>1. CASE PrintTrailer(t)
    <2>1. TypeOK'
      BY <1>1 DEF PrintTrailer
    <2>2. RecordInOrder'
      BY <1>1 DEF PrintTrailer
    <2>3. AnswerInTransit'
      BY <1>1 DEF PrintTrailer
    <2>4. AnswerIsTheCommands'
      <3>1. CASE answer[t] = None
        <4>1. trailer' = [trailer EXCEPT ![t] = TRUE] /\ answer' = answer
          BY <1>1, <3>1, Zenon DEF PrintTrailer, Set, remote
        <4>2. QED
          BY <1>1, <3>1, <4>1 DEF PrintTrailer
      <3>2. CASE answer[t] # None
        BY <1>1, <3>2 DEF PrintTrailer
      <3>3. QED
        BY <3>1, <3>2
    <2>5. OutcomeInOrder'
      BY <1>1 DEF PrintTrailer
    <2>6. ManagersInOrder'
      BY <1>1 DEF PrintTrailer
    <2>7. OutcomeRecorded'
      BY <1>1 DEF PrintTrailer
    <2>8. QED
      BY <2>1, <2>2, <2>3, <2>4, <2>5, <2>6, <2>7
  <1>2. CASE ScriptEnds(t)
    <2>1. TypeOK'
      BY <1>2 DEF ScriptEnds
    <2>2. RecordInOrder'
      BY <1>2 DEF ScriptEnds
    <2>3. AnswerInTransit'
      BY <1>2 DEF ScriptEnds
    <2>4. AnswerIsTheCommands'
      BY <1>2 DEF ScriptEnds
    <2>5. OutcomeInOrder'
      BY <1>2 DEF ScriptEnds
    <2>6. ManagersInOrder'
      BY <1>2 DEF ScriptEnds
    <2>7. OutcomeRecorded'
      BY <1>2 DEF ScriptEnds
    <2>8. QED
      BY <2>1, <2>2, <2>3, <2>4, <2>5, <2>6, <2>7
  <1>3. CASE CommandEnds(t)
    <2>1. TypeOK'
      BY <1>3 DEF CommandEnds
    <2>2. RecordInOrder'
      BY <1>3 DEF CommandEnds
    <2>3. AnswerInTransit'
      BY <1>3 DEF CommandEnds
    <2>4. AnswerIsTheCommands'
      BY <1>3 DEF CommandEnds
    <2>5. OutcomeInOrder'
      BY <1>3 DEF CommandEnds
    <2>6. ManagersInOrder'
      BY <1>3 DEF CommandEnds
    <2>7. OutcomeRecorded'
      BY <1>3 DEF CommandEnds
    <2>8. QED
      BY <2>1, <2>2, <2>3, <2>4, <2>5, <2>6, <2>7
  <1>4. CASE ChannelCloses(t)
    <2>1. TypeOK'
      BY <1>4 DEF ChannelCloses
    <2>2. RecordInOrder'
      BY <1>4 DEF ChannelCloses
    <2>3. AnswerInTransit'
      BY <1>4 DEF ChannelCloses
    <2>4. AnswerIsTheCommands'
      BY <1>4 DEF ChannelCloses
    <2>5. OutcomeInOrder'
      BY <1>4 DEF ChannelCloses
    <2>6. ManagersInOrder'
      BY <1>4 DEF ChannelCloses
    <2>7. OutcomeRecorded'
      BY <1>4 DEF ChannelCloses
    <2>8. QED
      BY <2>1, <2>2, <2>3, <2>4, <2>5, <2>6, <2>7
  <1>5. CASE SignalArrives(t)
    <2>1. TypeOK'
      BY <1>5 DEF SignalArrives
    <2>2. RecordInOrder'
      BY <1>5 DEF SignalArrives
    <2>3. AnswerInTransit'
      BY <1>5 DEF SignalArrives
    <2>4. AnswerIsTheCommands'
      BY <1>5 DEF SignalArrives
    <2>5. OutcomeInOrder'
      BY <1>5 DEF SignalArrives
    <2>6. ManagersInOrder'
      BY <1>5 DEF SignalArrives
    <2>7. OutcomeRecorded'
      BY <1>5 DEF SignalArrives
    <2>8. QED
      BY <2>1, <2>2, <2>3, <2>4, <2>5, <2>6, <2>7
  <1>6. QED
    BY <1>1, <1>2, <1>3, <1>4, <1>5 DEF Remote

\* New commands, kills, status requests, and the loss of the connection.
LEMMA OtherKeepsIInv ==
  ASSUME IInv,
         \/ \E t \in Tasks : StartCommand(t)
         \/ \E m \in Managers : KillSession(m)
         \/ \E m \in Managers, t \in Tasks : KillLoad(m, t)
         \/ \E m \in Managers, t \in Tasks : StatusLoad(m, t)
         \/ \E m \in Managers : StatusReturns(m)
         \/ LinkLost
  PROVE  IInv'
  <1> USE TasksAssumption
      DEF IInv, TypeOK, RecordInOrder, AnswerInTransit, AnswerIsTheCommands,
          OutcomeInOrder, ManagersInOrder, OutcomeRecorded, ParsedCode,
          Results, Unset, Set, Answers, remote, record, runner, manager
  <1>1. ASSUME NEW t \in Tasks, StartCommand(t) PROVE IInv'
    <2>1. TypeOK'
      BY <1>1 DEF StartCommand
    <2>2. RecordInOrder'
      BY <1>1 DEF StartCommand
    <2>3. AnswerInTransit'
      BY <1>1 DEF StartCommand
    <2>4. AnswerIsTheCommands'
      BY <1>1 DEF StartCommand
    <2>5. OutcomeInOrder' /\ OutcomeRecorded' /\ ManagersInOrder'
      BY <1>1 DEF StartCommand
    <2>6. QED
      BY <2>1, <2>2, <2>3, <2>4, <2>5
  <1>2. ASSUME NEW m \in Managers, KillSession(m) PROVE IInv'
    BY <1>2 DEF KillSession
  <1>3. ASSUME NEW m \in Managers, NEW t \in Tasks, KillLoad(m, t) PROVE IInv'
    BY <1>3 DEF KillLoad
  <1>4. CASE LinkLost
    <2>1. TypeOK'
      BY <1>4 DEF LinkLost
    <2>2. RecordInOrder'
      BY <1>4 DEF LinkLost
    <2>3. AnswerInTransit'
      BY <1>4 DEF LinkLost
    <2>4. AnswerIsTheCommands'
      BY <1>4 DEF LinkLost
    <2>5. OutcomeInOrder'
      BY <1>4 DEF LinkLost
    <2>6. ManagersInOrder'
      BY <1>4 DEF LinkLost
    <2>7. OutcomeRecorded'
      BY <1>4 DEF LinkLost
    <2>8. QED
      BY <2>1, <2>2, <2>3, <2>4, <2>5, <2>6, <2>7
  <1>5. ASSUME NEW m \in Managers, NEW t \in Tasks, StatusLoad(m, t) PROVE IInv'
    BY <1>5 DEF StatusLoad
  <1>6. ASSUME NEW m \in Managers, StatusReturns(m) PROVE IInv'
    BY <1>6 DEF StatusReturns
  <1>7. QED
    BY <1>1, <1>2, <1>3, <1>4, <1>5, <1>6

\* The invariant is inductive.
LEMMA NextKeepsIInv == IInv /\ [Next]_vars => IInv'
  <1> SUFFICES ASSUME IInv, [Next]_vars PROVE IInv'
    OBVIOUS
  <1>1. CASE Next
    BY <1>1, LocalKeepsIInv, RemoteKeepsIInv, OtherKeepsIInv DEF Next
  <1>2. CASE UNCHANGED vars
    BY <1>2 DEF vars, remote, record, runner, manager, IInv, TypeOK,
        RecordInOrder, AnswerInTransit, AnswerIsTheCommands, OutcomeInOrder,
        ManagersInOrder, OutcomeRecorded, ParsedCode
  <1>3. QED
    BY <1>1, <1>2

\* IInv is invariant: the strengthening all the safety theorems follow from.
THEOREM Inductive == Spec => []IInv
  <1>1. QED
    BY InitIInv, NextKeepsIInv, PTL DEF Spec

\* Every variable of Tasks keeps its type.
THEOREM TypeCorrect == Spec => []TypeOK
  <1>1. IInv => TypeOK
    BY DEF IInv
  <1>2. QED
    BY <1>1, Inductive, PTL

\* No registered task is orphaned: its end is still going to be noticed, also
\* when waitMs runs out while the result is on its way.
THEOREM NoOrphan == Spec => []WatchedUntilDone
  <1>1. IInv => WatchedUntilDone
    BY DEF IInv, TypeOK, RecordInOrder, AnswerInTransit, WatchedUntilDone
  <1>2. QED
    BY <1>1, Inductive, PTL

\* DoneChan is never closed twice, whoever finishes the task.
THEOREM ClosedOnce == Spec => []DoneChanClosedOnce
  <1>1. IInv => DoneChanClosedOnce
    BY DEF IInv, RecordInOrder, DoneChanClosedOnce
  <1>2. QED
    BY <1>1, Inductive, PTL

\* A waiting RunCommand returns the status of the command if the server sent
\* one, through the marker line or through the exit status of the session; only
\* of a killed task it may return the status of the kill instead.
THEOREM ResultCorrect == Spec => []ResultIsTheCommands
  <1>1. IInv => ResultIsTheCommands
    <2> SUFFICES ASSUME IInv, NEW t \in Tasks,
                        result[t] # None, answer[t] # Missing
                 PROVE  \/ result[t] = code[t]
                        \/ t \in killed /\ result[t] = answer[t]
      BY DEF ResultIsTheCommands
    <2>1. answer[t] \in Codes /\ err[t] = answer[t]
      BY TasksAssumption DEF IInv, TypeOK, Results, RecordInOrder, OutcomeInOrder
    <2>2. QED
      BY <2>1, TasksAssumption
         DEF IInv, AnswerIsTheCommands, OutcomeInOrder, ParsedCode
  <1>2. QED
    BY <1>1, Inductive, PTL

\* A finished background task has recorded how its session ended.
THEOREM OutcomeKept == Spec => []OutcomeRecorded
  <1>1. IInv => OutcomeRecorded
    BY DEF IInv
  <1>2. QED
    BY <1>1, Inductive, PTL

\* A status answer is true of its task, whatever happens between the two reads
\* it is made of.
THEOREM StatusCorrect == Spec => []StatusIsTrue
  <1>1. IInv => StatusIsTrue
    <2> SUFFICES ASSUME IInv, NEW m \in Managers, mpc[m] = "status"
                 PROVE  LET t == mtask[m]
                        IN  /\ seen[m] => answer[t] # None
                            /\ exitCode[t] # Unset => exitCode[t] = answer[t]
                            /\ (seen[m] /\ exitCode[t] = Unset) =>
                                  \/ errorMsg[t] \/ mode[t] = "sync"
                                  \/ fin[t] \in {"close", "set"}
      BY DEF StatusIsTrue
    <2>1. mtask[m] \in table /\ mtask[m] \in Tasks
      BY DEF IInv, TypeOK, ManagersInOrder
    <2>2. seen[m] => completed[mtask[m]]
      BY DEF IInv, ManagersInOrder
    <2> DEFINE t == mtask[m]
    <2> HIDE DEF t
    <2>3. t \in table /\ t \in Tasks /\ (seen[m] => completed[t])
      BY <2>1, <2>2 DEF t
    <2>4. completed[t] => answer[t] # None
      BY <2>3 DEF IInv, RecordInOrder
    <2>5. exitCode[t] # Unset => exitCode[t] = answer[t]
      <3>1. CASE fin[t] \in {"none", "wait", "store", "close", "set"}
        BY <2>3, <3>1 DEF IInv, OutcomeInOrder
      <3>2. CASE mode[t] = "sync"
        BY <2>3, <3>2 DEF IInv, OutcomeInOrder
      <3>3. CASE fin[t] = "sessclose" /\ mode[t] # "sync"
        BY <2>3, <3>3 DEF IInv, RecordInOrder, OutcomeInOrder
      <3>4. CASE fin[t] = "done" /\ mode[t] # "sync"
        BY <2>3, <3>4 DEF IInv, OutcomeRecorded
      <3>5. fin[t] = "parse" => mode[t] = "sync"
        BY <2>3 DEF IInv, RecordInOrder
      <3>6. QED
        BY <2>3, <3>1, <3>2, <3>3, <3>4, <3>5 DEF IInv, TypeOK
    <2>6. ASSUME completed[t], exitCode[t] = Unset, mode[t] # "sync",
                 fin[t] \notin {"close", "set"}
          PROVE  errorMsg[t]
      <3>1. fin[t] \in {"sessclose", "done"}
        BY <2>3, <2>6 DEF IInv, RecordInOrder
      <3>2. answer[t] \in Results /\ (fin[t] = "sessclose" => err[t] = answer[t])
        BY <2>3, <2>4, <2>6, <3>1 DEF IInv, TypeOK, RecordInOrder
      <3>3. answer[t] = Missing \/ answer[t] # Unset
        BY <3>2, TasksAssumption DEF Results, Unset
      <3>4. QED
        BY <2>3, <2>6, <3>1, <3>2, <3>3 DEF IInv, OutcomeInOrder, OutcomeRecorded
    <2>7. QED
      BY <2>3, <2>4, <2>5, <2>6 DEF t
  <1>2. QED
    BY <1>1, Inductive, PTL

-----------------------------------------------------------------------------
(* Tasks implements TaskLifecycle. *)

\* What does not touch the table, Completed and the answers is a stutter.
LEMMA Stutter ==
  ASSUME UNCHANGED <<table, completed, answer>>
  PROVE  UNCHANGED [t \in Tasks |-> PhaseOf(t)]
  BY DEF PhaseOf

\* Sessions that end: any set of them, seen from the table.
LEMMA Endings ==
  ASSUME IInv, NEW S \in SUBSET Tasks, UNCHANGED <<table, completed>>,
         \A t \in S : answer'[t] # None,
         \A t \in Tasks \ S : answer'[t] = answer[t]
  PROVE  [Lifecycle!Next]_([t \in Tasks |-> PhaseOf(t)])
  <1> DEFINE E == {t \in S : PhaseOf(t) = "running"}
  <1>1. \A t \in Tasks : PhaseOf(t)' = IF t \in E THEN "ended" ELSE PhaseOf(t)
    BY DEF PhaseOf, IInv, TypeOK
  <1>2. E \in SUBSET {t \in Tasks : [u \in Tasks |-> PhaseOf(u)][t] = "running"}
    OBVIOUS
  <1>3. [t \in Tasks |-> PhaseOf(t)]'
          = [t \in Tasks |-> IF t \in E THEN "ended"
                                       ELSE [u \in Tasks |-> PhaseOf(u)][t]]
    BY <1>1
  <1>4. QED
    BY <1>2, <1>3 DEF Lifecycle!Next, Lifecycle!SessionsEnd

\* No task has a phase yet.
LEMMA InitPhases == Init => Lifecycle!Init
  BY DEF Init, Lifecycle!Init, PhaseOf

\* Every step moves the phases as TaskLifecycle does, or leaves them alone.
LEMMA NextPhases ==
  ASSUME IInv, [Next]_vars
  PROVE  [Lifecycle!Next]_([t \in Tasks |-> PhaseOf(t)])
  <1> DEFINE ph == [t \in Tasks |-> PhaseOf(t)]
  <1>1. ASSUME NEW t \in Tasks, Register(t) PROVE [Lifecycle!Next]_ph
    <2>1. ph[t] = "none" /\ ph'[t] \in {"running", "ended"}
      BY <1>1 DEF Register, PhaseOf, record, IInv, RecordInOrder
    <2>2. ph' = [ph EXCEPT ![t] = ph'[t]]
      <3>1. /\ UNCHANGED <<completed, answer>>
            /\ \A u \in Tasks \ {t} : u \in table' <=> u \in table
        BY <1>1 DEF Register, record, remote
      <3>2. \A u \in Tasks \ {t} : PhaseOf(u)' = PhaseOf(u)
        BY <3>1 DEF PhaseOf
      <3>3. QED
        BY <3>2
    <2>3. Lifecycle!Begin(t)
      BY <2>1, <2>2 DEF Lifecycle!Begin, Lifecycle!Move
    <2>4. QED
      BY <2>3 DEF Lifecycle!Next
  <1>2. ASSUME NEW t \in Tasks, StoreCompleted(t) PROVE [Lifecycle!Next]_ph
    <2>1. t \in table /\ ~ completed[t] /\ answer[t] # None
      BY <1>2 DEF StoreCompleted, IInv, TypeOK, RecordInOrder
    <2>2. ph[t] = "ended"
      BY <2>1 DEF PhaseOf
    <2>3. ph' = [ph EXCEPT ![t] = "done"]
      BY <1>2, <2>1 DEF StoreCompleted, Set, PhaseOf, remote, IInv, TypeOK
    <2>4. Lifecycle!Finish(t)
      BY <2>2, <2>3 DEF Lifecycle!Finish, Lifecycle!Move
    <2>5. QED
      BY <2>4 DEF Lifecycle!Next
  <1>3. ASSUME NEW t \in Tasks, Local(t), ~ Register(t), ~ StoreCompleted(t)
        PROVE  UNCHANGED <<table, completed, answer>>
    BY <1>3 DEF Local, WaitSends, DaemonEnds, SelectTimer, Receive,
        CloseDoneChan, SetOutcome, CloseSession, ParseAndReturn, remote, record
  <1>4. ASSUME NEW t \in Tasks, Remote(t) PROVE [Lifecycle!Next]_ph
    <2>1. UNCHANGED <<table, completed>>
      BY <1>4 DEF Remote, PrintTrailer, ScriptEnds, CommandEnds,
         SignalArrives, ChannelCloses, record, runner
    <2>2. CASE UNCHANGED answer
      BY <2>1, <2>2, Stutter
    <2>3. CASE \E c \in Results : answer' = Set(answer, t, c)
      <3>1. answer'[t] # None /\ \A u \in Tasks \ {t} : answer'[u] = answer[u]
        BY <2>3, TasksAssumption DEF Set, Results, IInv, TypeOK
      <3>2. QED
        BY <2>1, <3>1, Endings, {t} \in SUBSET Tasks
    <2>4. QED
      BY <1>4, <2>2, <2>3, TasksAssumption
         DEF Remote, PrintTrailer, ScriptEnds, CommandEnds, SignalArrives,
             ChannelCloses, Answers, Results
  <1>5. CASE LinkLost
    <2> DEFINE S == {t \in Tasks : command[t] # "none" /\ answer[t] = None}
    <2>1. UNCHANGED <<table, completed>> /\ S \in SUBSET Tasks
      BY <1>5 DEF LinkLost, record, runner
    <2>2. /\ \A t \in S : answer'[t] # None
          /\ \A t \in Tasks \ S : answer'[t] = answer[t]
      BY <1>5, TasksAssumption DEF LinkLost, IInv, TypeOK
    <2>3. QED
      BY <2>1, <2>2, Endings
  <1>6. ASSUME NEW t \in Tasks, StartCommand(t)
        PROVE  UNCHANGED <<table, completed, answer>>
    BY <1>6 DEF StartCommand, record
  <1>7. ASSUME NEW m \in Managers,
               \/ KillSession(m)
               \/ StatusReturns(m)
               \/ \E t \in Tasks : KillLoad(m, t) \/ StatusLoad(m, t)
        PROVE  UNCHANGED <<table, completed, answer>>
    BY <1>7 DEF KillSession, KillLoad, StatusLoad, StatusReturns, remote, record,
        runner
  <1>8. CASE UNCHANGED vars
    BY <1>8, Stutter DEF vars, remote, record, runner
  <1>9. QED
    BY <1>1, <1>2, <1>3, <1>4, <1>5, <1>6, <1>7, <1>8, Stutter DEF Next

\* A task is DONE only after its session has ended, and stays DONE: every step
\* of the supervisor is a step of TaskLifecycle or leaves the phases alone.
THEOREM Implements == Spec => LifecycleSafe
  <1>1. QED
    BY InitPhases, NextPhases, Inductive, PTL
       DEF Spec, LifecycleSafe, Lifecycle!Safe
=============================================================================
