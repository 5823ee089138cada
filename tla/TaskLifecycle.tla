--------------------------- MODULE TaskLifecycle ---------------------------
(***************************************************************************)
(* What the task supervisor promises of a task, whatever the goroutines    *)
(* behind it do: it is DONE only after its session has ended, stays DONE,  *)
(* and a session that has ended is not reported as RUNNING for ever.       *)
(***************************************************************************)
CONSTANT Tasks

VARIABLE phase   \* phase[t], of the task and its session

Phases == {"none", "running", "ended", "done"}

Init == phase = [t \in Tasks |-> "none"]

Move(t, from, to) == phase[t] \in from /\ phase' = [phase EXCEPT ![t] = to]

\* The task enters the table; its session may be over by then.
Begin(t) == Move(t, {"none"}, "running") \/ Move(t, {"none"}, "ended")

Finish(t) == Move(t, {"ended"}, "done")

\* Sessions end independently, or all at once when their connection is lost.
SessionsEnd ==
    \E S \in SUBSET {t \in Tasks : phase[t] = "running"} :
        phase' = [t \in Tasks |-> IF t \in S THEN "ended" ELSE phase[t]]

Next == SessionsEnd \/ \E t \in Tasks : Begin(t) \/ Finish(t)

Safe == Init /\ [][Next]_phase

Spec == Safe /\ \A t \in Tasks : WF_phase(Finish(t))
=============================================================================
