----------------------------- MODULE TunnelBook -----------------------------
(***************************************************************************)
(* What the tunnel manager promises, whatever the goroutines behind it do: *)
(* a tunnel is open from one moment, its registration, to another, for     *)
(* good; and a disconnect closes every open tunnel at one moment, with no  *)
(* tunnel opened since it began to.                                        *)
(***************************************************************************)
CONSTANT Ids

VARIABLES
    phase,     \* phase[t]: "new", "open" or "closed"
    clearing   \* a disconnect has begun to close them all

Init == phase = [t \in Ids |-> "new"] /\ clearing = FALSE

Open(t) ==
    /\ ~ clearing
    /\ phase[t] = "new"
    /\ phase' = [phase EXCEPT ![t] = "open"]
    /\ UNCHANGED clearing

Close(t) ==
    /\ ~ clearing
    /\ phase[t] = "open"
    /\ phase' = [phase EXCEPT ![t] = "closed"]
    /\ UNCHANGED clearing

BeginClear == ~ clearing /\ clearing' = TRUE /\ UNCHANGED phase

Clear ==
    /\ clearing
    /\ phase' = [t \in Ids |-> IF phase[t] = "open" THEN "closed" ELSE phase[t]]
    /\ clearing' = FALSE

Next == BeginClear \/ Clear \/ \E t \in Ids : Open(t) \/ Close(t)

Spec == Init /\ [][Next]_<<phase, clearing>>
=============================================================================
