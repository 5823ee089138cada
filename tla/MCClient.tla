------------------------------ MODULE MCClient ------------------------------
(* Instances of Client for TLC. *)
EXTENDS Client, TLC

CONSTANTS g1, g2

\* One goroutine switches hosts while another runs every other tool.
SwitchTools == g1 :> {"connect", "disconnect"}
            @@ g2 :> (Handlers \ {"connect"})

\* Nothing overlaps: one goroutine runs every tool.
SoloTools == g1 :> Handlers

\* No switching: two goroutines share one host.
SharedTools == g1 :> {"run", "forward"} @@ g2 :> {"disconnect", "file"}

\* Connections are interchangeable, and so are hosts.
Symmetry == Permutations(Conns) \cup Permutations(Hosts)
=============================================================================
