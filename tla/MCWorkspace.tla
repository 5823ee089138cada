---------------------------- MODULE MCWorkspace ----------------------------
(* Workspace for TLC. *)
EXTENDS Workspace

\* What plays no part in the composition has one value in the beginning: the
\* sudo password and the cwd, and which connection a successful boot uses.
BootConn == CHOOSE k \in Conns : TRUE

BootInit ==
    /\ Init
    /\ cfgHost # None
    /\ sudoPassword = None
    /\ currentCwd = cfgHost
    /\ sshClient \in {None, BootConn}

BootedSpec == BootInit /\ [][Next]_vars /\ Fairness
=============================================================================
