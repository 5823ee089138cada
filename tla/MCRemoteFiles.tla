--------------------------- MODULE MCRemoteFiles ---------------------------
(* RemoteFiles for TLC: the calls are interchangeable. *)
EXTENDS RemoteFiles, TLC

CallSymmetry == Permutations(Calls)
=============================================================================
