------------------------- MODULE MCDaemonLifecycle -------------------------
(* Instances of DaemonLifecycle.  Starts, serve-child slots and inode        *)
(* numbers are interchangeable; symmetry is used only where no liveness is   *)
(* checked.                                                                  *)
EXTENDS DaemonLifecycle, TLC

Interchangeable ==
  Permutations(Starter) \cup Permutations(Server) \cup Permutations(Inode)
=============================================================================
