------------------------- MODULE MCDaemonLifecycle -------------------------
(* Instances of DaemonLifecycle for TLC. *)
EXTENDS DaemonLifecycle
=============================================================================
