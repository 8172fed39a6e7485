------------------------------ MODULE MCDaemon ------------------------------
(***************************************************************************)
(* The daemon on a small instance: every constant gets its value in the    *)
(* configuration files.  Handlers, ports and domains are interchangeable.  *)
(***************************************************************************)
EXTENDS DaemonProps, TLC

Symmetry ==
  Permutations(Handlers) \cup Permutations(Ports) \cup Permutations(Domains)

=============================================================================
