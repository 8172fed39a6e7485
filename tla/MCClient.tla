------------------------------ MODULE MCClient ------------------------------
(***************************************************************************)
(* Client and Sessions on a small instance: a user who may list and not    *)
(* create.                                                                 *)
(***************************************************************************)
EXTENDS Client, TLC

CONSTANTS guest, list

MCPermissionsOf == guest :> {list}

=============================================================================
