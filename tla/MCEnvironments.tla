--------------------------- MODULE MCEnvironments ---------------------------
(* Small instances of Environments for TLC. *)
EXTENDS Environments
=============================================================================
