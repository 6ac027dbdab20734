----------------------------- MODULE MCTaskText -----------------------------
(* Small instances of TaskText for TLC. *)
EXTENDS TaskText
=============================================================================
