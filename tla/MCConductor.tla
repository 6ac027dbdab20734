---------------------------- MODULE MCConductor ----------------------------
(* Small instances of Conductor for TLC. *)
EXTENDS Conductor, TLC

(* The progress of one task that stays in its project with the text it has,  *)
(* while that project's settings stay as they began.                         *)
ProgressNext == Next /\ UNCHANGED <<project, content, settings, edits>>
ProgressSpec == Init /\ [][ProgressNext]_vars /\ Fairness

Symmetry == Permutations(Calls) \union Permutations(Tasks)
=============================================================================
