----------------------------- MODULE SharedText -----------------------------
(***************************************************************************)
(* A text that several people and agents write, seen from its store: the   *)
(* abstract specification of project documents.                            *)
(* A text is the set of the edits it contains. Whatever the editors do     *)
(* with their copies, revisions and retries, an edit the store has         *)
(* accepted stays in the text until somebody removes the whole of it, and  *)
(* only in a form they have been shown.                                    *)
(***************************************************************************)
CONSTANT Edits

VARIABLES
    kept,       \* the edits the store holds
    shown,      \* of these, what the person who may remove it has been shown
    gone        \* the text was removed

vars == <<kept, shown, gone>>

TypeOK ==
    /\ kept \subseteq Edits
    /\ shown \subseteq Edits
    /\ gone \in BOOLEAN

Init ==
    /\ kept = {}
    /\ shown = {}
    /\ gone = FALSE

(* A write adds edits and takes none away. *)
Save ==
    /\ ~gone
    /\ \E S \in SUBSET (Edits \ kept) : S # {} /\ kept' = kept \union S
    /\ shown' \subseteq kept'
    /\ UNCHANGED gone

(* A copy is read, replaced, or forgotten. It may be an old one. *)
Show ==
    /\ ~gone
    /\ shown' \subseteq kept
    /\ UNCHANGED <<kept, gone>>

Remove ==
    /\ ~gone
    /\ kept \subseteq shown
    /\ gone' = TRUE
    /\ kept' = {}
    /\ shown' = {}

Next == Show \/ Save \/ Remove

Spec == Init /\ [][Next]_vars
=============================================================================
