------------------------- MODULE MCConductorSafety -------------------------
(* Five scenarios of Conductor; `part` says which one a behaviour is of.     *)
(*   "handoff"  two tasks handed over, selected, paused, released and sent   *)
(*              again                                                        *)
(*   "session"  everybody who may start a run for one task, and two requests *)
(*              at the same time                                             *)
(*   "paused"   one task whose project is paused and whose run is canceled    *)
(*   "review"   a task that is moved, edited, canceled and rechecked, across *)
(*              a stop or a crash                                            *)
(*   "setup"    a task that is moved, edited and canceled while the stages   *)
(*              of its projects are changed, across a stop or a crash        *)
(* They are Conductor with fewer users and lower bounds each; what a         *)
(* scenario has no use for stays as it is (Within).                          *)
EXTENDS Conductor, TLC

CONSTANTS t1, t2, p1, p2, c1, c2

VARIABLE part

Handoffs == INSTANCE Conductor WITH
    Users <- {"release", "pause"}, MaxEdits <- 0, MaxDowns <- 0

Sessions == INSTANCE Conductor WITH
    Users <- {"release", "recheck", "cancel", "manual", "resume"},
    MaxEdits <- 0, MaxDowns <- 0

Pauses == INSTANCE Conductor WITH
    Users <- {"release", "cancel", "pause"}, MaxEdits <- 0, MaxDowns <- 0

Reviews == INSTANCE Conductor WITH
    Users <- {"recheck", "cancel", "moveProject", "edit"}

Setups == INSTANCE Conductor WITH
    Users <- {"cancel", "moveProject", "edit", "stages"}

OneTask ==
    /\ row[t2] = NoRow /\ \A j \in Jobs : taskOf[j] # t2
    /\ stage[t2] = "todo" /\ project[t2] = p1 /\ content[t2] = 0 /\ ~blocked[t2]

OneProject ==
    /\ enabled[p2] /\ valid[p2]
    /\ \A t \in Tasks : project[t] = p1

OneCall == call[c2] = NoCall

Within ==
    /\ part # "handoff" => OneTask
    /\ part \in {"handoff", "session", "paused"} => OneProject
    /\ part # "session" => OneCall

SafetyInit ==
    /\ part \in {"handoff", "session", "paused", "review", "setup"}
    /\ Init
    /\ Within

SafetyNext ==
    /\ \/ part = "handoff" /\ Handoffs!Next
       \/ part = "session" /\ Sessions!Next
       \/ part = "paused" /\ Pauses!Next
       \/ part = "review" /\ Reviews!Next
       \/ part = "setup" /\ Setups!Next
    /\ UNCHANGED part
    /\ Within'

SafetySpec == SafetyInit /\ [][SafetyNext]_<<part, vars>>

(* Where a scenario is of one task or of one call, nothing happens to the    *)
(* other, so that no two of its states are permutations of each other.       *)
Symmetry == Permutations({t1, t2}) \union Permutations({c1, c2})
=============================================================================
