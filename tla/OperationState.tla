--------------------------- MODULE OperationState ---------------------------
(***************************************************************************)
(* The financial command state machine (shared/state/state.go) that        *)
(* transaction and transfer rows are meant to follow.  It says nothing of  *)
(* money or of who acts: a row is created pending and then moves along     *)
(* AllowedTransitions, one row per step.                                   *)
(***************************************************************************)
CONSTANTS Operations

VARIABLES status

Statuses == {"pending", "processing", "success", "failed", "compensating",
             "compensated", "unknown"}

AllowedTransitions ==
    [s \in Statuses |->
        CASE s = "pending"      -> {"processing", "failed"}
          [] s = "processing"   -> {"success", "compensating", "failed", "unknown"}
          [] s = "compensating" -> {"compensated", "unknown"}
          [] s = "unknown"      -> {"compensating", "compensated"}
          [] OTHER              -> {}]

CanTransition(from, to) == from \in Statuses /\ to \in AllowedTransitions[from]

IsTerminal(s) == s \in {"success", "failed", "compensated"}

IsRecoverable(s) == s \in {"processing", "compensating", "unknown"}

Init == status = [o \in Operations |-> "none"]

Create(o) == status[o] = "none" /\ status' = [status EXCEPT ![o] = "pending"]

Transition(o) ==
    \E to \in Statuses :
        /\ CanTransition(status[o], to)
        /\ status' = [status EXCEPT ![o] = to]

Next == \E o \in Operations : Create(o) \/ Transition(o)

Spec == Init /\ [][Next]_status
=============================================================================
