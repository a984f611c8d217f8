------------------------- MODULE MCTransferHandlers -------------------------
(***************************************************************************)
(* The handlers of TransferSaga for TLC, in two kinds of behaviour: one      *)
(* attempt beside everything else there is, or two attempts beside crashes   *)
(* and expiries only.                                                      *)
(***************************************************************************)
EXTENDS MCTransferSaga

VARIABLES focus

Sent == Retries \union Unkeyed

Alone(a) == \A b \in Attempts \ {a} : pc[b] = "idle"

HandlersInit == Init /\ focus \in {"settlement", "retries"}

HandlersNext ==
    /\ UNCHANGED focus
    /\ \/ \E a \in Attempts : (focus = "settlement" => Alone(a)) /\ Handle(a)
       \/ \E a \in Attempts, leg \in Legs, fate \in {"applied", "refused"} : Execute(a, leg, fate)
       \/ focus = "settlement" /\ (Recover \/ SoftDelete)
       \/ \E k \in Keys : Expire(k)
       \/ Crash

HandlersSpec == HandlersInit /\ [][HandlersNext]_<<vars, focus>>
=============================================================================
