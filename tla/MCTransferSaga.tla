--------------------------- MODULE MCTransferSaga ---------------------------
(***************************************************************************)
(* Instances of TransferSaga for TLC: retries under one key, and the        *)
(* recovery worker beside handlers that may stop.                          *)
(***************************************************************************)
EXTENDS TransferSaga, TLC

CONSTANTS a1, a2, k1, p1, p2, noKey, stats

TwoAttempts == {a1, a2}
Retries == {[key |-> k1, payload |-> p1], [key |-> k1, payload |-> p2]}
Unkeyed == {[key |-> noKey, payload |-> p1]}
OneEvent == {stats}
NoEvents == {}

AttemptSymmetry == Permutations(TwoAttempts)

\* Retries under one key: no recovery worker and no soft deletion, which touch
\* no key.
RetryNext ==
    \/ \E a \in Attempts : Handle(a)
    \/ \E a \in Attempts, leg \in Legs, fate \in {"applied", "refused"} : Execute(a, leg, fate)
    \/ \E k \in Keys : Expire(k)
    \/ Crash

RetrySpec == Init /\ [][RetryNext]_vars

\* The recovery worker beside two handlers, either of which may stop for ever at
\* any statement; no soft deletion, and no crash of the worker itself.  A refused
\* call looks to the handler like one that is never executed, so none is refused.
\* Requests carry no key, so none is looked up.
RecoveryNext ==
    \/ \E a \in Attempts : Proceed(a)
    \/ \E a \in Attempts, leg \in Legs : Execute(a, leg, "applied")
    \/ Recover

FairRecoverySpec == Init /\ [][RecoveryNext]_vars /\ Fairness
=============================================================================
