--------------------------- MODULE MCSaldoLedger ---------------------------
(***************************************************************************)
(* Instances of SaldoLedger for TLC.  Reconcile writes only scan and queue, *)
(* which no other action reads, so the mutation runs leave it out and the  *)
(* reconciliation runs keep everything.                                    *)
(***************************************************************************)
EXTENDS SaldoLedger

CONSTANTS c1, c2, o1, t1

TwoCards == {c1, c2}
OneCard == {c1}
TwoSaldos == 1..2
OneOp == {o1}
TwoAmounts == {1, 2}
OneAmount == {1}
OneTime == {t1}
NoTimes == {}

MutationNext == Create \/ Move \/ Update \/ Withdraw \/ RequestFails \/ SoftDelete \/ Crash

MutationSpec == Init /\ [][MutationNext]_vars
=============================================================================
