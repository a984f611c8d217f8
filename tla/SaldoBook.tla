----------------------------- MODULE SaldoBook -----------------------------
(***************************************************************************)
(* What the saldo service promises to the services that move money, with   *)
(* no SQL in it: a balance per saldo and the set of movements already      *)
(* posted.  A movement is identified by its operation, card and direction  *)
(* and is posted at most once, whatever is retried; posting one adds its   *)
(* delta to a single balance and never overdraws it.  The one other thing  *)
(* that may happen to a balance is a top-up of an EMPTY saldo by a repeated*)
(* create request.  SaldoLedger is the detailed specification; its         *)
(* refinement is checked by TLC and proved in SaldoLedgerProofs.           *)
(***************************************************************************)
EXTENDS Integers

CONSTANTS Saldos

VARIABLES
    bal,    \* bal[s]: money held by saldo row s
    posted  \* the movements that have taken effect

Key(m) == <<m.card, m.op, m.dir>>

Init ==
    /\ bal = [s \in Saldos |-> 0]
    /\ posted = {}

\* One movement takes effect, for the first and only time.
Post ==
    \E s \in Saldos, m \in posted' :
        /\ \A p \in posted : Key(p) # Key(m)
        /\ posted' = posted \union {m}
        /\ bal' = [bal EXCEPT ![s] = @ + m.delta]
        /\ bal'[s] >= 0

\* A saldo that holds nothing is given a positive amount without a movement.
Refill ==
    \E s \in Saldos :
        /\ bal[s] = 0
        /\ bal'[s] > 0
        /\ bal' = [bal EXCEPT ![s] = bal'[s]]
        /\ UNCHANGED posted

Next == Post \/ Refill

Spec == Init /\ [][Next]_<<bal, posted>>
=============================================================================
