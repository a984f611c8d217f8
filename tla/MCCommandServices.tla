------------------------- MODULE MCCommandServices -------------------------
(***************************************************************************)
(* The command services that share no state with each other: transactions, *)
(* withdrawals, topups, amount changes, the saldo cache and billing.  The  *)
(* initial state chooses which one a behaviour is about (focus); the others *)
(* stay as they are, so their state spaces add up instead of multiplying.  *)
(***************************************************************************)
EXTENDS TransactionSaga, WithdrawSaga, TopupSaga, AmountUpdate, SaldoCache, CardBilling

CONSTANTS
    a1, a2, k1, k2, p1, p2, noKey, stats,   \* transactions and topups
    w1, w2, t1, y1,                     \* withdrawals and an update
    c1, c2,                             \* topups
    e1, e2,                             \* edits
    u1,                                 \* a query of the saldo cache
    d1, d2, x1, x2                      \* cards and billing calls

VARIABLES focus

Focuses == {"transaction retries", "transaction settlement", "withdrawals",
            "serial withdrawals", "topups", "edits", "serial edits", "cache", "billing"}

TwoAttempts == {a1, a2}
Sent == {[key |-> k1, payload |-> p1], [key |-> k1, payload |-> p2],
         [key |-> noKey, payload |-> p1]}
OneEvent == {stats}

TwoWithdrawals == {w1, w2}
\* One request with and without key, and one of another amount.  The limit of 4
\* has room for two withdrawals of 2, but not for an increase of one of them.
SentWithdrawals == {[key |-> k1, time |-> t1, amount |-> 2],
                    [key |-> noKey, time |-> t1, amount |-> 2],
                    [key |-> noKey, time |-> t1, amount |-> 3]}

TwoTopups == {c1, c2}
SentTopups == {[key |-> k1, payload |-> p1], [key |-> noKey, payload |-> p1]}

TwoKeyedWithdrawals == {[key |-> k1, time |-> t1, amount |-> 2],
                        [key |-> k2, time |-> t1, amount |-> 3]}
OneUpdate == {y1}
OneKeyedWithdrawal == {[key |-> k1, time |-> t1, amount |-> 2]}

FourServices == {"transfer", "transaction", "withdraw", "topup"}
TwoEdits == {e1, e2}

OneQuery == {u1}
AllFaults == {"redis", "crash", "outbox"}

\* Only the differences between the lengths of months matter to CardBilling, so
\* December to March have five days instead of 31 and February two.
ShortMonths == {<<5, 5, 2, 5>>}
FirstMiddleLast == {1, 4, 5}
TwoCards == {d1, d2}
TwoCalls == {x1, x2}

allVars == <<vars, withdrawVars, topupVars, editVars, cacheVars, billingVars, focus>>

Alone(a) == \A b \in Attempts \ {a} : pc[b] = "idle"

TransactionStep ==
    \/ \E a \in Attempts : (focus = "transaction settlement" => Alone(a)) /\ Handle(a)
    \/ \E a \in Attempts, leg \in Legs, fate \in {"applied", "refused"} : Execute(a, leg, fate)
    \/ focus = "transaction settlement" /\ (Recover \/ SoftDelete)
    \/ \E k \in Keys : Expire(k)
    \/ Crash

\* Beside others, a dead handler is one that takes no further step: where
\* handlers overlap, withdrawals and edits stop without a crash.  Updates come
\* where the limit holds, and there what it does not depend on stays out: keys,
\* events, late calls, rollbacks that arrive, and the purge of rows that are in
\* the trash anyway.
WithdrawStep ==
    /\ WithdrawNext
    /\ focus = "serial withdrawals" =>
        /\ ~wdisturbed' /\ wkeys' = wkeys /\ wevents' = wevents
        /\ wsent' # wsent \/ wledger' # wledger => \E w \in Withdrawals : wpc[w] = "debit"
        /\ \A w \in Withdrawals : wdeleted'[w] # "purged"
    /\ focus = "withdrawals" => (\A w \in Withdrawals : wpc'[w] # "dead") /\ upc' = upc

EditStep ==
    /\ EditNext
    /\ focus = "serial edits" => ~eoverlaps'
    /\ focus = "edits" => \A e \in Edits : epc'[e] # "dead"

MCInit ==
    /\ focus \in Focuses
    /\ Init /\ WithdrawInit /\ TopupInit /\ EditInit /\ CacheInit /\ BillingInit
    /\ focus \in {"edits", "serial edits"} \/ service = "topup"
    /\ focus = "billing" \/ billingDay = 1

MCNext ==
    /\ UNCHANGED focus
    /\ \/ /\ focus \in {"transaction retries", "transaction settlement"}
          /\ TransactionStep
          /\ UNCHANGED <<withdrawVars, topupVars, editVars, cacheVars, billingVars>>
       \/ /\ focus \in {"withdrawals", "serial withdrawals"}
          /\ WithdrawStep
          /\ UNCHANGED <<vars, topupVars, editVars, cacheVars, billingVars>>
       \/ /\ focus = "topups"
          /\ TopupNext
          /\ UNCHANGED <<vars, withdrawVars, editVars, cacheVars, billingVars>>
       \/ /\ focus \in {"edits", "serial edits"}
          /\ EditStep
          /\ UNCHANGED <<vars, withdrawVars, topupVars, cacheVars, billingVars>>
       \/ /\ focus = "cache"
          /\ CacheNext
          /\ UNCHANGED <<vars, withdrawVars, topupVars, editVars, billingVars>>
       \/ /\ focus = "billing"
          /\ BillingNext
          /\ UNCHANGED <<vars, withdrawVars, topupVars, editVars, cacheVars>>

MCSpec == MCInit /\ [][MCNext]_allVars

\* Without restores, which pass the limit by themselves.
WithdrawalsSpec == MCInit /\ focus = "withdrawals" /\ [][MCNext /\ ~WithdrawRestored]_allVars
=============================================================================
