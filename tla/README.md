# A verification of the payment gateway's money path

The repository is a payment gateway in Go: a dozen gRPC services behind a GraphQL
gateway, each with its own PostgreSQL database, a Redis cache, and Kafka between them.
This directory holds TLA+ modules for the part where a mistake loses or invents money and
for what carries its events and questions between services, TLC configurations that check
them on small instances, and proofs for every size. `PROJECT.json` maps every definition to
the lines it stands for and lists the hazards, the runs, the mutants and the theorems.

    tlc -workers 2 -config SaldoMutations.cfg MCSaldoLedger
    tlapm SaldoLedgerProofs.tla

## The system

| Component | State it keeps | Operations | Talks to | What is hard | What makes it correct |
|---|---|---|---|---|---|
| **saldo** (`service/saldo`, `shared/ledger`) | `saldos`, append-only `balance_ledger`, `reconciliation_queue`, cache, outbox | create (API, card-created event), debit, credit, adjust, absolute update, withdraw, soft deletion, reconcile, resolve | called by the four money services; publishes saldo.changed | retries under one operation id, updates in two statements, several saldo rows per card over time | a movement counts once; the ledger explains the balance; no overdraft; mismatches are found and kept |
| **transfer** (`service/transfer`) | `transfers` with a status, `idempotency_records`, outbox | create, update, soft deletion, recovery worker | saldo, card, AI security | a saga of remote calls whose answers may be lost, late or wrong; compensation; recovery racing the handler; client retries | no money invented; the status is true; a key pays once; nothing stays in flight |
| **transaction** (`service/transaction`) | the same for merchant payments | the same | saldo, card, merchant, AI security | as transfer, plus a lookup between the legs and a one-leg compensation | as transfer |
| **withdraw** (`service/withdraw`) | `withdraws`, keys, outbox | create, update, soft deletion | saldo, card, AI security | the debit comes before the row; operation id from client data; daily limit read before the debit | a recorded withdrawal was debited; the limit holds |
| **topup** (`service/topup`) | `topups`, keys, outbox | create, update, soft deletion | saldo, card | unguarded status, best-effort rollback | a successful topup was credited once |
| **operation state machine** (`shared/state`) | none; rows hold the status | transition table | transfer, transaction | several actors write one row | only legal transitions |
| **outbox** (`shared/outbox`) | `outbox_events` | insert, claim, publish, complete, fail | Kafka | two publishers, leases, crash at the last attempt | every event delivered at least once, or visibly failed |
| **consumers** (`shared/idempotent_consumer`, `pkg/kafka`, email, stats-writer, saldo) | seen ids, batches | consume, deduplicate, batch, flush | Kafka, ClickHouse, SMTP | marking before processing, dropped batches, a consumer that stops after five errors | an accepted event has its effect |
| **resilience** (`pkg/resilience`) | breaker, limiter counters | call, open, close | every adapter | three atomics that change one after the other | open after failures, closes again |
| **permission check** (`apigateway/internal/permission`, `role/kafka`, `merchant/kafka`) | map of response channels, cached roles | ask, answer, deliver, time out | Kafka, role, merchant | an answer racing the timeout of its caller | every call returns; a late answer does no harm |
| **saldo cache** (`service/saldo/redis`, `shared/cache`) | Redis entries | read, fill, delete | saldo | fill racing delete | a stale entry lives at most its TTL |
| **auth** (`service/auth`) | users, refresh tokens, lock counters in Redis | login, refresh, register, reset | user, role, email | delete-then-create, counter and lock in separate keys | one refresh token per user, lockout after five failures |
| **card** (`service/card`) | cards, billing cycles | CRUD, billing | Kafka | repeated scheduler deliveries, month ends | a statement runs from one billing date to the next, and is the only one |
| **merchant, user, role** | their tables | CRUD, soft deletion | each other, Kafka | none beyond single statements | - |
| **rest of apigateway, stats-reader, ai-security** | none of their own that matters here | translation, queries, scoring | all | - | - |

A transfer runs through all of it: the gateway forwards the client's idempotency key; the
transfer service claims the key, inserts a row, and calls the saldo service for the debit
and the credit with operation ids derived from the row (`transfer:7:sender-debit`); the
saldo service records each as one ledger entry; the transfer service settles the row,
enqueues events and stores the response under the key. Each arrow can fail on either side
of its effect, and a recovery worker and the Reconciler look for what is left over.

## Modules

| Module | Models |
|---|---|
| `SaldoBook` | what the saldo service promises: a balance per saldo and a set of movements, each posted at most once |
| `SaldoLedger` | the saldo service's tables, its commands and the Reconciler |
| `MCSaldoLedger` | instances of it for TLC |
| `OperationState` | the state machine of `shared/state/state.go` |
| `TransferSaga` | `CreateTransaction` of the transfer service, its recovery worker and soft deletion |
| `IdempotencyStore` | the table `idempotency_records`, as operators the next three modules instantiate |
| `TransactionSaga` | `Create` of the transaction service, its recovery worker and soft deletion |
| `WithdrawSaga` | `Create` of the withdraw service, the daily limit, `Update` as a writer of rows, soft deletion |
| `TopupSaga` | `CreateTopup`, the goroutine that marks a row failed, soft deletion |
| `AmountUpdate` | the amount change of an existing row, for all four services |
| `OutboxPublisher` | the outbox table and its publishers |
| `StatsWriter` | the statistics writer: consumer group, ClickHouse batch, flush loop |
| `DependencyGuard` | limiter, circuit breaker and `DependencyGuard.Call` |
| `PermissionCheck` | the gateway's permission checks over Kafka |
| `SaldoCache` | the gateway's two entries of a saldo in Redis and everything that deletes them |
| `CardBilling` | billing periods and the statements of cards |
| `MCTransferSaga`, `MCTransferHandlers`, `MCCommandServices`, `MCDelivery` | instances for TLC |
| `SumLemmas` | what sums over finite sets are, and how they grow |
| `SaldoLedgerProofs`, `TransferSagaProofs`, `TransactionSagaProofs`, `AmountUpdateProofs`, `CardBillingProofs` | theorems about the module of that name |
| `PaymentSagaProofs` | theorems about `TopupSaga` and `WithdrawSaga` |
| `DeliveryProofs` | theorems about `OutboxPublisher`, `StatsWriter`, `DependencyGuard` and `SaldoCache` |

The command services share nothing but the saldo service, which each of their modules sees
as a set of calls executed late, once or never; so they are composed as alternatives:
in `MCCommandServices`, `MCDelivery` and `MCTransferHandlers` the initial state chooses what
a behaviour is about (`focus`, `topic`), and the state spaces add up.

### SaldoLedger

One SQL statement is one step: it runs in its own transaction and locks the row it moves.
`card`, `balance`, `state`, `lastWithdraw` are the columns of `saldos`, indexed by
`saldo_id`, so one card can own several rows over time (trash, create, restore).
`ledger[s]` is the part of `balance_ledger` written against row `s`; the table stores the
card number only, and every SQL read goes through `CardEntries`, the union over the
card's rows. `queue` is the newest reconciliation row of a saldo, `scan` what the
Reconciler has listed and not yet enqueued. `updating` and `withdrawing` are requests
between their two statements: `UpdateSaldo` reads, computes a delta and adjusts;
`UpdateSaldoWithdraw` debits and then writes metadata. `unledgered` and `acked` are
history: money that a repeated create put into an empty saldo, and the movements a caller
was told had succeeded.

Every ledger-backed mutation is `Mutate`: write the entry and move the balance
(`Append1`), or find the same entry and do nothing (`Replay`). Anything else fails and
writes nothing, and is a stuttering step.

`SaldoBook` says the same without tables. The refinement maps a ledger entry to a posted
movement; an entry with a key already posted would have no step to map to.

### TransferSaga

`pc[a]` is the statement attempt `a` runs next; the attempt and the transfer row it may
create share a name, since operation ids are derived from the row. `call[a][leg]` is the
fate of a call in the saldo service: `sent` calls are `Execute`d, or refused, at any time,
also after the caller gave up or died. `Confirmed` needs an executed call, `Errored`
needs nothing: that is a deadline (3 s, `dependency_guard.go`). That a repeated call
would move nothing is what `SaldoLedger` shows (`AckedExactlyOnce`, `SaldoBook`). A
statement on the service's own database can also fail before or after its effect; where
the handler discards the result (`_, _ = GuardStatus`), `Attempted` leaves both open.

`idem[k]` is the idempotency record, `older[a]` the rows whose `updated_at` is before that of
row `a`, `stale` the rows older than two minutes, `listed` the recovery pass in progress with the status each row had when
it was listed.

### TransactionSaga, WithdrawSaga, TopupSaga

The same conventions: `pc`, `wpc`, `tpc` is the statement a handler runs next, calls are
executed at any time, an error may hide an effect. What differs is in the code:

- A transaction looks up the merchant's card between its legs and compensates the user
  alone if that fails. Its full compensation refunds the user before it charges the
  merchant, so for a while both have the money; `StatusMatchesMoney` says the row then
  never claims a result. A failed success marker keeps the key, so the retry that would
  pay again is refused (`OneSuccessRowPerKey`), which the transfer service does not do.
- A withdrawal debits before it inserts its row. The operation id is built from card, client
  time and amount, so `Operation(w, leg)` is a record of those: two requests that agree in
  them share debit and rollbacks, and `wledger` is a set of operations, not of calls.
  `Update` writes amount, card, time and status of rows that the day's sum adds up, so it is
  here as far as that sum goes: `upc[u]` is its statement, `uask[u]` what it read and asks for,
  `wtoday[w]` whether the row is one of this card and this day, `wmarking` the goroutines that
  will mark a row failed. The money it moves has operation ids of its own and is
  `AmountUpdate`'s subject; here its answer is an outcome of `CheckUpdate`.
  `wdisturbed` is history: two handlers ran at a time, a row was restored, or an update passed
  its checks for a row that the sum did not contain.
- A topup's `failed` is written by a goroutine (`tmarking`) without a guard. `tlost` is history:
  the topups whose credit was answered with an error, executed or not. No rollback is asked for
  then, so a failed topup may keep its credit; `FailedTopupSettled` says that this is the only way.

### AmountUpdate

The four handlers have one shape. `Forward` is the list of movements an edit makes in each
service and `Backward` the reversal of one; `elegs[e]` is how many of them stand as the
handler sees it, so a rollback walks down from there. Movements carry the operation id
the code gives them, and the saldo service executes one movement per id. Whatever fails
before the first movement, reads and limits included, leads to the same mark, but for an amount
that the withdraw service refuses before it reads anything. `eoverlaps` is
history: two edits ran at a time.

`Owed` is what an edit of the row makes of its two parties, the merchant of a transaction
included. The transaction service moves the payer's balance only, so `Followers` leaves the
merchant out and `MoneyFollowsRow` states the fact itself: a merchant's balance never moves,
whatever the row says afterwards. The premise of `SerialMoneyFollowsRow` (all edits answered ok,
no operation id met twice, no overlap) excludes failed edits; what they leave in the ledger is
`RollbackOfExecuted`'s, and what they leave in the row (a new amount with the money taken back)
is claimed by nothing.

### OutboxPublisher, StatsWriter

A row is `odue` when `available_at` (and for a processing row the ten minutes the claim
adds) has passed. A publisher's death, a send whose error hides a stored message, and an
outcome that cannot be recorded are actions. `StatsWriter` is one partition: the offset
delivered, the session's mark, the committed offset, the batch in memory and what
ClickHouse has. `lost` records the three ways in which a row is given up in the open:
passed over, sent and refused, in memory when the process ends.

### DependencyGuard, PermissionCheck

Every atomic load, add and store of breaker and limiter is a step. Counters are only
compared with a limit and are kept up to it. `quiet` and `late` are history: opened and
neither closed nor cooled since, and the callers that arrived after that.
In `PermissionCheck` the response handler holds a channel between its lookup and its send
(`Found`), and the caller may close it in between.

### SaldoCache, CardBilling

A balance is known by the number of changes committed when it was read, so `entry[k].seen`
says how old an entry is. `handler[c]` is what the handler of change `c` does next (delete by
id, delete by card number, insert the event, or leave it to the gateway's resolver),
`event[c]` how far its event has come. `entry[k].spared` is history: the deletes for newer
changes that came before the entry was stored or that Redis refused. Both services are taken
to use one Redis database, as the deployments under `deployments/local` and
`deployments/kubernetes/configmaps.yaml` have it.

`CardBilling` counts days. A call computes its period when it starts and inserts later, in one
statement for all active cards that have none with the same start; a card's statements are a
sequence in order of insertion, so that a repeated one shows. `calendar` is a sequence of
month lengths.

## Runs

Passing:

| Run | Bounds | Shows |
|---|---|---|
| `SaldoMutations` | 1 card, 2 saldo rows, 1 operation id, amount 1, 3 entries beside the openings, 1 two-statement request in flight | `BalanceAccounted`, `ChainLinked`, `AckedExactlyOnce`, `OneActivePerCard`, `WithdrawMetadataBacked`, `TypeOK` (no overdraft), `ImplementsBook` |
| `SaldoReconciliation` | 2 cards, 2 rows, 2 entries, batch 2, no two-statement requests | `ReconcilesUnlessReopened`, `MismatchRetained`, and under fairness `MismatchReported` |
| `TransferHandlers` | settlement: 1 attempt, all faults, recovery, soft deletion; retries: 2 attempts, 1 key, 2 payloads, 1 expiry, no recovery or soft deletion (they touch no key) | `NoMoneyCreated`, `StatusMatchesLegs`, `FollowsOperationState`, `OneHolderPerKey`, `AnnouncedTruthfully`, `OneSuccessPerKey` |
| `TransferRecovery` | 2 attempts without a key, batch 2 | `NoStuckOperation` |
| `CommandServices` | transactions: as transfers; 2 withdrawals, 1 key, limit 4, amounts 2 and 3, 1 update where handlers take turns (there without keys, events, late answers of a call whose handler has gone on, rollbacks and purges, which no sum depends on); 2 topups, 1 key; 2 edits from amount 2 to 1 or 3, each service; cache: 2 changes of any kind, 1 query in flight, all faults; billing: 2 cards, 2 calls in flight, on the first, next to last or last day of the longest month, 4 months of 5, 5, 2 and 5 days | transactions: `LegsBacked`, `StatusMatchesMoney`, `OneSuccessRowPerKey`, `AnnouncedTruthfully`; withdrawals: `WithdrawRollbackBacked`, `UnrepeatedWithdrawalPaid`, `SerialLimitKept`; topups: `AnnouncedTopupStands`, `FailedTopupSettled`; edits: `RollbackOfExecuted`, `SerialMoneyFollowsRow`; cache: `DeletedUnlessSpared`; billing: `StatementsTile` |
| `Delivery` | 2 events (one without a topic), 2 publishers, batch 2, 3 attempts; 4 messages, 2 rows a batch, consumer stops at 2 errors, 2 sessions or processes after the first; 2 callers, threshold 2, 2 successes to close, bulkhead 1 or 2; 2 permission calls, 1 answer each; cache: 1 change, 1 query, all faults | `PublishedWasSent`, `EventSettles`; `AckedMeansKept`, `BatchLeaves`; `PermitsReturned`, `RefusedWhileOpen`, `BreakerCloses`; `CallersReturn`; `CacheConverges` |

Runs in which TLC finds what a comment denies (`findings` quotes the lines):

| Run | What happens |
|---|---|
| `SaldoCreateTwice` | the card-created event inserts a saldo of 0, the API create then upserts the real balance, and no entry is written: the ledger does not explain the balance "from the first write" |
| `TransferPaidTwice` | the credit is executed but its answer is lost; the row is quarantined, the key released, and the client's retry pays again |
| `TransferRecoveryFull` | an unknown row stays first in the listing for ever; with a batch of one, a processing row behind it is never moved |
| `WithdrawLimitRace` | two withdrawals are checked against the day's sum before either row is successful, and together pass the limit |
| `WithdrawRepeated` | the status update fails, the debit is credited back, the client retries with the same time and amount: the debit is a replay, the row is successful, the balance untouched |
| `PermissionLateAnswer` | the handler looks a channel up, the caller times out and closes it, the handler sends: a panic that ends the gateway |

Why the bounds are enough. In `SaldoLedger` rows interact only through their card: one
card with two rows has every interaction of re-creation, restore and reuse of an operation
id, three entries suffice for opening, movement, stale adjustment and replay, and a second
in-flight request adds nothing because each is applied to the row as it then is. The
reconciliation run has two cards so that the batch has an order. What is proved below does
not depend on the bounds. In `TransferSaga` rows are independent but for the key and the
recovery batch: one attempt shows settlement, two show keys and batches. Attempts are
symmetric; `TransferHandlers`, which checks safety, says so. The same holds of the other sagas: two
attempts meet in a key, in an operation id or in the day's sum, and a third meets them in
the same way; amounts are such that two withdrawals of 2 reach the limit of 4 and an increase
of either, or one withdrawal of 3 beside one of 2, exceeds it. The two runs that find a
violation of withdrawals have the limit 3 and no update. Two edits suffice for overlap and for the reuse of an operation id. Two publishers are
one that is slow and one that reclaims; three attempts leave room for a death, a failure
and a success. Four messages are two full batches, or one and a remainder. Two callers of
the guard interleave at every atomic access; a third would only repeat one of them. A query
that stores late and two changes are enough for an entry to be late for one delete and in
time for the next; that it leaves the cache in the end is checked with one change, since an
entry that outlives its TTL is stale after the first. The calendar's lengths matter only by their order: the run has a
month that is shorter than the billing day between two that are not, and days that exist in
some of the months and in all of them.

Mutants named `Mut...` sit next to the definitions they spoil; `PROJECT.json` pairs each
property with one that breaks it.

## Fairness

`MismatchReported`: the Reconciler's ticker runs for the life of the process, so a pass
starts again and again and handles each row it listed (weak fairness); a row whose
enqueue is attempted in pass after pass is not refused by the database every time (strong
fairness). A crash empties `scan` and may happen at any time, even for ever, which strong
fairness of the enqueue has to survive.

`NoStuckOperation`: time passes, the recovery worker's ticker runs, and an UPDATE that is
tried in pass after pass does not fail in all of them. Handlers get no fairness: each may
stop at any statement for ever, which is also how that run represents their crash. It
leaves out the crash of the worker itself, soft deletion (a trashed row is exempt anyway) and
refusals, which a handler cannot tell from a call never executed.

`EventSettles`: the publisher's ticker polls for ever and time passes (leases end, failed
rows come due). Nothing is assumed about how often sends, updates or publishers fail:
attempts are counted, so failing for ever ends too. `BatchLeaves`: the flush loop's ticker.
`BreakerCloses`: requests keep coming, goroutines are scheduled, time passes.
`CallersReturn`: the callers are scheduled and their timers fire; nothing is assumed of
Kafka, of the services or of the response handler. `CacheConverges`: Redis expires an entry
that has a TTL, and a query of the gateway ends. Handlers, publisher and consumer get no fairness and changes are finitely many, so it says
what the comment at `enqueueSaldoChanged` says of the TTL: it is the safety net when all else
fails. In `MCDelivery` the fairness of guard and
callers applies in behaviours that are about them.

## Proofs

Every safety property that the runs check of a single component is proved for every value of
the constants, and so are the types and the refinements of `SaldoBook` and `OperationState`
(of the permission checks the runs check no safety property but the one they violate). Each proof has the same frame: an inductive invariant
that says what a handler may still rely on at each of its statements, one step per action, and
a last step that puts them together.

Assumptions on the constants, all of them in the modules that declare the constants: amounts,
the daily limit, batch sizes, attempts, thresholds and permits are positive integers; saldo ids
are a finite set of them; the events of an outbox are finitely many; bounds on history are
naturals; a calendar has at least three months of 1 to 31 days; the services of an amount change
are among the four. Attempts, requests, keys, cards,
operation ids, publishers and callers are any sets, finite or not.

**Saldo** (`SaldoLedgerProofs`). Type correctness, hence no negative balance, needs the card of
every row that exists to be a real card (`CardKnown`). The dozen actions are then reduced, once,
to what they do to the tables (`StepKinds`): a row is opened, an empty row refilled, an entry
posted, a row switched between active, trashed and purged, or nothing happens. Each invariant is
proved over these kinds. `OneActive` follows from the guards of insert and restore. `Linked` is
`ChainLinked` for the newest entry of each row. Uniqueness (`UniqueKeys`: an operation, card and
direction occur in one entry of one row) needs to know that an opening's id names its own row
(`OpeningsOwn`) and that rows without an insert have no entries (`Fresh`). With it, and because
ledgers only grow (`Extends`), an acknowledged movement keeps its one entry (`AckedRecorded`),
metadata keeps its debit (`BackedInv`), and every new entry is a new movement of the book
(`ImplementsBookHolds`). `BalanceAccounted` speaks of a sum over a ledger; it is preserved
because a posted entry adds its delta to both sides (`SumAppend`). `ReconcilesUnlessReopened`
is a consequence: the entries of a card that only ever had one row are that row's.

**Sums** (`SumLemmas`). The prover has no induction over operators, but the library's fact that
a set of naturals that is not empty has a least member (`LeastSize`) needs none: a set of
sums that is wrong would have a smallest set for which it is wrong, and that one is shown to be
right. In this way a sum exists, is a number, depends on its summands only (`SumCongruence`) and
grows by the summand of a new element whichever element the fold takes first (`SumInsert`), and
follows a change of one summand (`SumChange`).

**Transfers** (`TransferSagaProofs`). `NoMoneyCreated` and `StatusMatchesLegs` speak of rows and
calls and are not inductive: the handler acts on what it saw some statements ago, and recovery
may have moved the row meanwhile. `RowAtPc` and `LegsAtPc` say which statuses and which calls
are possible at each statement; with them, `MoneyInv` is inductive. `FollowsOperationStateHolds`
shows that every write to a row, by handler, compensation or recovery, is a transition of the
state machine. That success is terminal follows, and with it that what was announced stays true
(`AnswerInv`: an answer is given at the end, and a stored response is that of a settled transfer
of the stored request). For keys, `KeySteps` reduces the actions to the four that touch a
record. `CountInv` strengthens `OneSuccessPerKey` by the slack that the induction needs: while
the record is absent or its handler has not returned, one success fewer has been told.

**Transactions** (`TransactionSagaProofs`). The same shape. `LegsAtRow` is needed beside
`LegsAtPc` because a compensated row is judged after its handler is gone. `CountInv` counts
successful rows, not answers, since here a lost answer to the success marker keeps the key.

**Topups and withdrawals** (`PaymentSagaProofs`). `TopupInv` says that a topup is announced past
every failure path, so no rollback and no goroutine that would write `failed` can follow. For
withdrawals, operations are shared by requests that agree in time and amount. `OperationsOwned`
gives every operation an attempt that sent it, so an unrepeated request owns its operations and
`UnrepeatedAtPc` can say which rollback it has asked for. An update disturbs only the row of an
announced withdrawal, which is why the property speaks of `Updated` rows.

`SerialLimitKept` is about the behaviours in which creations and updates have so far followed
one another, nothing was restored, and no update passed its checks for a row that the sum did
not contain. Each of the three breaks the limit: overlap as `WithdrawLimitRace` shows, a restored
row because it counts again unchecked, and an update of a pending or failed row because it makes
the row successful after checking its difference, or nothing if it does not increase. The theorem
says that nothing else does. Its invariant, `LimitInv`, says that a handler past its check has
room for its row beside the others (`RoomFor`): a creation for the amount of its request, an
update for the new amount, if the row stays one of this card and day. `RowFits` and
`NothingAdded` say once what a step does to the sum that changes one row or takes one away, and
the actions are instances of them (`RowsFade`, `CreateFits`, `StatusFits`, `CheckUpdateFits`,
`UpdateWithdrawFits`, `SettleFits`). An update that lowers an amount is not checked by the code;
its room follows from the limit so far, and that is where the row has to be counted.

**Amount changes** (`AmountUpdateProofs`). The movement that a handler is about to take back was
executed because the handler counts only movements that stand (`LegsStand`), and the reversal of
a movement is no other edit's movement because operation ids name what they are for.
`SerialMoneyFollowsRow` relates the whole history of movements to the row. Its premise, that no
edit met an operation id used before, is a count (as many movements executed as the edits asked
for), and the invariant has to say what the count means half-way: each confirmed movement is an
executed one, so at most as many are executed as confirmed, and while the two numbers agree the
executed movements explain the row and the confirmed part of a running edit (`Balanced`), for
the parties whose balance edits move, while a transaction's merchant has moved by nothing; once
they differ they differ for ever (`Explained`). A confirmation therefore adds its amount to both
sides or leaves the count behind (`ConfirmedOnce`), a finished edit has taken the balances from
the amount it read to the amount it writes (`Telescopes`), and an edit that failed never becomes
clean again (`FailedStays`).

**Between the services** (`DeliveryProofs`). Outbox: a completion names the event and not the
claim, so the invariant is about every publisher at once: whoever is about to complete an event
has sent it, or it has no topic (`Completing`). Writer: `committed <= marked <= next`, and every
offset delivered is stored, in the batch or lost. Guard: permits and counter are the sizes of
two sets of callers (`Holding`, `Counted`), one set for each pair of accesses; a late caller is
only ever at the two statements before its refusal (`RefusalInv`). Cache: each delete
that has been made for a change found nothing older or left it spared (`SparedInv`).

**Billing** (`CardBillingProofs`). `BillingInv`: a pending period and every statement lie between
two neighbouring billing dates that have both come, for any month lengths; two statements of a card
have different starts because the insert asks for that in one statement.

Only model-checked: the liveness properties (`MismatchReported`, `NoStuckOperation`,
`EventSettles`, `BatchLeaves`, `BreakerCloses`, `CallersReturn`, `CacheConverges`), since
liveness under fairness is out of the prover's reach; and the runs that find a violation, which
a proof has nothing to add to.

## What the models show beside the properties

True of the code and of the models, and not what anybody says of it, so no property:

- An outbox row whose publisher dies during the last allowed attempt stays `processing` and is
  never claimed again. `EventSettles` counts it as settled: its attempts are used up.
- A slow publisher whose row was reclaimed can write `failed` over `published`; the event is
  sent again. Kafka's consumers must bear duplicates.
- The statistics writer's deduplication looks for an envelope that the publisher does not write,
  so it never applies; a redelivered event is a second row.
- A message that is passed over without a mark is acknowledged by the mark of a later one.
- `Cleanup` at the first rebalance closes the repository: the flush loop stops for ever,
  and from then on only full batches, rebalances and shutdown send rows. `BatchLeaves`
  therefore ends there.
- `StartConsumers` gives up after five consecutive errors and nothing starts it again.
- A half-open breaker lets any number of calls through and a failure does not open it anew.
- A second edit to the same amount, or a second topup edit in the same direction, finds its
  operation id used: the row changes and the balance does not. The premise of `MoneyFollowsRow`
  excludes it.
- A query that read before a commit and stores after its deletes brings the old balance back for
  the rest of a TTL, which starts at the store. The event's deletes come later and often
  catch it; `DeletedUnlessSpared` says which deletes an entry can survive and why.
- `enqueueSaldoChanged` deletes both entries and inserts the event last, so a crash between the
  commit and the deletes loses the event as well: the consumer that `cache_invalidator.go:19`
  calls the path that survives such a crash has nothing to consume. Only the TTL is left.
- `CreateSaldo` on an empty row deletes no entry, and soft deletion only the one by id
  (`redis/interfaces.go:30` asks for both); the other lives its TTL.
- A billing call that dies after its insert is never announced: the next call creates nothing
  and announces nothing. The announcement has no consumer and is not modelled.
- A reconciliation pass lists the 100 largest differences; smaller ones wait until those are
  resolved.
- A pending transfer, left by a crash between the insert and the guard, has moved no money and
  stays pending: recovery lists other statuses. An event whose insert fails is lost.
- Restoring a trashed withdrawal can take the day's sum over the limit;
  `SerialLimitKept` leaves restores out.
- So can an update, with no other handler running. It makes a pending or failed row successful
  and compares the day's sum, which is without that row, with its difference only, or with
  nothing if the amount does not increase: with a limit of 4 and a successful withdrawal of 2, an
  update of a pending one from 2 to 3 passes its check (2 + 1) and the sum becomes 5. The comment
  at `withdrawCommandService.go:312-313` says an increase "must not push today's total past
  WITHDRAW_DAILY_LIMIT".
- A topup whose credit timed out is marked failed and never taken back, while the credit may
  still be executed: the failed topup then keeps the money (`topupCommandService.go:162-166`).
- An edited transaction charges or refunds the payer's card; its merchant keeps the amount it was
  credited with (`transactionCommandService.go:296-326`).
- Setting a saldo back to an earlier target with the same delta is a replay: it is reported as
  done and moves nothing. `AckedExactlyOnce` asks for one entry of the movement, and has it.
- Both rollbacks of a withdrawal may be credited for one debit when two requests share time and
  amount; `WithdrawRollbackBacked` asks that the debit was executed, not for one rollback of it.
- Between the breaker's `Store(true)` and its time stamp a call may still pass, on an old failure
  time; `RefusedWhileOpen` begins at the stamp.

## What is not modelled, and the plan

In the modelled components:

- saldo: `UpdateSaldoBalance` (no handler reaches it) and the one-time backfill of the
  migrations;
- wording and payload of events; the amount change of a transfer, a transaction or a topup does
  not interleave with the creation or the soft deletion of its row (`AmountUpdate` starts from a
  settled row). That of a withdrawal does in `WithdrawSaga`, as far as its row goes;
- `StatsWriter`: where a group without committed offset starts (`OffsetNewest`), and more than
  one batch key;
- consumers: email (one call per message), the card-created consumer
  (its one write is `SaldoLedger!CreateSaldoIfNotExists`);
- `load_monitor.go` and the server interceptor (nothing records outcomes in its breaker, so it
  never opens);
- merchant, user, role and the gateway outside the permission check: single statements,
  stateless translation, generated code.

- saldo cache: the paginated lists, which nothing deletes; they live their five minutes;
- card: create, update, status, credit limit and points (single statements); amounts due, since
  nothing writes `outstanding_balance`; a billing day that changes between deployments. The
  tables of authorisations, payments and rewards have queries but no service uses them.

Left out as components: auth (apart from the money path), the statistics reader and the AI
service (read-only queries, a verdict).

Next, proofs:

1. `WithdrawSaga`, `TopupSaga`: one holder per key, as for transfers, as runs' property and theorem.
2. `StatsWriter`, `OutboxPublisher`: the two composed, from an inserted event to a stored row.
3. `PermissionCheck`: which caller may still close the channel that the handler has found.
