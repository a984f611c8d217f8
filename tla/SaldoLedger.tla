---------------------------- MODULE SaldoLedger ----------------------------
(***************************************************************************)
(* The saldo service's command side: the saldos table, the append-only     *)
(* balance_ledger and the reconciliation queue                             *)
(* (service/saldo/database/schema/ledger.go, saldo.sql.go, the migrations, *)
(* service/saldo/repository/saldoCommandRepository.go) and the background  *)
(* Reconciler (shared/ledger/reconciliation.go).                           *)
(*                                                                         *)
(* One SQL statement is one atomic step (each runs in its own implicit     *)
(* transaction and locks the saldo row it touches); a repository method    *)
(* that issues two statements is two steps, with the values it carries     *)
(* between them kept in "updating" and "withdrawing".                      *)
(*                                                                         *)
(* Abstractions.  An amount stands for (amount, source_type, source_id,    *)
(* note): what a reused operation id is compared on.  The ledger table is  *)
(* partitioned by the saldo row each entry was written against, which the  *)
(* table does not store; SQL only ever reads it per card (CardEntries).    *)
(* Requests that end in an error without writing are stuttering steps.     *)
(*                                                                         *)
(* A definition whose name starts with Mut is a deliberately wrong variant *)
(* of the definition that follows it; no specification uses it.            *)
(***************************************************************************)
EXTENDS Integers, Sequences, FiniteSets, Functions

CONSTANTS
    Cards,          \* card numbers
    Saldos,         \* saldo_id values, 1..n in the order SERIAL hands them out
    Ops,            \* operation ids chosen by callers (transfer:7:sender-debit, ...)
    Amounts,        \* amounts callers use, all positive
    Times,          \* withdraw_time values
    BatchSize,      \* ListReconciliationMismatches limit (100 in apps/server.go)
    MaxMutations,   \* bound on the ledger's entries other than openings
    MaxInFlight     \* bound on two-statement requests in flight

ASSUME SaldosAssumption == Saldos \subseteq Nat \ {0} /\ IsFiniteSet(Saldos)
ASSUME AmountsAssumption == Amounts \subseteq Nat \ {0}
ASSUME BoundsAssumption ==
    /\ BatchSize \in Nat \ {0}
    /\ MaxMutations \in Nat
    /\ MaxInFlight \in Nat

VARIABLES
    card,        \* card[s]: saldos.card_number, NoCard before the insert
    balance,     \* balance[s]: saldos.total_balance (kept, as history, once purged)
    state,       \* state[s]: no row yet, active, trashed (deleted_at set), purged
    lastWithdraw,\* lastWithdraw[s]: withdraw_time/withdraw_amount metadata, {} or one
    ledger,      \* ledger[s]: balance_ledger entries written against saldo s
    queue,       \* queue[s]: status of the latest reconciliation_queue row of s
    updating,    \* UpdateSaldo calls between their read and their adjustment
    withdrawing, \* UpdateSaldoWithdraw calls between debit and metadata
    scan,        \* saldos the Reconciler listed and has still to enqueue
    unledgered,  \* history: money a repeated create put into s outside the ledger
    acked        \* history: mutations some caller was told had succeeded

rows == <<card, balance, state, lastWithdraw>>
vars == <<card, balance, state, lastWithdraw, ledger, queue, updating,
          withdrawing, scan, unledgered, acked>>

NoCard == "no card"
States == {"none", "active", "trashed", "purged"}
Dirs == {"opening", "debit", "credit", "reversal"}

\* Operation ids the service builds itself.
OpeningOp(s) == [kind |-> "saldo-opening", saldo |-> s]
UpdateOp(s, target) == [kind |-> "saldo-update", saldo |-> s, target |-> target]
WithdrawOp(c, t, amt) == [kind |-> "withdraw", card |-> c, time |-> t, amount |-> amt]

-----------------------------------------------------------------------------
(* Reading the tables *)

Active(c) == {s \in Saldos : card[s] = c /\ state[s] = "active"}

SaldosOf(c) == {s \in Saldos : card[s] = c}

\* balance_ledger rows of a card, as SELECT ... WHERE card_number = c sees them.
CardEntries(c) == UNION {Range(ledger[s]) : s \in SaldosOf(c)}

\* Wrong: uniqueness kept per saldo row instead of per card number.
MutRecorded(c, op, dir) ==
    {e \in UNION {Range(ledger[s]) : s \in Active(c)} : e.op = op /\ e.dir = dir}

\* Rows that collide with (operation_id, card_number, direction).
Recorded(c, op, dir) == {e \in CardEntries(c) : e.op = op /\ e.dir = dir}

DeltaSum(s) == SumFunction([i \in DOMAIN ledger[s] |-> ledger[s][i].delta])

\* COALESCE(SUM(delta), 0) ... GROUP BY card_number.
LedgerBalance(c) == SumFunctionOnSet([s \in Saldos |-> DeltaSum(s)], SaldosOf(c))

Mutations == SumFunction([s \in Saldos |->
                Cardinality({i \in DOMAIN ledger[s] : ledger[s][i].dir # "opening"})])

Mismatched(s) == state[s] = "active" /\ balance[s] # LedgerBalance(card[s])

-----------------------------------------------------------------------------
Init ==
    /\ card = [s \in Saldos |-> NoCard]
    /\ balance = [s \in Saldos |-> 0]
    /\ state = [s \in Saldos |-> "none"]
    /\ lastWithdraw = [s \in Saldos |-> {}]
    /\ ledger = [s \in Saldos |-> <<>>]
    /\ queue = [s \in Saldos |-> "absent"]
    /\ updating = {}
    /\ withdrawing = {}
    /\ scan = {}
    /\ unledgered = [s \in Saldos |-> 0]
    /\ acked = {}

\* Wrong: the opening-ledger trigger is missing.
MutInsertSaldo(c, amt) ==
    \E s \in Saldos :
        /\ state[s] = "none"
        /\ \A r \in Saldos : r < s => state[r] # "none"
        /\ card' = [card EXCEPT ![s] = c]
        /\ balance' = [balance EXCEPT ![s] = amt]
        /\ state' = [state EXCEPT ![s] = "active"]
        /\ UNCHANGED <<lastWithdraw, ledger, queue, updating, withdrawing, scan,
                       unledgered, acked>>

\* INSERT INTO saldos: the next id, plus the opening entry the AFTER INSERT
\* trigger writes in the same transaction.
InsertSaldo(c, amt) ==
    \E s \in Saldos :
        /\ state[s] = "none"
        /\ \A r \in Saldos : r < s => state[r] # "none"
        /\ card' = [card EXCEPT ![s] = c]
        /\ balance' = [balance EXCEPT ![s] = amt]
        /\ state' = [state EXCEPT ![s] = "active"]
        /\ ledger' = [ledger EXCEPT ![s] = Append(@,
                        [op |-> OpeningOp(s), dir |-> "opening", amount |-> amt,
                         delta |-> amt, before |-> 0, after |-> amt])]
        /\ UNCHANGED <<lastWithdraw, queue, updating, withdrawing, scan,
                       unledgered, acked>>

\* Wrong: the upsert has lost its WHERE saldos.total_balance = 0.
MutCreateSaldo(c, amt) ==
    \/ Active(c) = {} /\ InsertSaldo(c, amt)
    \/ \E s \in Active(c) :
        /\ balance' = [balance EXCEPT ![s] = amt]
        /\ unledgered' = [unledgered EXCEPT ![s] = @ + amt - balance[s]]
        /\ UNCHANGED <<card, state, lastWithdraw, ledger, queue, updating,
                       withdrawing, scan, acked>>

\* CreateSaldo on a card with no active saldo inserts one; on an active saldo
\* that holds nothing, ON CONFLICT DO UPDATE replaces the balance, and no
\* trigger fires on UPDATE.  Any other call returns the existing row.
CreateSaldo(c, amt) ==
    \/ Active(c) = {} /\ InsertSaldo(c, amt)
    \/ \E s \in Active(c) :
        /\ balance[s] = 0
        /\ balance' = [balance EXCEPT ![s] = amt]
        /\ unledgered' = [unledgered EXCEPT ![s] = @ + amt]
        /\ UNCHANGED <<card, state, lastWithdraw, ledger, queue, updating,
                       withdrawing, scan, acked>>

\* The card-created Kafka event, which always carries total_balance = 0.
CreateSaldoIfNotExists(c) == Active(c) = {} /\ InsertSaldo(c, 0)

-----------------------------------------------------------------------------
(* Ledger-backed mutations.  The three statements of ledger.go share this   *)
(* shape: lock the active row, insert the entry ON CONFLICT DO NOTHING, and *)
(* update the balance only if the entry went in.                            *)

\* Wrong: the balance predicate is missing.
MutAllowed(s, delta) == TRUE

\* The guard the INSERT ... SELECT puts on the locked row.
Allowed(s, delta) == balance[s] + delta >= 0

\* The entry is new: write it and move the balance.
Append1(s, op, dir, amt, delta) ==
    /\ Mutations < MaxMutations
    /\ Recorded(card[s], op, dir) = {}
    /\ Allowed(s, delta)
    /\ ledger' = [ledger EXCEPT ![s] = Append(@,
                    [op |-> op, dir |-> dir, amount |-> amt, delta |-> delta,
                     before |-> balance[s], after |-> balance[s] + delta])]
    /\ balance' = [balance EXCEPT ![s] = @ + delta]

\* Wrong: the balance UPDATE is not tied to the row the INSERT returned.
MutReplay(s, op, dir, delta) ==
    /\ \E e \in Recorded(card[s], op, dir) : e.delta = delta
    /\ Allowed(s, delta)
    /\ balance' = [balance EXCEPT ![s] = @ + delta]
    /\ UNCHANGED ledger

\* The entry is already there with the same details: report success, write
\* nothing.  (With other details the call fails: ErrLedgerOperationConflict.)
Replay(s, op, dir, delta) ==
    /\ \E e \in Recorded(card[s], op, dir) : e.delta = delta
    /\ UNCHANGED <<balance, ledger>>

Mutate(s, op, dir, amt, delta) ==
    /\ Append1(s, op, dir, amt, delta) \/ Replay(s, op, dir, delta)
    /\ acked' = acked \union
         {[card |-> card[s], op |-> op, dir |-> dir, delta |-> delta]}

DebitSaldo(c, op, amt) ==
    \E s \in Active(c) :
        /\ Mutate(s, op, "debit", amt, -amt)
        /\ UNCHANGED <<card, state, lastWithdraw, queue, updating, withdrawing,
                       scan, unledgered>>

CreditSaldo(c, op, amt) ==
    \E s \in Active(c) :
        /\ Mutate(s, op, "credit", amt, amt)
        /\ UNCHANGED <<card, state, lastWithdraw, queue, updating, withdrawing,
                       scan, unledgered>>

ApplySaldoAdjustment(c, op, amt) ==
    \E s \in Active(c), delta \in {amt, -amt} :
        /\ Mutate(s, op, "reversal", amt, delta)
        /\ UNCHANGED <<card, state, lastWithdraw, queue, updating, withdrawing,
                       scan, unledgered>>

\* UpdateSaldo(s, target), first statement: read the row, compute the delta.
\* A delta of zero returns at once.
UpdateSaldoRead(s, target) ==
    /\ Cardinality(updating \union withdrawing) < MaxInFlight
    /\ state[s] = "active"
    /\ target # balance[s]
    /\ updating' = updating \union
         {[saldo |-> s, card |-> card[s], target |-> target,
           delta |-> target - balance[s]]}
    /\ UNCHANGED <<rows, ledger, queue, withdrawing, scan, unledgered, acked>>

\* Wrong: the row is set to the target computed from the earlier read.
MutUpdateSaldoAdjust(u) ==
    \E s \in Active(u.card) :
        /\ Mutations < MaxMutations
        /\ Recorded(u.card, UpdateOp(u.saldo, u.target), "reversal") = {}
        /\ ledger' = [ledger EXCEPT ![s] = Append(@,
                [op |-> UpdateOp(u.saldo, u.target), dir |-> "reversal",
                 amount |-> IF u.delta < 0 THEN -u.delta ELSE u.delta,
                 delta |-> u.delta, before |-> balance[s], after |-> u.target])]
        /\ balance' = [balance EXCEPT ![s] = u.target]
        /\ updating' = updating \ {u}
        /\ UNCHANGED <<card, state, lastWithdraw, queue, withdrawing, scan,
                       unledgered, acked>>

\* Second statement: the adjustment, applied to whatever row is active for the
\* card by now.
UpdateSaldoAdjust(u) ==
    \E s \in Active(u.card) :
        /\ Mutate(s, UpdateOp(u.saldo, u.target), "reversal",
                  IF u.delta < 0 THEN -u.delta ELSE u.delta, u.delta)
        /\ updating' = updating \ {u}
        /\ UNCHANGED <<card, state, lastWithdraw, queue, withdrawing, scan, unledgered>>

\* Wrong: the debit's error is ignored.
MutUpdateSaldoWithdrawDebit(c, t, amt) ==
    /\ Cardinality(updating \union withdrawing) < MaxInFlight
    /\ Active(c) # {}
    /\ withdrawing' = withdrawing \union {[card |-> c, time |-> t, amount |-> amt]}
    /\ UNCHANGED <<rows, ledger, queue, updating, scan, unledgered, acked>>

\* UpdateSaldoWithdraw, first statement: the debit.
UpdateSaldoWithdrawDebit(c, t, amt) ==
    \E s \in Active(c) :
        /\ Cardinality(updating \union withdrawing) < MaxInFlight
        /\ Mutate(s, WithdrawOp(c, t, amt), "debit", amt, -amt)
        /\ withdrawing' = withdrawing \union {[card |-> c, time |-> t, amount |-> amt]}
        /\ UNCHANGED <<card, state, lastWithdraw, queue, updating, scan, unledgered>>

\* Second statement: UpdateSaldoWithdrawMetadata on the row now active.
UpdateSaldoWithdrawMetadata(w) ==
    \E s \in Active(w.card) :
        /\ lastWithdraw' = [lastWithdraw EXCEPT ![s] = {w}]
        /\ withdrawing' = withdrawing \ {w}
        /\ UNCHANGED <<card, balance, state, ledger, queue, updating, scan,
                       unledgered, acked>>

\* The second statement of a two-statement request fails (no active row, a
\* rejected or conflicting adjustment, a lost connection); the first stays.
RequestFails ==
    /\ \/ \E u \in updating : updating' = updating \ {u} /\ UNCHANGED withdrawing
       \/ \E w \in withdrawing : withdrawing' = withdrawing \ {w} /\ UNCHANGED updating
    /\ UNCHANGED <<rows, ledger, queue, scan, unledgered, acked>>

-----------------------------------------------------------------------------
(* Soft deletion.  None of these touches the ledger. *)

\* Wrong: the partial unique index is missing.
MutNoOtherActive(s) == TRUE

\* idx_saldos_card_number_active: at most one active saldo per card.
NoOtherActive(s) == Active(card[s]) \ {s} = {}

SetState(S, to) ==
    /\ state' = [s \in Saldos |-> IF s \in S THEN to ELSE state[s]]
    /\ UNCHANGED <<card, balance, lastWithdraw, ledger, queue, updating,
                   withdrawing, scan, unledgered, acked>>

Trashed == {s \in Saldos : state[s] = "trashed"}

TrashSaldo(s) == state[s] = "active" /\ SetState({s}, "trashed")

RestoreSaldo(s) == s \in Trashed /\ NoOtherActive(s) /\ SetState({s}, "active")

DeleteSaldoPermanently(s) == s \in Trashed /\ SetState({s}, "purged")

\* One UPDATE over every trashed row: a single collision aborts all of it.
RestoreAllSaldos ==
    /\ Trashed # {}
    /\ \A s \in Trashed :
        NoOtherActive(s) /\ \A r \in Trashed \ {s} : card[r] # card[s]
    /\ SetState(Trashed, "active")

DeleteAllPermanentSaldos == Trashed # {} /\ SetState(Trashed, "purged")

-----------------------------------------------------------------------------
(* Reconciliation *)

Abs(n) == IF n < 0 THEN -n ELSE n

Difference(s) == Abs(balance[s] - LedgerBalance(card[s]))

\* ORDER BY ABS(difference) DESC, saldo_id.
ListedBefore(r, s) ==
    \/ Difference(r) > Difference(s)
    \/ Difference(r) = Difference(s) /\ r <= s

\* ListReconciliationMismatches: the BatchSize largest mismatches.  RunOnce
\* starts a pass only when the previous one is over.
ReconcilerScan ==
    LET M == {s \in Saldos : Mismatched(s)}
    IN  /\ scan = {}
        /\ scan' = {s \in M : Cardinality({r \in M : ListedBefore(r, s)}) <= BatchSize}
        /\ UNCHANGED <<rows, ledger, queue, updating, withdrawing, unledgered, acked>>

\* Wrong: the unique index covers resolved rows too, so a second incident of
\* the same saldo finds a conflict and writes nothing.
MutEnqueueMismatch(s) ==
    /\ s \in scan
    /\ scan' = scan \ {s}
    /\ queue' = [queue EXCEPT ![s] = IF @ = "absent" THEN "pending" ELSE @]
    /\ UNCHANGED <<rows, ledger, updating, withdrawing, unledgered, acked>>

\* EnqueueReconciliationMismatch: a new pending row, or the active one refreshed.
EnqueueMismatch(s) ==
    /\ s \in scan
    /\ scan' = scan \ {s}
    /\ queue' = [queue EXCEPT ![s] = "pending"]
    /\ UNCHANGED <<rows, ledger, updating, withdrawing, unledgered, acked>>

\* A failed enqueue is logged and skipped.
EnqueueFails(s) ==
    /\ s \in scan
    /\ scan' = scan \ {s}
    /\ UNCHANGED <<rows, ledger, queue, updating, withdrawing, unledgered, acked>>

\* Wrong: the books are not compared again.
MutResolveReconciliation(s) ==
    /\ queue[s] = "pending"
    /\ queue' = [queue EXCEPT ![s] = "resolved"]
    /\ UNCHANGED <<rows, ledger, updating, withdrawing, scan, unledgered, acked>>

\* An operator closes a queue row; the statement re-checks that the books agree.
ResolveReconciliation(s) ==
    /\ queue[s] = "pending"
    /\ state[s] = "active"
    /\ balance[s] = LedgerBalance(card[s])
    /\ queue' = [queue EXCEPT ![s] = "resolved"]
    /\ UNCHANGED <<rows, ledger, updating, withdrawing, scan, unledgered, acked>>

\* The saldo process stops: whatever it held in memory is gone.
Crash ==
    /\ updating' = {}
    /\ withdrawing' = {}
    /\ scan' = {}
    /\ UNCHANGED <<rows, ledger, queue, unledgered, acked>>

-----------------------------------------------------------------------------
Create == \E c \in Cards :
    CreateSaldoIfNotExists(c) \/ \E amt \in Amounts : CreateSaldo(c, amt)

Move == \E c \in Cards, amt \in Amounts, op \in Ops :
    DebitSaldo(c, op, amt) \/ CreditSaldo(c, op, amt) \/ ApplySaldoAdjustment(c, op, amt)

Update ==
    \/ \E s \in Saldos, target \in Amounts : UpdateSaldoRead(s, target)
    \/ \E u \in updating : UpdateSaldoAdjust(u)

Withdraw ==
    \/ \E c \in Cards, t \in Times, amt \in Amounts : UpdateSaldoWithdrawDebit(c, t, amt)
    \/ \E w \in withdrawing : UpdateSaldoWithdrawMetadata(w)

SoftDelete ==
    \/ \E s \in Saldos : TrashSaldo(s) \/ RestoreSaldo(s) \/ DeleteSaldoPermanently(s)
    \/ RestoreAllSaldos
    \/ DeleteAllPermanentSaldos

Reconcile ==
    \/ ReconcilerScan
    \/ \E s \in Saldos : EnqueueMismatch(s) \/ EnqueueFails(s) \/ ResolveReconciliation(s)

Next == Create \/ Move \/ Update \/ Withdraw \/ RequestFails \/ SoftDelete
            \/ Reconcile \/ Crash

Spec == Init /\ [][Next]_vars

\* The Reconciler's ticker never stops, and an enqueue that is attempted over
\* and over is not refused by the database for ever.
Fairness ==
    /\ WF_vars(ReconcilerScan)
    /\ \A s \in Saldos : WF_vars(EnqueueMismatch(s) \/ EnqueueFails(s))
    /\ \A s \in Saldos : SF_vars(EnqueueMismatch(s))

FairSpec == Spec /\ Fairness

-----------------------------------------------------------------------------
(* Properties *)

OpIds ==
    Ops \union {OpeningOp(s) : s \in Saldos}
        \union {UpdateOp(s, target) : s \in Saldos, target \in Amounts}
        \union {WithdrawOp(c, t, amt) : c \in Cards, t \in Times, amt \in Amounts}

Entries == [op : OpIds, dir : Dirs, amount : Nat, delta : Int, before : Nat, after : Nat]

UpdateCalls == [saldo : Saldos, card : Cards, target : Amounts, delta : Int]
WithdrawCalls == [card : Cards, time : Times, amount : Amounts]
Movements == [card : Cards, op : OpIds, dir : Dirs, delta : Int]

\* Type invariant.  Its one deep conjunct is that no interleaving of debits,
\* adjustments, retries and crashes drives a balance below zero.
TypeOK ==
    /\ card \in [Saldos -> Cards \union {NoCard}]
    /\ balance \in [Saldos -> Nat]
    /\ state \in [Saldos -> States]
    /\ lastWithdraw \in [Saldos -> SUBSET WithdrawCalls]
    /\ ledger \in [Saldos -> Seq(Entries)]
    /\ queue \in [Saldos -> {"absent", "pending", "resolved"}]
    /\ updating \subseteq UpdateCalls
    /\ withdrawing \subseteq WithdrawCalls
    /\ scan \subseteq Saldos
    /\ unledgered \in [Saldos -> Nat]
    /\ acked \subseteq Movements

\* Every unit a saldo holds is explained: its balance is the sum of the ledger
\* entries written against it plus what repeated creates put in unledgered,
\* through trash, restore, re-creation, retries and crashes.
BalanceAccounted ==
    \A s \in Saldos : balance[s] = DeltaSum(s) + unledgered[s]

\* A saldo that is the only one its card ever had and was never refilled by a
\* repeated create is seen as balanced by the reconciliation query.
ReconcilesUnlessReopened ==
    \A s \in Saldos :
        SaldosOf(card[s]) = {s} /\ unledgered[s] = 0 => ~Mismatched(s)

\* The entries that carry a movement's key.
Carrying(m) ==
    UNION {{<<s, i>> : i \in {j \in DOMAIN ledger[s] :
                    ledger[s][j].op = m.op /\ ledger[s][j].dir = m.dir}}
              : s \in SaldosOf(m.card)}

\* A caller told that its debit, credit or adjustment succeeded finds exactly
\* one ledger entry with its operation id, and that entry moved the amount it
\* asked for, however often the call was retried and even if the saldo was
\* trashed and re-created in between.
AckedExactlyOnce ==
    \A m \in acked :
        /\ Cardinality(Carrying(m)) = 1
        /\ \A p \in Carrying(m) : ledger[p[1]][p[2]].delta = m.delta

\* Audit chain: each entry starts from the balance the previous one left, and
\* the last one left the current balance; the only break allowed is a refill
\* of an empty saldo.
Refilled(s, left) == left = 0 /\ unledgered[s] > 0

ChainLinked ==
    \A s \in Saldos :
        /\ \A i \in DOMAIN ledger[s] :
            /\ ledger[s][i].after = ledger[s][i].before + ledger[s][i].delta
            /\ i > 1 => \/ ledger[s][i].before = ledger[s][i-1].after
                        \/ Refilled(s, ledger[s][i-1].after)
        /\ ledger[s] # <<>> =>
            \/ balance[s] = ledger[s][Len(ledger[s])].after
            \/ Refilled(s, ledger[s][Len(ledger[s])].after)

\* GetSaldoByCardNumber is deterministic: one active saldo per card, whatever
\* order of create, trash, restore and restore-all is taken.
OneActivePerCard == \A c \in Cards : Cardinality(Active(c)) <= 1

\* Withdraw metadata is written after the debit it describes, never without it.
WithdrawMetadataBacked ==
    \A s \in Saldos : \A w \in lastWithdraw[s] :
        Recorded(w.card, WithdrawOp(w.card, w.time, w.amount), "debit") # {}

\* "A mismatch is retained until an operator explicitly resolves it after the
\* balance and ledger agree again": a pending row only ever becomes resolved,
\* and only in a state in which the two agree.
MismatchRetained ==
    [][\A s \in Saldos :
        queue[s] = "pending" /\ queue'[s] # "pending" =>
            queue'[s] = "resolved" /\ state[s] = "active" /\ ~Mismatched(s)]_vars

\* An account that stays out of balance is eventually waiting for an operator.
MismatchReported ==
    \A s \in Saldos : []<>(~Mismatched(s) \/ queue[s] = "pending")

\* What the migration promises of a saldo that was merely created, possibly
\* more than once (card-created event and API call): the ledger explains it.
\* The code does not keep this.
CreatedSaldoReconciles ==
    \A s \in Saldos :
        SaldosOf(card[s]) = {s} /\ Len(ledger[s]) = 1 => ~Mismatched(s)

\* The movements that have taken effect, one per ledger entry.
PostedMovements ==
    UNION {{[card |-> card[s], op |-> e.op, dir |-> e.dir, delta |-> e.delta]
                : e \in Range(ledger[s])} : s \in Saldos}

Book == INSTANCE SaldoBook WITH bal <- balance, posted <- PostedMovements

\* The tables implement the book: movements take effect at most once each, and
\* nothing but a movement or the refill of an empty saldo changes a balance.
ImplementsBook == Book!Spec
=============================================================================
