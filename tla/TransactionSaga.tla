-------------------------- MODULE TransactionSaga --------------------------
(***************************************************************************)
(* Create of the transaction service                                       *)
(* (service/transaction/service/transactionCommandService.go): a card      *)
(* holder pays a merchant.  The skeleton is that of TransferSaga; what     *)
(* differs is the merchant card lookup between the legs, with a            *)
(* compensation of the user's leg alone, the order of the full             *)
(* compensation (user first), and the key, which is kept when the success  *)
(* marker fails.                                                           *)
(*                                                                         *)
(* Row and attempt share a name.  call[a][leg] is the fate of a call in    *)
(* the saldo service, which executes it at most once and at any time; its  *)
(* caller may see an error whatever became of it, and so may the caller of *)
(* a database statement.                                                   *)
(***************************************************************************)
EXTENDS Integers, FiniteSets

CONSTANTS
    Attempts,      \* handler executions, and the transaction rows they create
    Requests,      \* what a client may send: records [key, payload]
    NoKey,         \* the key of a request without Idempotency-Key
    EventKinds,    \* transaction.created, .stats, .saldo_user, .saldo_merchant
    MaxExpiries    \* bound on expirations of idempotency records

ASSUME ExpiriesAssumption == MaxExpiries \in Nat

VARIABLES
    pc,        \* pc[a]: what attempt a does next
    req,       \* req[a]: its request, {} before it starts
    answer,    \* answer[a]: what the client was told
    row,       \* row[a]: transactions.status, "none" before the insert
    deleted,   \* deleted[a]: deleted_at: no, trashed, or the row is purged
    listed,    \* the recovery pass: rows still to mark, with the status listed
    call,      \* call[a][leg]: fate of the call in the saldo service
    idem,      \* the idempotency records
    enqueued,  \* enqueued[a]: outbox events written
    expiries   \* number of expirations so far

rowVars == <<row, deleted>>
vars == <<pc, req, answer, row, deleted, listed, call, idem, enqueued, expiries>>

Keys == {r.key : r \in Requests} \ {NoKey}
Legs == {"user-debit", "merchant-credit", "user-compensation", "merchant-compensation"}

State == INSTANCE OperationState WITH Operations <- Attempts, status <- row
Idem == INSTANCE IdempotencyStore

RequestOf(a) == CHOOSE r \in req[a] : TRUE
KeyOf(a) == RequestOf(a).key
Keyed(a) == req[a] # {} /\ KeyOf(a) # NoKey
Running(a) == pc[a] \notin {"idle", "done", "dead"}
Holds(a) == Keyed(a) /\ Running(a) /\ pc[a] # "replay"
Applied(a, leg) == call[a][leg] = "applied"

Init ==
    /\ pc = [a \in Attempts |-> "idle"]
    /\ req = [a \in Attempts |-> {}]
    /\ answer = [a \in Attempts |-> "none"]
    /\ row = [a \in Attempts |-> "none"]
    /\ deleted = [a \in Attempts |-> "no"]
    /\ listed = {}
    /\ call = [a \in Attempts |-> [leg \in Legs |-> "unsent"]]
    /\ Idem!Init
    /\ enqueued = [a \in Attempts |-> {}]
    /\ expiries = 0

Goto(a, to) == pc' = [pc EXCEPT ![a] = to]

Finish(a, what) == Goto(a, "done") /\ answer' = [answer EXCEPT ![a] = what]

\* status = "error": the deferred function releases the key.
Fail(a) == Goto(a, "release")

\* GuardStatus / TransitionStatus takes effect.
Moved(a, from, to) ==
    /\ row[a] = from /\ deleted[a] = "no"
    /\ State!CanTransition(from, to)
    /\ row' = [row EXCEPT ![a] = to]
    /\ UNCHANGED deleted

\* The handler ignores whether the statement took effect.
Attempted(a, from, to) == Moved(a, from, to) \/ UNCHANGED rowVars

-----------------------------------------------------------------------------
(* Idempotency key *)

Claim(a, r) ==
    /\ pc[a] = "idle"
    /\ req' = [req EXCEPT ![a] = {r}]
    /\ IF r.key = NoKey
         THEN Goto(a, "check") /\ UNCHANGED idem
         ELSE \/ Idem!Claim(r.key, r) /\ (Goto(a, "check") \/ Goto(a, "replay"))
              \/ Goto(a, "replay") /\ UNCHANGED idem
    /\ UNCHANGED <<answer, rowVars, listed, call, enqueued, expiries>>

\* The claim failed: replay a stored response to the same request, or an error
\* that releases nothing.
Replay(a) ==
    /\ pc[a] = "replay"
    /\ \/ Idem!Replayable(KeyOf(a), RequestOf(a)) /\ Finish(a, "replayed")
       \/ Finish(a, "error")
    /\ UNCHANGED <<req, rowVars, listed, call, idem, enqueued, expiries>>

Release(a) ==
    /\ pc[a] = "release"
    /\ Finish(a, "error")
    /\ UNCHANGED idem \/ (Keyed(a) /\ Idem!Release(KeyOf(a), RequestOf(a)))
    /\ UNCHANGED <<req, rowVars, listed, call, enqueued, expiries>>

\* The error return after a failed success marker leaves status at its initial
\* "success": the key stays claimed.
KeepKey(a) ==
    /\ pc[a] = "keep"
    /\ Finish(a, "error")
    /\ UNCHANGED <<req, rowVars, listed, call, idem, enqueued, expiries>>

Complete(a) ==
    /\ pc[a] = "complete"
    /\ Finish(a, "ok")
    /\ UNCHANGED idem \/ (Keyed(a) /\ Idem!Complete(KeyOf(a), RequestOf(a), a))
    /\ UNCHANGED <<req, rowVars, listed, call, enqueued, expiries>>

\* No handler runs for the 24 hours of a record: an expired one is not held.
Expire(k) ==
    /\ expiries < MaxExpiries
    /\ \A a \in Attempts : ~(Holds(a) /\ KeyOf(a) = k)
    /\ Idem!Expire(k)
    /\ expiries' = expiries + 1
    /\ UNCHANGED <<pc, req, answer, rowVars, listed, call, enqueued>>

-----------------------------------------------------------------------------
(* The handler between Claim and Complete *)

\* Amount, merchant, card, balance and fraud checks: they write nothing.
Check(a) ==
    /\ pc[a] = "check"
    /\ Goto(a, "create") \/ Fail(a)
    /\ UNCHANGED <<req, answer, rowVars, listed, call, idem, enqueued, expiries>>

CreateTransaction(a) ==
    /\ pc[a] = "create"
    /\ \/ /\ row' = [row EXCEPT ![a] = "pending"]
          /\ UNCHANGED deleted
          /\ Goto(a, "begin") \/ Fail(a)
       \/ Fail(a) /\ UNCHANGED rowVars
    /\ UNCHANGED <<req, answer, listed, call, idem, enqueued, expiries>>

\* GuardStatus pending -> processing.
Begin(a) ==
    /\ pc[a] = "begin"
    /\ \/ Moved(a, "pending", "processing") /\ (Goto(a, "user-debit") \/ Fail(a))
       \/ Fail(a) /\ UNCHANGED rowVars
    /\ UNCHANGED <<req, answer, listed, call, idem, enqueued, expiries>>

Send(a, leg) ==
    /\ pc[a] = leg
    /\ call[a][leg] = "unsent"
    /\ call' = [call EXCEPT ![a][leg] = "sent"]
    /\ UNCHANGED <<pc, req, answer, rowVars, listed, idem, enqueued, expiries>>

\* Both legs are compensated only after the credit was confirmed.
MerchantCredited(a) == call[a]["merchant-credit"] # "unsent"

AfterLeg(a, leg) ==
    CASE leg = "user-debit"        -> "merchant-card"
      [] leg = "merchant-credit"   -> "settle"
      [] leg = "user-compensation" -> IF MerchantCredited(a) THEN "merchant-lookup"
                                                             ELSE "compensated"
      [] OTHER                     -> "compensated"

\* Wrong: a debit that seems to have failed is followed by the credit.
MutAfterError(leg) ==
    CASE leg = "user-debit"      -> "merchant-card"
      [] leg = "merchant-credit" -> "quarantine"
      [] OTHER                   -> "give-up"

AfterError(leg) ==
    CASE leg = "user-debit"      -> "failed"
      [] leg = "merchant-credit" -> "quarantine"
      [] OTHER                   -> "give-up"

\* The saldo service confirms the leg.
Confirmed(a, leg) ==
    /\ pc[a] = leg
    /\ Applied(a, leg)
    /\ Goto(a, AfterLeg(a, leg))
    /\ UNCHANGED <<req, answer, rowVars, listed, call, idem, enqueued, expiries>>

\* The caller sees an error, whatever became or becomes of the call.
Errored(a, leg) ==
    /\ pc[a] = leg
    /\ Goto(a, AfterError(leg))
    /\ UNCHANGED <<req, answer, rowVars, listed, call, idem, enqueued, expiries>>

\* FindCardByUserId for the merchant: without it only the user's leg is undone.
FindMerchantCard(a) ==
    /\ pc[a] = "merchant-card"
    /\ Goto(a, "merchant-credit") \/ Goto(a, "compensate")
    /\ UNCHANGED <<req, answer, rowVars, listed, call, idem, enqueued, expiries>>

\* Wrong: events are enqueued before the success marker is known to be set.
MutSettle(a) ==
    /\ pc[a] = "settle"
    /\ Goto(a, "events") /\ Attempted(a, "processing", "success")
    /\ UNCHANGED <<req, answer, listed, call, idem, enqueued, expiries>>

\* TransitionStatus processing -> success; an error, also one that hides a
\* committed update, starts the compensation of both legs.
Settle(a) ==
    /\ pc[a] = "settle"
    /\ \/ Moved(a, "processing", "success") /\ (Goto(a, "events") \/ Goto(a, "compensate"))
       \/ Goto(a, "compensate") /\ UNCHANGED rowVars
    /\ UNCHANGED <<req, answer, listed, call, idem, enqueued, expiries>>

EnqueueEvents(a) ==
    /\ pc[a] = "events"
    /\ Goto(a, "complete")
    /\ \E E \in SUBSET EventKinds : enqueued' = [enqueued EXCEPT ![a] = E]
    /\ UNCHANGED <<req, answer, rowVars, listed, call, idem, expiries>>

\* Wrong: the key is released after a failed settlement too, as the transfer
\* service does.
MutReturn(a) == "release"

\* Where the error return after compensateTransaction leads.
Return(a) == IF MerchantCredited(a) THEN "keep" ELSE "release"

\* Wrong: the compensation starts without having claimed the row.
MutCompensate(a) ==
    /\ pc[a] = "compensate"
    /\ Attempted(a, "processing", "compensating")
    /\ Goto(a, "user-compensation")
    /\ UNCHANGED <<req, answer, listed, call, idem, enqueued, expiries>>

\* compensateTransaction: only who moves processing -> compensating reverses.
Compensate(a) ==
    /\ pc[a] = "compensate"
    /\ \/ /\ Moved(a, "processing", "compensating")
          /\ Goto(a, "user-compensation") \/ Goto(a, Return(a))
       \/ Goto(a, Return(a)) /\ UNCHANGED rowVars
    /\ UNCHANGED <<req, answer, listed, call, idem, enqueued, expiries>>

\* FindByMerchantId and FindCardByUserId before the merchant's leg is reversed.
FindMerchant(a) ==
    /\ pc[a] = "merchant-lookup"
    /\ Goto(a, "merchant-compensation") \/ Goto(a, "give-up")
    /\ UNCHANGED <<req, answer, rowVars, listed, call, idem, enqueued, expiries>>

Closing(p) ==
    CASE p = "failed"     -> <<"processing", "failed">>
      [] p = "quarantine" -> <<"processing", "unknown">>
      [] p = "give-up"    -> <<"compensating", "unknown">>
      [] OTHER            -> <<"compensating", "compensated">>

\* The closing GuardStatus of each failure path; its result is not used.
Close(a) ==
    /\ pc[a] \in {"failed", "quarantine", "give-up", "compensated"}
    /\ Attempted(a, Closing(pc[a])[1], Closing(pc[a])[2])
    /\ Goto(a, IF pc[a] \in {"give-up", "compensated"} THEN Return(a) ELSE "release")
    /\ UNCHANGED <<req, answer, listed, call, idem, enqueued, expiries>>

-----------------------------------------------------------------------------
(* The saldo service, the recovery worker, soft deletion, crashes *)

Execute(a, leg, fate) ==
    /\ call[a][leg] = "sent"
    /\ fate \in {"applied", "refused"}
    /\ call' = [call EXCEPT ![a][leg] = fate]
    /\ UNCHANGED <<pc, req, answer, rowVars, listed, idem, enqueued, expiries>>

\* Any recoverable rows may be the oldest 100 that are older than two minutes.
RecoveryList ==
    /\ listed = {}
    /\ \E A \in SUBSET {a \in Attempts : State!IsRecoverable(row[a]) /\ deleted[a] = "no"} :
        listed' = {[id |-> a, status |-> row[a]] : a \in A}
    /\ UNCHANGED <<pc, req, answer, rowVars, call, idem, enqueued, expiries>>

RecoveryMark(x) ==
    /\ listed' = listed \ {x}
    /\ IF x.status = "unknown" THEN UNCHANGED rowVars
                               ELSE Attempted(x.id, x.status, "unknown")
    /\ UNCHANGED <<pc, req, answer, call, idem, enqueued, expiries>>

SetDeleted(A, to) ==
    /\ A # {}
    /\ deleted' = [a \in Attempts |-> IF a \in A THEN to ELSE deleted[a]]
    /\ UNCHANGED <<pc, req, answer, row, listed, call, idem, enqueued, expiries>>

TrashedRows == {a \in Attempts : deleted[a] = "trashed"}

TrashTransaction(a) == row[a] # "none" /\ deleted[a] = "no" /\ SetDeleted({a}, "trashed")
RestoreTransaction(a) == SetDeleted(TrashedRows \intersect {a}, "no")
DeleteTransactionPermanently(a) == SetDeleted(TrashedRows \intersect {a}, "purged")
RestoreAllTransactions == SetDeleted(TrashedRows, "no")
DeleteAllPermanentTransactions == SetDeleted(TrashedRows, "purged")

Crash ==
    /\ \E A \in SUBSET {a \in Attempts : Running(a)} :
        /\ A # {}
        /\ pc' = [a \in Attempts |-> IF a \in A THEN "dead" ELSE pc[a]]
    /\ listed' \in {listed, {}}
    /\ UNCHANGED <<req, answer, rowVars, call, idem, enqueued, expiries>>

-----------------------------------------------------------------------------
Handle(a) ==
    \/ \E r \in Requests : Claim(a, r)
    \/ Replay(a) \/ Check(a) \/ CreateTransaction(a) \/ Begin(a)
    \/ \E leg \in Legs : Send(a, leg) \/ Confirmed(a, leg) \/ Errored(a, leg)
    \/ FindMerchantCard(a) \/ Settle(a) \/ EnqueueEvents(a) \/ Complete(a)
    \/ Compensate(a) \/ FindMerchant(a) \/ Close(a) \/ Release(a) \/ KeepKey(a)

Recover == RecoveryList \/ \E x \in listed : RecoveryMark(x)

SoftDelete ==
    \/ \E a \in Attempts :
        TrashTransaction(a) \/ RestoreTransaction(a) \/ DeleteTransactionPermanently(a)
    \/ RestoreAllTransactions
    \/ DeleteAllPermanentTransactions

Next ==
    \/ \E a \in Attempts : Handle(a)
    \/ \E a \in Attempts, leg \in Legs, fate \in {"applied", "refused"} : Execute(a, leg, fate)
    \/ Recover
    \/ SoftDelete
    \/ \E k \in Keys : Expire(k)
    \/ Crash

Spec == Init /\ [][Next]_vars

-----------------------------------------------------------------------------
(* Properties *)

PCs == {"idle", "replay", "check", "create", "begin", "merchant-card", "settle", "events",
        "complete", "compensate", "merchant-lookup", "failed", "quarantine", "give-up",
        "compensated", "release", "keep", "done", "dead"} \union Legs

Records == [status : {"absent", "processing", "success"},
            request : SUBSET Requests, resource : SUBSET Attempts]

\* The types of the variables; a request is one record.
TypeOK ==
    /\ pc \in [Attempts -> PCs]
    /\ req \in [Attempts -> SUBSET Requests]
    /\ \A a \in Attempts : \A r, s \in req[a] : r = s
    /\ answer \in [Attempts -> {"none", "ok", "replayed", "error"}]
    /\ row \in [Attempts -> State!Statuses \union {"none"}]
    /\ deleted \in [Attempts -> {"no", "trashed", "purged"}]
    /\ listed \subseteq [id : Attempts, status : {"processing", "compensating", "unknown"}]
    /\ call \in [Attempts -> [Legs -> {"unsent", "sent", "applied", "refused"}]]
    /\ idem \in [Keys -> Records]
    /\ enqueued \in [Attempts -> SUBSET EventKinds]
    /\ expiries \in 0..MaxExpiries

\* Whatever is late, refused or raced by recovery, the merchant is paid out of
\* an executed debit, the user is refunded only a debit that happened, and the
\* merchant is charged back only a credit that happened, for a refunded user.
LegsBacked ==
    \A a \in Attempts :
        /\ call[a]["merchant-credit"] # "unsent" => Applied(a, "user-debit")
        /\ call[a]["user-compensation"] # "unsent" => Applied(a, "user-debit")
        /\ call[a]["merchant-compensation"] # "unsent" =>
            Applied(a, "merchant-credit") /\ Applied(a, "user-compensation")

\* A user is refunded and the merchant keeps the money.
BothHaveIt(a) ==
    /\ call[a]["user-compensation"] # "unsent"
    /\ MerchantCredited(a)
    /\ ~Applied(a, "merchant-compensation")

\* The compensation refunds the user before it charges the merchant.  The money
\* the two then both have is visible: the row is compensating or unknown, never
\* one that claims a result.  A success moved both legs for good, a compensated
\* row moved nothing in the end.
StatusMatchesMoney ==
    \A a \in Attempts :
        /\ BothHaveIt(a) => row[a] \in {"compensating", "unknown"}
        /\ row[a] = "success" =>
            /\ Applied(a, "user-debit") /\ Applied(a, "merchant-credit")
            /\ call[a]["user-compensation"] = "unsent"
        /\ row[a] = "failed" => ~MerchantCredited(a)
        /\ row[a] = "compensated" => Applied(a, "user-compensation")

\* However often a client retries, a key yields at most one successful row per
\* lifetime of its record, even when the answer to the success marker is lost.
OneSuccessRowPerKey ==
    \A k \in Keys :
        Cardinality({a \in Attempts : Keyed(a) /\ KeyOf(a) = k /\ row[a] = "success"})
            <= 1 + expiries

\* A client told of success, first hand or by replay, and every event tell of a
\* transaction that is settled; a replay names the row of the first answer.
AnnouncedTruthfully ==
    \A a \in Attempts :
        /\ answer[a] = "ok" \/ enqueued[a] # {} => row[a] = "success"
        /\ answer[a] = "replayed" =>
            \E b \in Attempts : row[b] = "success" /\ req[b] = req[a]
        /\ \A k \in Keys : a \in idem[k].resource =>
            row[a] = "success" /\ KeyOf(a) = k
=============================================================================
