---------------------------- MODULE TransferSaga ----------------------------
(***************************************************************************)
(* CreateTransaction of the transfer service                               *)
(* (service/transfer/service/transferCommandService.go): claim the client's*)
(* idempotency key, check, persist a row, debit the sender, credit the     *)
(* receiver, settle or compensate, enqueue events, complete or release the *)
(* key; with the recovery worker (recovery.go) and soft deletion beside it.*)
(*                                                                         *)
(* An attempt is one execution of the handler and creates at most one      *)
(* transfer row, so row and attempt share a name.  Its program counter     *)
(* names the statement it runs next; between any two statements other      *)
(* attempts, the recovery worker, the saldo service and a crash may act.   *)
(*                                                                         *)
(* A call to the saldo service is sent, executed (or refused) there at most*)
(* once (the operation id contains the transfer id and the leg;            *)
(* SaldoLedger shows a replay moves nothing) and answered.  The caller's   *)
(* deadline may pass at any point, so the caller sees an error whether the *)
(* call was, will still be, or will never be executed.  A statement on the *)
(* service's own database can fail likewise, applied or not.               *)
(* Mut... definitions are deliberately wrong variants, used by no          *)
(* specification.                                                          *)
(***************************************************************************)
EXTENDS Integers, FiniteSets

CONSTANTS
    Attempts,      \* handler executions, and the transfer rows they create
    Requests,      \* what a client may send: records [key, payload]
    NoKey,         \* the key of a request without Idempotency-Key
    EventKinds,    \* transfer.created, transfer.stats, transfer.saldo_*
    MaxRows,       \* rows one recovery pass lists (100 in apps/server.go)
    MaxExpiries    \* bound on expirations of idempotency records

ASSUME BoundsAssumption == MaxRows \in Nat \ {0} /\ MaxExpiries \in Nat

VARIABLES
    pc,        \* pc[a]: what attempt a does next
    req,       \* req[a]: its request, {} before it starts
    answer,    \* answer[a]: what the client was told
    row,       \* row[a]: transfers.status, "none" before the insert
    deleted,   \* deleted[a]: deleted_at: no, trashed, or the row is purged
    older,     \* older[a]: rows whose updated_at is before that of row a
    stale,     \* rows not updated for longer than olderThan
    listed,    \* the recovery pass: rows still to mark, with the status listed
    call,      \* call[a][leg]: fate of the call in the saldo service
    idem,      \* idem[k]: the idempotency record of key k
    enqueued,  \* enqueued[a]: outbox events written
    expiries   \* number of expirations so far

rowVars == <<row, deleted, older, stale>>
vars == <<pc, req, answer, row, deleted, older, stale, listed, call, idem,
          enqueued, expiries>>

Keys == {r.key : r \in Requests} \ {NoKey}
Legs == {"sender-debit", "receiver-credit", "receiver-compensation", "sender-compensation"}
Absent == [status |-> "absent", request |-> {}, transfer |-> {}]

State == INSTANCE OperationState WITH Operations <- Attempts, status <- row

\* The request an attempt runs and the key it claimed.
RequestOf(a) == CHOOSE r \in req[a] : TRUE
KeyOf(a) == RequestOf(a).key
Keyed(a) == req[a] # {} /\ KeyOf(a) # NoKey

Running(a) == pc[a] \notin {"idle", "done", "dead"}

\* Attempts between a successful claim and the release or completion of the key.
Holds(a) == Keyed(a) /\ Running(a) /\ pc[a] # "lookup"

Applied(a, leg) == call[a][leg] = "applied"

-----------------------------------------------------------------------------
Init ==
    /\ pc = [a \in Attempts |-> "idle"]
    /\ req = [a \in Attempts |-> {}]
    /\ answer = [a \in Attempts |-> "none"]
    /\ row = [a \in Attempts |-> "none"]
    /\ deleted = [a \in Attempts |-> "no"]
    /\ older = [a \in Attempts |-> {}]
    /\ stale = {}
    /\ listed = {}
    /\ call = [a \in Attempts |-> [leg \in Legs |-> "unsent"]]
    /\ idem = [k \in Keys |-> Absent]
    /\ enqueued = [a \in Attempts |-> {}]
    /\ expiries = 0

Goto(a, to) == pc' = [pc EXCEPT ![a] = to]

Finish(a, what) ==
    /\ Goto(a, "done")
    /\ answer' = [answer EXCEPT ![a] = what]

\* An error return of a handler that holds its key runs the deferred Release.
Fail(a) == Goto(a, "release")

Rows == {a \in Attempts : row[a] # "none"}

\* Wrong: the row keeps its old place as well.
MutTouch(a) ==
    /\ older' = [older EXCEPT ![a] = Rows \ {a}]
    /\ stale' = stale \ {a}

\* UPDATE transfers ... SET updated_at: the row becomes the newest.
Touch(a) ==
    /\ older' = [b \in Attempts |-> IF b = a THEN Rows \ {a} ELSE older[b] \ {a}]
    /\ stale' = stale \ {a}

\* UPDATE ... WHERE status = from AND deleted_at IS NULL finds the row.
Guarded(a, from) == row[a] = from /\ deleted[a] = "no"

\* GuardStatus / TransitionStatus takes effect.
Moved(a, from, to) ==
    /\ Guarded(a, from)
    /\ State!CanTransition(from, to)
    /\ row' = [row EXCEPT ![a] = to]
    /\ Touch(a)
    /\ UNCHANGED deleted

\* The statement's outcome is ignored by the handler: it may have taken effect,
\* found another status, or failed.
Attempted(a, from, to) == Moved(a, from, to) \/ UNCHANGED rowVars

-----------------------------------------------------------------------------
(* Idempotency key *)

\* Wrong: a retry takes over a record that is still processing.
MutClaimable(k) == idem[k].status # "success"

Claimable(k) == idem[k].status = "absent"

\* Claim inserts the record; ON CONFLICT it finds the key in use.  A database
\* error, before or after the insert, is treated like a key in use.
Claim(a, r) ==
    /\ pc[a] = "idle"
    /\ req' = [req EXCEPT ![a] = {r}]
    /\ \/ /\ r.key = NoKey
          /\ Goto(a, "check")
          /\ UNCHANGED idem
       \/ /\ r.key # NoKey
          /\ Claimable(r.key)
          /\ idem' = [idem EXCEPT ![r.key] =
                        [status |-> "processing", request |-> {r}, transfer |-> {}]]
          /\ Goto(a, "check") \/ Goto(a, "lookup")
       \/ /\ r.key # NoKey
          /\ Goto(a, "lookup")
          /\ UNCHANGED idem
    /\ UNCHANGED <<answer, rowVars, listed, call, enqueued, expiries>>

\* Wrong: the request hashes are not compared.
MutReplayable(a) == idem[KeyOf(a)].status = "success"

\* The stored response answers this very request.
Replayable(a) ==
    /\ idem[KeyOf(a)].status = "success"
    /\ idem[KeyOf(a)].request = req[a]

\* The claim failed: Get decides between replay and an error (no record, another
\* payload, still processing, database failure).  The deferred Release is not
\* installed on this path.
Lookup(a) ==
    /\ pc[a] = "lookup"
    /\ \/ Replayable(a) /\ Finish(a, "replayed")
       \/ Finish(a, "error")
    /\ UNCHANGED <<req, rowVars, listed, call, idem, enqueued, expiries>>

\* Release deletes the record if the hash matches and it is still processing.
\* The DELETE itself may fail, which is logged.
Release(a) ==
    /\ pc[a] = "release"
    /\ Finish(a, "error")
    /\ \/ /\ Keyed(a)
          /\ idem[KeyOf(a)].request = req[a]
          /\ idem[KeyOf(a)].status = "processing"
          /\ idem' = [idem EXCEPT ![KeyOf(a)] = Absent]
       \/ UNCHANGED idem
    /\ UNCHANGED <<req, rowVars, listed, call, enqueued, expiries>>

\* Wrong: the key is released instead of completed.
MutComplete(a) ==
    /\ pc[a] = "complete"
    /\ Finish(a, "ok")
    /\ idem' = IF Keyed(a) THEN [idem EXCEPT ![KeyOf(a)] = Absent] ELSE idem
    /\ UNCHANGED <<req, rowVars, listed, call, enqueued, expiries>>

\* Complete stores the response under the key and hash; a failure is logged and
\* the client is told of the success all the same.
Complete(a) ==
    /\ pc[a] = "complete"
    /\ Finish(a, "ok")
    /\ \/ /\ Keyed(a)
          /\ idem[KeyOf(a)].request = req[a]
          /\ idem' = [idem EXCEPT ![KeyOf(a)] =
                        [status |-> "success", request |-> req[a], transfer |-> {a}]]
       \/ UNCHANGED idem
    /\ UNCHANGED <<req, rowVars, listed, call, enqueued, expiries>>

\* expires_at (24 hours) passes.  No handler runs that long, so an expired
\* record is never held.
Expire(k) ==
    /\ expiries < MaxExpiries
    /\ idem[k].status # "absent"
    /\ \A a \in Attempts : ~(Holds(a) /\ KeyOf(a) = k)
    /\ idem' = [idem EXCEPT ![k] = Absent]
    /\ expiries' = expiries + 1
    /\ UNCHANGED <<pc, req, answer, rowVars, listed, call, enqueued>>

-----------------------------------------------------------------------------
(* The handler between Claim and Complete *)

\* Validation, card and balance lookups, AI check.  They write nothing; any of
\* them may refuse.
Check(a) ==
    /\ pc[a] = "check"
    /\ Goto(a, "create") \/ Fail(a)
    /\ UNCHANGED <<req, answer, rowVars, listed, call, idem, enqueued, expiries>>

\* CreateTransfer inserts a pending row; its error may hide a committed insert.
CreateTransfer(a) ==
    /\ pc[a] = "create"
    /\ \/ /\ row' = [row EXCEPT ![a] = "pending"]
          /\ Touch(a)
          /\ UNCHANGED deleted
          /\ Goto(a, "begin") \/ Fail(a)
       \/ Fail(a) /\ UNCHANGED rowVars
    /\ UNCHANGED <<req, answer, listed, call, idem, enqueued, expiries>>

\* GuardStatus pending -> processing.
Begin(a) ==
    /\ pc[a] = "begin"
    /\ \/ Moved(a, "pending", "processing") /\ (Goto(a, "sender-debit") \/ Fail(a))
       \/ Fail(a) /\ UNCHANGED rowVars
    /\ UNCHANGED <<req, answer, listed, call, idem, enqueued, expiries>>

\* DebitSaldo / CreditSaldo: the request leaves.
Send(a, leg) ==
    /\ pc[a] = leg
    /\ call[a][leg] = "unsent"
    /\ call' = [call EXCEPT ![a][leg] = "sent"]
    /\ UNCHANGED <<pc, req, answer, rowVars, listed, idem, enqueued, expiries>>

\* Where the handler goes once a leg is known to be done, and once it is not.
AfterLeg ==
    [leg \in Legs |-> CASE leg = "sender-debit" -> "receiver-credit"
                      [] leg = "receiver-credit" -> "settle"
                      [] leg = "receiver-compensation" -> "sender-compensation"
                      [] OTHER -> "compensated"]

\* Wrong: a credit that seems to have failed is answered by paying the sender back.
MutAfterError ==
    [leg \in Legs |-> CASE leg = "sender-debit" -> "failed"
                      [] leg = "receiver-credit" -> "sender-compensation"
                      [] OTHER -> "give-up"]

AfterError ==
    [leg \in Legs |-> CASE leg = "sender-debit" -> "failed"
                      [] leg = "receiver-credit" -> "quarantine"
                      [] OTHER -> "give-up"]

\* The saldo service confirms the leg.
Confirmed(a, leg) ==
    /\ pc[a] = leg
    /\ Applied(a, leg)
    /\ Goto(a, AfterLeg[leg])
    /\ UNCHANGED <<req, answer, rowVars, listed, call, idem, enqueued, expiries>>

\* The caller sees an error, whatever became or becomes of the call: refused
\* before it was sent (circuit breaker), refused by the saldo service, timed
\* out.
Errored(a, leg) ==
    /\ pc[a] = leg
    /\ Goto(a, AfterError[leg])
    /\ UNCHANGED <<req, answer, rowVars, listed, call, idem, enqueued, expiries>>

\* TransitionStatus processing -> success; an error starts the compensation.
Settle(a) ==
    /\ pc[a] = "settle"
    /\ \/ /\ Moved(a, "processing", "success")
          /\ Goto(a, "events") \/ Goto(a, "compensate")
       \/ Goto(a, "compensate") /\ UNCHANGED rowVars
    /\ UNCHANGED <<req, answer, listed, call, idem, enqueued, expiries>>

\* enqueueTransferEvents: independent inserts, each of whose failures is logged.
EnqueueEvents(a) ==
    /\ pc[a] = "events"
    /\ Goto(a, "complete")
    /\ \E E \in SUBSET EventKinds : enqueued' = [enqueued EXCEPT ![a] = E]
    /\ UNCHANGED <<req, answer, rowVars, listed, call, idem, expiries>>

\* Wrong: the result of the guarded transition is not looked at.
MutCompensate(a) ==
    /\ pc[a] = "compensate"
    /\ Attempted(a, "processing", "compensating")
    /\ Goto(a, "receiver-compensation")
    /\ UNCHANGED <<req, answer, listed, call, idem, enqueued, expiries>>

\* compensateTransfer: only who moves processing -> compensating reverses.
Compensate(a) ==
    /\ pc[a] = "compensate"
    /\ \/ /\ Moved(a, "processing", "compensating")
          /\ Goto(a, "receiver-compensation") \/ Fail(a)
       \/ Fail(a) /\ UNCHANGED rowVars
    /\ UNCHANGED <<req, answer, listed, call, idem, enqueued, expiries>>

\* The closing GuardStatus of each failure path; its result is discarded.
Closing ==
    [p \in {"failed", "quarantine", "give-up", "compensated"} |->
        CASE p = "failed"     -> <<"processing", "failed">>
          [] p = "quarantine" -> <<"processing", "unknown">>
          [] p = "give-up"    -> <<"compensating", "unknown">>
          [] OTHER            -> <<"compensating", "compensated">>]

Close(a) ==
    /\ pc[a] \in DOMAIN Closing
    /\ Attempted(a, Closing[pc[a]][1], Closing[pc[a]][2])
    /\ Fail(a)
    /\ UNCHANGED <<req, answer, listed, call, idem, enqueued, expiries>>

-----------------------------------------------------------------------------
(* The saldo service, as its callers see it *)

\* A sent call is executed or refused at some later time, whether or not the
\* caller still waits and even if it is dead.
Execute(a, leg, fate) ==
    /\ call[a][leg] = "sent"
    /\ fate \in {"applied", "refused"}
    /\ call' = [call EXCEPT ![a][leg] = fate]
    /\ UNCHANGED <<pc, req, answer, rowVars, listed, idem, enqueued, expiries>>

-----------------------------------------------------------------------------
(* Recovery worker *)

\* A row passes the olderThan threshold, oldest first.
Ageing(a) ==
    /\ row[a] # "none"
    /\ a \notin stale
    /\ older[a] \subseteq stale
    /\ stale' = stale \union {a}
    /\ UNCHANGED <<pc, req, answer, row, deleted, older, listed, call, idem, enqueued, expiries>>

\* Wrong: interrupted compensations are not listed.
MutRecoverable(a) == row[a] = "processing" /\ deleted[a] = "no" /\ a \in stale

Recoverable(a) == State!IsRecoverable(row[a]) /\ deleted[a] = "no" /\ a \in stale

\* ListStuck: the MaxRows oldest recoverable rows, unknown ones included.  A
\* pass starts when the previous one is over.
RecoveryList ==
    /\ listed = {}
    /\ listed' = {[id |-> a, status |-> row[a]] : a \in
           {b \in Attempts : Recoverable(b) /\
               Cardinality({c \in older[b] : Recoverable(c)}) < MaxRows}}
    /\ UNCHANGED <<pc, req, answer, rowVars, call, idem, enqueued, expiries>>

\* Wrong: the row is moved from whatever status it has by now.
MutRecoveryMark(x) ==
    /\ listed' = listed \ {x}
    /\ deleted[x.id] = "no"
    /\ row' = [row EXCEPT ![x.id] = "unknown"]
    /\ Touch(x.id)
    /\ UNCHANGED <<pc, req, answer, deleted, call, idem, enqueued, expiries>>

\* One row of the pass: from the status that was listed, to unknown.
RecoveryMark(x) ==
    /\ listed' = listed \ {x}
    /\ IF x.status = "unknown"
         THEN UNCHANGED rowVars
         ELSE Attempted(x.id, x.status, "unknown")
    /\ UNCHANGED <<pc, req, answer, call, idem, enqueued, expiries>>

-----------------------------------------------------------------------------
(* Soft deletion: neither status nor updated_at changes *)

SetDeleted(A, to) ==
    /\ A # {}
    /\ deleted' = [a \in Attempts |-> IF a \in A THEN to ELSE deleted[a]]
    /\ UNCHANGED <<pc, req, answer, row, older, stale, listed, call, idem, enqueued, expiries>>

TrashedRows == {a \in Attempts : deleted[a] = "trashed"}

TrashTransfer(a) == row[a] # "none" /\ deleted[a] = "no" /\ SetDeleted({a}, "trashed")
RestoreTransfer(a) == SetDeleted(TrashedRows \intersect {a}, "no")
DeleteTransferPermanently(a) == SetDeleted(TrashedRows \intersect {a}, "purged")
RestoreAllTransfers == SetDeleted(TrashedRows, "no")
DeleteAllPermanentTransfers == SetDeleted(TrashedRows, "purged")

-----------------------------------------------------------------------------
\* Replicas of the transfer service stop: some running handlers, and possibly
\* the recovery pass, are gone.  Deferred functions do not run.
Crash ==
    /\ \E A \in SUBSET {a \in Attempts : Running(a)} :
        /\ A # {}
        /\ pc' = [a \in Attempts |-> IF a \in A THEN "dead" ELSE pc[a]]
    /\ listed' \in {listed, {}}
    /\ UNCHANGED <<req, answer, rowVars, call, idem, enqueued, expiries>>

-----------------------------------------------------------------------------
\* A request that gets its key, or comes without one; only the others are looked up.
Proceed(a) ==
    \/ \E r \in Requests : Claim(a, r)
    \/ Check(a) \/ CreateTransfer(a) \/ Begin(a)
    \/ \E leg \in Legs : Send(a, leg) \/ Confirmed(a, leg) \/ Errored(a, leg)
    \/ Settle(a) \/ EnqueueEvents(a) \/ Complete(a)
    \/ Compensate(a) \/ Close(a) \/ Release(a)

Handle(a) == Proceed(a) \/ Lookup(a)

Recover ==
    \/ \E a \in Attempts : Ageing(a)
    \/ RecoveryList
    \/ \E x \in listed : RecoveryMark(x)

SoftDelete ==
    \/ \E a \in Attempts :
        TrashTransfer(a) \/ RestoreTransfer(a) \/ DeleteTransferPermanently(a)
    \/ RestoreAllTransfers
    \/ DeleteAllPermanentTransfers

Next ==
    \/ \E a \in Attempts : Handle(a)
    \/ \E a \in Attempts, leg \in Legs, fate \in {"applied", "refused"} : Execute(a, leg, fate)
    \/ Recover
    \/ SoftDelete
    \/ \E k \in Keys : Expire(k)
    \/ Crash

Spec == Init /\ [][Next]_vars

\* Time passes, the worker's ticker keeps firing, and an UPDATE that is tried
\* in pass after pass does not fail in all of them.  Handlers are not fair.
Fairness ==
    /\ \A a \in Attempts : WF_vars(Ageing(a))
    /\ WF_vars(RecoveryList)
    /\ WF_vars(\E x \in listed : RecoveryMark(x))
    /\ \A a \in Attempts :
        SF_vars(\E x \in listed : x.id = a /\ RecoveryMark(x) /\ row' # row)

FairSpec == Spec /\ Fairness

-----------------------------------------------------------------------------
(* Properties *)

PCs == {"idle", "lookup", "check", "create", "begin", "settle", "events", "complete",
        "compensate", "failed", "quarantine", "give-up", "compensated", "release",
        "done", "dead"} \union Legs

Records == [status : {"absent", "processing", "success"},
            request : SUBSET Requests, transfer : SUBSET Attempts]

\* updated_at orders the existing rows totally.
OlderOK ==
    /\ older \in [Attempts -> SUBSET Rows]
    /\ \A a \in Attempts \ Rows : older[a] = {}
    /\ \A a \in Attempts : a \notin older[a]
    /\ \A a, b \in Rows : a # b => (a \in older[b] <=> b \notin older[a])
    /\ \A a, b \in Attempts : b \in older[a] => older[b] \subseteq older[a]

\* Type invariant; the rows are in one order by updated_at, and only rows age.
TypeOK ==
    /\ pc \in [Attempts -> PCs]
    /\ req \in [Attempts -> SUBSET Requests]
    /\ answer \in [Attempts -> {"none", "ok", "replayed", "error"}]
    /\ row \in [Attempts -> State!Statuses \union {"none"}]
    /\ deleted \in [Attempts -> {"no", "trashed", "purged"}]
    /\ OlderOK
    /\ stale \subseteq Rows
    /\ listed \subseteq [id : Attempts, status : State!Statuses]
    /\ call \in [Attempts -> [Legs -> {"unsent", "sent", "applied", "refused"}]]
    /\ idem \in [Keys -> Records]
    /\ enqueued \in [Attempts -> SUBSET EventKinds]
    /\ expiries \in 0..MaxExpiries

\* No interleaving of late calls, recovery and compensation creates money: the
\* receiver is credited only out of an executed debit, and the sender is paid
\* back only what was taken from the receiver again.
NoMoneyCreated ==
    \A a \in Attempts :
        /\ call[a]["receiver-credit"] # "unsent" => Applied(a, "sender-debit")
        /\ call[a]["receiver-compensation"] # "unsent" => Applied(a, "receiver-credit")
        /\ call[a]["sender-compensation"] # "unsent" => Applied(a, "receiver-compensation")

\* A row's status tells where the money is, except unknown, which claims
\* nothing, and processing and failed, which say nothing of the debit.
StatusMatchesLegs ==
    \A a \in Attempts :
        /\ row[a] = "pending" => \A leg \in Legs : call[a][leg] = "unsent"
        /\ row[a] = "failed" => call[a]["receiver-credit"] = "unsent"
        /\ row[a] \in {"success", "compensating", "compensated"} =>
            Applied(a, "sender-debit") /\ Applied(a, "receiver-credit")
        /\ row[a] \in {"success", "processing", "failed"} =>
            call[a]["receiver-compensation"] = "unsent"
        /\ row[a] = "compensated" => Applied(a, "sender-compensation")

\* A key admits one handler at a time, and its record is that handler's own
\* claim for as long as it runs.
OneHolderPerKey ==
    /\ \A a, b \in Attempts :
        Holds(a) /\ Holds(b) /\ KeyOf(a) = KeyOf(b) => a = b
    /\ \A a \in Attempts : Holds(a) =>
        /\ idem[KeyOf(a)].status = "processing"
        /\ idem[KeyOf(a)].request = req[a]

\* A transfer of the same request really went through.
Settled(a) == row[a] = "success" /\ Applied(a, "sender-debit") /\ Applied(a, "receiver-credit")

\* What is announced has happened: a client told of success (first hand or by
\* replay of a retry) asked for a transfer that is settled, and events exist
\* for settled transfers only.
AnnouncedTruthfully ==
    \A a \in Attempts :
        /\ answer[a] = "ok" \/ enqueued[a] # {} => Settled(a)
        /\ answer[a] = "replayed" =>
            \E b \in Attempts : Settled(b) /\ req[b] = req[a] /\ answer[b] = "ok"

\* However often a client retries under one key, it gets at most one fresh
\* success per lifetime of the key's record.
OneSuccessPerKey ==
    \A k \in Keys :
        Cardinality({a \in Attempts : Keyed(a) /\ KeyOf(a) = k /\ answer[a] = "ok"})
            <= 1 + expiries

\* Handler, compensation and recovery race on a row, and still every change of
\* its status is a legal transition of the command state machine.
FollowsOperationState == State!Spec

\* A row that is not in the trash does not stay processing or compensating.
NoStuckOperation ==
    \A a \in Attempts :
        row[a] \in {"processing", "compensating"} ~>
            row[a] \notin {"processing", "compensating"} \/ deleted[a] # "no"

-----------------------------------------------------------------------------
(* What a comment of the code says and the code does not keep *)

\* "so money is never moved twice": while the key's record has not expired,
\* retries of one key credit the receiver once.
MoneyMovedOncePerKey ==
    expiries = 0 =>
        \A k \in Keys :
            Cardinality({a \in Attempts : Keyed(a) /\ KeyOf(a) = k
                                             /\ Applied(a, "receiver-credit")}) <= 1
=============================================================================
