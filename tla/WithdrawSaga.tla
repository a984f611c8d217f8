---------------------------- MODULE WithdrawSaga ----------------------------
(***************************************************************************)
(* Create and Update of the withdraw service                               *)
(* (service/withdraw/service/withdrawCommandService.go).  Create: claim    *)
(* the key, check the daily limit, debit the card, insert the row, mark it *)
(* successful; undo the debit when the row or its mark fails.  Update:     *)
(* read the row, check the limit, write the amount, mark the row           *)
(* successful.                                                             *)
(*                                                                         *)
(* Unlike transfers and transactions the debit comes before the row, so    *)
(* its operation id is made of what the client sent: card, time and        *)
(* amount.  Requests that agree in time and amount share their operations  *)
(* in the saldo service, where each of them is executed at most once.      *)
(* What an update moves in the saldo service has operation ids of its own  *)
(* and is the subject of AmountUpdate; here only its answers matter.       *)
(* One card, one day, no key expires.                                      *)
(***************************************************************************)
EXTENDS Integers, FiniteSets, FiniteSetsExt

CONSTANTS
    Withdrawals,       \* handler executions, and the rows they create
    WithdrawRequests,  \* what a client may send: records [key, time, amount]
    NoWithdrawKey,     \* the key of a request without Idempotency-Key
    Updates,           \* handler executions of Update
    DailyLimit         \* WITHDRAW_DAILY_LIMIT

ASSUME WithdrawAssumption ==
    /\ DailyLimit \in Nat \ {0}
    /\ \A r \in WithdrawRequests : r.amount \in Nat \ {0}

VARIABLES
    wpc,       \* wpc[w]: what attempt w does next
    wreq,      \* wreq[w]: its request, {} before it starts
    wanswer,   \* wanswer[w]: what the client was told
    wrow,      \* wrow[w]: withdraws.status, "none" before the insert
    wdeleted,  \* wdeleted[w]: deleted_at: no, trashed, or the row is purged
    wsent,     \* operations asked of the saldo service
    wledger,   \* operations the saldo service executed
    wkeys,     \* the idempotency records
    wevents,   \* withdrawals whose events are in the outbox
    wamount,   \* wamount[w]: withdraws.withdraw_amount
    wtoday,    \* wtoday[w]: the row is one of this card and this day
    upc,       \* upc[u]: what update u does next
    uask,      \* uask[u]: its row, what it read and what it asks for, {} before it starts
    wmarking,  \* rows a goroutine is about to mark failed
    wdisturbed \* history: handlers overlapped, a row was restored, or an update
               \* of a row that does not count passed its checks

wcreateVars == <<wpc, wreq, wanswer, wsent, wledger, wkeys, wevents>>
wrowVars == <<wrow, wdeleted, wamount, wtoday>>
wupdateVars == <<upc, uask, wmarking>>
withdrawVars == <<wcreateVars, wrowVars, wupdateVars, wdisturbed>>

WithdrawKeys == {r.key : r \in WithdrawRequests} \ {NoWithdrawKey}
WithdrawLegs == {"debit", "rollback-create", "rollback-status"}
WithdrawAmounts == {r.amount : r \in WithdrawRequests}

WithdrawIdem == INSTANCE IdempotencyStore WITH Keys <- WithdrawKeys, idem <- wkeys

WithdrawRequest(w) == CHOOSE r \in wreq[w] : TRUE
WithdrawKeyed(w) == wreq[w] # {} /\ WithdrawRequest(w).key # NoWithdrawKey
WithdrawRunning(w) == wpc[w] \notin {"idle", "done", "dead"}

\* "withdraw:" card ":" time ":" amount [":rollback-create" | ":rollback-status"]
Operation(w, leg) ==
    [leg |-> leg, time |-> WithdrawRequest(w).time, amount |-> WithdrawRequest(w).amount]

Asked(u) == CHOOSE a \in uask[u] : TRUE
UpdateRunning(u) == upc[u] \in {"check", "row", "status"}

\* GetTodayWithdrawSumByCardNumber, and the rows it adds up.
CountedToday == {w \in Withdrawals : wrow[w] = "success" /\ wdeleted[w] = "no" /\ wtoday[w]}

TodayWithdrawSum == MapThenSumSet(LAMBDA w : wamount[w], CountedToday)

WithdrawInit ==
    /\ wpc = [w \in Withdrawals |-> "idle"]
    /\ wreq = [w \in Withdrawals |-> {}]
    /\ wanswer = [w \in Withdrawals |-> "none"]
    /\ wrow = [w \in Withdrawals |-> "none"]
    /\ wdeleted = [w \in Withdrawals |-> "no"]
    /\ wsent = {}
    /\ wledger = {}
    /\ WithdrawIdem!Init
    /\ wevents = {}
    /\ wamount = [w \in Withdrawals |-> 0]
    /\ wtoday = [w \in Withdrawals |-> TRUE]
    /\ upc = [u \in Updates |-> "idle"]
    /\ uask = [u \in Updates |-> {}]
    /\ wmarking = {}
    /\ wdisturbed = FALSE

WithdrawGoto(w, to) == wpc' = [wpc EXCEPT ![w] = to]

WithdrawAnswer(w, what) ==
    /\ WithdrawGoto(w, "done")
    /\ wanswer' = [wanswer EXCEPT ![w] = what]

-----------------------------------------------------------------------------
ClaimWithdraw(w, r) ==
    /\ wpc[w] = "idle"
    /\ wreq' = [wreq EXCEPT ![w] = {r}]
    /\ IF r.key = NoWithdrawKey
         THEN WithdrawGoto(w, "check") /\ UNCHANGED wkeys
         ELSE \/ WithdrawIdem!Claim(r.key, r) /\ (WithdrawGoto(w, "check") \/ WithdrawGoto(w, "replay"))
              \/ WithdrawGoto(w, "replay") /\ UNCHANGED wkeys
    /\ UNCHANGED <<wanswer, wsent, wledger, wevents, wrowVars, wupdateVars>>

ReplayWithdraw(w) ==
    /\ wpc[w] = "replay"
    /\ \/ /\ WithdrawIdem!Replayable(WithdrawRequest(w).key, WithdrawRequest(w))
          /\ WithdrawAnswer(w, "replayed")
       \/ WithdrawAnswer(w, "error")
    /\ UNCHANGED <<wreq, wsent, wledger, wkeys, wevents, wrowVars, wupdateVars>>

WithinLimit(w) == TodayWithdrawSum + WithdrawRequest(w).amount <= DailyLimit

\* Amount, card, owner, balance, limit and security checks: they write nothing
\* and any of them may refuse.
CheckWithdraw(w) ==
    /\ wpc[w] = "check"
    /\ \/ WithinLimit(w) /\ WithdrawGoto(w, "debit")
       \/ WithdrawGoto(w, "release")
    /\ UNCHANGED <<wreq, wanswer, wsent, wledger, wkeys, wevents, wrowVars, wupdateVars>>

SendWithdraw(w, leg) ==
    /\ wpc[w] = leg
    /\ Operation(w, leg) \notin wsent
    /\ wsent' = wsent \union {Operation(w, leg)}
    /\ UNCHANGED <<wpc, wreq, wanswer, wledger, wkeys, wevents, wrowVars, wupdateVars>>

\* A call is executed at any later time, or never; a repetition finds the
\* ledger entry and moves nothing.
ExecuteWithdraw(op) ==
    /\ op \in wsent \ wledger
    /\ wledger' = wledger \union {op}
    /\ UNCHANGED <<wpc, wreq, wanswer, wsent, wkeys, wevents, wrowVars, wupdateVars>>

\* The saldo service confirms the operation, or finds it executed before.
WithdrawConfirmed(w, leg) ==
    /\ wpc[w] = leg
    /\ Operation(w, leg) \in wledger
    /\ WithdrawGoto(w, IF leg = "debit" THEN "create" ELSE "release")
    /\ UNCHANGED <<wreq, wanswer, wsent, wledger, wkeys, wevents, wrowVars, wupdateVars>>

\* Wrong: a debit that seems to have failed is rolled back.
MutWithdrawErrored(w, leg) ==
    /\ wpc[w] = leg
    /\ WithdrawGoto(w, IF leg = "debit" THEN "rollback-create" ELSE "release")
    /\ UNCHANGED <<wreq, wanswer, wsent, wledger, wkeys, wevents, wrowVars, wupdateVars>>

\* The caller sees an error, whatever becomes of the call; a rollback is not
\* repeated.
WithdrawErrored(w, leg) ==
    /\ wpc[w] = leg
    /\ WithdrawGoto(w, "release")
    /\ UNCHANGED <<wreq, wanswer, wsent, wledger, wkeys, wevents, wrowVars, wupdateVars>>

\* The row is inserted pending; its error may hide a committed insert.
CreateWithdraw(w) ==
    /\ wpc[w] = "create"
    /\ \/ /\ wrow' = [wrow EXCEPT ![w] = "pending"]
          /\ wamount' = [wamount EXCEPT ![w] = WithdrawRequest(w).amount]
          /\ WithdrawGoto(w, "status") \/ WithdrawGoto(w, "rollback-create")
       \/ WithdrawGoto(w, "rollback-create") /\ UNCHANGED <<wrow, wamount>>
    /\ UNCHANGED <<wreq, wanswer, wdeleted, wtoday, wsent, wledger, wkeys, wevents, wupdateVars>>

\* Wrong: the events are enqueued although the mark failed.
MutUpdateWithdrawStatus(w) ==
    /\ wpc[w] = "status"
    /\ wrow' \in {wrow, [wrow EXCEPT ![w] = "success"]}
    /\ WithdrawGoto(w, "events") \/ WithdrawGoto(w, "rollback-status")
    /\ UNCHANGED <<wreq, wanswer, wdeleted, wamount, wtoday, wsent, wledger, wkeys, wevents, wupdateVars>>

\* UpdateWithdrawStatus to success, of a row that is not deleted; its error may
\* hide a committed update.
UpdateWithdrawStatus(w) ==
    /\ wpc[w] = "status"
    /\ \/ /\ wdeleted[w] = "no"
          /\ wrow' = [wrow EXCEPT ![w] = "success"]
          /\ WithdrawGoto(w, "events") \/ WithdrawGoto(w, "rollback-status")
       \/ WithdrawGoto(w, "rollback-status") /\ UNCHANGED wrow
    /\ UNCHANGED <<wreq, wanswer, wdeleted, wamount, wtoday, wsent, wledger, wkeys, wevents, wupdateVars>>

EnqueueWithdrawEvents(w) ==
    /\ wpc[w] = "events"
    /\ WithdrawGoto(w, "complete")
    /\ wevents' \in {wevents, wevents \union {w}}
    /\ UNCHANGED <<wreq, wanswer, wsent, wledger, wkeys, wrowVars, wupdateVars>>

CompleteWithdraw(w) ==
    /\ wpc[w] = "complete"
    /\ WithdrawAnswer(w, "ok")
    /\ \/ UNCHANGED wkeys
       \/ WithdrawKeyed(w) /\ WithdrawIdem!Complete(WithdrawRequest(w).key, WithdrawRequest(w), w)
    /\ UNCHANGED <<wreq, wsent, wledger, wevents, wrowVars, wupdateVars>>

ReleaseWithdraw(w) ==
    /\ wpc[w] = "release"
    /\ WithdrawAnswer(w, "error")
    /\ \/ UNCHANGED wkeys
       \/ WithdrawKeyed(w) /\ WithdrawIdem!Release(WithdrawRequest(w).key, WithdrawRequest(w))
    /\ UNCHANGED <<wreq, wsent, wledger, wevents, wrowVars, wupdateVars>>

\* A handler dies with its process.  Nothing recovers a withdrawal.
CrashWithdraw(w) ==
    /\ WithdrawRunning(w)
    /\ WithdrawGoto(w, "dead")
    /\ UNCHANGED <<wreq, wanswer, wsent, wledger, wkeys, wevents, wrowVars, wupdateVars>>

\* Soft deletion asks for no status and moves no money; it may come at any time.
SetWithdrawDeleted(W, to) ==
    /\ W # {}
    /\ wdeleted' = [w \in Withdrawals |-> IF w \in W THEN to ELSE wdeleted[w]]
    /\ UNCHANGED <<wcreateVars, wrow, wamount, wtoday, wupdateVars>>

TrashedWithdraws == {w \in Withdrawals : wdeleted[w] = "trashed"}

TrashWithdraw(w) == wrow[w] # "none" /\ wdeleted[w] = "no" /\ SetWithdrawDeleted({w}, "trashed")
RestoreWithdraw(w) == SetWithdrawDeleted(TrashedWithdraws \intersect {w}, "no")
DeleteWithdrawPermanently(w) == SetWithdrawDeleted(TrashedWithdraws \intersect {w}, "purged")
RestoreAllWithdraws == SetWithdrawDeleted(TrashedWithdraws, "no")
DeleteAllPermanentWithdraws == SetWithdrawDeleted(TrashedWithdraws, "purged")

-----------------------------------------------------------------------------
(* Update *)

UpdateGoto(u, to) == upc' = [upc EXCEPT ![u] = to]

\* The update returns an error; markWithdrawAsFailed starts the goroutine.
FailUpdate(u, w) ==
    /\ UpdateGoto(u, "done")
    /\ wmarking' = wmarking \union {w}

\* FindById of a row that is not deleted, whatever its status.  The request names
\* amount, card and time; today: the row will be one of this card and this day.
\* An amount that ValidateAmount refuses leaves everything as it was.
ReadWithdraw(u, w, n, today) ==
    /\ upc[u] = "idle"
    /\ uask' = [uask EXCEPT ![u] = {[row |-> w, old |-> wamount[w], new |-> n, today |-> today]}]
    /\ \/ /\ wrow[w] # "none" /\ wdeleted[w] = "no"
          /\ UpdateGoto(u, "check") /\ UNCHANGED wmarking
       \/ FailUpdate(u, w)
    /\ UNCHANGED <<wcreateVars, wrowVars>>

\* Wrong: the sum is compared without the difference.
MutUpdateWithinLimit(a) == a.today /\ a.new > a.old => TodayWithdrawSum <= DailyLimit

\* Only an increase is checked, by its difference, whether or not the row is one
\* of those summed; on another card it is that card's sum, of which nothing is
\* known here.
UpdateWithinLimit(a) ==
    a.today /\ a.new > a.old => TodayWithdrawSum + (a.new - a.old) <= DailyLimit

\* Balance, limit and the answer of the saldo service to the movement.
CheckUpdate(u) ==
    /\ upc[u] = "check"
    /\ \/ UpdateWithinLimit(Asked(u)) /\ UpdateGoto(u, "row") /\ UNCHANGED wmarking
       \/ FailUpdate(u, Asked(u).row)
    /\ UNCHANGED <<wcreateVars, wrowVars, uask>>

\* UpdateWithdraw of a row that is not deleted; its error may hide a committed
\* update.  The movement is taken back; where that fails the row is not marked.
UpdateWithdraw(u) ==
    LET a == Asked(u)
        Failed == \/ FailUpdate(u, a.row)
                  \/ a.new # a.old /\ UpdateGoto(u, "done") /\ UNCHANGED wmarking
    IN /\ upc[u] = "row"
       /\ \/ /\ wdeleted[a.row] = "no"
             /\ wamount' = [wamount EXCEPT ![a.row] = a.new]
             /\ wtoday' = [wtoday EXCEPT ![a.row] = a.today]
             /\ (UpdateGoto(u, "status") /\ UNCHANGED wmarking) \/ Failed
          \/ Failed /\ UNCHANGED <<wamount, wtoday>>
       /\ UNCHANGED <<wcreateVars, wrow, wdeleted, uask>>

\* UpdateWithdrawStatus to success, whatever the status was.  Where it fails the
\* movement is taken back and the row is not marked.
SettleUpdate(u) ==
    /\ upc[u] = "status"
    /\ UpdateGoto(u, "done")
    /\ \/ wdeleted[Asked(u).row] = "no" /\ wrow' = [wrow EXCEPT ![Asked(u).row] = "success"]
       \/ UNCHANGED wrow
    /\ UNCHANGED <<wcreateVars, wdeleted, wamount, wtoday, uask, wmarking>>

\* The goroutine's unguarded update, which may fail, time out or die.
MarkWithdrawAsFailed(w) ==
    /\ w \in wmarking
    /\ wmarking' = wmarking \ {w}
    /\ \/ /\ wrow[w] # "none" /\ wdeleted[w] = "no"
          /\ wrow' = [wrow EXCEPT ![w] = "failed"]
       \/ UNCHANGED wrow
    /\ UNCHANGED <<wcreateVars, wdeleted, wamount, wtoday, upc, uask>>

CrashUpdate(u) ==
    /\ UpdateRunning(u)
    /\ UpdateGoto(u, "dead")
    /\ UNCHANGED <<wcreateVars, wrowVars, uask, wmarking>>

-----------------------------------------------------------------------------
HandleWithdraw(w) ==
    \/ \E r \in WithdrawRequests : ClaimWithdraw(w, r)
    \/ ReplayWithdraw(w) \/ CheckWithdraw(w)
    \/ \E leg \in WithdrawLegs :
        SendWithdraw(w, leg) \/ WithdrawConfirmed(w, leg) \/ WithdrawErrored(w, leg)
    \/ CreateWithdraw(w) \/ UpdateWithdrawStatus(w) \/ EnqueueWithdrawEvents(w)
    \/ CompleteWithdraw(w) \/ ReleaseWithdraw(w)

SoftDeleteWithdraws ==
    \/ \E w \in Withdrawals :
        TrashWithdraw(w) \/ RestoreWithdraw(w) \/ DeleteWithdrawPermanently(w)
    \/ RestoreAllWithdraws
    \/ DeleteAllPermanentWithdraws

HandleUpdate(u) ==
    \/ \E w \in Withdrawals, n \in WithdrawAmounts, today \in BOOLEAN : ReadWithdraw(u, w, n, today)
    \/ CheckUpdate(u) \/ UpdateWithdraw(u) \/ SettleUpdate(u) \/ CrashUpdate(u)

\* Two handlers run at the same time.
WithdrawsOverlap ==
    \/ \E v, w \in Withdrawals : v # w /\ WithdrawRunning(v) /\ WithdrawRunning(w)
    \/ \E t, u \in Updates : t # u /\ UpdateRunning(t) /\ UpdateRunning(u)
    \/ \E w \in Withdrawals, u \in Updates : WithdrawRunning(w) /\ UpdateRunning(u)

\* A withdrawal leaves the trash and counts again, whatever came since.
WithdrawRestored == \E w \in Withdrawals : wdeleted[w] # "no" /\ wdeleted'[w] = "no"

\* An update passes its checks although the sum is without its row: the row is
\* pending, failed, in the trash, or of another card or day.
UncountedUpdated ==
    \E u \in Updates : upc[u] = "check" /\ upc'[u] = "row" /\ Asked(u).row \notin CountedToday

WithdrawNext ==
    /\ \/ \E w \in Withdrawals : HandleWithdraw(w) \/ CrashWithdraw(w) \/ MarkWithdrawAsFailed(w)
       \/ \E u \in Updates : HandleUpdate(u)
       \/ SoftDeleteWithdraws
       \/ \E op \in wsent : ExecuteWithdraw(op)
    /\ wdisturbed' = (wdisturbed \/ WithdrawsOverlap' \/ WithdrawRestored \/ UncountedUpdated)

WithdrawSpec == WithdrawInit /\ [][WithdrawNext]_withdrawVars

-----------------------------------------------------------------------------
(* Properties *)

WithdrawPCs == {"idle", "replay", "check", "create", "status", "events", "complete",
                "release", "done", "dead"} \union WithdrawLegs

Operations == [leg : WithdrawLegs, time : {r.time : r \in WithdrawRequests},
               amount : WithdrawAmounts]

Asks == [row : Withdrawals, old : WithdrawAmounts \union {0}, new : WithdrawAmounts, today : BOOLEAN]

WithdrawRecords == [status : {"absent", "processing", "success"},
                    request : SUBSET WithdrawRequests, resource : SUBSET Withdrawals]

\* The types of the variables; a request is one record.
WithdrawTypeOK ==
    /\ wpc \in [Withdrawals -> WithdrawPCs]
    /\ wreq \in [Withdrawals -> SUBSET WithdrawRequests]
    /\ \A w \in Withdrawals : \A r, s \in wreq[w] : r = s
    /\ wanswer \in [Withdrawals -> {"none", "ok", "replayed", "error"}]
    /\ wrow \in [Withdrawals -> {"none", "pending", "success", "failed"}]
    /\ wdeleted \in [Withdrawals -> {"no", "trashed", "purged"}]
    /\ wsent \subseteq Operations
    /\ wledger \subseteq wsent
    /\ wkeys \in [WithdrawKeys -> WithdrawRecords]
    /\ wevents \subseteq Withdrawals
    /\ wamount \in [Withdrawals -> WithdrawAmounts \union {0}]
    /\ wtoday \in [Withdrawals -> BOOLEAN]
    /\ upc \in [Updates -> {"idle", "check", "row", "status", "done", "dead"}]
    /\ uask \in [Updates -> SUBSET Asks]
    /\ \A u \in Updates : \A a, b \in uask[u] : a = b
    /\ wmarking \subseteq Withdrawals

\* Wherever the answer of the debit got lost, the card is credited back only
\* for a debit that was executed.
WithdrawRollbackBacked ==
    \A op \in wsent : op.leg # "debit" => [op EXCEPT !.leg = "debit"] \in wledger

\* Same time and amount: the same operations in the saldo service.
SameOperations(v, w) == wreq[v] # {} /\ wreq[w] # {} /\ Operation(v, "debit") = Operation(w, "debit")

\* Debits minus credits that the saldo service executed for the request of w.
NetDebits(w) ==
    Cardinality({"debit"} \intersect {l \in WithdrawLegs : Operation(w, l) \in wledger})
    - Cardinality({l \in WithdrawLegs \ {"debit"} : Operation(w, l) \in wledger})

\* Some update was asked for this row.
Updated(w) == \E u \in Updates : \E a \in uask[u] : a.row = w

\* A withdrawal whose time and amount were sent once, and that its client's answer
\* or an event calls successful, stays debited for good, and its row successful
\* unless an update was asked for it; and no rollback has ever credited more than
\* was debited.
UnrepeatedWithdrawalPaid ==
    \A w \in Withdrawals :
        (wreq[w] # {} /\ \A v \in Withdrawals : SameOperations(v, w) => v = w) =>
            /\ NetDebits(w) >= 0
            /\ wanswer[w] = "ok" \/ w \in wevents =>
                NetDebits(w) = 1 /\ (wrow[w] = "success" \/ Updated(w))

-----------------------------------------------------------------------------
(* What the documents say, and how much of it the code keeps                 *)

\* "sum(today's successful withdrawals) + new amount <= limit".
DailyLimitKept == TodayWithdrawSum <= DailyLimit

\* It holds as long as no two handlers of the card ran at the same time, no row
\* was restored from the trash, and no update passed its checks for a row that the
\* sum did not contain, even when handlers crash, are retried and lose their
\* answers, and whatever updates of counted rows, increases or not, do and leave
\* to their goroutines.  Each of the three is enough to pass the limit: an update
\* makes a pending or failed row successful and checks its difference at most.
SerialLimitKept == ~wdisturbed => DailyLimitKept

\* "The ledger entry from DebitSaldo plus the withdraws table row are the source
\* of truth": every withdrawal answered ok has a debit in the ledger that stands.
EveryWithdrawalPaid ==
    \A w \in Withdrawals :
        wreq[w] # {} =>
            Cardinality({v \in Withdrawals : SameOperations(v, w) /\ wanswer[v] = "ok"})
                <= (IF NetDebits(w) < 0 THEN 0 ELSE NetDebits(w))
=============================================================================
