------------------------ MODULE TransactionSagaProofs ------------------------
(***************************************************************************)
(* Proofs about TransactionSaga, for any sets of attempts, requests, keys  *)
(* and events.  In order: the types; where the money of a payment is       *)
(* (MoneyInv); that rows follow the operation state machine; that a key    *)
(* has one holder; that a key yields one successful row per lifetime of    *)
(* its record (CountInv); and that what is announced is so (AnswerInv).    *)
(***************************************************************************)
EXTENDS TransactionSaga, FiniteSetTheorems, TLAPS

-----------------------------------------------------------------------------
(* Types *)

\* The request of an attempt that has sent one, and its key.
LEMMA RequestType ==
    ASSUME TypeOK, NEW a \in Attempts, req[a] # {}
    PROVE  RequestOf(a) \in Requests /\ req[a] = {RequestOf(a)}
BY DEF TypeOK, RequestOf

\* The key of a keyed attempt has a record, and its request is one.
LEMMA KeyType ==
    ASSUME TypeOK, NEW a \in Attempts, Keyed(a)
    PROVE  /\ KeyOf(a) \in Keys /\ idem[KeyOf(a)] \in Records
           /\ RequestOf(a) \in Requests /\ req[a] = {RequestOf(a)}
<1>1. RequestOf(a) \in Requests /\ req[a] = {RequestOf(a)}
  BY RequestType DEF Keyed
<1>2. KeyOf(a) \in Keys
  BY <1>1 DEF Keyed, KeyOf, Keys
<1> QED
  BY <1>1, <1>2 DEF TypeOK

\* What a statement on the idempotency record of a key leaves is a record.
LEMMA RecordTypes ==
    ASSUME TypeOK, NEW k \in Keys, NEW r \in Requests, NEW a \in Attempts,
           \/ Idem!Claim(k, r) \/ Idem!Release(k, r) \/ Idem!Complete(k, r, a)
    PROVE  idem' \in [Keys -> Records]
<1>1. /\ [status |-> "processing", request |-> {r}, resource |-> {}] \in Records
      /\ [status |-> "success", request |-> {r}, resource |-> {a}] \in Records
      /\ Idem!Absent \in Records
  BY DEF Records, Idem!Absent
<1> QED
  BY <1>1 DEF TypeOK, Idem!Claim, Idem!Release, Idem!Complete

\* So is what an expiry leaves.
LEMMA ExpireTypes ==
    ASSUME TypeOK, NEW k \in Keys, Idem!Expire(k)
    PROVE  idem' \in [Keys -> Records]
BY DEF TypeOK, Idem!Expire, Idem!Absent, Records

\* A guarded update of a row keeps the types of the row's columns.
LEMMA MovedTypes ==
    ASSUME TypeOK, NEW a \in Attempts, NEW from, NEW to, Attempted(a, from, to)
    PROVE  /\ row' \in [Attempts -> State!Statuses \union {"none"}]
           /\ deleted' \in [Attempts -> {"no", "trashed", "purged"}]
<1>1. CASE Moved(a, from, to)
  <2>1. to \in State!Statuses
    BY <1>1 DEF Moved, State!CanTransition, State!AllowedTransitions, State!Statuses
  <2> QED
    BY <1>1, <2>1 DEF Moved, TypeOK
<1>2. CASE UNCHANGED rowVars
  BY <1>2 DEF rowVars, TypeOK
<1> QED
  BY <1>1, <1>2 DEF Attempted

\* Every soft deletion sets deleted_at of some rows and nothing else.
LEMMA SoftDeleteSets ==
    SoftDelete => \E A \in SUBSET Attempts, to \in {"no", "trashed", "purged"} :
                    SetDeleted(A, to)
BY DEF SoftDelete, TrashTransaction, RestoreTransaction, DeleteTransactionPermanently,
       TrashedRows, RestoreAllTransactions, DeleteAllPermanentTransactions

\* Listing, soft deletion and expiry touch neither money nor status, nor what
\* anybody is told.
QuietStep ==
    \/ RecoveryList
    \/ SoftDelete
    \/ \E k \in Keys : Expire(k)
    \/ UNCHANGED vars

\* Such a step leaves the rest alone.
LEMMA QuietSteps == QuietStep => UNCHANGED <<pc, req, answer, row, call, enqueued>>
BY SoftDeleteSets DEF QuietStep, RecoveryList, SetDeleted, Expire, vars, rowVars

\* Before the first request everything is typed.
LEMMA InitTyped == Init => TypeOK
BY ExpiriesAssumption DEF Init, TypeOK, PCs, Legs, Records, Idem!Init, Idem!Absent

\* Every statement of a handler, the recovery worker, the saldo service and a
\* crash keep the types.
LEMMA NextTyped == TypeOK /\ [Next]_vars => TypeOK'
<1> SUFFICES ASSUME TypeOK, [Next]_vars PROVE TypeOK'
  OBVIOUS
<1> USE DEF TypeOK
<1>1. ASSUME NEW a \in Attempts, NEW r \in Requests, Claim(a, r) PROVE TypeOK'
  <2>1. r.key # NoKey => r.key \in Keys
    BY DEF Keys
  <2>2. idem' \in [Keys -> Records]
    BY <1>1, <2>1, RecordTypes DEF Claim
  <2>3. pc' \in [Attempts -> PCs]
    BY <1>1 DEF Claim, Goto, PCs
  <2>4. req' \in [Attempts -> SUBSET Requests] /\ \A b \in Attempts : \A q, s \in req'[b] : q = s
    BY <1>1 DEF Claim
  <2> QED
    BY <1>1, <2>2, <2>3, <2>4 DEF Claim, rowVars
<1>2. ASSUME NEW a \in Attempts, Replay(a) PROVE TypeOK'
  BY <1>2 DEF Replay, Finish, Goto, rowVars, PCs
<1>3. ASSUME NEW a \in Attempts, Check(a) PROVE TypeOK'
  BY <1>3 DEF Check, Goto, Fail, rowVars, PCs
<1>4. ASSUME NEW a \in Attempts, CreateTransaction(a) PROVE TypeOK'
  BY <1>4 DEF CreateTransaction, Goto, Fail, rowVars, PCs, State!Statuses
<1>5. ASSUME NEW a \in Attempts, Begin(a) PROVE TypeOK'
  BY <1>5, MovedTypes DEF Begin, Attempted, Goto, Fail, PCs, Legs
<1>6. ASSUME NEW a \in Attempts, NEW leg \in Legs, Send(a, leg) PROVE TypeOK'
  BY <1>6 DEF Send, rowVars
<1>7. ASSUME NEW a \in Attempts, NEW leg \in Legs, Confirmed(a, leg) PROVE TypeOK'
  BY <1>7 DEF Confirmed, AfterLeg, Goto, rowVars, PCs, Legs
<1>8. ASSUME NEW a \in Attempts, NEW leg \in Legs, Errored(a, leg) PROVE TypeOK'
  BY <1>8 DEF Errored, AfterError, Goto, rowVars, PCs, Legs
<1>9. ASSUME NEW a \in Attempts, FindMerchantCard(a) \/ FindMerchant(a) PROVE TypeOK'
  BY <1>9 DEF FindMerchantCard, FindMerchant, Goto, rowVars, PCs, Legs
<1>10. ASSUME NEW a \in Attempts, Settle(a) PROVE TypeOK'
  BY <1>10, MovedTypes DEF Settle, Attempted, Goto, PCs
<1>11. ASSUME NEW a \in Attempts, EnqueueEvents(a) PROVE TypeOK'
  BY <1>11 DEF EnqueueEvents, Goto, rowVars, PCs
<1>12. ASSUME NEW a \in Attempts, Complete(a) PROVE TypeOK'
  <2>1. idem' \in [Keys -> Records]
    BY <1>12, KeyType, RecordTypes DEF Complete
  <2> QED
    BY <1>12, <2>1 DEF Complete, Finish, Goto, rowVars, PCs
<1>13. ASSUME NEW a \in Attempts, Compensate(a) PROVE TypeOK'
  <2>1. Return(a) \in PCs
    BY DEF Return, PCs
  <2>2. "user-compensation" \in PCs
    BY DEF PCs, Legs
  <2>3. pc' \in [Attempts -> PCs]
    BY <1>13, <2>1, <2>2 DEF Compensate, Goto
  <2> QED
    BY <1>13, <2>3, MovedTypes DEF Compensate, Attempted
<1>14. ASSUME NEW a \in Attempts, Close(a) PROVE TypeOK'
  <2>1. Return(a) \in PCs
    BY DEF Return, PCs
  <2> QED
    BY <1>14, <2>1, MovedTypes DEF Close, Goto, PCs
<1>15. ASSUME NEW a \in Attempts, Release(a) PROVE TypeOK'
  <2>1. idem' \in [Keys -> Records]
    BY <1>15, KeyType, RecordTypes DEF Release
  <2> QED
    BY <1>15, <2>1 DEF Release, Finish, Goto, rowVars, PCs
<1>16. ASSUME NEW a \in Attempts, KeepKey(a) PROVE TypeOK'
  BY <1>16 DEF KeepKey, Finish, Goto, rowVars, PCs
<1>17. ASSUME NEW a \in Attempts, NEW leg \in Legs, NEW fate \in {"applied", "refused"},
              Execute(a, leg, fate)
       PROVE TypeOK'
  BY <1>17 DEF Execute, rowVars
<1>18. ASSUME RecoveryList PROVE TypeOK'
  <2>1. PICK A \in SUBSET {a \in Attempts : State!IsRecoverable(row[a]) /\ deleted[a] = "no"} :
            listed' = {[id |-> a, status |-> row[a]] : a \in A}
    BY <1>18 DEF RecoveryList
  <2>2. ASSUME NEW a \in A
        PROVE  [id |-> a, status |-> row[a]] \in
                    [id : Attempts, status : {"processing", "compensating", "unknown"}]
    BY DEF State!IsRecoverable
  <2>3. listed' \subseteq [id : Attempts, status : {"processing", "compensating", "unknown"}]
    BY <2>1, <2>2
  <2> QED
    BY <1>18, <2>3 DEF RecoveryList, rowVars
<1>19. ASSUME NEW x \in listed, RecoveryMark(x) PROVE TypeOK'
  <2>1. Attempted(x.id, x.status, "unknown")
    BY <1>19 DEF RecoveryMark, Attempted
  <2> QED
    BY <1>19, <2>1, MovedTypes DEF RecoveryMark
<1>20. ASSUME SoftDelete PROVE TypeOK'
  <2>1. PICK A \in SUBSET Attempts, to \in {"no", "trashed", "purged"} : SetDeleted(A, to)
    BY <1>20, SoftDeleteSets
  <2> QED
    BY <2>1 DEF SetDeleted
<1>21. ASSUME NEW k \in Keys, Expire(k) PROVE TypeOK'
  <2>1. idem' \in [Keys -> Records]
    BY <1>21, ExpireTypes DEF Expire
  <2> QED
    BY <1>21, <2>1, ExpiriesAssumption DEF Expire, rowVars
<1>22. ASSUME Crash PROVE TypeOK'
  BY <1>22 DEF Crash, rowVars, PCs
<1>23. CASE UNCHANGED vars
  BY <1>23 DEF vars
<1> HIDE DEF TypeOK
<1> QED
  BY <1>1, <1>2, <1>3, <1>4, <1>5, <1>6, <1>7, <1>8, <1>9, <1>10, <1>11, <1>12, <1>13,
     <1>14, <1>15, <1>16, <1>17, <1>18, <1>19, <1>20, <1>21, <1>22, <1>23
  DEF Next, Handle, Recover

\* A transaction service with any number of handlers and keys stays well typed.
THEOREM TransactionTypeCorrect == Spec => []TypeOK
BY InitTyped, NextTyped, PTL DEF Spec

-----------------------------------------------------------------------------
(* Money *)

\* Where the row of an attempt stands at each of its statements.  The recovery
\* worker may have moved it to unknown since the handler last looked.
RowAtPc ==
    \A a \in Attempts :
        /\ pc[a] \in {"idle", "replay", "check", "create"} => row[a] = "none"
        /\ pc[a] = "begin" => row[a] = "pending"
        /\ pc[a] \in {"user-debit", "failed", "merchant-card", "merchant-credit", "quarantine",
                      "settle"} => row[a] \in {"processing", "unknown"}
        /\ pc[a] = "compensate" => row[a] \in {"processing", "unknown", "success"}
        /\ pc[a] \in {"user-compensation", "merchant-lookup", "merchant-compensation", "give-up",
                      "compensated"} => row[a] \in {"compensating", "unknown"}
        /\ pc[a] \in {"events", "complete"} => row[a] = "success"
        /\ pc[a] = "release" => row[a] # "success"

\* What the handler of an attempt knows of its calls at each of its statements.
LegsAtPc ==
    \A a \in Attempts :
        /\ pc[a] \in {"merchant-card", "merchant-credit", "settle", "compensate",
                      "user-compensation"} => Applied(a, "user-debit")
        /\ pc[a] \in {"user-debit", "failed", "merchant-card"} => ~MerchantCredited(a)
        /\ pc[a] \in {"settle", "merchant-lookup", "merchant-compensation"} =>
            Applied(a, "merchant-credit")
        /\ pc[a] \in {"compensate", "user-compensation"} /\ MerchantCredited(a) =>
            Applied(a, "merchant-credit")
        /\ pc[a] \in {"merchant-lookup", "merchant-compensation", "compensated"} =>
            Applied(a, "user-compensation")
        /\ pc[a] = "compensated" /\ MerchantCredited(a) => Applied(a, "merchant-compensation")

\* What the status of a row says of the calls, whoever set it.
LegsAtRow ==
    \A a \in Attempts :
        /\ row[a] \in {"none", "pending"} => call[a]["user-debit"] = "unsent"
        /\ row[a] \notin {"compensating", "compensated", "unknown"} =>
            call[a]["user-compensation"] = "unsent"
        /\ row[a] = "compensated" /\ MerchantCredited(a) => Applied(a, "merchant-compensation")
        /\ row[a] = "unknown" /\ pc[a] \in {"user-debit", "failed", "merchant-card",
                "merchant-credit", "quarantine", "settle", "compensate"} =>
            call[a]["user-compensation"] = "unsent"

MoneyInv == RowAtPc /\ LegsAtPc /\ LegsAtRow /\ LegsBacked /\ StatusMatchesMoney

\* Before the first request no row exists and no call was sent.
LEMMA InitMoney == Init => MoneyInv
BY DEF Init, MoneyInv, RowAtPc, LegsAtPc, LegsAtRow, LegsBacked, StatusMatchesMoney,
       MerchantCredited, BothHaveIt, Legs

\* Every step keeps the rows, the calls and the program counters in agreement.
LEMMA NextMoney == TypeOK /\ MoneyInv /\ [Next]_vars => MoneyInv'
<1> SUFFICES ASSUME TypeOK, MoneyInv, [Next]_vars PROVE MoneyInv'
  OBVIOUS
<1> USE DEF TypeOK, MoneyInv, RowAtPc, LegsAtPc, LegsAtRow, LegsBacked, StatusMatchesMoney,
            MerchantCredited, BothHaveIt, Applied, Legs
<1>1. ASSUME NEW a \in Attempts, NEW r \in Requests, Claim(a, r) PROVE MoneyInv'
  BY <1>1 DEF Claim, Goto, rowVars
<1>2. ASSUME NEW a \in Attempts, Replay(a) PROVE MoneyInv'
  BY <1>2 DEF Replay, Finish, Goto, rowVars
<1>3. ASSUME NEW a \in Attempts, Check(a) PROVE MoneyInv'
  BY <1>3 DEF Check, Goto, Fail, rowVars
<1>4. ASSUME NEW a \in Attempts, CreateTransaction(a) PROVE MoneyInv'
  BY <1>4 DEF CreateTransaction, Goto, Fail, rowVars
<1>5. ASSUME NEW a \in Attempts, Begin(a) PROVE MoneyInv'
  BY <1>5 DEF Begin, Moved, Goto, Fail, rowVars
<1>6. ASSUME NEW a \in Attempts, NEW leg \in Legs, Send(a, leg) PROVE MoneyInv'
  BY <1>6 DEF Send, rowVars
<1>7. ASSUME NEW a \in Attempts, NEW leg \in Legs, Confirmed(a, leg) PROVE MoneyInv'
  BY <1>7 DEF Confirmed, AfterLeg, Goto, rowVars
<1>8. ASSUME NEW a \in Attempts, NEW leg \in Legs, Errored(a, leg) PROVE MoneyInv'
  BY <1>8 DEF Errored, AfterError, Goto, rowVars
<1>9. ASSUME NEW a \in Attempts, FindMerchantCard(a) \/ FindMerchant(a) PROVE MoneyInv'
  BY <1>9 DEF FindMerchantCard, FindMerchant, Goto, rowVars
<1>10. ASSUME NEW a \in Attempts, Settle(a) PROVE MoneyInv'
  <2>1. CASE Moved(a, "processing", "success") /\ Goto(a, "events")
    BY <1>10, <2>1 DEF Settle, Moved, Goto
  <2>2. CASE Moved(a, "processing", "success") /\ Goto(a, "compensate")
    BY <1>10, <2>2 DEF Settle, Moved, Goto
  <2>3. CASE Goto(a, "compensate") /\ UNCHANGED rowVars
    BY <1>10, <2>3 DEF Settle, Goto, rowVars
  <2> QED
    BY <1>10, <2>1, <2>2, <2>3 DEF Settle
<1>11. ASSUME NEW a \in Attempts, EnqueueEvents(a) PROVE MoneyInv'
  BY <1>11 DEF EnqueueEvents, Goto, rowVars
<1>12. ASSUME NEW a \in Attempts, Complete(a) \/ Release(a) \/ KeepKey(a) PROVE MoneyInv'
  BY <1>12 DEF Complete, Release, KeepKey, Finish, Goto, rowVars
<1>13. ASSUME NEW a \in Attempts, Compensate(a) PROVE MoneyInv'
  <2>1. CASE Moved(a, "processing", "compensating") /\ Goto(a, "user-compensation")
    BY <1>13, <2>1 DEF Compensate, Moved, Goto
  <2>2. CASE Moved(a, "processing", "compensating") /\ Goto(a, Return(a))
    BY <1>13, <2>2 DEF Compensate, Return, Moved, Goto
  <2>3. CASE Goto(a, Return(a)) /\ UNCHANGED rowVars
    BY <1>13, <2>3 DEF Compensate, Return, Goto, rowVars
  <2> QED
    BY <1>13, <2>1, <2>2, <2>3 DEF Compensate
<1>14. ASSUME NEW a \in Attempts, Close(a) PROVE MoneyInv'
  BY <1>14 DEF Close, Closing, Return, Attempted, Moved, Goto, rowVars
<1>15. ASSUME NEW a \in Attempts, NEW leg \in Legs, NEW fate \in {"applied", "refused"},
              Execute(a, leg, fate)
       PROVE MoneyInv'
  BY <1>15 DEF Execute, rowVars
<1>16. ASSUME NEW x \in listed, RecoveryMark(x) PROVE MoneyInv'
  BY <1>16 DEF RecoveryMark, Attempted, Moved, rowVars, State!CanTransition,
               State!AllowedTransitions, State!Statuses
<1>17. ASSUME Crash PROVE MoneyInv'
  BY <1>17 DEF Crash, Running, rowVars
<1>18. ASSUME QuietStep PROVE MoneyInv'
  BY <1>18, QuietSteps
<1> HIDE DEF TypeOK, MoneyInv
<1> QED
  BY <1>1, <1>2, <1>3, <1>4, <1>5, <1>6, <1>7, <1>8, <1>9, <1>10, <1>11, <1>12, <1>13,
     <1>14, <1>15, <1>16, <1>17, <1>18
  DEF Next, Handle, Recover, QuietStep

\* Rows, calls and program counters always agree.
THEOREM MoneyInvHolds == Spec => []MoneyInv
BY InitMoney, NextMoney, TransactionTypeCorrect, PTL DEF Spec

\* Of every transaction: the merchant is paid out of an executed debit, and only
\* what happened is compensated, the user before the merchant.
THEOREM LegsBackedHolds == Spec => []LegsBacked
BY MoneyInvHolds, PTL DEF MoneyInv

\* Of every transaction: money that user and merchant both have is visible in
\* its row, and a row that claims a result claims the right one.
THEOREM StatusMatchesMoneyHolds == Spec => []StatusMatchesMoney
BY MoneyInvHolds, PTL DEF MoneyInv

-----------------------------------------------------------------------------
(* The operation state machine *)

\* Every step changes the status of at most one row, along AllowedTransitions.
LEMMA NextFollows == TypeOK /\ RowAtPc /\ [Next]_vars => [State!Next]_row
<1> SUFFICES ASSUME TypeOK, RowAtPc, [Next]_vars PROVE [State!Next]_row
  OBVIOUS
<1>1. ASSUME NEW a \in Attempts, NEW from, NEW to, Attempted(a, from, to)
      PROVE  [State!Next]_row
  <2>1. CASE Moved(a, from, to)
    <3>1. to \in State!Statuses
      BY <2>1 DEF Moved, State!CanTransition, State!AllowedTransitions, State!Statuses
    <3>2. State!Transition(a)
      BY <2>1, <3>1 DEF Moved, State!Transition
    <3> QED
      BY <3>2 DEF State!Next
  <2> QED
    BY <1>1, <2>1 DEF Attempted, rowVars
<1>2. ASSUME NEW a \in Attempts, CreateTransaction(a) PROVE [State!Next]_row
  BY <1>2 DEF CreateTransaction, RowAtPc, State!Next, State!Create, rowVars
<1>3. ASSUME NEW x \in listed, RecoveryMark(x) PROVE [State!Next]_row
  <2>1. x.id \in Attempts
    BY DEF TypeOK
  <2> QED
    BY <1>1, <1>3, <2>1 DEF RecoveryMark, Attempted
<1>4. ASSUME NEW a \in Attempts, Begin(a) \/ Settle(a) \/ Compensate(a) \/ Close(a)
      PROVE  [State!Next]_row
  BY <1>1, <1>4 DEF Begin, Settle, Compensate, Close, Attempted
<1>5. ASSUME NEW a \in Attempts, NEW leg \in Legs,
             Send(a, leg) \/ Confirmed(a, leg) \/ Errored(a, leg)
      PROVE  UNCHANGED row
  BY <1>5 DEF Send, Confirmed, Errored, rowVars
<1>6. ASSUME NEW a \in Attempts,
             \/ \E r \in Requests : Claim(a, r)
             \/ Replay(a) \/ Check(a) \/ FindMerchantCard(a) \/ EnqueueEvents(a) \/ Complete(a)
             \/ FindMerchant(a) \/ Release(a) \/ KeepKey(a)
      PROVE  UNCHANGED row
  BY <1>6 DEF Claim, Replay, Check, FindMerchantCard, EnqueueEvents, Complete, FindMerchant,
              Release, KeepKey, rowVars
<1>7. ASSUME NEW a \in Attempts, NEW leg \in Legs, NEW fate \in {"applied", "refused"},
             Execute(a, leg, fate)
      PROVE  UNCHANGED row
  BY <1>7 DEF Execute, rowVars
<1>8. Crash => UNCHANGED row
  BY DEF Crash, rowVars
<1> QED
  BY <1>2, <1>3, <1>4, <1>5, <1>6, <1>7, <1>8, QuietSteps
  DEF Next, Handle, Recover, QuietStep

\* The transaction service implements the command state machine too.
THEOREM TransactionFollowsOperationState == Spec => State!Spec
<1>1. Init => State!Init
  BY DEF Init, State!Init
<1> QED
  BY <1>1, NextFollows, TransactionTypeCorrect, MoneyInvHolds, PTL
  DEF Spec, MoneyInv, State!Spec

\* Success is terminal.
LEMMA SuccessForever ==
    ASSUME TypeOK, RowAtPc, [Next]_vars, NEW a \in Attempts, row[a] = "success"
    PROVE  row'[a] = "success"
<1>1. ASSUME NEW b \in Attempts, State!Create(b) \/ State!Transition(b)
      PROVE  row'[a] = "success"
  BY <1>1 DEF TypeOK, State!Create, State!Transition, State!CanTransition,
              State!AllowedTransitions, State!Statuses
<1> QED
  BY <1>1, NextFollows DEF State!Next

\* Only the success marker makes a row successful.
LEMMA SuccessSet ==
    ASSUME TypeOK, [Next]_vars, NEW a \in Attempts, row'[a] = "success", row[a] # "success"
    PROVE  Settle(a) /\ row' = [row EXCEPT ![a] = "success"]
<1>1. ASSUME NEW b \in Attempts, NEW from, NEW to, to # "success", Attempted(b, from, to)
      PROVE  FALSE
  BY <1>1 DEF Attempted, Moved, TypeOK, rowVars
<1>2. ASSUME NEW b \in Attempts, CreateTransaction(b) PROVE FALSE
  BY <1>2 DEF CreateTransaction, TypeOK, rowVars
<1>3. ASSUME NEW b \in Attempts, Begin(b) \/ Compensate(b) PROVE FALSE
  BY <1>1, <1>3 DEF Begin, Compensate, Attempted
<1>4. ASSUME NEW b \in Attempts, Close(b) PROVE FALSE
  BY <1>1, <1>4 DEF Close, Closing
<1>5. ASSUME NEW b \in Attempts, Settle(b)
      PROVE  Settle(a) /\ row' = [row EXCEPT ![a] = "success"]
  BY <1>5 DEF Settle, Moved, TypeOK, rowVars
<1>6. ASSUME NEW x \in listed, RecoveryMark(x) PROVE FALSE
  <2>1. x.id \in Attempts
    BY DEF TypeOK
  <2> QED
    BY <1>1, <1>6, <2>1 DEF RecoveryMark, Attempted
<1>7. ASSUME UNCHANGED row PROVE FALSE
  BY <1>7
<1>8. ASSUME NEW b \in Attempts, NEW leg \in Legs,
             Send(b, leg) \/ Confirmed(b, leg) \/ Errored(b, leg)
      PROVE  FALSE
  BY <1>7, <1>8 DEF Send, Confirmed, Errored, rowVars
<1>9. ASSUME NEW b \in Attempts,
             \/ \E r \in Requests : Claim(b, r)
             \/ Replay(b) \/ Check(b) \/ FindMerchantCard(b) \/ EnqueueEvents(b) \/ Complete(b)
             \/ FindMerchant(b) \/ Release(b) \/ KeepKey(b)
      PROVE  FALSE
  BY <1>7, <1>9 DEF Claim, Replay, Check, FindMerchantCard, EnqueueEvents, Complete, FindMerchant,
              Release, KeepKey, rowVars
<1>10. ASSUME NEW b \in Attempts, NEW leg \in Legs, NEW fate \in {"applied", "refused"},
             Execute(b, leg, fate)
      PROVE  FALSE
  BY <1>7, <1>10 DEF Execute, rowVars
<1>11. ~Crash
  BY <1>7 DEF Crash, rowVars
<1>12. ~QuietStep
  BY <1>7, QuietSteps
<1> QED
  BY <1>2, <1>3, <1>4, <1>5, <1>6, <1>8, <1>9, <1>10, <1>11, <1>12
  DEF Next, Handle, Recover, QuietStep

-----------------------------------------------------------------------------
(* Idempotency keys *)

\* A client is told something when its handler returns, and only a handler whose
\* claim failed although there is a key looks for a response to replay.
AnswerAtPc ==
    \A a \in Attempts :
        /\ answer[a] # "none" => pc[a] = "done"
        /\ pc[a] = "replay" => Keyed(a)

\* A key admits one handler at a time, and its record is that handler's own
\* claim for as long as it runs.
OneHolderPerKey ==
    /\ \A a, b \in Attempts : Holds(a) /\ Holds(b) /\ KeyOf(a) = KeyOf(b) => a = b
    /\ \A a \in Attempts : Holds(a) =>
        /\ idem[KeyOf(a)].status = "processing"
        /\ idem[KeyOf(a)].request = req[a]

\* A request is sent once: it changes in Claim only.
LEMMA RequestsStand ==
    ASSUME TypeOK, [Next]_vars, NEW a \in Attempts, pc[a] # "idle"
    PROVE  /\ req'[a] = req[a] /\ KeyOf(a)' = KeyOf(a) /\ Keyed(a)' = Keyed(a)
           /\ RequestOf(a)' = RequestOf(a)
<1>1. req'[a] = req[a]
  <2>1. ASSUME NEW b \in Attempts, NEW r \in Requests, Claim(b, r) PROVE req'[a] = req[a]
    BY <2>1 DEF Claim, TypeOK
  <2>2. ASSUME NEW b \in Attempts, NEW leg \in Legs,
               Send(b, leg) \/ Confirmed(b, leg) \/ Errored(b, leg)
        PROVE  UNCHANGED req
    BY <2>2 DEF Send, Confirmed, Errored
  <2>3. ASSUME NEW b \in Attempts,
               \/ Replay(b) \/ Check(b) \/ CreateTransaction(b) \/ Begin(b) \/ FindMerchantCard(b)
               \/ Settle(b) \/ EnqueueEvents(b) \/ Complete(b) \/ Compensate(b)
               \/ FindMerchant(b) \/ Close(b) \/ Release(b) \/ KeepKey(b)
        PROVE  UNCHANGED req
    BY <2>3 DEF Replay, Check, CreateTransaction, Begin, FindMerchantCard, Settle, EnqueueEvents,
                Complete, Compensate, FindMerchant, Close, Release, KeepKey
  <2>4. ASSUME NEW b \in Attempts, NEW leg \in Legs, NEW fate \in {"applied", "refused"},
               Execute(b, leg, fate)
        PROVE  UNCHANGED req
    BY <2>4 DEF Execute
  <2>5. ASSUME NEW x \in listed, RecoveryMark(x) PROVE UNCHANGED req
    BY <2>5 DEF RecoveryMark
  <2>6. Crash => UNCHANGED req
    BY DEF Crash
  <2> QED
    BY <2>1, <2>2, <2>3, <2>4, <2>5, <2>6, QuietSteps DEF Next, Handle, Recover, QuietStep
<1> QED
  BY <1>1 DEF KeyOf, Keyed, RequestOf

\* The key of an attempt that has just sent its request.
LEMMA SentKey ==
    ASSUME TypeOK, NEW a \in Attempts, NEW r \in Requests, Claim(a, r)
    PROVE  /\ KeyOf(a)' = r.key
           /\ Keyed(a)' <=> r.key # NoKey
<1>1. req'[a] = {r}
  BY DEF Claim, TypeOK
<1>2. RequestOf(a)' = r
  BY <1>1 DEF RequestOf
<1> QED
  BY <1>1, <1>2 DEF KeyOf, Keyed

\* A step that leaves every key with its record and its holder, if it has one.
KeyQuiet ==
    /\ UNCHANGED <<req, idem, expiries>>
    /\ \A a \in Attempts : Holds(a)' => Holds(a)

\* A handler that returns, with or without its key.
Returns(a) == Release(a) \/ KeepKey(a) \/ Complete(a)

\* Claims, returns and expiries concern the keys.
LEMMA KeySteps ==
    ASSUME TypeOK, AnswerAtPc, [Next]_vars
    PROVE  \/ \E a \in Attempts, r \in Requests : Claim(a, r)
           \/ \E a \in Attempts : Returns(a)
           \/ \E k \in Keys : Expire(k)
           \/ KeyQuiet
<1>1. ASSUME NEW a \in Attempts, NEW to, Running(a), pc[a] # "replay", Goto(a, to),
             UNCHANGED <<req, idem, expiries>>
      PROVE  KeyQuiet
  BY <1>1 DEF Goto, Holds, Running, Keyed, KeyOf, RequestOf, TypeOK, KeyQuiet
<1>2. ASSUME UNCHANGED <<pc, req, idem, expiries>>
      PROVE  KeyQuiet
  BY <1>2 DEF Holds, Running, Keyed, KeyOf, RequestOf, KeyQuiet
<1>3. ASSUME NEW a \in Attempts,
             \/ Check(a) \/ CreateTransaction(a) \/ Begin(a) \/ FindMerchantCard(a) \/ Settle(a)
             \/ EnqueueEvents(a) \/ Compensate(a) \/ FindMerchant(a) \/ Close(a)
      PROVE  KeyQuiet
  BY <1>1, <1>3 DEF Check, CreateTransaction, Begin, FindMerchantCard, Settle, EnqueueEvents,
                    Compensate, FindMerchant, Close, Fail, Running
<1>4. ASSUME NEW a \in Attempts, NEW leg \in Legs, Confirmed(a, leg) \/ Errored(a, leg)
      PROVE  KeyQuiet
  BY <1>1, <1>4 DEF Confirmed, Errored, Running, Legs
<1>5. ASSUME NEW a \in Attempts, NEW leg \in Legs, Send(a, leg) PROVE KeyQuiet
  BY <1>2, <1>5 DEF Send
<1>6. ASSUME NEW a \in Attempts, NEW leg \in Legs, NEW fate \in {"applied", "refused"},
             Execute(a, leg, fate)
      PROVE  KeyQuiet
  BY <1>2, <1>6 DEF Execute
<1>7. ASSUME NEW a \in Attempts, Replay(a) PROVE KeyQuiet
  BY <1>7 DEF Replay, Finish, Goto, Holds, Running, Keyed, KeyOf, RequestOf, TypeOK, KeyQuiet
<1>8. ASSUME NEW x \in listed, RecoveryMark(x) PROVE KeyQuiet
  BY <1>2, <1>8 DEF RecoveryMark
<1>9. ASSUME Crash PROVE KeyQuiet
  BY <1>9 DEF Crash, Holds, Running, Keyed, KeyOf, RequestOf, TypeOK, KeyQuiet
<1>10. ASSUME RecoveryList \/ SoftDelete \/ UNCHANGED vars PROVE KeyQuiet
  BY <1>2, <1>10, SoftDeleteSets DEF RecoveryList, SetDeleted, vars
<1> QED
  BY <1>3, <1>4, <1>5, <1>6, <1>7, <1>8, <1>9, <1>10 DEF Next, Handle, Recover, Returns

\* A claim that starts a handler found no record; it changes no other attempt.
LEMMA ClaimFacts ==
    ASSUME TypeOK, NEW a \in Attempts, NEW r \in Requests, Claim(a, r)
    PROVE  /\ ~Holds(a)
           /\ \A b \in Attempts \ {a} : (Holds(b)' <=> Holds(b)) /\ KeyOf(b)' = KeyOf(b)
           /\ Holds(a)' =>
                /\ KeyOf(a)' = r.key /\ r.key \in Keys /\ idem[r.key].status = "absent"
                /\ idem' = [idem EXCEPT ![r.key] =
                            [status |-> "processing", request |-> {r}, resource |-> {}]]
           /\ \A k \in Keys : idem'[k].status = "absent" => idem[k].status = "absent"
           /\ \A k \in Keys : idem'[k] # idem[k] => idem[k].status = "absent"
<1>1. ~Holds(a)
  BY DEF Claim, Holds, Running
<1>2. \A b \in Attempts \ {a} : req'[b] = req[b] /\ pc'[b] = pc[b]
  BY DEF Claim, Goto, TypeOK
<1>3. \A b \in Attempts \ {a} : (Holds(b)' <=> Holds(b)) /\ KeyOf(b)' = KeyOf(b)
  BY <1>2 DEF Holds, Keyed, KeyOf, RequestOf, Running
<1>4. ASSUME Holds(a)'
      PROVE  /\ KeyOf(a)' = r.key /\ r.key \in Keys /\ idem[r.key].status = "absent"
             /\ idem' = [idem EXCEPT ![r.key] =
                            [status |-> "processing", request |-> {r}, resource |-> {}]]
  <2>1. KeyOf(a)' = r.key /\ r.key # NoKey
    BY <1>4, SentKey DEF Holds
  <2>2. pc'[a] # "replay"
    BY <1>4 DEF Holds
  <2> QED
    BY <2>1, <2>2 DEF Claim, Idem!Claim, Goto, TypeOK, Keys
<1>5. \A k \in Keys : idem'[k] # idem[k] =>
        idem[k].status = "absent" /\ idem'[k].status = "processing"
  BY DEF Claim, Idem!Claim, TypeOK
<1> QED
  BY <1>1, <1>3, <1>4, <1>5

\* A handler that returns gives up its key; it changes no other attempt.
LEMMA ReturnFacts ==
    ASSUME TypeOK, NEW a \in Attempts, Returns(a)
    PROVE  /\ Keyed(a) => Holds(a)
           /\ ~Holds(a)'
           /\ UNCHANGED <<req, row, expiries>>
           /\ \A b \in Attempts \ {a} : Holds(b)' <=> Holds(b)
           /\ \A b \in Attempts : KeyOf(b)' = KeyOf(b) /\ (Keyed(b)' <=> Keyed(b))
           /\ \A k \in Keys : idem'[k] = idem[k] \/ (Keyed(a) /\ k = KeyOf(a))
<1>1. pc' = [pc EXCEPT ![a] = "done"] /\ UNCHANGED <<req, row, expiries>>
  BY DEF Returns, Release, KeepKey, Complete, Finish, Goto, rowVars
<1>2. \A b \in Attempts : KeyOf(b)' = KeyOf(b) /\ (Keyed(b)' <=> Keyed(b))
  BY <1>1 DEF Keyed, KeyOf, RequestOf
<1>3. pc[a] \in {"release", "keep", "complete"}
  BY DEF Returns, Release, KeepKey, Complete
<1>4. \A k \in Keys : idem'[k] = idem[k] \/ (Keyed(a) /\ k = KeyOf(a))
  BY DEF Returns, Release, KeepKey, Complete, TypeOK, Idem!Release, Idem!Complete
<1> QED
  BY <1>1, <1>2, <1>3, <1>4 DEF Holds, Running, TypeOK

\* Before the first request no key is held and nobody was told anything.
LEMMA InitKeys == Init => AnswerAtPc /\ OneHolderPerKey
BY DEF Init, AnswerAtPc, OneHolderPerKey, Holds, Running

\* Answers are given by returning, at no other statement.
LEMMA NextAnswerAtPc == TypeOK /\ AnswerAtPc /\ [Next]_vars => AnswerAtPc'
<1> SUFFICES ASSUME TypeOK, AnswerAtPc, [Next]_vars PROVE AnswerAtPc'
  OBVIOUS
<1> USE DEF TypeOK, AnswerAtPc
<1>1. ASSUME NEW a \in Attempts, NEW r \in Requests, Claim(a, r) PROVE AnswerAtPc'
  <2>1. \A b \in Attempts \ {a} : Keyed(b)' = Keyed(b)
    BY <1>1 DEF Claim, Keyed, KeyOf, RequestOf
  <2> QED
    BY <1>1, <2>1, SentKey DEF Claim, Goto
<1>2. ASSUME UNCHANGED <<pc, req, answer>> PROVE AnswerAtPc'
  BY <1>2 DEF Keyed, KeyOf, RequestOf
<1>3. ASSUME NEW a \in Attempts, NEW to, pc[a] \notin {"idle", "done"}, to # "replay", Goto(a, to),
             UNCHANGED <<req, answer>> \/ (UNCHANGED req /\ \E what : Finish(a, what))
      PROVE  AnswerAtPc'
  <2>1. \A b \in Attempts : Keyed(b)' = Keyed(b)
    BY <1>3 DEF Keyed, KeyOf, RequestOf
  <2>2. \A b \in Attempts \ {a} : pc'[b] = pc[b] /\ answer'[b] = answer[b]
    BY <1>3 DEF Goto, Finish
  <2>3. pc'[a] # "replay" /\ (answer'[a] # "none" => pc'[a] = "done")
    BY <1>3 DEF Goto, Finish
  <2> QED
    BY <2>1, <2>2, <2>3
<1>4. ASSUME NEW a \in Attempts, NEW leg \in Legs, Confirmed(a, leg) \/ Errored(a, leg)
      PROVE  AnswerAtPc'
  BY <1>3, <1>4 DEF Confirmed, Errored, AfterLeg, AfterError, Legs
<1>5. ASSUME NEW a \in Attempts,
             \/ Check(a) \/ CreateTransaction(a) \/ Begin(a) \/ FindMerchantCard(a) \/ Settle(a)
             \/ EnqueueEvents(a) \/ Compensate(a) \/ FindMerchant(a) \/ Close(a)
      PROVE  AnswerAtPc'
  <2>1. Return(a) # "replay"
    BY DEF Return
  <2> QED
    BY <1>3, <1>5, <2>1 DEF Check, CreateTransaction, Begin, FindMerchantCard, Settle,
                EnqueueEvents, Compensate, FindMerchant, Close, Fail
<1>6. ASSUME NEW a \in Attempts, Complete(a) \/ Release(a) \/ KeepKey(a) \/ Replay(a)
      PROVE  AnswerAtPc'
  BY <1>3, <1>6 DEF Complete, Release, KeepKey, Replay, Finish
<1>7. ASSUME NEW a \in Attempts, NEW leg \in Legs, Send(a, leg) PROVE AnswerAtPc'
  BY <1>2, <1>7 DEF Send
<1>8. ASSUME NEW a \in Attempts, NEW leg \in Legs, NEW fate \in {"applied", "refused"},
             Execute(a, leg, fate)
      PROVE  AnswerAtPc'
  BY <1>2, <1>8 DEF Execute
<1>9. ASSUME NEW x \in listed, RecoveryMark(x) PROVE AnswerAtPc'
  BY <1>2, <1>9 DEF RecoveryMark
<1>10. ASSUME Crash PROVE AnswerAtPc'
  <2>1. \A b \in Attempts : Keyed(b)' = Keyed(b)
    BY <1>10 DEF Crash, Keyed, KeyOf, RequestOf
  <2> QED
    BY <1>10, <2>1 DEF Crash, Running
<1>11. ASSUME QuietStep PROVE AnswerAtPc'
  BY <1>2, <1>11, QuietSteps
<1> HIDE DEF TypeOK, AnswerAtPc
<1> QED
  BY <1>1, <1>4, <1>5, <1>6, <1>7, <1>8, <1>9, <1>10, <1>11
  DEF Next, Handle, Recover, QuietStep

\* A key changes hands only through an absent record.
LEMMA NextHolder == TypeOK /\ AnswerAtPc /\ OneHolderPerKey /\ [Next]_vars => OneHolderPerKey'
<1> SUFFICES ASSUME TypeOK, AnswerAtPc, OneHolderPerKey, [Next]_vars PROVE OneHolderPerKey'
  OBVIOUS
<1> USE DEF OneHolderPerKey
<1>1. ASSUME NEW a \in Attempts, NEW r \in Requests, Claim(a, r) PROVE OneHolderPerKey'
  <2>1. req'[a] = {r} /\ \A b \in Attempts \ {a} : req'[b] = req[b]
    BY <1>1 DEF Claim, TypeOK
  <2>2. \A b \in Attempts \ {a} : Holds(b)' => Holds(b) /\ KeyOf(b)' = KeyOf(b) /\ KeyOf(b) \in Keys
    BY <1>1, ClaimFacts, KeyType DEF Holds
  <2>3. Holds(a)' =>
          /\ KeyOf(a)' = r.key /\ r.key \in Keys /\ idem[r.key].status = "absent"
          /\ idem' = [idem EXCEPT ![r.key] =
                            [status |-> "processing", request |-> {r}, resource |-> {}]]
    BY <1>1, ClaimFacts
  <2>4. \A k \in Keys : idem'[k] # idem[k] => idem[k].status = "absent"
    BY <1>1, ClaimFacts
  <2>5. \A b \in Attempts \ {a} : Holds(b)' => idem[KeyOf(b)].status = "processing"
    BY <2>2
  <2>6. ASSUME NEW b \in Attempts, NEW c \in Attempts,
               Holds(b)', Holds(c)', KeyOf(b)' = KeyOf(c)'
        PROVE  b = c
    BY <2>6, <2>2, <2>3, <2>5
  <2>7. ASSUME NEW b \in Attempts, Holds(b)'
        PROVE  idem'[KeyOf(b)'].status = "processing" /\ idem'[KeyOf(b)'].request = req'[b]
    <3>1. CASE b = a
      <4>1. idem'[r.key] = [status |-> "processing", request |-> {r}, resource |-> {}]
        BY <2>7, <2>3, <3>1 DEF TypeOK
      <4>2. KeyOf(b)' = r.key
        BY <2>7, <2>3, <3>1
      <4>3. req'[b] = {r}
        BY <2>1, <3>1
      <4> QED
        BY <4>1, <4>2, <4>3
    <3>2. CASE b # a
      BY <2>1, <2>7, <3>2, <2>2, <2>4, <2>5
    <3> QED BY <3>1, <3>2
  <2> QED BY <2>6, <2>7
<1>2. ASSUME NEW a \in Attempts, Returns(a) PROVE OneHolderPerKey'
  <2>1. ASSUME NEW b \in Attempts, Holds(b)'
        PROVE  Holds(b) /\ KeyOf(b)' = KeyOf(b) /\ KeyOf(b) \in Keys /\ req'[b] = req[b]
               /\ idem'[KeyOf(b)] = idem[KeyOf(b)]
    BY <1>2, <2>1, ReturnFacts, KeyType DEF Holds
  <2> QED BY <2>1
<1>3. ASSUME NEW k \in Keys, Expire(k) PROVE OneHolderPerKey'
  <2>1. \A b \in Attempts : (Holds(b)' <=> Holds(b)) /\ KeyOf(b)' = KeyOf(b) /\ req'[b] = req[b]
    BY <1>3 DEF Expire, Holds, Keyed, KeyOf, RequestOf, Running
  <2> QED BY <1>3, <2>1, KeyType DEF Expire, Idem!Expire, TypeOK, Holds
<1>4. ASSUME KeyQuiet PROVE OneHolderPerKey'
  <2>1. \A b \in Attempts : KeyOf(b)' = KeyOf(b)
    BY <1>4 DEF KeyQuiet, KeyOf, RequestOf
  <2> QED BY <1>4, <2>1 DEF KeyQuiet
<1> HIDE DEF OneHolderPerKey
<1> QED
  BY <1>1, <1>2, <1>3, <1>4, KeySteps

\* For every number of attempts and keys: a key admits one handler at a time, and
\* its record is that handler's own claim for as long as it runs.
THEOREM OneHolderPerKeyHolds == Spec => [](AnswerAtPc /\ OneHolderPerKey)
BY InitKeys, NextAnswerAtPc, NextHolder, TransactionTypeCorrect, PTL DEF Spec

-----------------------------------------------------------------------------
(* One successful row per lifetime of a record *)

\* The successful rows of a key.
SuccessRows(k) == {a \in Attempts : Keyed(a) /\ KeyOf(a) = k /\ row[a] = "success"}

\* No row has become successful under the record that exists now, if any: it is
\* absent, or the row of its handler has not.
Fresh(k) ==
    \/ idem[k].status = "absent"
    \/ \E a \in Attempts : Holds(a) /\ KeyOf(a) = k /\ row[a] # "success"

\* The successful rows of a key are finitely many however many attempts there
\* are, and one fewer than the bound while the next one may be under way.
CountInv ==
    \A k \in Keys :
        /\ IsFiniteSet(SuccessRows(k))
        /\ Cardinality(SuccessRows(k)) <= 1 + expiries
        /\ Fresh(k) => Cardinality(SuccessRows(k)) <= expiries

\* Before the first request there are no rows.
LEMMA InitCount == Init => CountInv
<1> SUFFICES ASSUME Init, NEW k \in Keys
             PROVE  /\ IsFiniteSet(SuccessRows(k)) /\ Cardinality(SuccessRows(k)) = 0
                    /\ expiries = 0
  BY DEF CountInv
<1>1. SuccessRows(k) = {}
  BY DEF Init, SuccessRows
<1> QED
  BY <1>1, FS_EmptySet DEF Init

\* The count of a key whose successful rows stay as they are.
LEMMA CountStays ==
    ASSUME TypeOK, CountInv, NEW k \in Keys, SuccessRows(k)' = SuccessRows(k),
           expiries' = expiries, Fresh(k)' => Fresh(k)
    PROVE  /\ IsFiniteSet(SuccessRows(k)')
           /\ Cardinality(SuccessRows(k)') <= 1 + expiries'
           /\ Fresh(k)' => Cardinality(SuccessRows(k)') <= expiries'
BY DEF CountInv

\* Successful rows and their keys are for ever.
LEMMA SuccessRowsStand ==
    ASSUME TypeOK, RowAtPc, [Next]_vars, NEW k \in Keys,
           \A a \in Attempts : row'[a] = "success" => row[a] = "success"
    PROVE  SuccessRows(k)' = SuccessRows(k)
<1>1. \A a \in Attempts : row[a] = "success" <=> row'[a] = "success"
  BY SuccessForever
<1>2. \A a \in Attempts : row[a] = "success" => KeyOf(a)' = KeyOf(a) /\ Keyed(a)' = Keyed(a)
  BY RequestsStand DEF RowAtPc
<1> QED
  BY <1>1, <1>2 DEF SuccessRows

\* A row becomes successful under the handler that holds the key.
LEMMA SettleCounts ==
    ASSUME TypeOK, AnswerAtPc, OneHolderPerKey, CountInv, NEW k \in Keys, NEW a \in Attempts,
           Settle(a), row[a] # "success", row' = [row EXCEPT ![a] = "success"]
    PROVE  /\ IsFiniteSet(SuccessRows(k)')
           /\ Cardinality(SuccessRows(k)') <= 1 + expiries'
           /\ Fresh(k)' => Cardinality(SuccessRows(k)') <= expiries'
<1>1. UNCHANGED <<req, idem, expiries>>
  BY DEF Settle
<1>2. \A b \in Attempts : KeyOf(b)' = KeyOf(b) /\ Keyed(b)' = Keyed(b)
  BY <1>1 DEF KeyOf, Keyed, RequestOf
<1>3. \A b \in Attempts : Holds(b)' => Holds(b)
  BY <1>2 DEF Settle, Goto, Holds, Running, TypeOK
<1>4. \A b \in Attempts \ {a} : row'[b] = row[b]
  BY DEF TypeOK
<1>5. row'[a] = "success"
  BY DEF TypeOK
<1>6. CASE ~(Keyed(a) /\ KeyOf(a) = k)
  <2>1. SuccessRows(k)' = SuccessRows(k)
    BY <1>2, <1>4, <1>6 DEF SuccessRows
  <2>2. Fresh(k)' => Fresh(k)
    BY <1>1, <1>2, <1>3, <1>4, <1>5 DEF Fresh
  <2> QED
    BY <1>1, <2>1, <2>2, CountStays
<1>7. CASE Keyed(a) /\ KeyOf(a) = k
  <2>1. Holds(a)
    BY <1>7 DEF Settle, Holds, Running
  <2>2. SuccessRows(k)' = SuccessRows(k) \union {a} /\ a \notin SuccessRows(k)
    BY <1>2, <1>4, <1>5, <1>7 DEF SuccessRows
  <2>3. /\ IsFiniteSet(SuccessRows(k)')
        /\ Cardinality(SuccessRows(k)') = Cardinality(SuccessRows(k)) + 1
    BY <2>2, FS_AddElement DEF CountInv
  <2>4. Cardinality(SuccessRows(k)) <= expiries
    BY <1>7, <2>1 DEF CountInv, Fresh
  <2>5. ~Fresh(k)'
    BY <1>1, <1>2, <1>3, <1>5, <1>7, <2>1 DEF Fresh, OneHolderPerKey
  <2>6. Cardinality(SuccessRows(k)) \in Nat /\ expiries \in Nat
    BY FS_CardinalityType, ExpiriesAssumption DEF CountInv, TypeOK
  <2> QED
    BY <1>1, <2>3, <2>4, <2>5, <2>6
<1> QED
  BY <1>6, <1>7

\* Every other step leaves the successful rows of a key as they are, and frees the
\* key for another one only if its handler has not made one.
LEMMA NextCount ==
    TypeOK /\ RowAtPc /\ AnswerAtPc /\ OneHolderPerKey /\ CountInv /\ [Next]_vars => CountInv'
<1> SUFFICES ASSUME TypeOK, RowAtPc, AnswerAtPc, OneHolderPerKey, CountInv, [Next]_vars,
                    NEW k \in Keys
             PROVE  /\ IsFiniteSet(SuccessRows(k)')
                    /\ Cardinality(SuccessRows(k)') <= 1 + expiries'
                    /\ Fresh(k)' => Cardinality(SuccessRows(k)') <= expiries'
  BY DEF CountInv
<1>1. CASE \E a \in Attempts : row'[a] = "success" /\ row[a] # "success"
  BY <1>1, SuccessSet, SettleCounts
<1>2. CASE \A a \in Attempts : row'[a] = "success" => row[a] = "success"
  <2>1. SuccessRows(k)' = SuccessRows(k)
    BY <1>2, SuccessRowsStand
  <2>2. \A a \in Attempts : row'[a] # "success" => row[a] # "success"
    BY SuccessForever
  <2>3. ASSUME NEW a \in Attempts, NEW r \in Requests, Claim(a, r)
        PROVE  UNCHANGED expiries /\ (Fresh(k)' => Fresh(k))
    <3>1. idem'[k].status = "absent" => idem[k].status = "absent"
      BY <2>3, ClaimFacts
    <3>2. ASSUME NEW b \in Attempts, Holds(b)', KeyOf(b)' = k, row'[b] # "success"
          PROVE  Fresh(k)
      <4>1. CASE b = a
        BY <2>3, <3>2, <4>1, ClaimFacts DEF Fresh
      <4>2. CASE b # a
        BY <2>2, <2>3, <3>2, <4>2, ClaimFacts DEF Fresh
      <4> QED
        BY <4>1, <4>2
    <3> QED
      BY <2>3, <3>1, <3>2 DEF Fresh, Claim
  <2>4. ASSUME NEW a \in Attempts, Returns(a)
        PROVE  UNCHANGED expiries /\ (Fresh(k)' => Fresh(k))
    <3>1. ASSUME idem'[k].status = "absent", idem[k].status # "absent" PROVE Fresh(k)
      <4>1. Keyed(a) /\ k = KeyOf(a) /\ Holds(a)
        BY <2>4, <3>1, ReturnFacts
      <4>2. pc[a] = "release"
        BY <2>4, <3>1 DEF Returns, Release, KeepKey, Complete, Idem!Complete, TypeOK
      <4> QED
        BY <4>1, <4>2 DEF RowAtPc, Fresh
    <3>2. ASSUME NEW b \in Attempts, Holds(b)', KeyOf(b)' = k, row'[b] # "success"
          PROVE  Fresh(k)
      <4>1. b # a /\ Holds(b) /\ KeyOf(b) = k
        BY <2>4, <3>2, ReturnFacts
      <4> QED
        BY <2>2, <3>2, <4>1 DEF Fresh
    <3> QED
      BY <2>4, <3>1, <3>2, ReturnFacts DEF Fresh
  <2>5. ASSUME NEW x \in Keys, Expire(x)
        PROVE  /\ IsFiniteSet(SuccessRows(k)')
               /\ Cardinality(SuccessRows(k)') <= 1 + expiries'
               /\ Fresh(k)' => Cardinality(SuccessRows(k)') <= expiries'
    <3>1. expiries' = expiries + 1
      BY <2>5 DEF Expire
    <3>2. Cardinality(SuccessRows(k)) \in Nat /\ expiries \in Nat
      BY FS_CardinalityType, ExpiriesAssumption DEF CountInv, TypeOK
    <3> QED
      BY <2>1, <3>1, <3>2 DEF CountInv
  <2>6. ASSUME KeyQuiet
        PROVE  UNCHANGED expiries /\ (Fresh(k)' => Fresh(k))
    <3>1. \A b \in Attempts : KeyOf(b)' = KeyOf(b)
      BY <2>6 DEF KeyQuiet, KeyOf, RequestOf
    <3> QED
      BY <2>2, <2>6, <3>1 DEF KeyQuiet, Fresh
  <2> QED
    BY <2>1, <2>3, <2>4, <2>5, <2>6, CountStays, KeySteps
<1> QED
  BY <1>1, <1>2

\* The successful rows of a key are always counted by the expiries of its record.
THEOREM CountInvHolds == Spec => []CountInv
BY InitCount, NextCount, TransactionTypeCorrect, MoneyInvHolds, OneHolderPerKeyHolds, PTL
DEF Spec, MoneyInv

\* However many retries there are under one key, and whatever became of the
\* answer to a success marker, at most one row per lifetime of the key's record
\* is successful.
THEOREM OneSuccessRowPerKeyHolds == Spec => []OneSuccessRowPerKey
<1>1. CountInv => OneSuccessRowPerKey
  BY DEF CountInv, OneSuccessRowPerKey, SuccessRows
<1> QED
  BY <1>1, CountInvHolds, PTL

-----------------------------------------------------------------------------
(* What clients and consumers are told *)

\* A stored response is that of a successful row of the stored request.
StoredTruthfully ==
    \A k \in Keys : idem[k].status = "success" =>
        \E b \in Attempts : row[b] = "success" /\ req[b] = idem[k].request

AnswerInv == StoredTruthfully /\ AnnouncedTruthfully

\* How an attempt comes to be told of success, to enqueue events and to replay,
\* and how a record comes to store a response.
Tellings ==
    /\ \A a \in Attempts : answer'[a] = "ok" => answer[a] = "ok" \/ Complete(a)
    /\ \A a \in Attempts : enqueued'[a] # {} => enqueued[a] # {} \/ EnqueueEvents(a)
    /\ \A a \in Attempts :
        answer'[a] = "replayed" =>
            answer[a] = "replayed" \/ (Replay(a) /\ Idem!Replayable(KeyOf(a), RequestOf(a)))
    /\ \A k \in Keys :
        \/ idem'[k] = idem[k]
        \/ idem'[k].status # "success" /\ idem'[k].resource = {}
        \/ \E a \in Attempts :
            Complete(a) /\ KeyOf(a) = k /\ idem'[k].request = req[a] /\ idem'[k].resource = {a}

\* Every step that tells something is one of these.
LEMMA NextTells == ASSUME TypeOK, [Next]_vars PROVE Tellings
<1> USE DEF Tellings
<1>1. ASSUME UNCHANGED <<answer, enqueued, idem>> PROVE Tellings
  BY <1>1
<1>2. ASSUME NEW a \in Attempts, NEW r \in Requests, Claim(a, r) PROVE Tellings
  <2>1. UNCHANGED <<answer, enqueued>>
    BY <1>2 DEF Claim
  <2>2. \A k \in Keys :
            idem'[k] = idem[k] \/ (idem'[k].status # "success" /\ idem'[k].resource = {})
    BY <1>2 DEF Claim, Idem!Claim, TypeOK
  <2> QED
    BY <2>1, <2>2
<1>3. ASSUME NEW a \in Attempts, EnqueueEvents(a) PROVE Tellings
  BY <1>3 DEF EnqueueEvents, TypeOK
<1>4. ASSUME NEW a \in Attempts, Complete(a) PROVE Tellings
  <2>1. \A k \in Keys :
            \/ idem'[k] = idem[k]
            \/ KeyOf(a) = k /\ idem'[k].request = req[a] /\ idem'[k].resource = {a}
    <3>1. CASE UNCHANGED idem
      BY <3>1
    <3>2. CASE Keyed(a) /\ Idem!Complete(KeyOf(a), RequestOf(a), a)
      <4>1. req[a] = {RequestOf(a)}
        BY <3>2, KeyType
      <4> QED
        BY <3>2, <4>1 DEF Idem!Complete, TypeOK
    <3> QED
      BY <1>4, <3>1, <3>2 DEF Complete
  <2>2. answer' = [answer EXCEPT ![a] = "ok"]
    BY <1>4 DEF Complete, Finish
  <2>3. UNCHANGED enqueued
    BY <1>4 DEF Complete
  <2> QED
    BY <1>4, <2>1, <2>2, <2>3 DEF TypeOK
<1>5. ASSUME NEW a \in Attempts, Release(a) \/ KeepKey(a) PROVE Tellings
  <2>1. answer' = [answer EXCEPT ![a] = "error"] /\ UNCHANGED enqueued
    BY <1>5 DEF Release, KeepKey, Finish
  <2>2. \A k \in Keys :
            idem'[k] = idem[k] \/ (idem'[k].status # "success" /\ idem'[k].resource = {})
    BY <1>5, KeyType DEF Release, KeepKey, Idem!Release, Idem!Absent, TypeOK
  <2> QED
    BY <2>1, <2>2 DEF TypeOK
<1>6. ASSUME NEW a \in Attempts, Replay(a) PROVE Tellings
  BY <1>6 DEF Replay, Finish, TypeOK
<1>7. ASSUME NEW k \in Keys, Expire(k) PROVE Tellings
  BY <1>7 DEF Expire, Idem!Expire, Idem!Absent, TypeOK
<1>8. ASSUME NEW a \in Attempts,
             \/ Check(a) \/ CreateTransaction(a) \/ Begin(a) \/ FindMerchantCard(a) \/ Settle(a)
             \/ Compensate(a) \/ FindMerchant(a) \/ Close(a)
             \/ \E leg \in Legs : Send(a, leg) \/ Confirmed(a, leg) \/ Errored(a, leg)
             \/ \E leg \in Legs, fate \in {"applied", "refused"} : Execute(a, leg, fate)
      PROVE  Tellings
  BY <1>1, <1>8 DEF Check, CreateTransaction, Begin, FindMerchantCard, Settle, Compensate,
                    FindMerchant, Close, Send, Confirmed, Errored, Execute
<1>9. ASSUME \/ Crash \/ SoftDelete \/ RecoveryList \/ UNCHANGED vars
             \/ \E x \in listed : RecoveryMark(x)
      PROVE  Tellings
  BY <1>1, <1>9, SoftDeleteSets DEF Crash, SetDeleted, RecoveryList, RecoveryMark, vars
<1> HIDE DEF Tellings
<1> QED
  BY <1>2, <1>3, <1>4, <1>5, <1>6, <1>7, <1>8, <1>9 DEF Next, Handle, Recover

\* Before the first request nobody was told anything.
LEMMA InitAnswers == Init => AnswerInv
BY DEF Init, AnswerInv, StoredTruthfully, AnnouncedTruthfully, Idem!Init, Idem!Absent

\* What is announced stays true, and is true when it is announced.
LEMMA NextAnswers == TypeOK /\ RowAtPc /\ AnswerAtPc /\ AnswerInv /\ [Next]_vars => AnswerInv'
<1> SUFFICES ASSUME TypeOK, RowAtPc, AnswerAtPc, StoredTruthfully, AnnouncedTruthfully,
                    [Next]_vars
             PROVE  AnswerInv'
  BY DEF AnswerInv
<1>1. \A a \in Attempts : row[a] = "success" =>
        row'[a] = "success" /\ req'[a] = req[a] /\ KeyOf(a)' = KeyOf(a)
  BY SuccessForever, RequestsStand DEF RowAtPc
<1>2. Tellings
  BY NextTells
<1>3. \A a \in Attempts : Complete(a) \/ EnqueueEvents(a) => row[a] = "success"
  BY DEF Complete, EnqueueEvents, RowAtPc
<1>4. ASSUME NEW k \in Keys, idem'[k].status = "success"
      PROVE  \E b \in Attempts : row'[b] = "success" /\ req'[b] = idem'[k].request
  <2>1. CASE idem'[k] = idem[k]
    <3>1. PICK b \in Attempts : row[b] = "success" /\ req[b] = idem[k].request
      BY <1>4, <2>1 DEF StoredTruthfully
    <3> QED
      BY <1>1, <2>1, <3>1
  <2>2. ASSUME NEW a \in Attempts, Complete(a), idem'[k].request = req[a]
        PROVE  \E b \in Attempts : row'[b] = "success" /\ req'[b] = idem'[k].request
    BY <1>1, <1>3, <2>2
  <2> QED
    BY <1>2, <1>4, <2>1, <2>2 DEF Tellings
<1>5. ASSUME NEW a \in Attempts, answer'[a] = "ok" \/ enqueued'[a] # {}
      PROVE  row'[a] = "success"
  BY <1>1, <1>2, <1>3, <1>5 DEF AnnouncedTruthfully, Tellings
<1>6. ASSUME NEW a \in Attempts, answer'[a] = "replayed"
      PROVE  \E b \in Attempts : row'[b] = "success" /\ req'[b] = req'[a]
  <2>1. req'[a] = req[a]
    <3>1. CASE answer[a] = "replayed"
      BY <3>1, RequestsStand DEF AnswerAtPc
    <3>2. CASE Replay(a)
      BY <3>2 DEF Replay
    <3> QED
      BY <1>2, <1>6, <3>1, <3>2 DEF Tellings
  <2>2. \E b \in Attempts : row[b] = "success" /\ req[b] = req[a]
    <3>1. CASE answer[a] = "replayed"
      BY <3>1 DEF AnnouncedTruthfully
    <3>2. CASE Replay(a) /\ Idem!Replayable(KeyOf(a), RequestOf(a))
      <4>1. KeyOf(a) \in Keys /\ req[a] = {RequestOf(a)}
        BY <3>2, KeyType DEF Replay, AnswerAtPc
      <4> QED
        BY <3>2, <4>1 DEF Idem!Replayable, StoredTruthfully
    <3> QED
      BY <1>2, <1>6, <3>1, <3>2 DEF Tellings
  <2> QED
    BY <1>1, <2>1, <2>2
<1>7. ASSUME NEW a \in Attempts, NEW k \in Keys, a \in idem'[k].resource
      PROVE  row'[a] = "success" /\ KeyOf(a)' = k
  <2>1. CASE idem'[k] = idem[k]
    BY <1>1, <1>7, <2>1 DEF AnnouncedTruthfully
  <2>2. ASSUME NEW b \in Attempts, Complete(b), KeyOf(b) = k, idem'[k].resource = {b}
        PROVE  row'[a] = "success" /\ KeyOf(a)' = k
    BY <1>1, <1>3, <1>7, <2>2
  <2> QED
    BY <1>2, <1>7, <2>1, <2>2 DEF Tellings
<1> QED
  BY <1>4, <1>5, <1>6, <1>7 DEF AnswerInv, StoredTruthfully, AnnouncedTruthfully

\* Answers and stored responses are always true.
THEOREM AnswerInvHolds == Spec => []AnswerInv
BY InitAnswers, NextAnswers, TransactionTypeCorrect, MoneyInvHolds, OneHolderPerKeyHolds, PTL
DEF Spec, MoneyInv

\* Clients and consumers are told of settled transactions only, a retry is
\* answered by replay only if the very request it repeats went through, and a
\* stored answer names a row of its own key.
THEOREM AnnouncedTruthfullyHolds == Spec => []AnnouncedTruthfully
BY AnswerInvHolds, PTL DEF AnswerInv

=============================================================================
