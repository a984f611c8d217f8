-------------------------- MODULE TransferSagaProofs --------------------------
(***************************************************************************)
(* Proofs about TransferSaga, for every set of attempts (finite or not), of *)
(* requests and of event kinds, and every bound.                           *)
(*                                                                         *)
(*   TransferTypeCorrect        TypeOK: the rows are totally ordered       *)
(*   NoMoneyCreatedHolds        a leg is sent only on an executed one      *)
(*   StatusMatchesLegsHolds     a row's status tells where the money is    *)
(*   FollowsOperationStateHolds the service implements OperationState      *)
(*   AnnouncedTruthfullyHolds   what is announced has happened             *)
(*   OneHolderPerKeyHolds       a key admits one handler at a time         *)
(*   OneSuccessPerKeyHolds      a key yields one success per record        *)
(*                                                                         *)
(* The argument.  NoMoneyCreated and StatusMatchesLegs speak of rows and   *)
(* calls only and are not inductive: a handler acts on what it saw some    *)
(* statements ago.  RowAtPc and LegsAtPc say what is still true of it at   *)
(* each statement, although recovery may have moved the row meanwhile;     *)
(* with them MoneyInv is inductive.  That success is terminal follows from *)
(* the refinement of OperationState, and with it what was announced once   *)
(* stays true.  For the keys, KeySteps reduces the actions to the four     *)
(* that touch a record; CountInv adds to the bound that it is not reached  *)
(* while the record is absent or its handler has not returned.             *)
(*                                                                         *)
(* Liveness (NoStuckOperation) stays with TLC.                             *)
(***************************************************************************)
EXTENDS TransferSaga, FiniteSetTheorems, TLAPS

-----------------------------------------------------------------------------
(* Types *)

\* What is in hand about the key of an attempt that has sent a request with one.
LEMMA KeyType ==
    ASSUME TypeOK, NEW a \in Attempts, Keyed(a)
    PROVE  KeyOf(a) \in Keys /\ idem[KeyOf(a)] \in Records
<1>1. RequestOf(a) \in req[a] /\ req[a] \subseteq Requests
  BY DEF TypeOK, RequestOf, Keyed
<1>2. KeyOf(a) \in Keys
  BY <1>1 DEF Keyed, KeyOf, Keys
<1> QED
  BY <1>2 DEF TypeOK

\* The record of an unused key is a record.
LEMMA AbsentType == Absent \in Records
BY DEF Absent, Records

\* A row that is entered or moved becomes the newest, and the rows stay in one
\* order by updated_at.
LEMMA TouchOrders ==
    ASSUME TypeOK, NEW a \in Attempts, NEW s \in State!Statuses,
           row' = [row EXCEPT ![a] = s], Touch(a)
    PROVE  OlderOK' /\ stale' \subseteq Rows'
<1> USE DEF TypeOK, State!Statuses
<1>1. Rows' = Rows \union {a}
  BY DEF Rows
<1> HIDE DEF State!Statuses
<1>2. stale' \subseteq Rows'
  BY <1>1 DEF Touch
<1>3. /\ older' \in [Attempts -> SUBSET Rows']
      /\ \A b \in Attempts \ Rows' : older'[b] = {}
      /\ \A b \in Attempts : b \notin older'[b]
  BY <1>1 DEF Touch, OlderOK, Rows
<1>4. ASSUME NEW b \in Rows', NEW c \in Rows', b # c
      PROVE  b \in older'[c] <=> c \notin older'[b]
  BY <1>1, <1>4 DEF Touch, OlderOK, Rows
<1>5. ASSUME NEW b \in Attempts, NEW c \in Attempts, c \in older'[b]
      PROVE  older'[c] \subseteq older'[b]
  BY <1>1, <1>5 DEF Touch, OlderOK, Rows
<1> QED
  BY <1>2, <1>3, <1>4, <1>5 DEF OlderOK

\* The conjuncts of TypeOK about the transfers table.
RowsOK ==
    /\ row \in [Attempts -> State!Statuses \union {"none"}]
    /\ deleted \in [Attempts -> {"no", "trashed", "purged"}]
    /\ OlderOK
    /\ stale \subseteq Rows

\* A step that does not write the table keeps them.
LEMMA RowsKept ==
    ASSUME TypeOK, UNCHANGED rowVars
    PROVE  RowsOK'
BY DEF TypeOK, RowsOK, rowVars, OlderOK, Rows

\* A guarded update of a row keeps the types of the row's columns.
LEMMA MovedTypes ==
    ASSUME TypeOK, NEW a \in Attempts, NEW from, NEW to, Attempted(a, from, to)
    PROVE  RowsOK'
<1>1. CASE Moved(a, from, to)
  <2>1. to \in State!Statuses
    BY <1>1 DEF Moved, State!CanTransition, State!AllowedTransitions, State!Statuses
  <2> QED
    BY <1>1, <2>1, TouchOrders DEF Moved, TypeOK, RowsOK
<1>2. CASE UNCHANGED rowVars
  BY <1>2, RowsKept
<1> QED
  BY <1>1, <1>2 DEF Attempted

\* Every soft deletion sets deleted_at of some rows and nothing else.
LEMMA SoftDeleteSets ==
    SoftDelete => \E A \in SUBSET Attempts, to \in {"no", "trashed", "purged"} :
                    SetDeleted(A, to)
BY DEF SoftDelete, TrashTransfer, RestoreTransfer, DeleteTransferPermanently, TrashedRows,
       RestoreAllTransfers, DeleteAllPermanentTransfers

\* Ageing, listing, soft deletion and expiry touch neither money nor status, nor
\* what anybody is told.
QuietStep ==
    \/ \E a \in Attempts : Ageing(a)
    \/ RecoveryList
    \/ SoftDelete
    \/ \E k \in Keys : Expire(k)
    \/ UNCHANGED vars

\* Such a step leaves the rest alone.
LEMMA QuietSteps == QuietStep => UNCHANGED <<pc, req, answer, row, call, enqueued>>
BY SoftDeleteSets DEF QuietStep, Ageing, RecoveryList, SetDeleted, Expire, vars, rowVars

\* Before the first request everything is typed.
LEMMA InitTyped == Init => TypeOK
BY BoundsAssumption DEF Init, TypeOK, OlderOK, Rows, Absent, PCs, Legs, Records

\* Every statement of a handler, the recovery worker, the saldo service and a
\* crash keep the types.
LEMMA NextTyped == TypeOK /\ [Next]_vars => TypeOK'
<1> SUFFICES ASSUME TypeOK, [Next]_vars PROVE TypeOK'
  OBVIOUS
<1> USE DEF TypeOK, RowsOK
<1>1. ASSUME NEW a \in Attempts, NEW r \in Requests, Claim(a, r) PROVE TypeOK'
  <2>1. r.key # NoKey => r.key \in Keys
    BY DEF Keys
  <2>2. [status |-> "processing", request |-> {r}, transfer |-> {}] \in Records
    BY DEF Records
  <2>3. idem' \in [Keys -> Records]
    BY <1>1, <2>1, <2>2 DEF Claim
  <2>4. pc' \in [Attempts -> PCs] /\ req' \in [Attempts -> SUBSET Requests]
    BY <1>1 DEF Claim, Goto, PCs
  <2> QED
    BY <1>1, <2>3, <2>4, RowsKept DEF Claim
<1>2. ASSUME NEW a \in Attempts, Check(a) PROVE TypeOK'
  BY <1>2, RowsKept DEF Check, Goto, Fail, PCs
<1>3. ASSUME NEW a \in Attempts, CreateTransfer(a) PROVE TypeOK'
  <2>1. CASE UNCHANGED rowVars
    BY <1>3, <2>1, RowsKept DEF CreateTransfer, Goto, Fail, PCs
  <2>2. CASE row' = [row EXCEPT ![a] = "pending"] /\ Touch(a) /\ UNCHANGED deleted
    <3>1. "pending" \in State!Statuses
      BY DEF State!Statuses
    <3>2. OlderOK' /\ stale' \subseteq Rows'
      BY <2>2, <3>1, TouchOrders
    <3> QED
      BY <1>3, <2>2, <3>1, <3>2 DEF CreateTransfer, Goto, Fail, PCs
  <2> QED
    BY <1>3, <2>1, <2>2 DEF CreateTransfer
<1>4. ASSUME NEW a \in Attempts, Begin(a) PROVE TypeOK'
  BY <1>4, MovedTypes DEF Begin, Attempted, Goto, Fail, PCs, Legs
<1>5. ASSUME NEW a \in Attempts, NEW leg \in Legs, Send(a, leg) PROVE TypeOK'
  BY <1>5, RowsKept DEF Send
<1>6. ASSUME NEW a \in Attempts, NEW leg \in Legs, Confirmed(a, leg) PROVE TypeOK'
  BY <1>6, RowsKept DEF Confirmed, AfterLeg, Goto, PCs, Legs
<1>7. ASSUME NEW a \in Attempts, NEW leg \in Legs, Errored(a, leg) PROVE TypeOK'
  BY <1>7, RowsKept DEF Errored, AfterError, Goto, PCs, Legs
<1>8. ASSUME NEW a \in Attempts, Settle(a) PROVE TypeOK'
  BY <1>8, MovedTypes DEF Settle, Attempted, Goto, PCs
<1>9. ASSUME NEW a \in Attempts, EnqueueEvents(a) PROVE TypeOK'
  BY <1>9, RowsKept DEF EnqueueEvents, Goto, PCs
<1>10. ASSUME NEW a \in Attempts, Complete(a) PROVE TypeOK'
  <2>1. [status |-> "success", request |-> req[a], transfer |-> {a}] \in Records
    BY DEF Records
  <2>2. idem' \in [Keys -> Records]
    BY <1>10, <2>1, KeyType DEF Complete
  <2> QED
    BY <1>10, <2>2, RowsKept DEF Complete, Finish, Goto, PCs
<1>11. ASSUME NEW a \in Attempts, Compensate(a) PROVE TypeOK'
  BY <1>11, MovedTypes DEF Compensate, Attempted, Goto, Fail, PCs, Legs
<1>12. ASSUME NEW a \in Attempts, Close(a) PROVE TypeOK'
  BY <1>12, MovedTypes DEF Close, Goto, Fail, PCs
<1>13. ASSUME NEW a \in Attempts, Release(a) PROVE TypeOK'
  <2>1. idem' \in [Keys -> Records]
    BY <1>13, KeyType, AbsentType DEF Release
  <2> QED
    BY <1>13, <2>1, RowsKept DEF Release, Finish, Goto, PCs
<1>14. ASSUME NEW a \in Attempts, Lookup(a) PROVE TypeOK'
  BY <1>14, RowsKept DEF Lookup, Finish, Goto, PCs
<1>15. ASSUME NEW a \in Attempts, NEW leg \in Legs, NEW fate \in {"applied", "refused"},
              Execute(a, leg, fate)
       PROVE TypeOK'
  BY <1>15, RowsKept DEF Execute
<1>16. ASSUME NEW a \in Attempts, Ageing(a) PROVE TypeOK'
  BY <1>16 DEF Ageing, OlderOK, Rows
<1>17. ASSUME RecoveryList PROVE TypeOK'
  <2>1. listed' \subseteq [id : Attempts, status : State!Statuses]
    <3>1. ASSUME NEW b \in Attempts, Recoverable(b)
          PROVE  [id |-> b, status |-> row[b]] \in [id : Attempts, status : State!Statuses]
      BY <3>1 DEF Recoverable, State!IsRecoverable, State!Statuses
    <3> QED
      BY <1>17, <3>1 DEF RecoveryList
  <2> QED
    BY <1>17, <2>1, RowsKept DEF RecoveryList
<1>18. ASSUME NEW x \in listed, RecoveryMark(x) PROVE TypeOK'
  <2>1. Attempted(x.id, x.status, "unknown")
    BY <1>18 DEF RecoveryMark, Attempted
  <2> QED
    BY <1>18, <2>1, MovedTypes DEF RecoveryMark
<1>19. ASSUME SoftDelete PROVE TypeOK'
  <2>1. PICK A \in SUBSET Attempts, to \in {"no", "trashed", "purged"} : SetDeleted(A, to)
    BY <1>19, SoftDeleteSets
  <2> QED
    BY <2>1 DEF SetDeleted, OlderOK, Rows
<1>20. ASSUME NEW k \in Keys, Expire(k) PROVE TypeOK'
  BY <1>20, BoundsAssumption, RowsKept, AbsentType DEF Expire
<1>21. ASSUME Crash PROVE TypeOK'
  BY <1>21, RowsKept DEF Crash, PCs
<1>22. CASE UNCHANGED vars
  BY <1>22, RowsKept DEF vars, rowVars
<1> QED
  BY <1>1, <1>2, <1>3, <1>4, <1>5, <1>6, <1>7, <1>8, <1>9, <1>10, <1>11, <1>12, <1>13,
     <1>14, <1>15, <1>16, <1>17, <1>18, <1>19, <1>20, <1>21, <1>22
  DEF Next, Handle, Proceed, Recover

\* The rows of a transfer service with any number of handlers, keys and event
\* kinds stay well typed, in one order by updated_at.
THEOREM TransferTypeCorrect == Spec => []TypeOK
BY InitTyped, NextTyped, PTL DEF Spec
-----------------------------------------------------------------------------
(* Money *)

\* Where the row of an attempt stands at each of its statements.  The recovery
\* worker may have moved it to unknown since the handler last looked.
RowAtPc ==
    \A a \in Attempts :
        /\ pc[a] \in {"idle", "lookup", "check", "create"} => row[a] = "none"
        /\ pc[a] = "begin" => row[a] = "pending"
        /\ pc[a] \in {"sender-debit", "failed", "receiver-credit", "quarantine", "settle"} =>
            row[a] \in {"processing", "unknown"}
        /\ pc[a] = "compensate" => row[a] \in {"processing", "unknown", "success"}
        /\ pc[a] \in {"receiver-compensation", "sender-compensation", "give-up", "compensated"} =>
            row[a] \in {"compensating", "unknown"}
        /\ pc[a] \in {"events", "complete"} => row[a] = "success"

\* What the handler of an attempt knows of its calls at each of its statements.
LegsAtPc ==
    \A a \in Attempts :
        /\ pc[a] \in {"receiver-credit", "settle", "compensate", "receiver-compensation",
                      "sender-compensation", "compensated"} => Applied(a, "sender-debit")
        /\ pc[a] \in {"settle", "compensate", "receiver-compensation",
                      "sender-compensation", "compensated"} => Applied(a, "receiver-credit")
        /\ pc[a] \in {"sender-compensation", "compensated"} => Applied(a, "receiver-compensation")
        /\ pc[a] = "compensated" => Applied(a, "sender-compensation")
        /\ pc[a] \in {"sender-debit", "failed"} => call[a]["receiver-credit"] = "unsent"
        /\ pc[a] \in {"sender-debit", "failed", "receiver-credit", "quarantine", "settle",
                      "compensate"} => call[a]["receiver-compensation"] = "unsent"
        /\ row[a] = "none" => \A leg \in Legs : call[a][leg] = "unsent"

MoneyInv == RowAtPc /\ LegsAtPc /\ NoMoneyCreated /\ StatusMatchesLegs

\* Before the first request no row exists and no call was sent.
LEMMA InitMoney == Init => MoneyInv
BY DEF Init, MoneyInv, RowAtPc, LegsAtPc, NoMoneyCreated, StatusMatchesLegs, Legs

\* Every step keeps the rows, the calls and the program counters in agreement.
LEMMA NextMoney == TypeOK /\ MoneyInv /\ [Next]_vars => MoneyInv'
<1> SUFFICES ASSUME TypeOK, MoneyInv, [Next]_vars PROVE MoneyInv'
  OBVIOUS
<1> USE DEF TypeOK, MoneyInv, RowAtPc, LegsAtPc, NoMoneyCreated, StatusMatchesLegs, Applied, Legs
<1>1. ASSUME NEW a \in Attempts, NEW r \in Requests, Claim(a, r) PROVE MoneyInv'
  BY <1>1 DEF Claim, Goto, rowVars
<1>2. ASSUME NEW a \in Attempts, Check(a) PROVE MoneyInv'
  BY <1>2 DEF Check, Goto, Fail, rowVars
<1>3. ASSUME NEW a \in Attempts, CreateTransfer(a) PROVE MoneyInv'
  BY <1>3 DEF CreateTransfer, Goto, Fail, rowVars
<1>4. ASSUME NEW a \in Attempts, Begin(a) PROVE MoneyInv'
  BY <1>4 DEF Begin, Moved, Guarded, Goto, Fail, rowVars
<1>5. ASSUME NEW a \in Attempts, NEW leg \in Legs, Send(a, leg) PROVE MoneyInv'
  BY <1>5 DEF Send, rowVars
<1>6. ASSUME NEW a \in Attempts, NEW leg \in Legs, Confirmed(a, leg) PROVE MoneyInv'
  BY <1>6 DEF Confirmed, AfterLeg, Goto, rowVars
<1>7. ASSUME NEW a \in Attempts, NEW leg \in Legs, Errored(a, leg) PROVE MoneyInv'
  BY <1>7 DEF Errored, AfterError, Goto, rowVars
<1>8. ASSUME NEW a \in Attempts, Settle(a) PROVE MoneyInv'
  BY <1>8 DEF Settle, Moved, Guarded, Goto, rowVars
<1>9. ASSUME NEW a \in Attempts, EnqueueEvents(a) PROVE MoneyInv'
  BY <1>9 DEF EnqueueEvents, Goto, rowVars
<1>10. ASSUME NEW a \in Attempts, Complete(a) PROVE MoneyInv'
  BY <1>10 DEF Complete, Finish, Goto, rowVars
<1>11. ASSUME NEW a \in Attempts, Compensate(a) PROVE MoneyInv'
  BY <1>11 DEF Compensate, Moved, Guarded, Goto, Fail, rowVars
<1>12. ASSUME NEW a \in Attempts, Close(a) PROVE MoneyInv'
  BY <1>12 DEF Close, Closing, Attempted, Moved, Guarded, Goto, Fail, rowVars
<1>13. ASSUME NEW a \in Attempts, Release(a) PROVE MoneyInv'
  BY <1>13 DEF Release, Finish, Goto, rowVars
<1>14. ASSUME NEW a \in Attempts, Lookup(a) PROVE MoneyInv'
  BY <1>14 DEF Lookup, Finish, Goto, rowVars
<1>15. ASSUME NEW a \in Attempts, NEW leg \in Legs, NEW fate \in {"applied", "refused"},
              Execute(a, leg, fate)
       PROVE MoneyInv'
  BY <1>15 DEF Execute, rowVars
<1>16. ASSUME NEW x \in listed, RecoveryMark(x) PROVE MoneyInv'
  BY <1>16 DEF RecoveryMark, Attempted, Moved, Guarded, rowVars, State!CanTransition, State!AllowedTransitions, State!Statuses
<1>17. ASSUME Crash PROVE MoneyInv'
  BY <1>17 DEF Crash, Running, rowVars
<1>18. ASSUME QuietStep PROVE MoneyInv'
  BY <1>18, QuietSteps
<1> HIDE DEF TypeOK, MoneyInv
<1> QED
  BY <1>1, <1>2, <1>3, <1>4, <1>5, <1>6, <1>7, <1>8, <1>9, <1>10, <1>11, <1>12, <1>13,
     <1>14, <1>15, <1>16, <1>17, <1>18
  DEF Next, Handle, Proceed, Recover, QuietStep

\* Rows, calls and program counters always agree.
THEOREM MoneyInvHolds == Spec => []MoneyInv
BY InitMoney, NextMoney, TransferTypeCorrect, PTL DEF Spec

\* Of every transfer, whatever its handler, the recovery worker and late calls
\* do: the receiver is credited only out of an executed debit, and the sender
\* is paid back only what was taken from the receiver again.
THEOREM NoMoneyCreatedHolds == Spec => []NoMoneyCreated
BY MoneyInvHolds, PTL DEF MoneyInv

\* Of every transfer, the status of its row tells where the money is.
THEOREM StatusMatchesLegsHolds == Spec => []StatusMatchesLegs
BY MoneyInvHolds, PTL DEF MoneyInv

-----------------------------------------------------------------------------
(* The operation state machine *)

\* Every step changes the status of at most one row, along AllowedTransitions.
LEMMA NextFollows == TypeOK /\ RowAtPc /\ [Next]_vars => [State!Next]_row
<1> SUFFICES ASSUME TypeOK, RowAtPc, [Next]_vars PROVE [State!Next]_row
  OBVIOUS
<1>1. ASSUME NEW a \in Attempts, NEW from, NEW to, Attempted(a, from, to)
      PROVE  [State!Next]_row
  <2>1. CASE Moved(a, from, to)
    <3>1. to \in State!Statuses
      BY <2>1 DEF Moved, State!CanTransition, State!AllowedTransitions, State!Statuses
    <3>2. State!Transition(a)
      BY <2>1, <3>1 DEF Moved, Guarded, State!Transition
    <3> QED
      BY <3>2 DEF State!Next
  <2> QED
    BY <1>1, <2>1 DEF Attempted, rowVars
<1>2. ASSUME NEW a \in Attempts, CreateTransfer(a) PROVE [State!Next]_row
  BY <1>2 DEF CreateTransfer, RowAtPc, State!Next, State!Create, rowVars
<1>3. ASSUME NEW x \in listed, RecoveryMark(x) PROVE [State!Next]_row
  <2>1. x.id \in Attempts
    BY DEF TypeOK
  <2> QED
    BY <1>1, <1>3, <2>1 DEF RecoveryMark, Attempted
<1>4. ASSUME NEW a \in Attempts, Begin(a) \/ Settle(a) \/ Compensate(a) \/ Close(a)
      PROVE  [State!Next]_row
  BY <1>1, <1>4 DEF Begin, Settle, Compensate, Close, Attempted
<1>5. ASSUME NEW a \in Attempts, NEW leg \in Legs,
             Send(a, leg) \/ Confirmed(a, leg) \/ Errored(a, leg)
      PROVE  UNCHANGED row
  BY <1>5 DEF Send, Confirmed, Errored, rowVars
<1>6. ASSUME NEW a \in Attempts,
             \/ \E r \in Requests : Claim(a, r)
             \/ Check(a) \/ EnqueueEvents(a) \/ Complete(a) \/ Release(a) \/ Lookup(a)
      PROVE  UNCHANGED row
  BY <1>6 DEF Claim, Check, EnqueueEvents, Complete, Release, Lookup, rowVars
<1>7. ASSUME NEW a \in Attempts, NEW leg \in Legs, NEW fate \in {"applied", "refused"},
             Execute(a, leg, fate)
      PROVE  UNCHANGED row
  BY <1>7 DEF Execute, rowVars
<1>8. Crash => UNCHANGED row
  BY DEF Crash, rowVars
<1> QED
  BY <1>2, <1>3, <1>4, <1>5, <1>6, <1>7, <1>8, QuietSteps
  DEF Next, Handle, Proceed, Recover, QuietStep

\* The service implements the command state machine: handler, compensation and
\* recovery race on a row, and every change of its status is a legal transition.
THEOREM FollowsOperationStateHolds == Spec => FollowsOperationState
<1>1. Init => State!Init
  BY DEF Init, State!Init
<1> QED
  BY <1>1, NextFollows, TransferTypeCorrect, MoneyInvHolds, PTL
  DEF Spec, MoneyInv, FollowsOperationState, State!Spec

-----------------------------------------------------------------------------
(* What clients and consumers are told *)

\* Calls change when they are sent and when the saldo service answers, only.
LEMMA CallSteps ==
    ASSUME [Next]_vars
    PROVE  \/ \E a \in Attempts, leg \in Legs : Send(a, leg)
           \/ \E a \in Attempts, leg \in Legs, fate \in {"applied", "refused"} :
                Execute(a, leg, fate)
           \/ UNCHANGED call
<1>1. ASSUME NEW a \in Attempts, Proceed(a)
      PROVE  UNCHANGED call \/ \E leg \in Legs : Send(a, leg)
  BY <1>1 DEF Proceed, Claim, Check, CreateTransfer, Begin, Confirmed, Errored, Settle,
              EnqueueEvents, Complete, Compensate, Close, Release
<1>2. ASSUME NEW a \in Attempts, Lookup(a) PROVE UNCHANGED call
  BY <1>2 DEF Lookup
<1>3. ASSUME NEW x \in listed, RecoveryMark(x) PROVE UNCHANGED call
  BY <1>3 DEF RecoveryMark
<1>4. Crash => UNCHANGED call
  BY DEF Crash
<1> QED
  BY <1>1, <1>2, <1>3, <1>4, QuietSteps DEF Next, Handle, Recover, QuietStep

\* A settled transfer stays settled: success is terminal, and calls are not undone.
LEMMA SettledForever ==
    ASSUME TypeOK, RowAtPc, [Next]_vars, NEW a \in Attempts, Settled(a)
    PROVE  Settled(a)'
<1>1. row'[a] = "success"
  <2>1. CASE UNCHANGED row
    BY <2>1 DEF Settled
  <2>2. ASSUME NEW b \in Attempts, State!Create(b) \/ State!Transition(b)
        PROVE  row'[a] = "success"
    BY <2>2 DEF TypeOK, Settled, State!Create, State!Transition, State!CanTransition,
                State!AllowedTransitions, State!Statuses
  <2> QED
    BY <2>1, <2>2, NextFollows DEF State!Next
<1>2. ASSUME NEW leg \in Legs, Applied(a, leg) PROVE Applied(a, leg)'
  BY <1>2, CallSteps DEF TypeOK, Applied, Send, Execute
<1> QED
  BY <1>1, <1>2 DEF Settled, Legs

\* The key of an attempt that has just sent its request.
LEMMA SentKey ==
    ASSUME TypeOK, NEW a \in Attempts, NEW r \in Requests, Claim(a, r)
    PROVE  /\ KeyOf(a)' = r.key
           /\ Keyed(a)' <=> r.key # NoKey
<1>1. req'[a] = {r}
  BY DEF Claim, TypeOK
<1>2. RequestOf(a)' = r
  BY <1>1 DEF RequestOf
<1> QED
  BY <1>1, <1>2 DEF KeyOf, Keyed

\* A client is told something when its handler returns, and only a handler whose
\* claim failed although there is a key looks the key up.
AnswerAtPc ==
    \A a \in Attempts :
        /\ answer[a] # "none" => pc[a] = "done"
        /\ pc[a] = "lookup" => Keyed(a)

\* A stored response is that of a settled transfer of the stored request.
StoredTruthfully ==
    \A k \in Keys : idem[k].status = "success" =>
        \E b \in Attempts : Settled(b) /\ req[b] = idem[k].request /\ answer[b] = "ok"

AnswerInv == AnswerAtPc /\ StoredTruthfully /\ AnnouncedTruthfully

\* A step that leaves every key with its record and its holder, if it has one.
KeyQuiet ==
    /\ UNCHANGED <<req, idem, expiries>>
    /\ \A a \in Attempts : Holds(a)' => Holds(a)
    /\ \A a \in Attempts : answer'[a] = "ok" <=> answer[a] = "ok"

\* Four actions concern the keys.
LEMMA KeySteps ==
    ASSUME TypeOK, AnswerAtPc, [Next]_vars
    PROVE  \/ \E a \in Attempts, r \in Requests : Claim(a, r)
           \/ \E a \in Attempts : Release(a) \/ Complete(a)
           \/ \E k \in Keys : Expire(k)
           \/ KeyQuiet
<1>1. ASSUME NEW a \in Attempts, NEW to, Running(a), pc[a] # "lookup", Goto(a, to),
             UNCHANGED <<req, answer, idem, expiries>>
      PROVE  KeyQuiet
  BY <1>1 DEF Goto, Holds, Running, Keyed, KeyOf, RequestOf, TypeOK, KeyQuiet
<1>2. ASSUME UNCHANGED <<pc, req, answer, idem, expiries>>
      PROVE  KeyQuiet
  BY <1>2 DEF Holds, Running, Keyed, KeyOf, RequestOf, KeyQuiet
<1>3. ASSUME NEW a \in Attempts,
             \/ Check(a) \/ CreateTransfer(a) \/ Begin(a) \/ Settle(a) \/ EnqueueEvents(a)
             \/ Compensate(a) \/ Close(a)
      PROVE  KeyQuiet
  BY <1>1, <1>3 DEF Check, CreateTransfer, Begin, Settle, EnqueueEvents, Compensate, Close,
                    Closing, Fail, Running
<1>4. ASSUME NEW a \in Attempts, NEW leg \in Legs, Confirmed(a, leg) \/ Errored(a, leg)
      PROVE  KeyQuiet
  BY <1>1, <1>4 DEF Confirmed, Errored, Running, Legs
<1>5. ASSUME NEW a \in Attempts, NEW leg \in Legs, Send(a, leg) PROVE KeyQuiet
  BY <1>2, <1>5 DEF Send
<1>6. ASSUME NEW a \in Attempts, NEW leg \in Legs, NEW fate \in {"applied", "refused"},
             Execute(a, leg, fate)
      PROVE  KeyQuiet
  BY <1>2, <1>6 DEF Execute
<1>7. ASSUME NEW a \in Attempts, Lookup(a) PROVE KeyQuiet
  BY <1>7 DEF Lookup, Finish, Goto, Holds, Running, Keyed, KeyOf, RequestOf, TypeOK, AnswerAtPc,
              KeyQuiet
<1>8. ASSUME NEW x \in listed, RecoveryMark(x) PROVE KeyQuiet
  BY <1>2, <1>8 DEF RecoveryMark
<1>9. ASSUME Crash PROVE KeyQuiet
  BY <1>9 DEF Crash, Holds, Running, Keyed, KeyOf, RequestOf, TypeOK, KeyQuiet
<1>10. ASSUME \/ \E a \in Attempts : Ageing(a)
              \/ RecoveryList \/ SoftDelete \/ UNCHANGED vars
       PROVE  KeyQuiet
  BY <1>2, <1>10, SoftDeleteSets DEF Ageing, RecoveryList, SetDeleted, vars
<1> QED
  BY <1>3, <1>4, <1>5, <1>6, <1>7, <1>8, <1>9, <1>10 DEF Next, Handle, Proceed, Recover

\* Before the first request nobody was told anything.
LEMMA InitAnswers == Init => AnswerInv
BY DEF Init, AnswerInv, AnswerAtPc, StoredTruthfully, AnnouncedTruthfully, Absent

\* What an attempt was told, and its request, change only while it is told nothing.
LEMMA AnswersStand ==
    ASSUME TypeOK, AnswerAtPc, [Next]_vars, NEW a \in Attempts, answer[a] # "none"
    PROVE  answer'[a] = answer[a] /\ req'[a] = req[a]
<1>1. pc[a] = "done"
  BY DEF AnswerAtPc
<1>2. ASSUME NEW b \in Attempts, Proceed(b) \/ Lookup(b)
      PROVE  answer'[a] = answer[a] /\ req'[a] = req[a]
  BY <1>1, <1>2 DEF Proceed, Lookup, Claim, Check, CreateTransfer, Begin, Send, Confirmed,
                    Errored, Settle, EnqueueEvents, Complete, Compensate, Close, Release,
                    Closing, Legs, Finish, TypeOK
<1>3. ASSUME NEW x \in listed, RecoveryMark(x) PROVE UNCHANGED <<answer, req>>
  BY <1>3 DEF RecoveryMark
<1>4. ASSUME NEW b \in Attempts, NEW leg \in Legs, NEW fate \in {"applied", "refused"},
             Execute(b, leg, fate)
      PROVE  UNCHANGED <<answer, req>>
  BY <1>4 DEF Execute
<1>5. Crash => UNCHANGED <<answer, req>>
  BY DEF Crash
<1> QED
  BY <1>2, <1>3, <1>4, <1>5, QuietSteps DEF Next, Handle, Recover, QuietStep

\* A handler that announces has settled its transfer.
LEMMA AnnouncerSettled ==
    ASSUME MoneyInv, NEW a \in Attempts, pc[a] \in {"events", "complete"}
    PROVE  Settled(a)
BY DEF MoneyInv, RowAtPc, StatusMatchesLegs, Settled

\* Answers are given by returning, at no other statement.
LEMMA NextAnswerAtPc == TypeOK /\ AnswerAtPc /\ [Next]_vars => AnswerAtPc'
<1> SUFFICES ASSUME TypeOK, AnswerAtPc, [Next]_vars PROVE AnswerAtPc'
  OBVIOUS
<1> USE DEF TypeOK, AnswerAtPc
<1>1. ASSUME NEW a \in Attempts, NEW r \in Requests, Claim(a, r) PROVE AnswerAtPc'
  <2>1. \A b \in Attempts \ {a} : Keyed(b)' = Keyed(b)
    BY <1>1 DEF Claim, Keyed, KeyOf, RequestOf
  <2> QED
    BY <1>1, <2>1, SentKey DEF Claim, Goto
<1>2. ASSUME UNCHANGED <<pc, req, answer>> PROVE AnswerAtPc'
  BY <1>2 DEF Keyed, KeyOf, RequestOf
<1>3. ASSUME NEW a \in Attempts, NEW to, pc[a] \notin {"idle", "done"}, to # "lookup", Goto(a, to),
             UNCHANGED <<req, answer>> \/ (UNCHANGED req /\ \E what : Finish(a, what))
      PROVE  AnswerAtPc'
  <2>1. \A b \in Attempts : Keyed(b)' = Keyed(b)
    BY <1>3 DEF Keyed, KeyOf, RequestOf
  <2>2. \A b \in Attempts \ {a} : pc'[b] = pc[b] /\ answer'[b] = answer[b]
    BY <1>3 DEF Goto, Finish
  <2>3. pc'[a] # "lookup" /\ (answer'[a] # "none" => pc'[a] = "done")
    BY <1>3 DEF Goto, Finish
  <2> QED
    BY <2>1, <2>2, <2>3
<1>4. ASSUME NEW a \in Attempts, NEW leg \in Legs, Confirmed(a, leg) \/ Errored(a, leg)
      PROVE  AnswerAtPc'
  BY <1>3, <1>4 DEF Confirmed, Errored, AfterLeg, AfterError, Legs
<1>5. ASSUME NEW a \in Attempts,
             \/ Check(a) \/ CreateTransfer(a) \/ Begin(a) \/ Settle(a) \/ EnqueueEvents(a)
             \/ Compensate(a) \/ Close(a)
      PROVE  AnswerAtPc'
  BY <1>3, <1>5 DEF Check, CreateTransfer, Begin, Settle, EnqueueEvents, Compensate, Close,
                    Closing, Fail
<1>6. ASSUME NEW a \in Attempts, Complete(a) \/ Release(a) \/ Lookup(a) PROVE AnswerAtPc'
  BY <1>3, <1>6 DEF Complete, Release, Lookup, Finish
<1>7. ASSUME NEW a \in Attempts, NEW leg \in Legs, Send(a, leg) PROVE AnswerAtPc'
  BY <1>2, <1>7 DEF Send
<1>8. ASSUME NEW a \in Attempts, NEW leg \in Legs, NEW fate \in {"applied", "refused"},
             Execute(a, leg, fate)
      PROVE  AnswerAtPc'
  BY <1>2, <1>8 DEF Execute
<1>9. ASSUME NEW x \in listed, RecoveryMark(x) PROVE AnswerAtPc'
  BY <1>2, <1>9 DEF RecoveryMark
<1>10. ASSUME Crash PROVE AnswerAtPc'
  <2>1. \A b \in Attempts : Keyed(b)' = Keyed(b)
    BY <1>10 DEF Crash, Keyed, KeyOf, RequestOf
  <2> QED
    BY <1>10, <2>1 DEF Crash, Running
<1>11. ASSUME QuietStep PROVE AnswerAtPc'
  BY <1>2, <1>11, QuietSteps
<1> HIDE DEF TypeOK, AnswerAtPc
<1> QED
  BY <1>1, <1>4, <1>5, <1>6, <1>7, <1>8, <1>9, <1>10, <1>11
  DEF Next, Handle, Proceed, Recover, QuietStep

\* How an attempt comes to be told of success, to enqueue events and to replay,
\* and how a record comes to store a response.
Tellings ==
    /\ \A a \in Attempts : answer'[a] = "ok" => answer[a] = "ok" \/ Complete(a)
    /\ \A a \in Attempts : enqueued'[a] # {} => enqueued[a] # {} \/ EnqueueEvents(a)
    /\ \A a \in Attempts :
        answer'[a] = "replayed" => answer[a] = "replayed" \/ (Lookup(a) /\ Replayable(a))
    /\ \A k \in Keys : idem'[k].status = "success" =>
        idem'[k] = idem[k] \/ \E a \in Attempts : Complete(a) /\ idem'[k].request = req[a]

\* Every step that tells something is one of these.
LEMMA NextTells == ASSUME TypeOK, [Next]_vars PROVE Tellings
<1> USE DEF Tellings
<1>1. ASSUME UNCHANGED <<answer, enqueued, idem>> PROVE Tellings
  BY <1>1
<1>2. ASSUME NEW a \in Attempts, NEW r \in Requests, Claim(a, r) PROVE Tellings
  BY <1>2 DEF Claim, TypeOK, Keys
<1>3. ASSUME NEW a \in Attempts, EnqueueEvents(a) PROVE Tellings
  BY <1>3 DEF EnqueueEvents, TypeOK
<1>4. ASSUME NEW a \in Attempts, Complete(a) PROVE Tellings
  <2>1. \A k \in Keys : idem'[k] = idem[k] \/ idem'[k].request = req[a]
    BY <1>4 DEF Complete, TypeOK
  <2>2. answer' = [answer EXCEPT ![a] = "ok"]
    BY <1>4 DEF Complete, Finish
  <2>3. UNCHANGED enqueued
    BY <1>4 DEF Complete
  <2> QED
    BY <1>4, <2>1, <2>2, <2>3 DEF TypeOK
<1>5. ASSUME NEW a \in Attempts, Release(a) PROVE Tellings
  BY <1>5, KeyType DEF Release, Finish, TypeOK, Absent
<1>6. ASSUME NEW a \in Attempts, Lookup(a) PROVE Tellings
  BY <1>6 DEF Lookup, Finish, TypeOK
<1>7. ASSUME NEW k \in Keys, Expire(k) PROVE Tellings
  BY <1>7 DEF Expire, TypeOK, Absent
<1>8. ASSUME NEW a \in Attempts,
             \/ Check(a) \/ CreateTransfer(a) \/ Begin(a) \/ Settle(a) \/ Compensate(a) \/ Close(a)
             \/ \E leg \in Legs : Send(a, leg) \/ Confirmed(a, leg) \/ Errored(a, leg)
             \/ \E leg \in Legs, fate \in {"applied", "refused"} : Execute(a, leg, fate)
      PROVE  Tellings
  BY <1>1, <1>8 DEF Check, CreateTransfer, Begin, Settle, Compensate, Close, Send, Confirmed,
                    Errored, Execute
<1>9. ASSUME \/ Crash \/ SoftDelete \/ RecoveryList \/ UNCHANGED vars
             \/ \E a \in Attempts : Ageing(a)
             \/ \E x \in listed : RecoveryMark(x)
      PROVE  Tellings
  BY <1>1, <1>9, SoftDeleteSets DEF Crash, SetDeleted, RecoveryList, Ageing, RecoveryMark, vars
<1> HIDE DEF Tellings
<1> QED
  BY <1>2, <1>3, <1>4, <1>5, <1>6, <1>7, <1>8, <1>9 DEF Next, Handle, Proceed, Recover

\* What is announced stays true, and is true when it is announced.
LEMMA NextAnswers == TypeOK /\ MoneyInv /\ AnswerInv /\ [Next]_vars => AnswerInv'
<1> SUFFICES ASSUME TypeOK, MoneyInv, AnswerInv, [Next]_vars PROVE AnswerInv'
  OBVIOUS
<1>0. RowAtPc /\ AnswerAtPc /\ StoredTruthfully /\ AnnouncedTruthfully
  BY DEF MoneyInv, AnswerInv
<1>1. \A a \in Attempts : Settled(a) => Settled(a)'
  BY <1>0, SettledForever
<1>2. \A a \in Attempts : answer[a] # "none" => answer'[a] = answer[a] /\ req'[a] = req[a]
  BY <1>0, AnswersStand
<1>3. Tellings
  BY NextTells
<1>4. AnswerAtPc'
  BY <1>0, NextAnswerAtPc
<1>5. \A a \in Attempts : Complete(a) => Settled(a)
  BY AnnouncerSettled DEF Complete
<1>6. \A a \in Attempts : EnqueueEvents(a) => Settled(a)
  BY AnnouncerSettled DEF EnqueueEvents
<1>7. ASSUME NEW k \in Keys, idem'[k].status = "success"
      PROVE  \E b \in Attempts : Settled(b)' /\ req'[b] = idem'[k].request /\ answer'[b] = "ok"
  <2>1. CASE idem'[k] = idem[k]
    <3>1. PICK b \in Attempts : Settled(b) /\ req[b] = idem[k].request /\ answer[b] = "ok"
      BY <1>0, <1>7, <2>1 DEF StoredTruthfully
    <3> QED
      BY <1>1, <1>2, <2>1, <3>1
  <2>2. ASSUME NEW a \in Attempts, Complete(a), idem'[k].request = req[a]
        PROVE  \E b \in Attempts : Settled(b)' /\ req'[b] = idem'[k].request /\ answer'[b] = "ok"
    <3>1. answer'[a] = "ok" /\ req'[a] = req[a]
      BY <2>2 DEF Complete, Finish, TypeOK
    <3> QED
      BY <1>1, <1>5, <2>2, <3>1
  <2> QED
    BY <1>3, <1>7, <2>1, <2>2 DEF Tellings
<1>8. ASSUME NEW a \in Attempts, answer'[a] = "ok" \/ enqueued'[a] # {}
      PROVE  Settled(a)'
  BY <1>0, <1>1, <1>3, <1>5, <1>6, <1>8 DEF AnnouncedTruthfully, Tellings
<1>9. ASSUME NEW a \in Attempts, answer'[a] = "replayed"
      PROVE  \E b \in Attempts : Settled(b)' /\ req'[b] = req'[a] /\ answer'[b] = "ok"
  <2>1. req'[a] = req[a]
    BY <1>2, <1>3, <1>9 DEF Tellings, Lookup
  <2>2. \E b \in Attempts : Settled(b) /\ req[b] = req[a] /\ answer[b] = "ok"
    <3>1. CASE answer[a] = "replayed"
      BY <1>0, <3>1 DEF AnnouncedTruthfully
    <3>2. CASE Lookup(a) /\ Replayable(a)
      <4>1. KeyOf(a) \in Keys
        BY <1>0, <3>2, KeyType DEF Lookup, AnswerAtPc
      <4> QED
        BY <1>0, <3>2, <4>1 DEF Replayable, StoredTruthfully
    <3> QED
      BY <1>3, <1>9, <3>1, <3>2 DEF Tellings
  <2> QED
    BY <1>1, <1>2, <2>1, <2>2
<1> QED
  BY <1>4, <1>7, <1>8, <1>9 DEF AnswerInv, StoredTruthfully, AnnouncedTruthfully

\* Answers and stored responses are always true.
THEOREM AnswerInvHolds == Spec => []AnswerInv
BY InitAnswers, NextAnswers, TransferTypeCorrect, MoneyInvHolds, PTL DEF Spec

\* Clients and consumers are told of settled transfers only, and a retry is
\* answered by replay only if the very request it repeats went through.
THEOREM AnnouncedTruthfullyHolds == Spec => []AnnouncedTruthfully
BY AnswerInvHolds, PTL DEF AnswerInv

-----------------------------------------------------------------------------
(* Idempotency keys *)

\* A claim that starts a handler found no record; it changes no other attempt.
LEMMA ClaimFacts ==
    ASSUME TypeOK, NEW a \in Attempts, NEW r \in Requests, Claim(a, r)
    PROVE  /\ ~Holds(a)
           /\ \A b \in Attempts \ {a} : (Holds(b)' <=> Holds(b)) /\ KeyOf(b)' = KeyOf(b)
           /\ Holds(a)' =>
                /\ KeyOf(a)' = r.key /\ r.key \in Keys /\ idem[r.key].status = "absent"
                /\ idem' = [idem EXCEPT ![r.key] =
                            [status |-> "processing", request |-> {r}, transfer |-> {}]]
           /\ \A k \in Keys : idem'[k].status = "absent" => idem[k].status = "absent"
           /\ \A k \in Keys : idem'[k] # idem[k] => idem[k].status = "absent"
<1>1. ~Holds(a)
  BY DEF Claim, Holds, Running
<1>2. \A b \in Attempts \ {a} : req'[b] = req[b] /\ pc'[b] = pc[b]
  BY DEF Claim, Goto, TypeOK
<1>3. \A b \in Attempts \ {a} : (Holds(b)' <=> Holds(b)) /\ KeyOf(b)' = KeyOf(b)
  BY <1>2 DEF Holds, Keyed, KeyOf, RequestOf, Running
<1>4. ASSUME Holds(a)'
      PROVE  /\ KeyOf(a)' = r.key /\ r.key \in Keys /\ idem[r.key].status = "absent"
             /\ idem' = [idem EXCEPT ![r.key] =
                            [status |-> "processing", request |-> {r}, transfer |-> {}]]
  <2>1. KeyOf(a)' = r.key /\ r.key # NoKey
    BY <1>4, SentKey DEF Holds
  <2>2. pc'[a] # "lookup"
    BY <1>4 DEF Holds
  <2> QED
    BY <2>1, <2>2 DEF Claim, Claimable, Goto, TypeOK, Keys
<1>5. \A k \in Keys : idem'[k] # idem[k] =>
        idem[k].status = "absent" /\ idem'[k].status = "processing"
  BY DEF Claim, Claimable, TypeOK
<1> QED
  BY <1>1, <1>3, <1>4, <1>5

\* A handler that returns gives up its key; it changes no other attempt.
LEMMA ReturnFacts ==
    ASSUME TypeOK, NEW a \in Attempts, Release(a) \/ Complete(a)
    PROVE  /\ Keyed(a) => Holds(a)
           /\ ~Holds(a)'
           /\ UNCHANGED <<req, expiries>>
           /\ \A b \in Attempts \ {a} : Holds(b)' <=> Holds(b)
           /\ \A b \in Attempts : KeyOf(b)' = KeyOf(b) /\ (Keyed(b)' <=> Keyed(b))
           /\ \A k \in Keys : idem'[k] = idem[k] \/ (Keyed(a) /\ k = KeyOf(a))
<1>1. pc' = [pc EXCEPT ![a] = "done"] /\ UNCHANGED <<req, expiries>>
  BY DEF Release, Complete, Finish, Goto
<1>2. \A b \in Attempts : KeyOf(b)' = KeyOf(b) /\ (Keyed(b)' <=> Keyed(b))
  BY <1>1 DEF Keyed, KeyOf, RequestOf
<1>3. pc[a] \in {"release", "complete"}
  BY DEF Release, Complete
<1>4. \A k \in Keys : idem'[k] = idem[k] \/ (Keyed(a) /\ k = KeyOf(a))
  BY DEF Release, Complete, TypeOK
<1> QED
  BY <1>1, <1>2, <1>3, <1>4 DEF Holds, Running, TypeOK

\* Before the first request no key is held.
LEMMA InitHolder == Init => OneHolderPerKey
BY DEF Init, OneHolderPerKey, Holds, Running

\* A key changes hands only through an absent record.
LEMMA NextHolder == TypeOK /\ AnswerAtPc /\ OneHolderPerKey /\ [Next]_vars => OneHolderPerKey'
<1> SUFFICES ASSUME TypeOK, AnswerAtPc, OneHolderPerKey, [Next]_vars PROVE OneHolderPerKey'
  OBVIOUS
<1> USE DEF OneHolderPerKey
<1>1. ASSUME NEW a \in Attempts, NEW r \in Requests, Claim(a, r) PROVE OneHolderPerKey'
  <2>1. req'[a] = {r} /\ \A b \in Attempts \ {a} : req'[b] = req[b]
    BY <1>1 DEF Claim, TypeOK
  <2>2. \A b \in Attempts \ {a} : Holds(b)' => Holds(b) /\ KeyOf(b)' = KeyOf(b) /\ KeyOf(b) \in Keys
    BY <1>1, ClaimFacts, KeyType DEF Holds
  <2>3. Holds(a)' =>
          /\ KeyOf(a)' = r.key /\ r.key \in Keys /\ idem[r.key].status = "absent"
          /\ idem' = [idem EXCEPT ![r.key] =
                            [status |-> "processing", request |-> {r}, transfer |-> {}]]
    BY <1>1, ClaimFacts
  <2>4. \A k \in Keys : idem'[k] # idem[k] => idem[k].status = "absent"
    BY <1>1, ClaimFacts
  <2>5. \A b \in Attempts \ {a} : Holds(b)' => idem[KeyOf(b)].status = "processing"
    BY <2>2
  <2>6. ASSUME NEW b \in Attempts, NEW c \in Attempts,
               Holds(b)', Holds(c)', KeyOf(b)' = KeyOf(c)'
        PROVE  b = c
    BY <2>6, <2>2, <2>3, <2>5
  <2>7. ASSUME NEW b \in Attempts, Holds(b)'
        PROVE  idem'[KeyOf(b)'].status = "processing" /\ idem'[KeyOf(b)'].request = req'[b]
    <3>1. CASE b = a
      <4>1. idem'[r.key] = [status |-> "processing", request |-> {r}, transfer |-> {}]
        BY <2>7, <2>3, <3>1 DEF TypeOK
      <4>2. KeyOf(b)' = r.key
        BY <2>7, <2>3, <3>1
      <4>3. req'[b] = {r}
        BY <2>1, <3>1
      <4> QED
        BY <4>1, <4>2, <4>3
    <3>2. CASE b # a
      BY <2>1, <2>7, <3>2, <2>2, <2>4, <2>5
    <3> QED BY <3>1, <3>2
  <2> QED BY <2>6, <2>7
<1>2. ASSUME NEW a \in Attempts, Release(a) \/ Complete(a) PROVE OneHolderPerKey'
  <2>1. ASSUME NEW b \in Attempts, Holds(b)'
        PROVE  Holds(b) /\ KeyOf(b)' = KeyOf(b) /\ KeyOf(b) \in Keys /\ req'[b] = req[b]
               /\ idem'[KeyOf(b)] = idem[KeyOf(b)]
    BY <1>2, <2>1, ReturnFacts, KeyType DEF Holds
  <2> QED BY <2>1
<1>3. ASSUME NEW k \in Keys, Expire(k) PROVE OneHolderPerKey'
  <2>1. \A b \in Attempts : (Holds(b)' <=> Holds(b)) /\ KeyOf(b)' = KeyOf(b) /\ req'[b] = req[b]
    BY <1>3 DEF Expire, Holds, Keyed, KeyOf, RequestOf, Running
  <2> QED BY <1>3, <2>1, KeyType DEF Expire, TypeOK, Holds
<1>4. ASSUME KeyQuiet PROVE OneHolderPerKey'
  <2>1. \A b \in Attempts : KeyOf(b)' = KeyOf(b)
    BY <1>4 DEF KeyQuiet, KeyOf, RequestOf
  <2> QED BY <1>4, <2>1 DEF KeyQuiet
<1> HIDE DEF OneHolderPerKey
<1> QED
  BY <1>1, <1>2, <1>3, <1>4, KeySteps

\* For every number of attempts and keys: a key admits one handler at a time, and
\* its record is that handler's own claim for as long as it runs.
THEOREM OneHolderPerKeyHolds == Spec => []OneHolderPerKey
BY InitHolder, NextHolder, TransferTypeCorrect, AnswerInvHolds, PTL DEF Spec, AnswerInv

-----------------------------------------------------------------------------
(* One fresh success per lifetime of a record *)

\* The attempts under a key that were told of a success of their own.
Told(k) == {a \in Attempts : Keyed(a) /\ KeyOf(a) = k /\ answer[a] = "ok"}

\* Nobody has been told of a success under the record that exists now, if any:
\* it is absent, or its handler has not returned.
Fresh(k) ==
    \/ idem[k].status = "absent"
    \/ \E a \in Attempts : Holds(a) /\ KeyOf(a) = k

\* The successes of a key are finitely many however many attempts there are, and
\* one fewer than the bound while the next one may be under way.
CountInv ==
    \A k \in Keys :
        /\ IsFiniteSet(Told(k))
        /\ Cardinality(Told(k)) <= 1 + expiries
        /\ Fresh(k) => Cardinality(Told(k)) <= expiries

\* Before the first request no success was told.
LEMMA InitCount == Init => CountInv
<1> SUFFICES ASSUME Init, NEW k \in Keys
             PROVE  IsFiniteSet(Told(k)) /\ Cardinality(Told(k)) = 0 /\ expiries = 0
  BY DEF CountInv
<1>1. Told(k) = {}
  BY DEF Init, Told
<1> QED
  BY <1>1, FS_EmptySet DEF Init

\* The count of a key whose successes stay as they are.
LEMMA CountStays ==
    ASSUME TypeOK, CountInv, NEW k \in Keys, Told(k)' = Told(k),
           expiries' \in Nat, expiries' >= expiries, Fresh(k)' => Fresh(k)
    PROVE  /\ IsFiniteSet(Told(k)')
           /\ Cardinality(Told(k)') <= 1 + expiries'
           /\ Fresh(k)' => Cardinality(Told(k)') <= expiries'
<1>1. Cardinality(Told(k)) \in Nat
  BY FS_CardinalityType DEF CountInv
<1> QED
  BY <1>1, BoundsAssumption DEF CountInv, TypeOK

\* A success is counted by the handler that holds the key, whose record was fresh.
LEMMA NextCount ==
    TypeOK /\ AnswerAtPc /\ OneHolderPerKey /\ CountInv /\ [Next]_vars => CountInv'
<1> SUFFICES ASSUME TypeOK, AnswerAtPc, OneHolderPerKey, CountInv, [Next]_vars, NEW k \in Keys
             PROVE  /\ IsFiniteSet(Told(k)')
                    /\ Cardinality(Told(k)') <= 1 + expiries'
                    /\ Fresh(k)' => Cardinality(Told(k)') <= expiries'
  BY DEF CountInv
<1> DEFINE Goal == /\ IsFiniteSet(Told(k)')
                   /\ Cardinality(Told(k)') <= 1 + expiries'
                   /\ Fresh(k)' => Cardinality(Told(k)') <= expiries'
<1>0. expiries \in Nat /\ Cardinality(Told(k)) \in Nat
  BY FS_CardinalityType, BoundsAssumption DEF CountInv, TypeOK
<1>1. ASSUME NEW a \in Attempts, NEW r \in Requests, Claim(a, r) PROVE Goal
  <2>1. answer[a] # "ok" /\ UNCHANGED <<answer, expiries>>
    BY <1>1 DEF Claim, AnswerAtPc
  <2>2. \A b \in Attempts \ {a} : req'[b] = req[b]
    BY <1>1 DEF Claim, TypeOK
  <2>3. Told(k)' = Told(k)
    BY <2>1, <2>2 DEF Told, Keyed, KeyOf, RequestOf
  <2>4. Fresh(k)' => Fresh(k)
    <3>1. idem'[k].status = "absent" => idem[k].status = "absent"
      BY <1>1, ClaimFacts
    <3>2. ASSUME NEW b \in Attempts, Holds(b)', KeyOf(b)' = k PROVE Fresh(k)
      <4>1. CASE b = a
        BY <1>1, <3>2, <4>1, ClaimFacts DEF Fresh
      <4>2. CASE b # a
        BY <1>1, <3>2, <4>2, ClaimFacts DEF Fresh
      <4> QED BY <4>1, <4>2
    <3> QED BY <3>1, <3>2 DEF Fresh
  <2> QED BY <1>0, <2>1, <2>3, <2>4, CountStays
<1>2. ASSUME NEW a \in Attempts, Release(a) \/ Complete(a), Told(k)' = Told(k) PROVE Goal
  <2>1. UNCHANGED expiries
    BY <1>2, ReturnFacts
  <2>2. Fresh(k)' => Fresh(k)
    BY <1>2, ReturnFacts, KeyType DEF Fresh
  <2> QED BY <1>0, <1>2, <2>1, <2>2, CountStays
<1>3. ASSUME NEW a \in Attempts, Release(a) PROVE Goal
  <2>1. answer' = [answer EXCEPT ![a] = "error"] /\ answer[a] # "ok"
    BY <1>3 DEF Release, Finish, AnswerAtPc
  <2>2. Told(k)' = Told(k)
    BY <1>3, <2>1, ReturnFacts DEF Told, TypeOK
  <2> QED BY <1>2, <1>3, <2>2
<1>4. ASSUME NEW a \in Attempts, Complete(a) PROVE Goal
  <2>1. answer' = [answer EXCEPT ![a] = "ok"] /\ answer[a] # "ok"
    BY <1>4 DEF Complete, Finish, AnswerAtPc
  <2>2. CASE ~(Keyed(a) /\ KeyOf(a) = k)
    <3>1. Told(k)' = Told(k)
      BY <1>4, <2>1, <2>2, ReturnFacts DEF Told, TypeOK
    <3> QED BY <1>2, <1>4, <3>1
  <2>3. CASE Keyed(a) /\ KeyOf(a) = k
    <3>1. Told(k)' = Told(k) \union {a} /\ a \notin Told(k)
      BY <1>4, <2>1, <2>3, ReturnFacts DEF Told, TypeOK
    <3>2. IsFiniteSet(Told(k)') /\ Cardinality(Told(k)') = Cardinality(Told(k)) + 1
      BY <3>1, FS_AddElement DEF CountInv
    <3>3. Holds(a) /\ UNCHANGED expiries
      BY <1>4, <2>3, ReturnFacts
    <3>4. Cardinality(Told(k)) <= expiries
      BY <2>3, <3>3 DEF CountInv, Fresh
    <3>5. ~Fresh(k)'
      <4>1. idem[k].status = "processing"
        BY <2>3, <3>3 DEF OneHolderPerKey
      <4>2. idem'[k].status # "absent"
        BY <1>4, <4>1 DEF Complete, TypeOK
      <4>3. ASSUME NEW b \in Attempts, Holds(b)', KeyOf(b)' = k PROVE FALSE
        BY <1>4, <2>3, <3>3, <4>3, ReturnFacts DEF OneHolderPerKey
      <4> QED BY <4>2, <4>3 DEF Fresh
    <3> QED BY <1>0, <3>2, <3>3, <3>4, <3>5
  <2> QED BY <2>2, <2>3
<1>5. ASSUME NEW x \in Keys, Expire(x) PROVE Goal
  <2>1. expiries' = expiries + 1 /\ UNCHANGED <<pc, req, answer>>
    BY <1>5 DEF Expire
  <2>2. Told(k)' = Told(k)
    BY <2>1 DEF Told, Keyed, KeyOf, RequestOf
  <2>3. IsFiniteSet(Told(k)) /\ Cardinality(Told(k)) <= 1 + expiries
    BY DEF CountInv
  <2> QED BY <1>0, <2>1, <2>2, <2>3
<1>6. ASSUME KeyQuiet PROVE Goal
  <2>1. Told(k)' = Told(k)
    BY <1>6 DEF KeyQuiet, Told, Keyed, KeyOf, RequestOf
  <2>2. Fresh(k)' => Fresh(k)
    BY <1>6 DEF KeyQuiet, Fresh, KeyOf, RequestOf
  <2> QED BY <1>0, <1>6, <2>1, <2>2, CountStays DEF KeyQuiet
<1> HIDE DEF Goal
<1>7. Goal
  BY <1>1, <1>3, <1>4, <1>5, <1>6, KeySteps
<1> QED
  BY <1>7 DEF Goal

\* The successes of a key are always counted by the expiries of its record.
THEOREM CountInvHolds == Spec => []CountInv
BY InitCount, NextCount, TransferTypeCorrect, AnswerInvHolds, OneHolderPerKeyHolds, PTL
DEF Spec, AnswerInv

\* However many retries there are under one key, it yields at most one fresh
\* success per lifetime of its record.
THEOREM OneSuccessPerKeyHolds == Spec => []OneSuccessPerKey
<1>1. CountInv => OneSuccessPerKey
  BY DEF CountInv, OneSuccessPerKey, Told
<1> QED
  BY <1>1, CountInvHolds, PTL

=============================================================================
