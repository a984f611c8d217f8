-------------------------- MODULE SaldoLedgerProofs --------------------------
(***************************************************************************)
(* Proofs about SaldoLedger, for every set of cards, saldos, operation ids *)
(* and amounts.                                                            *)
(*                                                                         *)
(*   TypeCorrect            TypeOK: above all, no balance is negative      *)
(*   OneActivePerCardHolds  a card has at most one active saldo            *)
(*   ChainLinkedHolds       the ledger is a gapless audit chain            *)
(*   MismatchRetainedHolds  a queued mismatch waits for an operator        *)
(*   AckedExactlyOnceHolds  an acknowledged movement happened once         *)
(*   ImplementsBookHolds    the tables implement SaldoBook                 *)
(*   WithdrawMetadataBackedHolds  metadata follows its debit               *)
(*   BalanceAccountedHolds  balance = sum of the entries + refills         *)
(*   ReconcilesUnlessReopenedHolds  no false alarm of the reconciler       *)
(*                                                                         *)
(* The argument: StepKinds reduces every action to one of four effects on  *)
(* the saldos and their ledger (open, refill, post, switch) or none; each  *)
(* invariant is then preserved by four cases instead of twenty actions.    *)
(* Extension says further that the ledger only ever grows by entries with  *)
(* a key that is new to their card.                                        *)
(***************************************************************************)
EXTENDS SaldoLedger, SumLemmas, FiniteSetTheorems, SequenceTheorems, TLAPS

-----------------------------------------------------------------------------
(* Types *)

\* A saldo row that exists belongs to one of the cards.
CardKnown == \A s \in Saldos : state[s] # "none" => card[s] \in Cards

TypeInv == TypeOK /\ CardKnown

\* The saldo an amount is moved on exists and is one of c's.
LEMMA ActiveFacts ==
    ASSUME NEW c, NEW s \in Active(c)
    PROVE  s \in Saldos /\ card[s] = c /\ state[s] = "active"
BY DEF Active

\* The entry a mutation writes is an entry, and the new balance is natural
\* because Allowed was evaluated on the balance it changes.
LEMMA AppendTypes ==
    ASSUME TypeInv, NEW s \in Saldos, NEW op \in OpIds, NEW dir \in Dirs,
           NEW amt \in Nat, NEW delta \in Int,
           Append1(s, op, dir, amt, delta)
    PROVE  /\ balance' \in [Saldos -> Nat]
           /\ ledger' \in [Saldos -> Seq(Entries)]
<1>1. balance[s] \in Nat /\ balance[s] + delta \in Nat
    BY DEF TypeInv, TypeOK, Append1, Allowed
<1> DEFINE e == [op |-> op, dir |-> dir, amount |-> amt, delta |-> delta,
                 before |-> balance[s], after |-> balance[s] + delta]
<1>2. e \in Entries
    BY <1>1 DEF Entries
<1> HIDE DEF e
<1>3. ledger' = [ledger EXCEPT ![s] = Append(@, e)]
    BY DEF Append1, e
<1>4. ledger' \in [Saldos -> Seq(Entries)]
    BY <1>2, <1>3 DEF TypeInv, TypeOK
<1>5. balance' \in [Saldos -> Nat]
    BY <1>1 DEF TypeInv, TypeOK, Append1
<1> QED
    BY <1>4, <1>5

\* A ledger-backed mutation, new or replayed, keeps the types.
LEMMA MutateTypes ==
    ASSUME TypeInv, NEW s \in Saldos, card[s] \in Cards,
           NEW op \in OpIds, NEW dir \in Dirs, NEW amt \in Nat, NEW delta \in Int,
           Mutate(s, op, dir, amt, delta)
    PROVE  /\ balance' \in [Saldos -> Nat]
           /\ ledger' \in [Saldos -> Seq(Entries)]
           /\ acked' \subseteq Movements
<1>1. acked' \subseteq Movements
    BY DEF Mutate, TypeInv, TypeOK, Movements
<1>2. CASE Append1(s, op, dir, amt, delta)
    BY <1>1, <1>2, AppendTypes
<1>3. CASE Replay(s, op, dir, delta)
    BY <1>1, <1>3 DEF Replay, TypeInv, TypeOK
<1> QED
    BY <1>2, <1>3 DEF Mutate

\* The empty tables are well typed.
LEMMA TypeInit == Init => TypeInv
<1> SUFFICES ASSUME Init PROVE TypeInv
    OBVIOUS
<1>1. TypeOK
    BY DEF Init, TypeOK, States
<1>2. CardKnown
    BY DEF Init, CardKnown
<1> QED
    BY <1>1, <1>2 DEF TypeInv

-----------------------------------------------------------------------------
\* The operation ids the service builds are operation ids.
LEMMA BuiltOps ==
    /\ \A s \in Saldos : OpeningOp(s) \in OpIds
    /\ \A s \in Saldos, target \in Amounts : UpdateOp(s, target) \in OpIds
    /\ \A c \in Cards, t \in Times, amt \in Amounts : WithdrawOp(c, t, amt) \in OpIds
BY DEF OpIds

\* Inserting a saldo with its opening entry keeps the types.
LEMMA InsertTypes ==
    ASSUME TypeInv, NEW c \in Cards, NEW amt \in Nat, InsertSaldo(c, amt)
    PROVE  TypeInv'
<1>1. PICK s \in Saldos : InsertSaldo(c, amt)!(s)
    BY DEF InsertSaldo
<1> DEFINE e == [op |-> OpeningOp(s), dir |-> "opening", amount |-> amt,
                 delta |-> amt, before |-> 0, after |-> amt]
<1>2. e \in Entries
    BY BuiltOps DEF Entries, Dirs
<1> HIDE DEF e
<1>3. ledger' = [ledger EXCEPT ![s] = Append(@, e)]
    BY <1>1 DEF e
<1>4. ledger' \in [Saldos -> Seq(Entries)]
    BY <1>2, <1>3 DEF TypeInv, TypeOK
<1>5. TypeOK'
    BY <1>1, <1>4 DEF TypeInv, TypeOK, States
<1>6. CardKnown'
    BY <1>1 DEF TypeInv, TypeOK, CardKnown
<1> QED
    BY <1>5, <1>6 DEF TypeInv

\* What a mutation leaves alone besides what MutateTypes speaks of.
LEMMA MutateKeeps ==
    ASSUME TypeInv,
           balance' \in [Saldos -> Nat],
           ledger' \in [Saldos -> Seq(Entries)],
           acked' \subseteq Movements,
           updating' \subseteq UpdateCalls,
           withdrawing' \subseteq WithdrawCalls,
           UNCHANGED <<card, state, lastWithdraw, queue, scan, unledgered>>
    PROVE  TypeInv'
BY DEF TypeInv, TypeOK, CardKnown, Movements

\* Every action keeps the types.
LEMMA TypeNext == TypeInv /\ [Next]_vars => TypeInv'
<1> SUFFICES ASSUME TypeInv, [Next]_vars PROVE TypeInv'
    OBVIOUS
<1> USE DEF TypeInv
<1>1. CASE Create
    <2>1. CASE \E c \in Cards : CreateSaldoIfNotExists(c)
        BY <2>1, InsertTypes DEF CreateSaldoIfNotExists
    <2>2. ASSUME NEW c \in Cards, NEW amt \in Amounts, CreateSaldo(c, amt)
          PROVE  TypeInv'
        <3>1. amt \in Nat
            BY AmountsAssumption
        <3>2. CASE Active(c) = {} /\ InsertSaldo(c, amt)
            BY <3>1, <3>2, InsertTypes
        <3>3. CASE CreateSaldo(c, amt)!2
            BY <3>1, <3>3, ActiveFacts DEF TypeOK, CardKnown, Movements
        <3> QED
            BY <2>2, <3>2, <3>3 DEF CreateSaldo
    <2> QED
        BY <1>1, <2>1, <2>2 DEF Create
<1>2. CASE Move
    <2>1. PICK c \in Cards, amt \in Amounts, op \in Ops :
              DebitSaldo(c, op, amt) \/ CreditSaldo(c, op, amt) \/ ApplySaldoAdjustment(c, op, amt)
        BY <1>2 DEF Move
    <2>2. amt \in Nat /\ -amt \in Int /\ op \in OpIds
        BY AmountsAssumption DEF OpIds
    <2>3. PICK s \in Active(c), dir \in Dirs, delta \in {amt, -amt} :
              /\ Mutate(s, op, dir, amt, delta)
              /\ UNCHANGED <<card, state, lastWithdraw, queue, updating, withdrawing,
                             scan, unledgered>>
        BY <2>1 DEF DebitSaldo, CreditSaldo, ApplySaldoAdjustment, Dirs
    <2>4. s \in Saldos /\ card[s] \in Cards
        BY ActiveFacts
    <2> QED
        BY <2>2, <2>3, <2>4, MutateTypes, MutateKeeps DEF TypeOK
<1>3. CASE Update
    <2>1. ASSUME NEW s \in Saldos, NEW target \in Amounts, UpdateSaldoRead(s, target)
          PROVE  TypeInv'
        <3>1. card[s] \in Cards /\ target - balance[s] \in Int
            BY <2>1, AmountsAssumption DEF UpdateSaldoRead, CardKnown, TypeOK
        <3> QED
            BY <2>1, <3>1 DEF UpdateSaldoRead, TypeOK, CardKnown, UpdateCalls, Movements, rows
    <2>2. ASSUME NEW u \in updating, UpdateSaldoAdjust(u) PROVE TypeInv'
        <3>1. u \in UpdateCalls
            BY DEF TypeOK
        <3> DEFINE op == UpdateOp(u.saldo, u.target)
                   amt == IF u.delta < 0 THEN -u.delta ELSE u.delta
        <3>2. u.delta \in Int /\ amt \in Nat /\ op \in OpIds
            BY <3>1, BuiltOps DEF UpdateCalls
        <3>3. PICK s \in Active(u.card) :
                  /\ Mutate(s, op, "reversal", amt, u.delta)
                  /\ updating' = updating \ {u}
                  /\ UNCHANGED <<card, state, lastWithdraw, queue, withdrawing, scan, unledgered>>
            BY <2>2 DEF UpdateSaldoAdjust
        <3>4. s \in Saldos /\ card[s] \in Cards
            BY <3>1, ActiveFacts DEF UpdateCalls
        <3>5. "reversal" \in Dirs
            BY DEF Dirs
        <3> HIDE DEF op, amt
        <3> QED
            BY <3>2, <3>3, <3>4, <3>5, MutateTypes, MutateKeeps DEF TypeOK
    <2> QED
        BY <1>3, <2>1, <2>2 DEF Update
<1>4. CASE Withdraw
    <2>1. ASSUME NEW c \in Cards, NEW t \in Times, NEW amt \in Amounts,
                 UpdateSaldoWithdrawDebit(c, t, amt)
          PROVE  TypeInv'
        <3>1. amt \in Nat /\ -amt \in Int /\ WithdrawOp(c, t, amt) \in OpIds
            BY AmountsAssumption, BuiltOps
        <3>2. PICK s \in Active(c) : UpdateSaldoWithdrawDebit(c, t, amt)!(s)
            BY <2>1 DEF UpdateSaldoWithdrawDebit
        <3>3. s \in Saldos /\ card[s] \in Cards /\ "debit" \in Dirs
            BY ActiveFacts DEF Dirs
        <3>4. withdrawing' \subseteq WithdrawCalls
            BY <3>2 DEF TypeOK, WithdrawCalls
        <3> QED
            BY <3>1, <3>2, <3>3, <3>4, MutateTypes, MutateKeeps DEF TypeOK
    <2>2. ASSUME NEW w \in withdrawing, UpdateSaldoWithdrawMetadata(w) PROVE TypeInv'
        BY <2>2 DEF UpdateSaldoWithdrawMetadata, Active, TypeOK, CardKnown, Movements
    <2> QED
        BY <1>4, <2>1, <2>2 DEF Withdraw
<1>5. CASE RequestFails
    BY <1>5 DEF RequestFails, TypeOK, CardKnown, Movements, rows
<1>6. CASE SoftDelete
    <2>1. PICK S \in SUBSET Saldos, to \in {"active", "trashed", "purged"} :
              /\ SetState(S, to)
              /\ \A s \in S : state[s] # "none"
        <3>1. \A s \in Saldos : TrashSaldo(s) \/ RestoreSaldo(s) \/ DeleteSaldoPermanently(s)
                => state[s] # "none"
            BY DEF TrashSaldo, RestoreSaldo, DeleteSaldoPermanently, Trashed
        <3>2. Trashed \subseteq Saldos /\ \A s \in Trashed : state[s] # "none"
            BY DEF Trashed
        <3> QED
            BY <1>6, <3>1, <3>2 DEF SoftDelete, TrashSaldo, RestoreSaldo,
                DeleteSaldoPermanently, RestoreAllSaldos, DeleteAllPermanentSaldos
    <2> QED
        BY <2>1 DEF SetState, TypeOK, CardKnown, States, Movements
<1>7. CASE Reconcile
    BY <1>7 DEF Reconcile, ReconcilerScan, EnqueueMismatch, EnqueueFails,
        ResolveReconciliation, TypeOK, CardKnown, Movements, rows
<1>8. CASE Crash
    BY <1>8 DEF Crash, TypeOK, CardKnown, Movements, rows
<1>9. CASE UNCHANGED vars
    BY <1>9 DEF vars, TypeOK, CardKnown, Movements
<1> QED
    BY <1>1, <1>2, <1>3, <1>4, <1>5, <1>6, <1>7, <1>8, <1>9 DEF Next

\* No interleaving of debits, credits, adjustments, retries, soft deletions and
\* crashes gives a variable a value outside its type; above all, no balance
\* becomes negative.
THEOREM TypeCorrect == Spec => []TypeOK
<1>1. TypeInv => TypeOK
    BY DEF TypeInv
<1> QED
    BY <1>1, TypeInit, TypeNext, PTL DEF Spec

-----------------------------------------------------------------------------
(* The four ways a step can touch the saldos and their ledger *)

core == <<card, balance, state, ledger, unledgered>>

Opens == \E c \in Cards, amt \in Nat : Active(c) = {} /\ InsertSaldo(c, amt)

Refills ==
    \E s \in Saldos, amt \in Nat \ {0} :
        /\ state[s] = "active"
        /\ balance[s] = 0
        /\ balance' = [balance EXCEPT ![s] = amt]
        /\ unledgered' = [unledgered EXCEPT ![s] = @ + amt]
        /\ UNCHANGED <<card, state, ledger>>

Posts ==
    \E s \in Saldos, op \in OpIds, dir \in Dirs \ {"opening"}, amt \in Nat, delta \in Int :
        /\ state[s] = "active"
        /\ Append1(s, op, dir, amt, delta)
        /\ UNCHANGED <<card, state, unledgered>>

\* Restoring demands that no card ends up with two active saldos.
Unopposed(S) ==
    \A s \in S : NoOtherActive(s) /\ \A r \in S \ {s} : card[r] # card[s]

Switches ==
    \E S \in SUBSET Saldos, to \in {"active", "trashed", "purged"} :
        /\ SetState(S, to)
        /\ \A s \in S : state[s] # "none"
        /\ to = "active" => Unopposed(S)

StepKind == Opens \/ Refills \/ Posts \/ Switches \/ UNCHANGED core

\* Only a mutation that took effect or was found to have taken it is acknowledged.
Acknowledges ==
    \E s \in Saldos, op \in OpIds, dir \in Dirs, amt \in Nat, delta \in Int :
        /\ Mutate(s, op, dir, amt, delta)
        /\ UNCHANGED card

AckKind == Acknowledges \/ UNCHANGED acked

\* A mutation of an active saldo posts an entry, or replays and touches nothing.
LEMMA MutateKind ==
    ASSUME NEW c, NEW s \in Active(c), NEW op \in OpIds, NEW dir \in Dirs \ {"opening"},
           NEW amt \in Nat, NEW delta \in Int,
           Mutate(s, op, dir, amt, delta),
           UNCHANGED <<card, state, unledgered>>
    PROVE  StepKind /\ AckKind
<1>1. s \in Saldos /\ state[s] = "active"
    BY ActiveFacts
<1>2. AckKind
    BY <1>1 DEF AckKind, Acknowledges
<1>3. CASE Append1(s, op, dir, amt, delta)
    BY <1>1, <1>2, <1>3 DEF StepKind, Posts
<1>4. CASE Replay(s, op, dir, delta)
    BY <1>2, <1>4 DEF StepKind, Replay, core
<1> QED
    BY <1>3, <1>4 DEF Mutate

\* The one place where all actions are opened.
LEMMA StepKinds == TypeInv /\ [Next]_vars => StepKind /\ AckKind
<1> SUFFICES ASSUME TypeInv, [Next]_vars PROVE StepKind /\ AckKind
    OBVIOUS
<1> USE DEF TypeInv, AckKind
<1>1. CASE Create
    <2>1. CASE \E c \in Cards : CreateSaldoIfNotExists(c)
        BY <2>1 DEF CreateSaldoIfNotExists, InsertSaldo, StepKind, Opens
    <2>2. ASSUME NEW c \in Cards, NEW amt \in Amounts, CreateSaldo(c, amt)
          PROVE  StepKind /\ AckKind
        <3>1. amt \in Nat \ {0}
            BY AmountsAssumption
        <3>2. CASE Active(c) = {} /\ InsertSaldo(c, amt)
            BY <3>1, <3>2 DEF InsertSaldo, StepKind, Opens
        <3>3. CASE CreateSaldo(c, amt)!2
            BY <3>1, <3>3, ActiveFacts DEF StepKind, Refills
        <3> QED
            BY <2>2, <3>2, <3>3 DEF CreateSaldo
    <2> QED
        BY <1>1, <2>1, <2>2 DEF Create
<1>2. CASE Move
    <2>1. PICK c \in Cards, amt \in Amounts, op \in Ops :
              DebitSaldo(c, op, amt) \/ CreditSaldo(c, op, amt) \/ ApplySaldoAdjustment(c, op, amt)
        BY <1>2 DEF Move
    <2>2. amt \in Nat /\ -amt \in Int /\ op \in OpIds
        BY AmountsAssumption DEF OpIds
    <2>3. PICK s \in Active(c), dir \in Dirs \ {"opening"}, delta \in {amt, -amt} :
              Mutate(s, op, dir, amt, delta) /\ UNCHANGED <<card, state, unledgered>>
        BY <2>1 DEF DebitSaldo, CreditSaldo, ApplySaldoAdjustment, Dirs
    <2> QED
        BY <2>2, <2>3, MutateKind
<1>3. CASE Update
    <2>1. CASE \E s \in Saldos, target \in Amounts : UpdateSaldoRead(s, target)
        BY <2>1 DEF UpdateSaldoRead, rows, StepKind, core
    <2>2. ASSUME NEW u \in updating, UpdateSaldoAdjust(u) PROVE StepKind /\ AckKind
        <3> DEFINE op == UpdateOp(u.saldo, u.target)
                   amt == IF u.delta < 0 THEN -u.delta ELSE u.delta
        <3>1. u.delta \in Int /\ amt \in Nat /\ op \in OpIds
            BY BuiltOps DEF TypeOK, UpdateCalls
        <3>2. PICK s \in Active(u.card) :
                  Mutate(s, op, "reversal", amt, u.delta) /\ UNCHANGED <<card, state, unledgered>>
            BY <2>2 DEF UpdateSaldoAdjust
        <3>3. "reversal" \in Dirs \ {"opening"}
            BY DEF Dirs
        <3> HIDE DEF op, amt
        <3> QED
            BY <3>1, <3>2, <3>3, MutateKind
    <2> QED
        BY <1>3, <2>1, <2>2 DEF Update
<1>4. CASE Withdraw
    <2>1. ASSUME NEW c \in Cards, NEW t \in Times, NEW amt \in Amounts,
                 UpdateSaldoWithdrawDebit(c, t, amt)
          PROVE  StepKind /\ AckKind
        <3>1. amt \in Nat /\ -amt \in Int /\ WithdrawOp(c, t, amt) \in OpIds
            BY AmountsAssumption, BuiltOps
        <3>2. PICK s \in Active(c) :
                  /\ Mutate(s, WithdrawOp(c, t, amt), "debit", amt, -amt)
                  /\ UNCHANGED <<card, state, unledgered>>
            BY <2>1 DEF UpdateSaldoWithdrawDebit
        <3>3. "debit" \in Dirs \ {"opening"}
            BY DEF Dirs
        <3> QED
            BY <3>1, <3>2, <3>3, MutateKind
    <2>2. CASE \E w \in withdrawing : UpdateSaldoWithdrawMetadata(w)
        BY <2>2 DEF UpdateSaldoWithdrawMetadata, StepKind, core
    <2> QED
        BY <1>4, <2>1, <2>2 DEF Withdraw
<1>5. CASE SoftDelete
    <2>1. CASE \E s \in Saldos : TrashSaldo(s) \/ DeleteSaldoPermanently(s)
        BY <2>1 DEF TrashSaldo, DeleteSaldoPermanently, SetState, Trashed, StepKind, Switches
    <2>2. ASSUME NEW s \in Saldos, RestoreSaldo(s) PROVE Switches /\ UNCHANGED acked
        <3>1. Unopposed({s}) /\ SetState({s}, "active") /\ state[s] # "none"
            BY <2>2 DEF RestoreSaldo, Unopposed, Trashed
        <3> QED
            BY <3>1 DEF Switches, SetState
    <2>3. CASE RestoreAllSaldos
        <3>1. Trashed \in SUBSET Saldos /\ \A s \in Trashed : state[s] # "none"
            BY DEF Trashed
        <3>2. Unopposed(Trashed) /\ SetState(Trashed, "active")
            BY <2>3 DEF RestoreAllSaldos, Unopposed
        <3> QED
            BY <3>1, <3>2 DEF StepKind, Switches, SetState
    <2>4. CASE DeleteAllPermanentSaldos
        <3>1. Trashed \in SUBSET Saldos /\ \A s \in Trashed : state[s] # "none"
            BY DEF Trashed
        <3> QED
            BY <2>4, <3>1 DEF DeleteAllPermanentSaldos, SetState, StepKind, Switches
    <2> QED
        BY <1>5, <2>1, <2>2, <2>3, <2>4 DEF SoftDelete, StepKind
<1>6. CASE RequestFails \/ Reconcile \/ Crash \/ UNCHANGED vars
    BY <1>6 DEF RequestFails, Reconcile, ReconcilerScan, EnqueueMismatch, EnqueueFails,
        ResolveReconciliation, Crash, rows, vars, StepKind, core
<1> QED
    BY <1>1, <1>2, <1>3, <1>4, <1>5, <1>6 DEF Next

-----------------------------------------------------------------------------
(* One active saldo per card *)

\* A row not yet inserted has no entries and no money.
Fresh ==
    \A s \in Saldos : state[s] = "none" =>
        ledger[s] = <<>> /\ balance[s] = 0 /\ unledgered[s] = 0

OneActive ==
    \A r, s \in Saldos :
        state[r] = "active" /\ state[s] = "active" /\ card[r] = card[s] => r = s

\* Nothing writes to a row before it is inserted.
LEMMA FreshNext == TypeInv /\ Fresh /\ StepKind => Fresh'
<1> SUFFICES ASSUME TypeInv, Fresh, StepKind PROVE Fresh'
    OBVIOUS
<1> USE DEF TypeInv, TypeOK, Fresh
<1>1. CASE Opens
    BY <1>1 DEF Opens, InsertSaldo
<1>2. CASE Refills
    BY <1>2 DEF Refills
<1>3. CASE Posts
    BY <1>3 DEF Posts, Append1
<1>4. CASE Switches
    BY <1>4 DEF Switches, SetState
<1>5. CASE UNCHANGED core
    BY <1>5 DEF core
<1> QED
    BY <1>1, <1>2, <1>3, <1>4, <1>5 DEF StepKind

\* Inserting and restoring both look for another active saldo first.
LEMMA OneActiveNext == TypeInv /\ OneActive /\ StepKind => OneActive'
<1> SUFFICES ASSUME TypeInv, OneActive, StepKind PROVE OneActive'
    OBVIOUS
<1> USE DEF TypeInv, TypeOK, OneActive
<1>1. CASE Opens
    BY <1>1 DEF Opens, InsertSaldo, Active
<1>2. CASE Refills \/ Posts
    BY <1>2 DEF Refills, Posts
<1>3. CASE Switches
    <2>1. PICK S \in SUBSET Saldos, to \in {"active", "trashed", "purged"} :
              SetState(S, to) /\ (to = "active" => Unopposed(S))
        BY <1>3 DEF Switches
    <2>2. state' = [s \in Saldos |-> IF s \in S THEN to ELSE state[s]] /\ UNCHANGED card
        BY <2>1 DEF SetState
    <2>3. CASE to # "active"
        BY <2>2, <2>3
    <2>4. CASE to = "active"
        <3>1. \A s \in S, r \in Saldos : r # s /\ card[r] = card[s] =>
                  state[r] # "active" /\ r \notin S
            BY <2>1, <2>4 DEF Unopposed, NoOtherActive, Active
        <3> QED
            BY <2>2, <2>4, <3>1
    <2> QED
        BY <2>3, <2>4
<1>4. CASE UNCHANGED core
    BY <1>4 DEF core
<1> QED
    BY <1>1, <1>2, <1>3, <1>4 DEF StepKind

\* No order of create, trash, restore and restore-all leaves a card with two
\* active saldos, so a lookup by card number has one answer.
THEOREM OneActivePerCardHolds == Spec => []OneActivePerCard
<1>1. Init => OneActive
    BY DEF Init, OneActive
<1>2. TypeInv /\ OneActive /\ [Next]_vars => OneActive'
    BY StepKinds, OneActiveNext
<1>3. OneActive => OneActivePerCard
    <2> SUFFICES ASSUME OneActive, NEW c \in Cards
                 PROVE  Cardinality(Active(c)) <= 1
        BY DEF OneActivePerCard
    <2>1. CASE Active(c) = {}
        BY <2>1, FS_EmptySet
    <2>2. CASE Active(c) # {}
        <3>1. PICK s : s \in Active(c)
            BY <2>2
        <3>2. Active(c) = {s}
            BY <3>1 DEF Active, OneActive
        <3> QED
            BY <3>2, FS_Singleton
    <2> QED
        BY <2>1, <2>2
<1> QED
    BY <1>1, <1>2, <1>3, TypeInit, TypeNext, PTL DEF Spec

-----------------------------------------------------------------------------
(* The audit chain *)

\* ChainLinked for one saldo with balance b, entries L and refills u.
Excused(u, left) == left = 0 /\ u > 0

Linked(b, L, u) ==
    /\ \A i \in DOMAIN L :
        /\ L[i].after = L[i].before + L[i].delta
        /\ i > 1 => L[i].before = L[i-1].after \/ Excused(u, L[i-1].after)
    /\ L # <<>> => b = L[Len(L)].after \/ Excused(u, L[Len(L)].after)

\* ChainLinked, saldo by saldo.
LEMMA LinkedIsChain == ChainLinked <=> \A s \in Saldos : Linked(balance[s], ledger[s], unledgered[s])
BY DEF ChainLinked, Linked, Refilled, Excused

\* An entry that starts from the current balance extends the chain.
LEMMA LinkAppend ==
    ASSUME NEW b \in Nat, NEW L \in Seq(Entries), NEW u \in Nat, Linked(b, L, u),
           NEW e \in Entries, e.before = b, e.after = b + e.delta
    PROVE  Linked(e.after, Append(L, e), u)
<1> DEFINE M == Append(L, e)
<1>1. /\ Len(L) \in Nat /\ DOMAIN L = 1..Len(L)
      /\ Len(M) = Len(L) + 1 /\ DOMAIN M = 1..(Len(L) + 1)
      /\ M[Len(L) + 1] = e
      /\ \A i \in 1..Len(L) : M[i] = L[i]
    OBVIOUS
<1>2. L = <<>> <=> Len(L) = 0
    OBVIOUS
<1> HIDE DEF M
<1>3. ASSUME NEW i \in DOMAIN M
      PROVE  /\ M[i].after = M[i].before + M[i].delta
             /\ i > 1 => M[i].before = M[i-1].after \/ Excused(u, M[i-1].after)
    <2>1. CASE i = Len(L) + 1
        BY <1>1, <1>2, <2>1 DEF Linked
    <2>2. CASE i # Len(L) + 1
        <3>1. i \in DOMAIN L /\ (i > 1 => i - 1 \in DOMAIN L)
            BY <1>1, <2>2
        <3> QED
            BY <1>1, <3>1 DEF Linked
    <2> QED
        BY <2>1, <2>2
<1>4. M[Len(M)].after = e.after
    BY <1>1
<1> QED
    BY <1>3, <1>4 DEF Linked, M

\* Refilling an empty saldo breaks no link that is not excused.
LEMMA LinkRefill ==
    ASSUME NEW L \in Seq(Entries), NEW u \in Nat, Linked(0, L, u), NEW amt \in Nat \ {0}
    PROVE  Linked(amt, L, u + amt)
<1>1. \A left : Excused(u, left) => Excused(u + amt, left)
    BY DEF Excused
<1>2. Excused(u + amt, 0)
    BY DEF Excused
<1> QED
    BY <1>1, <1>2 DEF Linked

ChainInv == Fresh /\ ChainLinked

\* Each effect keeps the chain.
LEMMA ChainNext == TypeInv /\ ChainInv /\ StepKind => ChainLinked'
<1> SUFFICES ASSUME TypeInv, ChainInv, StepKind, NEW s \in Saldos
             PROVE  Linked(balance[s], ledger[s], unledgered[s])'
    BY LinkedIsChain DEF ChainLinked, Linked, Refilled, Excused
<1>1. Linked(balance[s], ledger[s], unledgered[s])
    BY LinkedIsChain DEF ChainInv
<1>2. balance[s] \in Nat /\ ledger[s] \in Seq(Entries) /\ unledgered[s] \in Nat
    BY DEF TypeInv, TypeOK
<1>3. CASE Opens
    <2>1. PICK c \in Cards, amt \in Nat, r \in Saldos : InsertSaldo(c, amt)!(r)
        BY <1>3 DEF Opens, InsertSaldo
    <2> DEFINE e == [op |-> OpeningOp(r), dir |-> "opening", amount |-> amt,
                     delta |-> amt, before |-> 0, after |-> amt]
    <2>2. CASE s = r
        <3>1. ledger[s] = <<>> /\ balance[s] = 0 /\ unledgered[s] = 0
            BY <2>1, <2>2 DEF ChainInv, Fresh
        <3>2. e \in Entries /\ e.before = 0 /\ e.after = 0 + e.delta /\ e.after = amt
            BY BuiltOps DEF Entries, Dirs
        <3> HIDE DEF e
        <3>3. Linked(amt, Append(ledger[s], e), unledgered[s])
            BY <1>1, <1>2, <3>1, <3>2, LinkAppend
        <3>4. ledger'[s] = Append(ledger[s], e) /\ balance'[s] = amt /\ unledgered' = unledgered
            BY <2>1, <2>2 DEF e, TypeInv, TypeOK
        <3> QED
            BY <3>3, <3>4
    <2>3. CASE s # r
        BY <1>1, <2>1, <2>3 DEF TypeInv, TypeOK
    <2> QED
        BY <2>2, <2>3
<1>4. CASE Refills
    <2>1. PICK r \in Saldos, amt \in Nat \ {0} :
              /\ balance[r] = 0
              /\ balance' = [balance EXCEPT ![r] = amt]
              /\ unledgered' = [unledgered EXCEPT ![r] = @ + amt]
              /\ UNCHANGED ledger
        BY <1>4 DEF Refills
    <2>2. CASE s = r
        <3>1. Linked(amt, ledger[s], unledgered[s] + amt)
            BY <1>1, <1>2, <2>1, <2>2, LinkRefill
        <3> QED
            BY <2>1, <2>2, <3>1 DEF TypeInv, TypeOK
    <2>3. CASE s # r
        BY <1>1, <2>1, <2>3 DEF TypeInv, TypeOK
    <2> QED
        BY <2>2, <2>3
<1>5. CASE Posts
    <2>1. PICK r \in Saldos, op \in OpIds, dir \in Dirs, amt \in Nat, delta \in Int :
              Append1(r, op, dir, amt, delta) /\ UNCHANGED unledgered
        BY <1>5 DEF Posts
    <2> DEFINE e == [op |-> op, dir |-> dir, amount |-> amt, delta |-> delta,
                     before |-> balance[r], after |-> balance[r] + delta]
    <2>2. CASE s = r
        <3>1. balance[s] + delta \in Nat
            BY <1>2, <2>1, <2>2 DEF Append1, Allowed
        <3>2. e \in Entries /\ e.before = balance[s] /\ e.after = balance[s] + e.delta
            BY <1>2, <2>2, <3>1 DEF Entries
        <3>3. ledger'[s] = Append(ledger[s], e) /\ balance'[s] = e.after
            BY <2>1, <2>2 DEF Append1, TypeInv, TypeOK
        <3> HIDE DEF e
        <3>4. Linked(e.after, Append(ledger[s], e), unledgered[s])
            BY <1>1, <1>2, <3>2, LinkAppend
        <3> QED
            BY <2>1, <3>3, <3>4
    <2>3. CASE s # r
        BY <1>1, <2>1, <2>3 DEF Append1, TypeInv, TypeOK
    <2> QED
        BY <2>2, <2>3
<1>6. CASE Switches \/ UNCHANGED core
    BY <1>1, <1>6 DEF Switches, SetState, core
<1> QED
    BY <1>3, <1>4, <1>5, <1>6 DEF StepKind

\* Each entry of the append-only ledger starts where the previous one ended and
\* the last one ends at the current balance, whatever is retried, trashed or
\* re-created; the only gap possible is the refill of an empty saldo.
THEOREM ChainLinkedHolds == Spec => []ChainLinked
<1>1. Init => ChainInv
    <2> SUFFICES ASSUME Init PROVE ChainInv
        OBVIOUS
    <2>1. Fresh
        BY DEF Init, Fresh
    <2>2. ChainLinked
        BY DEF Init, ChainLinked
    <2> QED
        BY <2>1, <2>2 DEF ChainInv
<1>2. TypeInv /\ ChainInv /\ [Next]_vars => ChainInv'
    BY StepKinds, FreshNext, ChainNext DEF ChainInv
<1>3. ChainInv => ChainLinked
    BY DEF ChainInv
<1> QED
    BY <1>1, <1>2, <1>3, TypeInit, TypeNext, PTL DEF Spec

-----------------------------------------------------------------------------
(* The reconciliation queue *)

\* A pending mismatch leaves the queue only by an operator's resolution, in a
\* state in which balance and ledger agree again.
THEOREM MismatchRetainedHolds == Spec => MismatchRetained
<1>1. TypeInv /\ [Next]_vars =>
          [\A s \in Saldos : queue[s] = "pending" /\ queue'[s] # "pending" =>
              queue'[s] = "resolved" /\ state[s] = "active" /\ ~Mismatched(s)]_vars
    <2> SUFFICES ASSUME TypeInv, [Next]_vars, NEW s \in Saldos,
                        queue[s] = "pending", queue'[s] # "pending"
                 PROVE  queue'[s] = "resolved" /\ state[s] = "active" /\ ~Mismatched(s)
        OBVIOUS
    <2>1. queue' # queue
        OBVIOUS
    <2>2. PICK r \in Saldos : EnqueueMismatch(r) \/ ResolveReconciliation(r)
        BY <2>1 DEF Next, Create, CreateSaldo, CreateSaldoIfNotExists, InsertSaldo,
            Move, DebitSaldo, CreditSaldo, ApplySaldoAdjustment, Update,
            UpdateSaldoRead, UpdateSaldoAdjust, Withdraw, UpdateSaldoWithdrawDebit,
            UpdateSaldoWithdrawMetadata, RequestFails, SoftDelete, TrashSaldo,
            RestoreSaldo, DeleteSaldoPermanently, RestoreAllSaldos,
            DeleteAllPermanentSaldos, SetState, Reconcile, ReconcilerScan,
            EnqueueFails, Crash, vars
    <2>3. ~EnqueueMismatch(r)
        BY DEF EnqueueMismatch, TypeInv, TypeOK
    <2> QED
        BY <2>2, <2>3 DEF ResolveReconciliation, Mismatched, TypeInv, TypeOK
<1> QED
    BY <1>1, TypeInit, TypeNext, PTL DEF Spec, MismatchRetained

-----------------------------------------------------------------------------
(* One ledger entry per acknowledged movement *)

\* Opening entries carry the operation id of their own saldo.
OpeningsOwn ==
    \A s \in Saldos : \A i \in DOMAIN ledger[s] :
        ledger[s][i].dir = "opening" => ledger[s][i].op = OpeningOp(s)

\* The unique index on (operation_id, card_number, direction).
UniqueKeys ==
    \A r, s \in Saldos : \A i \in DOMAIN ledger[r], j \in DOMAIN ledger[s] :
        card[r] = card[s] /\ ledger[r][i].op = ledger[s][j].op /\ ledger[r][i].dir = ledger[s][j].dir
            => r = s /\ i = j

KeyInv == Fresh /\ OpeningsOwn /\ UniqueKeys

\* A step leaves the entries alone, or appends to one saldo an entry whose key
\* no entry of its card carries; the first entry of a saldo is its opening.
Extends(s, e) ==
    /\ ledger' = [ledger EXCEPT ![s] = Append(@, e)]
    /\ state'[s] # "none"
    /\ \A r \in Saldos : r # s => card'[r] = card[r]
    /\ ledger[s] # <<>> => card'[s] = card[s]
    /\ \A r \in Saldos : \A i \in DOMAIN ledger[r] :
        card'[r] = card'[s] => ledger[r][i].op # e.op \/ ledger[r][i].dir # e.dir
    /\ e.dir = "opening" => e.op = OpeningOp(s)

\* How a step of each kind changes the ledger.
LEMMA Extension ==
    ASSUME TypeInv, KeyInv, StepKind
    PROVE  \/ UNCHANGED <<card, ledger>> /\ (Refills \/ Switches \/ UNCHANGED core)
           \/ \E s \in Saldos, e \in Entries :
                /\ Extends(s, e)
                /\ balance' = [balance EXCEPT ![s] = @ + e.delta]
                /\ balance'[s] >= 0
<1> USE DEF TypeInv, TypeOK
<1>1. CASE Opens
    <2>1. PICK c \in Cards, amt \in Nat, s \in Saldos : InsertSaldo(c, amt)!(s)
        BY <1>1 DEF Opens, InsertSaldo
    <2> DEFINE e == [op |-> OpeningOp(s), dir |-> "opening", amount |-> amt,
                     delta |-> amt, before |-> 0, after |-> amt]
    <2>2. e \in Entries
        BY BuiltOps DEF Entries, Dirs
    <2>3. ledger[s] = <<>> /\ balance[s] = 0
        BY <2>1 DEF KeyInv, Fresh
    <2>4. ASSUME NEW r \in Saldos, NEW i \in DOMAIN ledger[r]
          PROVE  ledger[r][i].op # e.op \/ ledger[r][i].dir # e.dir
        <3>1. r # s
            BY <2>3, <2>4
        <3>2. OpeningOp(r) # OpeningOp(s)
            BY <3>1 DEF OpeningOp
        <3> QED
            BY <3>2 DEF KeyInv, OpeningsOwn
    <2>5. Extends(s, e)
        BY <2>1, <2>3, <2>4 DEF Extends
    <2>6. balance' = [balance EXCEPT ![s] = @ + e.delta] /\ balance'[s] >= 0
        BY <2>1, <2>3
    <2> QED
        BY <2>2, <2>5, <2>6
<1>2. CASE Posts
    <2>1. PICK s \in Saldos, op \in OpIds, dir \in Dirs \ {"opening"}, amt \in Nat, delta \in Int :
              /\ state[s] = "active"
              /\ Append1(s, op, dir, amt, delta)
              /\ UNCHANGED <<card, state>>
        BY <1>2 DEF Posts
    <2> DEFINE e == [op |-> op, dir |-> dir, amount |-> amt, delta |-> delta,
                     before |-> balance[s], after |-> balance[s] + delta]
    <2>2. balance[s] \in Nat /\ balance[s] + delta \in Nat
        BY <2>1 DEF Append1, Allowed
    <2>3. e \in Entries
        BY <2>2 DEF Entries
    <2>4. ASSUME NEW r \in Saldos, NEW i \in DOMAIN ledger[r], card[r] = card[s]
          PROVE  ledger[r][i].op # op \/ ledger[r][i].dir # dir
        <3>1. ledger[r][i] \in CardEntries(card[s])
            BY <2>4 DEF CardEntries, SaldosOf, Range
        <3> QED
            BY <2>1, <3>1 DEF Append1, Recorded
    <2>5. Extends(s, e)
        BY <2>1, <2>4 DEF Extends, Append1
    <2>6. balance' = [balance EXCEPT ![s] = @ + e.delta] /\ balance'[s] >= 0
        BY <2>1, <2>2 DEF Append1
    <2> QED
        BY <2>3, <2>5, <2>6
<1>3. CASE Refills \/ Switches \/ UNCHANGED core
    BY <1>3 DEF Refills, Switches, SetState, core
<1> QED
    BY <1>1, <1>2, <1>3 DEF StepKind

\* Reading a ledger after it was extended.
LEMMA ExtendedLedger ==
    ASSUME TypeInv, NEW s \in Saldos, NEW e \in Entries, Extends(s, e), NEW r \in Saldos
    PROVE  /\ r # s => ledger'[r] = ledger[r]
           /\ r = s => /\ DOMAIN ledger'[s] = DOMAIN ledger[s] \union {Len(ledger[s]) + 1}
                       /\ Len(ledger[s]) + 1 \notin DOMAIN ledger[s]
                       /\ ledger'[s][Len(ledger[s]) + 1] = e
                       /\ \A i \in DOMAIN ledger[s] : ledger'[s][i] = ledger[s][i]
<1>1. ledger \in [Saldos -> Seq(Entries)]
    BY DEF TypeInv, TypeOK
<1>2. r # s => ledger'[r] = ledger[r]
    BY <1>1 DEF Extends
<1>3. ledger'[s] = Append(ledger[s], e) /\ ledger[s] \in Seq(Entries)
    BY <1>1 DEF Extends
<1> QED
    BY <1>2, <1>3

\* An extension keeps the keys unique.
LEMMA KeyInvNext == TypeInv /\ KeyInv /\ StepKind => KeyInv'
<1> SUFFICES ASSUME TypeInv, KeyInv, StepKind PROVE KeyInv'
    OBVIOUS
<1>1. Fresh'
    BY FreshNext DEF KeyInv
<1>2. CASE UNCHANGED <<card, ledger>>
    BY <1>1, <1>2 DEF KeyInv, OpeningsOwn, UniqueKeys
<1>3. ASSUME NEW s \in Saldos, NEW e \in Entries, Extends(s, e)
      PROVE  KeyInv'
    <2> DEFINE n == Len(ledger[s]) + 1
    <2>1. \A r \in Saldos : \A i \in DOMAIN ledger'[r] :
              \/ r = s /\ i = n /\ ledger'[r][i] = e
              \/ i \in DOMAIN ledger[r] /\ ledger'[r][i] = ledger[r][i]
                    /\ card'[r] = card[r]
        <3> SUFFICES ASSUME NEW r \in Saldos, NEW i \in DOMAIN ledger'[r]
                     PROVE  \/ r = s /\ i = n /\ ledger'[r][i] = e
                            \/ i \in DOMAIN ledger[r] /\ ledger'[r][i] = ledger[r][i]
                                  /\ card'[r] = card[r]
            OBVIOUS
        <3>1. CASE r = s
            BY <1>3, <3>1, ExtendedLedger DEF Extends
        <3>2. CASE r # s
            BY <1>3, <3>2, ExtendedLedger DEF Extends
        <3> QED
            BY <3>1, <3>2
    <2> HIDE DEF n
    <2>2. OpeningsOwn'
        BY <1>3, <2>1 DEF OpeningsOwn, KeyInv, Extends, OpeningOp
    <2>3. UniqueKeys'
        BY <1>3, <2>1 DEF UniqueKeys, KeyInv, Extends
    <2> QED
        BY <1>1, <2>2, <2>3 DEF KeyInv
<1> QED
    BY <1>2, <1>3, Extension

\* Every acknowledged movement is in the ledger of its card.
AckedRecorded ==
    \A m \in acked : \E s \in Saldos : \E i \in DOMAIN ledger[s] :
        /\ card[s] = m.card
        /\ ledger[s][i].op = m.op /\ ledger[s][i].dir = m.dir /\ ledger[s][i].delta = m.delta

\* Entries stay where they are, under the card they were written for.
LEMMA EntriesStay ==
    ASSUME TypeInv, KeyInv, StepKind, NEW r \in Saldos, NEW i \in DOMAIN ledger[r]
    PROVE  i \in DOMAIN ledger'[r] /\ ledger'[r][i] = ledger[r][i] /\ card'[r] = card[r]
<1>1. CASE UNCHANGED <<card, ledger>>
    BY <1>1
<1>2. ASSUME NEW s \in Saldos, NEW e \in Entries, Extends(s, e)
      PROVE  i \in DOMAIN ledger'[r] /\ ledger'[r][i] = ledger[r][i] /\ card'[r] = card[r]
    <2>1. CASE r = s
        <3>1. ledger[s] # <<>>
            BY <2>1
        <3> QED
            BY <1>2, <2>1, <3>1, ExtendedLedger DEF Extends
    <2>2. CASE r # s
        BY <1>2, <2>2, ExtendedLedger DEF Extends
    <2> QED
        BY <2>1, <2>2
<1> QED
    BY <1>1, <1>2, Extension

\* A new acknowledgement comes with its entry, and old entries stay.
LEMMA AckedRecordedNext ==
    TypeInv /\ KeyInv /\ AckedRecorded /\ StepKind /\ AckKind => AckedRecorded'
<1> SUFFICES ASSUME TypeInv, KeyInv, AckedRecorded, StepKind, AckKind, NEW m \in acked'
             PROVE  \E s \in Saldos : \E i \in DOMAIN ledger'[s] :
                        /\ card'[s] = m.card
                        /\ ledger'[s][i].op = m.op /\ ledger'[s][i].dir = m.dir
                        /\ ledger'[s][i].delta = m.delta
    BY DEF AckedRecorded
<1>1. CASE m \in acked
    <2>1. PICK s, i :
              /\ s \in Saldos /\ i \in DOMAIN ledger[s]
              /\ card[s] = m.card
              /\ ledger[s][i].op = m.op /\ ledger[s][i].dir = m.dir /\ ledger[s][i].delta = m.delta
        BY <1>1 DEF AckedRecorded
    <2> QED
        BY <2>1, EntriesStay
<1>2. CASE m \notin acked
    <2>1. PICK s \in Saldos, op \in OpIds, dir \in Dirs, amt \in Nat, delta \in Int :
              Mutate(s, op, dir, amt, delta) /\ UNCHANGED card
        BY <1>2 DEF AckKind, Acknowledges
    <2>2. m = [card |-> card[s], op |-> op, dir |-> dir, delta |-> delta]
        BY <1>2, <2>1 DEF Mutate
    <2>3. CASE Append1(s, op, dir, amt, delta)
        <3> DEFINE e == [op |-> op, dir |-> dir, amount |-> amt, delta |-> delta,
                         before |-> balance[s], after |-> balance[s] + delta]
                   n == Len(ledger[s]) + 1
        <3>1. ledger'[s] = Append(ledger[s], e) /\ ledger[s] \in Seq(Entries)
            BY <2>3 DEF Append1, TypeInv, TypeOK
        <3>2. n \in DOMAIN ledger'[s] /\ ledger'[s][n] = e
            BY <3>1
        <3> QED
            BY <2>1, <2>2, <3>2
    <2>4. CASE Replay(s, op, dir, delta)
        <3>1. PICK e \in CardEntries(card[s]) : e.op = op /\ e.dir = dir /\ e.delta = delta
            BY <2>4 DEF Replay, Recorded
        <3>2. PICK r, i :
                  r \in Saldos /\ i \in DOMAIN ledger[r] /\ card[r] = card[s] /\ ledger[r][i] = e
            BY <3>1 DEF CardEntries, SaldosOf, Range
        <3> QED
            BY <2>1, <2>2, <2>4, <3>1, <3>2 DEF Replay
    <2> QED
        BY <2>1, <2>3, <2>4 DEF Mutate
<1> QED
    BY <1>1, <1>2

AckInv == KeyInv /\ AckedRecorded

\* A recorded movement whose key is unique is recorded once.
LEMMA AckInvImplies == TypeInv /\ AckInv => AckedExactlyOnce
<1> SUFFICES ASSUME TypeInv, AckInv, NEW m \in acked
             PROVE  /\ Cardinality(Carrying(m)) = 1
                    /\ \A p \in Carrying(m) : ledger[p[1]][p[2]].delta = m.delta
    BY DEF AckedExactlyOnce
<1>1. PICK s, i :
          /\ s \in Saldos /\ i \in DOMAIN ledger[s]
          /\ card[s] = m.card
          /\ ledger[s][i].op = m.op /\ ledger[s][i].dir = m.dir /\ ledger[s][i].delta = m.delta
    BY DEF AckInv, AckedRecorded
<1>2. <<s, i>> \in Carrying(m)
    BY <1>1 DEF Carrying, SaldosOf
<1>3. ASSUME NEW p \in Carrying(m) PROVE p = <<s, i>>
    <2>1. PICK r, j :
              /\ r \in Saldos /\ j \in DOMAIN ledger[r]
              /\ p = <<r, j>>
              /\ card[r] = m.card
              /\ ledger[r][j].op = m.op /\ ledger[r][j].dir = m.dir
        BY DEF Carrying, SaldosOf
    <2>2. r = s /\ j = i
        BY <1>1, <2>1 DEF AckInv, KeyInv, UniqueKeys
    <2> QED
        BY <2>1, <2>2
<1>4. Carrying(m) = {<<s, i>>}
    BY <1>2, <1>3
<1>5. Cardinality(Carrying(m)) = 1
    BY <1>4, FS_Singleton
<1> QED
    BY <1>1, <1>4, <1>5

\* With no entries the key invariants are vacuous.
LEMMA KeyInvInit == Init => KeyInv /\ AckedRecorded
<1> SUFFICES ASSUME Init PROVE KeyInv /\ AckedRecorded
    OBVIOUS
<1>1. Fresh
    BY DEF Init, Fresh
<1>2. OpeningsOwn /\ UniqueKeys
    BY DEF Init, OpeningsOwn, UniqueKeys
<1>3. AckedRecorded
    BY DEF Init, AckedRecorded
<1> QED
    BY <1>1, <1>2, <1>3 DEF KeyInv

\* A caller told of success finds exactly one entry with its operation id, card
\* and direction, and it moved what was asked for: retries after a timeout, a
\* crash or a re-creation of the saldo never move money twice.
THEOREM AckedExactlyOnceHolds == Spec => []AckedExactlyOnce
<1>1. Init => AckInv
    BY KeyInvInit DEF AckInv
<1>2. TypeInv /\ AckInv /\ [Next]_vars => AckInv'
    BY StepKinds, KeyInvNext, AckedRecordedNext DEF AckInv
<1> QED
    BY <1>1, <1>2, AckInvImplies, TypeInit, TypeNext, PTL DEF Spec

-----------------------------------------------------------------------------
(* The tables implement the book *)

MovementOf(c, e) == [card |-> c, op |-> e.op, dir |-> e.dir, delta |-> e.delta]

\* Membership in PostedMovements, before and after a step.
LEMMA PostedIff ==
    ASSUME NEW m
    PROVE  m \in PostedMovements <=>
              \E s \in Saldos : \E i \in DOMAIN ledger[s] : m = MovementOf(card[s], ledger[s][i])
BY DEF PostedMovements, Range, MovementOf

\* The same of the movements after a step.
LEMMA PostedIffNext ==
    ASSUME NEW m
    PROVE  m \in PostedMovements' <=>
              \E s \in Saldos : \E i \in DOMAIN ledger'[s] : m = MovementOf(card'[s], ledger'[s][i])
BY DEF PostedMovements, Range, MovementOf

\* An appended entry posts one movement, with a key nothing posted has.
LEMMA ExtensionPosts ==
    ASSUME TypeInv, KeyInv, StepKind, NEW s \in Saldos, NEW e \in Entries, Extends(s, e)
    PROVE  /\ PostedMovements' = PostedMovements \union {MovementOf(card'[s], e)}
           /\ \A q \in PostedMovements : Book!Key(q) # Book!Key(MovementOf(card'[s], e))
<1> DEFINE n == Len(ledger[s]) + 1
           m == MovementOf(card'[s], e)
<1>1. n \in DOMAIN ledger'[s] /\ ledger'[s][n] = e
    BY ExtendedLedger
<1>2. m \in PostedMovements'
    BY <1>1, PostedIffNext
<1>3. ASSUME NEW q \in PostedMovements
      PROVE  q \in PostedMovements' /\ Book!Key(q) # Book!Key(m)
    <2>1. PICK r, i :
              r \in Saldos /\ i \in DOMAIN ledger[r] /\ q = MovementOf(card[r], ledger[r][i])
        BY PostedIff
    <2>2. i \in DOMAIN ledger'[r] /\ ledger'[r][i] = ledger[r][i] /\ card'[r] = card[r]
        BY <2>1, EntriesStay
    <2>3. q \in PostedMovements'
        BY <2>1, <2>2, PostedIffNext
    <2>4. card'[r] = card'[s] => ledger[r][i].op # e.op \/ ledger[r][i].dir # e.dir
        BY <2>1 DEF Extends
    <2>5. Book!Key(q) # Book!Key(m)
        BY <2>1, <2>2, <2>4 DEF Book!Key, MovementOf
    <2> QED
        BY <2>3, <2>5
<1>4. ASSUME NEW q \in PostedMovements', q # m PROVE q \in PostedMovements
    <2>1. PICK r, i :
              r \in Saldos /\ i \in DOMAIN ledger'[r] /\ q = MovementOf(card'[r], ledger'[r][i])
        BY PostedIffNext
    <2>2. i \in DOMAIN ledger[r] /\ ledger'[r][i] = ledger[r][i]
        BY <1>4, <2>1, ExtendedLedger
    <2>3. q = MovementOf(card[r], ledger[r][i])
        BY <2>1, <2>2, EntriesStay
    <2> QED
        BY <2>1, <2>2, <2>3, PostedIff
<1> HIDE DEF m
<1>5. PostedMovements' = PostedMovements \union {m}
    BY <1>2, <1>3, <1>4
<1> QED
    BY <1>3, <1>5 DEF m

\* Every kind of step is a step of the book or leaves it alone.
LEMMA BookStep ==
    TypeInv /\ KeyInv /\ StepKind => [Book!Next]_<<balance, PostedMovements>>
<1> SUFFICES ASSUME TypeInv, KeyInv, StepKind
             PROVE  Book!Next \/ UNCHANGED <<balance, PostedMovements>>
    OBVIOUS
<1>1. ASSUME NEW s \in Saldos, NEW e \in Entries, Extends(s, e),
             balance' = [balance EXCEPT ![s] = @ + e.delta], balance'[s] >= 0
      PROVE  Book!Post
    <2> DEFINE m == MovementOf(card'[s], e)
    <2>1. m.delta = e.delta
        BY DEF MovementOf
    <2> HIDE DEF m
    <2>2. PostedMovements' = PostedMovements \union {m}
        BY <1>1, ExtensionPosts DEF m
    <2>3. \A q \in PostedMovements : Book!Key(q) # Book!Key(m)
        BY <1>1, ExtensionPosts DEF m
    <2>4. m \in PostedMovements' /\ balance' = [balance EXCEPT ![s] = @ + m.delta]
        BY <1>1, <2>1, <2>2
    <2> QED
        BY <1>1, <2>2, <2>3, <2>4 DEF Book!Post
<1>2. CASE UNCHANGED <<card, ledger>> /\ (Refills \/ Switches \/ UNCHANGED core)
    <2>1. UNCHANGED PostedMovements
        BY <1>2 DEF PostedMovements
    <2>2. CASE Refills
        <3>1. PICK s \in Saldos, amt \in Nat \ {0} :
                  balance[s] = 0 /\ balance' = [balance EXCEPT ![s] = amt]
            BY <2>2 DEF Refills
        <3>2. balance'[s] > 0 /\ balance' = [balance EXCEPT ![s] = balance'[s]]
            BY <3>1 DEF TypeInv, TypeOK
        <3> QED
            BY <2>1, <3>1, <3>2 DEF Book!Next, Book!Refill
    <2>3. CASE Switches \/ UNCHANGED core
        BY <2>1, <2>3 DEF Switches, SetState, core
    <2> QED
        BY <1>2, <2>2, <2>3
<1> QED
    BY <1>1, <1>2, Extension DEF Book!Next

\* What the saldo service does is what the book promises: each movement takes
\* effect at most once, changes one balance by its delta and never overdraws it,
\* and apart from movements only an empty saldo's balance may change.
THEOREM ImplementsBookHolds == Spec => ImplementsBook
<1>1. Init => Book!Init
    <2> SUFFICES ASSUME Init PROVE Book!Init
        OBVIOUS
    <2>1. PostedMovements = {}
        BY DEF Init, PostedMovements, Range
    <2> QED
        BY <2>1 DEF Init, Book!Init
<1>2. TypeInv /\ KeyInv /\ [Next]_vars => KeyInv' /\ [Book!Next]_<<balance, PostedMovements>>
    BY StepKinds, KeyInvNext, BookStep
<1>3. Init => KeyInv
    BY KeyInvInit
<1> QED
    BY <1>1, <1>2, <1>3, TypeInit, TypeNext, PTL DEF Spec, ImplementsBook, Book!Spec

-----------------------------------------------------------------------------
(* Withdraw metadata *)

\* Metadata, written or about to be, describes a debit that is in the ledger.
Backed(w) == Recorded(w.card, WithdrawOp(w.card, w.time, w.amount), "debit") # {}

BackedInv ==
    /\ \A s \in Saldos : \A w \in lastWithdraw[s] : Backed(w)
    /\ \A w \in withdrawing : Backed(w)

\* Recorded, before and after a step.
LEMMA RecordedIff ==
    ASSUME NEW c, NEW op, NEW dir
    PROVE  Recorded(c, op, dir) # {} <=>
              \E s \in Saldos : \E i \in DOMAIN ledger[s] :
                card[s] = c /\ ledger[s][i].op = op /\ ledger[s][i].dir = dir
BY DEF Recorded, CardEntries, SaldosOf, Range

\* The same of the entries after a step.
LEMMA RecordedIffNext ==
    ASSUME NEW c, NEW op, NEW dir
    PROVE  Recorded(c, op, dir)' # {} <=>
              \E s \in Saldos : \E i \in DOMAIN ledger'[s] :
                card'[s] = c /\ ledger'[s][i].op = op /\ ledger'[s][i].dir = dir
BY DEF Recorded, CardEntries, SaldosOf, Range

\* The ledger is append-only, so what is backed stays backed.
LEMMA BackedStays ==
    ASSUME TypeInv, KeyInv, StepKind, NEW w, Backed(w)
    PROVE  Backed(w)'
<1> DEFINE op == WithdrawOp(w.card, w.time, w.amount)
<1>1. PICK s, i :
          /\ s \in Saldos /\ i \in DOMAIN ledger[s]
          /\ card[s] = w.card /\ ledger[s][i].op = op /\ ledger[s][i].dir = "debit"
    BY RecordedIff DEF Backed
<1>2. i \in DOMAIN ledger'[s] /\ ledger'[s][i] = ledger[s][i] /\ card'[s] = card[s]
    BY <1>1, EntriesStay
<1>3. Recorded(w.card, op, "debit")' # {}
    BY <1>1, <1>2, RecordedIffNext
<1> QED
    BY <1>3 DEF Backed, WithdrawOp

\* The debit is acknowledged before the metadata is remembered or written.
LEMMA BackedNext ==
    TypeInv /\ AckInv /\ AckInv' /\ BackedInv /\ [Next]_vars => BackedInv'
<1> SUFFICES ASSUME TypeInv, AckInv, AckInv', BackedInv, [Next]_vars PROVE BackedInv'
    OBVIOUS
<1>1. StepKind /\ KeyInv
    BY StepKinds DEF AckInv
<1>2. \A w : Backed(w) => Backed(w)'
    BY <1>1, BackedStays
<1>3. ASSUME UNCHANGED lastWithdraw, withdrawing' \subseteq withdrawing PROVE BackedInv'
    BY <1>2, <1>3 DEF BackedInv
<1>4. ASSUME NEW c \in Cards, NEW t \in Times, NEW amt \in Amounts,
             UpdateSaldoWithdrawDebit(c, t, amt)
      PROVE  BackedInv'
    <2> DEFINE w == [card |-> c, time |-> t, amount |-> amt]
               op == WithdrawOp(c, t, amt)
    <2>1. PICK s \in Active(c) :
              /\ Mutate(s, op, "debit", amt, -amt)
              /\ withdrawing' = withdrawing \union {w}
              /\ UNCHANGED lastWithdraw
        BY <1>4 DEF UpdateSaldoWithdrawDebit
    <2>2. [card |-> c, op |-> op, dir |-> "debit", delta |-> -amt] \in acked'
        BY <2>1, ActiveFacts DEF Mutate
    <2>3. \E r \in Saldos : \E i \in DOMAIN ledger'[r] :
              card'[r] = c /\ ledger'[r][i].op = op /\ ledger'[r][i].dir = "debit"
        BY <2>2 DEF AckInv, AckedRecorded
    <2>4. Recorded(c, op, "debit")' # {}
        BY <2>3, RecordedIffNext
    <2>5. Backed(w)'
        BY <2>4 DEF Backed, WithdrawOp
    <2> QED
        BY <1>2, <2>1, <2>5 DEF BackedInv
<1>5. ASSUME NEW w \in withdrawing, UpdateSaldoWithdrawMetadata(w) PROVE BackedInv'
    <2>1. PICK s \in Active(w.card) :
              /\ lastWithdraw' = [lastWithdraw EXCEPT ![s] = {w}]
              /\ withdrawing' = withdrawing \ {w}
        BY <1>5 DEF UpdateSaldoWithdrawMetadata
    <2>2. \A r \in Saldos : lastWithdraw'[r] \subseteq lastWithdraw[r] \union {w}
        BY <2>1 DEF TypeInv, TypeOK
    <2> QED
        BY <1>2, <2>1, <2>2 DEF BackedInv
<1>6. CASE Create
    BY <1>3, <1>6 DEF Create, CreateSaldo, CreateSaldoIfNotExists, InsertSaldo
<1>7. CASE Move
    BY <1>3, <1>7 DEF Move, DebitSaldo, CreditSaldo, ApplySaldoAdjustment
<1>8. CASE Update
    BY <1>3, <1>8 DEF Update, UpdateSaldoRead, UpdateSaldoAdjust, rows
<1>9. CASE SoftDelete
    BY <1>3, <1>9 DEF SoftDelete, TrashSaldo, RestoreSaldo, DeleteSaldoPermanently,
        RestoreAllSaldos, DeleteAllPermanentSaldos, SetState
<1>10. CASE Reconcile
    BY <1>3, <1>10 DEF Reconcile, ReconcilerScan, EnqueueMismatch, EnqueueFails,
        ResolveReconciliation, rows
<1>11. CASE RequestFails \/ Crash \/ UNCHANGED vars
    BY <1>3, <1>11 DEF RequestFails, Crash, rows, vars
<1> QED
    BY <1>4, <1>5, <1>6, <1>7, <1>8, <1>9, <1>10, <1>11 DEF Next, Withdraw

\* A saldo shows a withdrawal only if its debit is in the ledger, even when the
\* process stops between the two statements or the saldo is re-created there.
THEOREM WithdrawMetadataBackedHolds == Spec => []WithdrawMetadataBacked
<1>1. Init => AckInv /\ BackedInv
    BY KeyInvInit DEF AckInv, BackedInv, Init
<1>2. TypeInv /\ AckInv /\ [Next]_vars => AckInv'
    BY StepKinds, KeyInvNext, AckedRecordedNext DEF AckInv
<1>3. TypeInv /\ AckInv /\ BackedInv /\ [Next]_vars => BackedInv'
    BY <1>2, BackedNext
<1>4. BackedInv => WithdrawMetadataBacked
    BY DEF BackedInv, Backed, WithdrawMetadataBacked
<1> QED
    BY <1>1, <1>2, <1>3, <1>4, TypeInit, TypeNext, PTL DEF Spec
-----------------------------------------------------------------------------
(* Every unit is accounted for *)

\* DeltaSum for one ledger: what its entries moved in all.
Deltas(L) == SumFunction([i \in DOMAIN L |-> L[i].delta])

\* BalanceAccounted for one saldo with balance b, entries L and refills u.
Accounted(b, L, u) == b = Deltas(L) + u

\* BalanceAccounted, saldo by saldo.
LEMMA AccountedIsBalance ==
    BalanceAccounted <=> \A s \in Saldos : Accounted(balance[s], ledger[s], unledgered[s])
BY DEF BalanceAccounted, Accounted, DeltaSum, Deltas

\* A saldo without entries was moved by nothing.
LEMMA DeltasOfNothing == ASSUME NEW L, L = <<>> PROVE Deltas(L) = 0
<1> DEFINE f == [i \in DOMAIN L |-> L[i].delta]
<1>1. DOMAIN f = {}
    OBVIOUS
<1> HIDE DEF f
<1>2. SumFunction(f) = 0
    BY <1>1, SumOfNothing DEF SumFunction
<1> QED
    BY <1>2 DEF Deltas, f

\* An appended entry adds its delta.
LEMMA DeltasAppend ==
    ASSUME NEW L \in Seq(Entries), NEW e \in Entries
    PROVE  Deltas(Append(L, e)) = Deltas(L) + e.delta
<1> DEFINE M == Append(L, e)
           n == Len(L)
           f == [i \in DOMAIN L |-> L[i].delta]
           g == [i \in DOMAIN M |-> M[i].delta]
<1>1. /\ n \in Nat /\ DOMAIN L = 1..n
      /\ DOMAIN M = 1..(n + 1)
      /\ M[n + 1] = e
      /\ \A i \in 1..n : M[i] = L[i] /\ L[i] \in Entries
    OBVIOUS
<1>2. \A x \in Entries : x.delta \in Int
    BY DEF Entries
<1>3. n + 1 \in 1..(n + 1) /\ \A i \in 1..(n + 1) : i \in 1..n \/ i = n + 1
    BY <1>1
<1>4. \A i \in 1..(n + 1) : M[i] \in Entries
    BY <1>1, <1>3
<1> HIDE DEF M, n
<1>5. f \in [1..n -> Int]
    BY <1>1, <1>2
<1>6. g \in [1..(n + 1) -> Int]
    BY <1>1, <1>2, <1>4
<1>7. g[n + 1] = e.delta
    BY <1>1, <1>3
<1>8. \A i \in 1..n : g[i] = f[i]
    BY <1>1
<1> HIDE DEF f, g
<1>9. SumFunction(g) = SumFunction(f) + g[n + 1]
    BY <1>1, <1>5, <1>6, <1>8, SumAppend
<1> QED
    BY <1>7, <1>9 DEF Deltas, f, g, M

\* The deltas of a ledger sum to a number.
LEMMA DeltasType == ASSUME NEW L \in Seq(Entries) PROVE Deltas(L) \in Int
<1> DEFINE f == [i \in DOMAIN L |-> L[i].delta]
<1>1. Len(L) \in Nat /\ DOMAIN L = 1..Len(L) /\ \A i \in DOMAIN L : L[i].delta \in Int
    <2>1. Len(L) \in Nat /\ DOMAIN L = 1..Len(L) /\ \A i \in DOMAIN L : L[i] \in Entries
        OBVIOUS
    <2>2. \A x \in Entries : x.delta \in Int
        BY DEF Entries
    <2> QED
        BY <2>1, <2>2
<1>2. IsFiniteSet(DOMAIN L)
    <2>1. 1 \in Int /\ Len(L) \in Int
        BY <1>1
    <2>2. IsFiniteSet(1..Len(L))
        BY <2>1, FS_Interval
    <2> QED
        BY <1>1, <2>2
<1>3. DOMAIN f = DOMAIN L /\ \A i \in DOMAIN L : f[i] \in Int
    BY <1>1
<1> HIDE DEF f
<1>4. SumFunction(f) \in Int
    BY <1>2, <1>3, SumType DEF SumFunction
<1> QED
    BY <1>4 DEF Deltas, f

AccountInv == Fresh /\ BalanceAccounted

\* Opening and posting write the delta they move; refilling is what unledgered
\* records; switching moves nothing.
LEMMA AccountedNext == TypeInv /\ AccountInv /\ StepKind => BalanceAccounted'
<1> SUFFICES ASSUME TypeInv, AccountInv, StepKind, NEW s \in Saldos
             PROVE  Accounted(balance[s], ledger[s], unledgered[s])'
    BY DEF BalanceAccounted, Accounted, DeltaSum, Deltas
<1>1. balance[s] = Deltas(ledger[s]) + unledgered[s]
    BY AccountedIsBalance DEF AccountInv, Accounted
<1>2. balance[s] \in Nat /\ ledger[s] \in Seq(Entries) /\ unledgered[s] \in Nat
    BY DEF TypeInv, TypeOK
<1>3. SUFFICES balance'[s] = Deltas(ledger'[s]) + unledgered'[s]
    BY DEF Accounted, Deltas
<1>4. CASE UNCHANGED <<ledger[s], balance[s], unledgered[s]>>
    BY <1>1, <1>4
<1>5. ASSUME NEW e \in Entries, ledger'[s] = Append(ledger[s], e),
             balance'[s] = balance[s] + e.delta, UNCHANGED unledgered
      PROVE  balance'[s] = Deltas(ledger'[s]) + unledgered'[s]
    <2>1. Deltas(ledger[s]) \in Int /\ Deltas(ledger'[s]) = Deltas(ledger[s]) + e.delta
        BY <1>2, <1>5, DeltasType, DeltasAppend
    <2>2. e.delta \in Int
        BY DEF Entries
    <2> QED
        BY <1>1, <1>2, <1>5, <2>1, <2>2
<1>6. CASE Opens
    <2>1. PICK c \in Cards, amt \in Nat, r \in Saldos : InsertSaldo(c, amt)!(r)
        BY <1>6 DEF Opens, InsertSaldo
    <2>2. CASE s = r
        <3> DEFINE e == [op |-> OpeningOp(r), dir |-> "opening", amount |-> amt,
                         delta |-> amt, before |-> 0, after |-> amt]
        <3>1. balance[s] = 0
            BY <2>1, <2>2 DEF AccountInv, Fresh
        <3>2. e \in Entries /\ e.delta = amt
            BY BuiltOps DEF Entries, Dirs
        <3>3. ledger'[s] = Append(ledger[s], e) /\ balance'[s] = amt /\ UNCHANGED unledgered
            BY <2>1, <2>2 DEF TypeInv, TypeOK
        <3> HIDE DEF e
        <3> QED
            BY <1>5, <3>1, <3>2, <3>3
    <2>3. CASE s # r
        BY <1>4, <2>1, <2>3 DEF TypeInv, TypeOK
    <2> QED
        BY <2>2, <2>3
<1>7. CASE Refills
    <2>1. PICK r \in Saldos, amt \in Nat \ {0} :
              /\ balance[r] = 0
              /\ balance' = [balance EXCEPT ![r] = amt]
              /\ unledgered' = [unledgered EXCEPT ![r] = @ + amt]
              /\ UNCHANGED ledger
        BY <1>7 DEF Refills
    <2>2. CASE s = r
        <3>1. Deltas(ledger[s]) \in Int
            BY <1>2, DeltasType
        <3>2. balance'[s] = amt /\ unledgered'[s] = unledgered[s] + amt /\ ledger'[s] = ledger[s]
            BY <2>1, <2>2 DEF TypeInv, TypeOK
        <3> QED
            BY <1>1, <1>2, <2>1, <2>2, <3>1, <3>2
    <2>3. CASE s # r
        BY <1>4, <2>1, <2>3 DEF TypeInv, TypeOK
    <2> QED
        BY <2>2, <2>3
<1>8. CASE Posts
    <2>1. PICK r \in Saldos, op \in OpIds, dir \in Dirs, amt \in Nat, delta \in Int :
              Append1(r, op, dir, amt, delta) /\ UNCHANGED unledgered
        BY <1>8 DEF Posts
    <2>2. CASE s = r
        <3> DEFINE e == [op |-> op, dir |-> dir, amount |-> amt, delta |-> delta,
                         before |-> balance[r], after |-> balance[r] + delta]
        <3>1. balance[s] + delta \in Nat
            BY <1>2, <2>1, <2>2 DEF Append1, Allowed
        <3>2. e \in Entries /\ e.delta = delta
            BY <1>2, <2>2, <3>1 DEF Entries
        <3>3. ledger'[s] = Append(ledger[s], e) /\ balance'[s] = balance[s] + delta
            BY <2>1, <2>2 DEF Append1, TypeInv, TypeOK
        <3> HIDE DEF e
        <3> QED
            BY <1>5, <2>1, <3>2, <3>3
    <2>3. CASE s # r
        BY <1>4, <2>1, <2>3 DEF Append1, TypeInv, TypeOK
    <2> QED
        BY <2>2, <2>3
<1>9. CASE Switches \/ UNCHANGED core
    BY <1>4, <1>9 DEF Switches, SetState, core
<1> QED
    BY <1>6, <1>7, <1>8, <1>9 DEF StepKind

\* With no entries, no money and no refills the accounts balance.
LEMMA AccountInit == Init => AccountInv
<1> SUFFICES ASSUME Init PROVE AccountInv
    OBVIOUS
<1>1. Fresh
    BY DEF Init, Fresh
<1>2. ASSUME NEW s \in Saldos PROVE Accounted(balance[s], ledger[s], unledgered[s])
    <2>1. ledger[s] = <<>> /\ balance[s] = 0 /\ unledgered[s] = 0
        BY DEF Init
    <2>2. Deltas(ledger[s]) = 0
        BY <2>1, DeltasOfNothing
    <2> QED
        BY <2>1, <2>2 DEF Accounted
<1> QED
    BY <1>1, <1>2, AccountedIsBalance DEF AccountInv

\* No unit of a balance is unexplained: it is the sum of the entries written
\* against the saldo plus the refills by repeated creates, whatever is retried,
\* trashed, restored or interrupted, and however many statements interleave.
THEOREM BalanceAccountedHolds == Spec => []BalanceAccounted
<1>1. TypeInv /\ AccountInv /\ [Next]_vars => AccountInv'
    BY StepKinds, FreshNext, AccountedNext DEF AccountInv
<1>2. AccountInv => BalanceAccounted
    BY DEF AccountInv
<1> QED
    BY <1>1, <1>2, AccountInit, TypeInit, TypeNext, PTL DEF Spec

\* The reconciliation query sums over a card; for the only saldo of its card
\* that is the saldo's own sum.
LEMMA OnlySaldoReconciles == TypeInv /\ BalanceAccounted => ReconcilesUnlessReopened
<1> SUFFICES ASSUME TypeInv, BalanceAccounted, NEW s \in Saldos,
                    SaldosOf(card[s]) = {s}, unledgered[s] = 0
             PROVE  balance[s] = LedgerBalance(card[s])
    BY DEF ReconcilesUnlessReopened, Mismatched
<1> DEFINE f == [r \in Saldos |-> DeltaSum(r)]
<1>1. DeltaSum(s) \in Int
    BY DeltasType DEF DeltaSum, Deltas, TypeInv, TypeOK
<1>2. f[s] = DeltaSum(s)
    OBVIOUS
<1>3. LedgerBalance(card[s]) = SumFunctionOnSet(f, {s})
    BY DEF LedgerBalance
<1> HIDE DEF f
<1>4. SumFunctionOnSet(f, {s}) = DeltaSum(s)
    BY <1>1, <1>2, SumOfOne
<1>5. balance[s] = DeltaSum(s) + 0
    BY DEF BalanceAccounted
<1> QED
    BY <1>1, <1>3, <1>4, <1>5

\* The reconciler does not raise a false alarm about a saldo that is the only
\* one its card ever had and was never refilled by a repeated create.
THEOREM ReconcilesUnlessReopenedHolds == Spec => []ReconcilesUnlessReopened
<1>1. TypeInv /\ AccountInv /\ [Next]_vars => AccountInv'
    BY StepKinds, FreshNext, AccountedNext DEF AccountInv
<1>2. TypeInv /\ AccountInv => ReconcilesUnlessReopened
    BY OnlySaldoReconciles DEF AccountInv
<1> QED
    BY <1>1, <1>2, AccountInit, TypeInit, TypeNext, PTL DEF Spec
=============================================================================
