-------------------------- MODULE AmountUpdateProofs --------------------------
(***************************************************************************)
(* Proofs about AmountUpdate, for any services, sets of edits and amounts. *)
(*                                                                         *)
(* RollbackOfExecuted is not inductive: that the movement an edit is about *)
(* to take back was executed is known only from the count of movements     *)
(* that stand (LegsStand), and that a reversal is no movement of another   *)
(* edit from the shape of the operation ids (BackwardReverses).            *)
(*                                                                         *)
(* SerialMoneyFollowsRow counts: each confirmed movement is an executed    *)
(* one, and a new one unless it met its own id.  As long as none did, the  *)
(* executed movements explain the row (SerialInv), and those of a whole    *)
(* edit take the balances from one amount to the other (Telescopes).  Once *)
(* one did, fewer are executed than confirmed for good (Explained), and no *)
(* later set of edits is clean.                                            *)
(***************************************************************************)
EXTENDS AmountUpdate, FiniteSetTheorems, SumLemmas, TLAPS

-----------------------------------------------------------------------------
(* Movements *)

\* What Movement makes.
IsMovement(m) ==
    \E leg, up, tag, account : \E amount \in Int : m = Movement(leg, up, tag, account, amount)

\* Any integer can be moved.
LEMMA MovementMade ==
    ASSUME NEW leg, NEW up, NEW tag, NEW account, NEW amount \in Int
    PROVE  IsMovement(Movement(leg, up, tag, account, amount))
BY DEF IsMovement

\* An edit moves at most twice, and its movements are no reversals.
LEMMA ForwardShape ==
    ASSUME EditTypeOK, NEW e \in Edits
    PROVE  /\ Len(Forward(e)) \in 0..2
           /\ \A i \in 1..Len(Forward(e)) : IsMovement(Forward(e)[i])
<1> DEFINE new == eask[e].new
           old == eask[e].old
<1>1. new \in Int /\ old \in Int
  <2>1. eask[e].new \in Amounts \union {FirstAmount} /\ eask[e].old \in Amounts \union {FirstAmount}
    BY DEF EditTypeOK
  <2>2. \A n \in Amounts \union {FirstAmount} : n \in Int
    BY AmountAssumption
  <2> QED
    BY <2>1, <2>2
<1>2. CASE service = "transaction"
  <2>1. Forward(e) = << Movement("reverse-old", TRUE, new, "payer", old),
                        Movement("apply-new", TRUE, new, "payer", -new) >>
    BY <1>2 DEF Forward
  <2>2. -new \in Int
    BY <1>1
  <2>3. IsMovement(Movement("reverse-old", TRUE, new, "payer", old))
    BY <1>1, MovementMade, Zenon
  <2>4. IsMovement(Movement("apply-new", TRUE, new, "payer", -new))
    BY <2>2, MovementMade, Zenon
  <2>5. Len(Forward(e)) = 2
    BY <2>1
  <2>6. /\ Forward(e)[1] = Movement("reverse-old", TRUE, new, "payer", old)
        /\ Forward(e)[2] = Movement("apply-new", TRUE, new, "payer", -new)
    BY <2>1
  <2>7. IsMovement(Forward(e)[1]) /\ IsMovement(Forward(e)[2])
    BY <2>3, <2>4, <2>6, Zenon
  <2> QED
    BY <2>5, <2>7
<1>3. CASE service # "transaction" /\ new - old = 0
  <2>1. Forward(e) = << >>
    BY <1>3 DEF Forward
  <2> QED
    BY <2>1
<1>4. CASE service = "transfer" /\ new - old # 0
  <2>1. Forward(e) = << Movement("sender", new - old > 0, new, "payer", -(new - old)),
                        Movement("receiver", new - old > 0, new, "payee", new - old) >>
    BY <1>4 DEF Forward
  <2>2. IsMovement(Movement("sender", new - old > 0, new, "payer", -(new - old)))
        /\ IsMovement(Movement("receiver", new - old > 0, new, "payee", new - old))
    BY <1>1, MovementMade
  <2> QED
    BY <2>1, <2>2
<1>5. CASE service = "withdraw" /\ new - old # 0
  <2>1. Forward(e) = << Movement("change", new - old > 0, new, "payer", -(new - old)) >>
    BY <1>5 DEF Forward
  <2>2. IsMovement(Movement("change", new - old > 0, new, "payer", -(new - old)))
    BY <1>1, MovementMade
  <2> QED
    BY <2>1, <2>2
<1>6. CASE service \notin {"transaction", "transfer", "withdraw"} /\ new - old # 0
  <2>1. Forward(e) = << Movement("change", new - old > 0, 0, "payee", new - old) >>
    BY <1>6 DEF Forward
  <2>2. IsMovement(Movement("change", new - old > 0, 0, "payee", new - old))
    BY <1>1, MovementMade
  <2> QED
    BY <2>1, <2>2
<1> QED
  BY <1>2, <1>3, <1>4, <1>5, <1>6

\* A reversal names the movement it reverses.
LEMMA BackwardReverses ==
    ASSUME EditTypeOK, NEW e \in Edits, NEW i \in 1..Len(Forward(e))
    PROVE  /\ Forward(e)[i].id.act = "do"
           /\ Reversal(Backward(e, i), "do") = Forward(e)[i]
<1>1. PICK leg, up, tag, account : \E amount \in Int :
            Forward(e)[i] = Movement(leg, up, tag, account, amount)
  BY ForwardShape DEF IsMovement
<1>2. PICK amount \in Int : Forward(e)[i] = Movement(leg, up, tag, account, amount)
  BY <1>1
<1>3. PICK act : Backward(e, i) = Reversal(Forward(e)[i], act)
  BY DEF Backward
<1>4. Reversal(Forward(e)[i], act) = [id |-> [act |-> act, leg |-> leg, up |-> up, tag |-> tag],
                                      account |-> account, amount |-> -amount]
  BY <1>2 DEF Movement, Reversal
<1>5. -(-amount) = amount
  OBVIOUS
<1>6. Forward(e)[i].id.act = "do"
  BY <1>2 DEF Movement
<1>7. Reversal([id |-> [act |-> act, leg |-> leg, up |-> up, tag |-> tag],
                account |-> account, amount |-> -amount], "do")
      = [id |-> [act |-> "do", leg |-> leg, up |-> up, tag |-> tag],
         account |-> account, amount |-> -(-amount)]
  BY DEF Reversal
<1>8. Reversal(Backward(e, i), "do") = Movement(leg, up, tag, account, amount)
  BY <1>3, <1>4, <1>5, <1>7 DEF Movement
<1> QED
  BY <1>2, <1>6, <1>8

-----------------------------------------------------------------------------
(* Rollbacks *)

\* The movements that a handler counts as standing have been executed.
LegsStand ==
    \A e \in Edits :
        /\ elegs[e] \in 0..Len(Forward(e))
        /\ epc[e] = "idle" => elegs[e] = 0
        /\ epc[e] = "undo" => elegs[e] > 0
        /\ \A i \in 1..elegs[e] : Forward(e)[i] \in ebook

EditInv == EditTypeOK /\ LegsStand /\ RollbackOfExecuted

\* Before the first edit nothing was moved.
LEMMA EditInitInv == EditInit => EditInv
<1> SUFFICES ASSUME EditInit PROVE EditInv
  OBVIOUS
<1>1. EditTypeOK
  BY DEF EditInit, EditTypeOK
<1>2. LegsStand
  BY <1>1, ForwardShape DEF EditInit, LegsStand
<1> QED
  BY <1>1, <1>2 DEF EditInit, EditInv, RollbackOfExecuted

\* The movements of an edit are fixed once it has read the row.
LEMMA ForwardStands ==
    ASSUME UNCHANGED service, NEW e, eask'[e] = eask[e]
    PROVE  Forward(e)' = Forward(e)
BY DEF Forward

\* How a handler goes on after an error: with a movement to take back, or not.
LEMMA FailingEdit ==
    ASSUME EditTypeOK, NEW e \in Edits, NEW why \in {"move", "row", "status"}, FailEdit(e, why)
    PROVE  /\ \E to \in {"restore", "undo", "done"} :
                epc' = [epc EXCEPT ![e] = to] /\ (to = "undo" => elegs[e] > 0)
           /\ ewhy' \in [Edits -> {"none", "move", "row", "status"}]
           /\ eanswer' \in [Edits -> {"none", "ok", "error"}]
           /\ emarking' \subseteq Edits
<1>1. ewhy' \in [Edits -> {"none", "move", "row", "status"}]
  BY DEF FailEdit, EditTypeOK
<1>2. CASE EditGoto(e, "restore") /\ UNCHANGED <<eanswer, emarking>>
  BY <1>1, <1>2 DEF EditGoto, EditTypeOK
<1>3. CASE elegs[e] > 0 /\ EditGoto(e, "undo") /\ UNCHANGED <<eanswer, emarking>>
  BY <1>1, <1>3 DEF EditGoto, EditTypeOK
<1>4. CASE GiveUp(e, why)
  BY <1>1, <1>4 DEF GiveUp, EditAnswer, EditGoto, EditTypeOK
<1> QED
  BY <1>2, <1>3, <1>4 DEF FailEdit

\* An edit moves at most twice.
LEMMA TwoMovements == EditTypeOK => \A d \in Edits : Len(Forward(d)) \in 0..2
BY ForwardShape

\* So it does after any step.
LEMMA TwoMovementsNext == EditTypeOK' => (\A d \in Edits : Len(Forward(d)) \in 0..2)'
BY TwoMovements, PTL

\* A step that leaves what was read, what stands and what was asked for.
LEMMA QuietEdit ==
    ASSUME EditInv, UNCHANGED <<service, eask, elegs, esent>>, ebook \subseteq ebook',
           \A e \in Edits : epc'[e] = "idle" => epc[e] = "idle",
           \A e \in Edits : epc'[e] = "undo" => elegs[e] > 0,
           \A b, c \in ebook' : b.id = c.id => b = c
    PROVE  (LegsStand /\ RollbackOfExecuted)'
<1>1. \A e \in Edits : Forward(e)' = Forward(e)
  BY ForwardStands
<1>2. LegsStand'
  BY <1>1 DEF EditInv, LegsStand
<1> QED
  BY <1>2 DEF EditInv, RollbackOfExecuted

\* Every step keeps the types, and asks for a rollback only of what stands.
LEMMA EditNextInv == EditInv /\ [EditNext]_editVars => EditInv'
<1> SUFFICES ASSUME EditInv, [EditNext]_editVars PROVE EditInv'
  OBVIOUS
<1>a. EditTypeOK /\ LegsStand /\ RollbackOfExecuted
  BY DEF EditInv
<1>b. \A e \in Edits : /\ Len(Forward(e)) \in 0..2
                        /\ elegs[e] \in 0..Len(Forward(e))
  BY <1>a, ForwardShape DEF LegsStand
<1>c. \A b, c \in ebook : b.id = c.id => b = c
  BY <1>a DEF RollbackOfExecuted
<1>1. ASSUME NEW e \in Edits, NEW n \in Amounts, ReadRow(e, n) PROVE EditInv'
  <2>1. EditTypeOK'
    <3>1. eask' \in [Edits -> [old : Amounts \union {FirstAmount}, new : Amounts \union {FirstAmount}]]
      BY <1>1, <1>a DEF ReadRow, EditTypeOK
    <3>2. /\ epc' \in [Edits -> {"idle", "row", "move", "status", "undo", "restore", "done", "dead"}]
          /\ eanswer' \in [Edits -> {"none", "ok", "error"}]
          /\ emarking' \subseteq Edits
      BY <1>1, <1>a DEF ReadRow, EditTypeOK, EditGoto, EditAnswer
    <3> QED
      BY <1>1, <1>a, <3>1, <3>2 DEF ReadRow, EditTypeOK
  <2>2. \A d \in Edits \ {e} : eask'[d] = eask[d] /\ epc'[d] = epc[d]
    BY <1>1, <1>a DEF ReadRow, EditTypeOK, EditGoto, EditAnswer
  <2>3. UNCHANGED <<service, elegs, esent, ebook>> /\ elegs[e] = 0 /\ epc'[e] \notin {"idle", "undo"}
    BY <1>1, <1>a DEF ReadRow, EditTypeOK, LegsStand, EditGoto, EditAnswer
  <2>4. \A d \in Edits \ {e} : Forward(d)' = Forward(d)
    BY <2>2, <2>3, ForwardStands
  <2>5. Len(Forward(e))' \in 0..2
    BY <2>1, TwoMovementsNext
  <2>6. LegsStand'
    BY <1>a, <2>2, <2>3, <2>4, <2>5 DEF LegsStand
  <2> QED
    BY <1>a, <2>1, <2>3, <2>6 DEF EditInv, RollbackOfExecuted
<1>2. ASSUME NEW e \in Edits, SendMovement(e) PROVE EditInv'
  <2>1. /\ UNCHANGED <<service, erow, epc, eask, elegs, ewhy, eanswer, ebook, emarking>>
        /\ esent' = esent \union Awaited(e)
    BY <1>2 DEF SendMovement
  <2>2. EditTypeOK'
    BY <1>a, <2>1 DEF EditTypeOK
  <2>3. \A d \in Edits : Forward(d)' = Forward(d)
    BY <2>1, ForwardStands
  <2>4. LegsStand'
    BY <1>a, <2>1, <2>3 DEF LegsStand
  <2>5. ASSUME NEW m \in Awaited(e), m.id.act # "do" PROVE Reversal(m, "do") \in ebook
    <3>1. CASE epc[e] = "undo"
      <4>1. elegs[e] \in 1..Len(Forward(e)) /\ Forward(e)[elegs[e]] \in ebook
        BY <1>a, <1>b, <3>1 DEF LegsStand
      <4>2. m = Backward(e, elegs[e])
        BY <3>1 DEF Awaited
      <4> QED
        BY <1>a, <4>1, <4>2, BackwardReverses
    <3>2. CASE epc[e] = "move" /\ elegs[e] < Len(Forward(e))
      <4>1. elegs[e] + 1 \in 1..Len(Forward(e))
        BY <1>b, <3>2
      <4>2. m = Forward(e)[elegs[e] + 1]
        BY <3>2 DEF Awaited
      <4> QED
        BY <1>a, <2>5, <4>1, <4>2, BackwardReverses
    <3>3. CASE ~(epc[e] = "undo") /\ ~(epc[e] = "move" /\ elegs[e] < Len(Forward(e)))
      BY <3>3 DEF Awaited
    <3> QED
      BY <3>1, <3>2, <3>3
  <2>6. RollbackOfExecuted'
    BY <1>a, <2>1, <2>5 DEF RollbackOfExecuted
  <2> QED
    BY <2>2, <2>4, <2>6 DEF EditInv
<1>3. ASSUME NEW m \in esent, ExecuteMovement(m) PROVE EditInv'
  <2>1. EditTypeOK'
    BY <1>3, <1>a DEF ExecuteMovement, EditTypeOK
  <2>2. \A b, c \in ebook' : b.id = c.id => b = c
    BY <1>3, <1>c DEF ExecuteMovement
  <2>3. \A e \in Edits : epc[e] = "undo" => elegs[e] > 0
    BY <1>a DEF LegsStand
  <2>4. (LegsStand /\ RollbackOfExecuted)'
    BY <1>3, <2>2, <2>3, QuietEdit DEF ExecuteMovement
  <2> QED
    BY <2>1, <2>4 DEF EditInv
<1>4. ASSUME NEW e \in Edits, MovementConfirmed(e) PROVE EditInv'
  <2>1. /\ UNCHANGED <<service, erow, epc, eask, ewhy, eanswer, esent, ebook, emarking>>
        /\ elegs' = [elegs EXCEPT ![e] = elegs[e] + 1] /\ epc[e] = "move"
    BY <1>4 DEF MovementConfirmed
  <2>2. elegs[e] < Len(Forward(e)) /\ Forward(e)[elegs[e] + 1] \in ebook
    BY <1>4 DEF MovementConfirmed, Awaited
  <2>3. elegs[e] + 1 \in 0..2 /\ elegs[e] + 1 \in 0..Len(Forward(e))
    BY <1>b, <2>2
  <2>4. EditTypeOK'
    BY <1>a, <2>1, <2>3 DEF EditTypeOK
  <2>5. \A d \in Edits : Forward(d)' = Forward(d)
    BY <2>1, ForwardStands
  <2>6. elegs'[e] = elegs[e] + 1 /\ \A d \in Edits \ {e} : elegs'[d] = elegs[d]
    BY <1>a, <2>1 DEF EditTypeOK
  <2>7. \A i \in 1..elegs[e] + 1 : Forward(e)[i] \in ebook
    BY <1>a, <1>b, <2>2 DEF LegsStand
  <2>8. LegsStand'
    BY <1>a, <2>1, <2>3, <2>5, <2>6, <2>7 DEF LegsStand
  <2> QED
    BY <1>a, <2>1, <2>4, <2>8 DEF EditInv, RollbackOfExecuted
\* A handler that goes on with what stands.
<1>5. ASSUME UNCHANGED <<service, eask, elegs, esent, ebook>>, EditTypeOK', NEW e \in Edits,
             \A d \in Edits \ {e} : epc'[d] = epc[d],
             epc'[e] # "idle", epc'[e] = "undo" => elegs[e] > 0
      PROVE  EditInv'
  <2>1. \A d \in Edits : epc'[d] = "idle" => epc[d] = "idle"
    BY <1>5
  <2>4. \A d \in Edits : epc'[d] = "undo" => elegs[d] > 0
    BY <1>5, <1>a DEF LegsStand
  <2>2. ebook \subseteq ebook' /\ \A b, c \in ebook' : b.id = c.id => b = c
    BY <1>5, <1>c
  <2>3. (LegsStand /\ RollbackOfExecuted)'
    BY <1>5, <2>1, <2>2, <2>4, QuietEdit
  <2> QED
    BY <1>5, <2>3 DEF EditInv
<1>6. ASSUME NEW e \in Edits, MovementsDone(e) PROVE EditInv'
  <2>1. EditTypeOK'
    BY <1>6, <1>a DEF MovementsDone, EditGoto, EditTypeOK
  <2> QED
    BY <1>5, <1>6, <1>a, <2>1 DEF MovementsDone, EditGoto, EditTypeOK
<1>7. ASSUME NEW e \in Edits, MovementErrored(e) PROVE EditInv'
  <2>1. FailEdit(e, "move") /\ UNCHANGED <<service, erow, eask, elegs, esent, ebook>>
    BY <1>7 DEF MovementErrored
  <2>2. EditTypeOK'
    BY <1>a, <2>1, FailingEdit DEF EditTypeOK
  <2> QED
    BY <1>5, <1>a, <2>1, <2>2, FailingEdit DEF EditTypeOK
<1>8. ASSUME NEW e \in Edits, UpdateAmount(e) PROVE EditInv'
  <2>1. erow' \in [status : {"success", "failed"}, amount : Amounts \union {FirstAmount}]
    BY <1>8, <1>a DEF UpdateAmount, EditTypeOK
  <2>2. UNCHANGED <<service, eask, elegs, esent, ebook>>
    BY <1>8 DEF UpdateAmount
  <2>3. CASE FailEdit(e, "row")
    <3>1. EditTypeOK'
      <4>1. epc' \in [Edits -> {"idle", "row", "move", "status", "undo", "restore", "done", "dead"}]
        BY <1>a, <2>3, FailingEdit DEF EditTypeOK
      <4> QED
        BY <1>a, <2>1, <2>2, <2>3, <4>1, FailingEdit DEF EditTypeOK
    <3> QED
      BY <1>5, <1>a, <2>2, <2>3, <3>1, FailingEdit DEF EditTypeOK
  <2>4. CASE EditGoto(e, IF service = "topup" THEN "move" ELSE "status")
             /\ UNCHANGED <<ewhy, eanswer, emarking>>
    <3>1. EditTypeOK'
      BY <1>a, <2>1, <2>2, <2>4 DEF EditGoto, EditTypeOK
    <3> QED
      BY <1>5, <1>a, <2>2, <2>4, <3>1 DEF EditGoto, EditTypeOK
  <2> QED
    BY <1>8, <2>3, <2>4 DEF UpdateAmount
<1>9. ASSUME NEW e \in Edits, UpdateEditStatus(e) PROVE EditInv'
  <2>1. erow' \in [status : {"success", "failed"}, amount : Amounts \union {FirstAmount}]
    BY <1>9, <1>a DEF UpdateEditStatus, EditTypeOK
  <2>2. UNCHANGED <<service, eask, elegs, esent, ebook>>
    BY <1>9 DEF UpdateEditStatus
  <2>3. CASE FailEdit(e, "status")
    <3>1. EditTypeOK'
      <4>1. epc' \in [Edits -> {"idle", "row", "move", "status", "undo", "restore", "done", "dead"}]
        BY <1>a, <2>3, FailingEdit DEF EditTypeOK
      <4> QED
        BY <1>a, <2>1, <2>2, <2>3, <4>1, FailingEdit DEF EditTypeOK
    <3> QED
      BY <1>5, <1>a, <2>2, <2>3, <3>1, FailingEdit DEF EditTypeOK
  <2>4. CASE EditAnswer(e, "ok", FALSE) /\ UNCHANGED ewhy
    <3>1. EditTypeOK'
      BY <1>a, <2>1, <2>2, <2>4 DEF EditAnswer, EditGoto, EditTypeOK
    <3> QED
      BY <1>5, <1>a, <2>2, <2>4, <3>1 DEF EditAnswer, EditGoto, EditTypeOK
  <2> QED
    BY <1>9, <2>3, <2>4 DEF UpdateEditStatus
<1>10. ASSUME NEW e \in Edits, UndoAnswered(e) PROVE EditInv'
  <2>1. /\ UNCHANGED <<service, erow, eask, ewhy, esent, ebook>> /\ epc[e] = "undo"
        /\ elegs' = [elegs EXCEPT ![e] = elegs[e] - 1]
    BY <1>10 DEF UndoAnswered
  <2>2. elegs[e] - 1 \in 0..2 /\ elegs[e] - 1 \in 0..Len(Forward(e)) /\ elegs[e] \in Nat
    BY <1>a, <1>b, <2>1 DEF LegsStand
  <2>3. \/ elegs[e] > 1 /\ UNCHANGED <<epc, eanswer, emarking>>
        \/ \E mark \in BOOLEAN : EditAnswer(e, "error", mark)
    BY <1>10 DEF UndoAnswered
  <2>4. EditTypeOK'
    BY <1>a, <2>1, <2>2, <2>3 DEF EditAnswer, EditGoto, EditTypeOK
  <2>5. \A d \in Edits : Forward(d)' = Forward(d)
    BY <2>1, ForwardStands
  <2>6. elegs'[e] = elegs[e] - 1 /\ \A d \in Edits \ {e} : elegs'[d] = elegs[d] /\ epc'[d] = epc[d]
    BY <1>a, <2>1, <2>3 DEF EditTypeOK, EditAnswer, EditGoto
  <2>7. epc'[e] \in {"undo", "done"} /\ (epc'[e] = "undo" => elegs[e] > 1)
    BY <1>a, <2>1, <2>3 DEF EditTypeOK, EditAnswer, EditGoto
  <2>8. \A i \in 1..elegs[e] - 1 : Forward(e)[i] \in ebook
    BY <1>a, <2>2 DEF LegsStand
  <2>9. LegsStand'
    BY <1>a, <2>1, <2>2, <2>5, <2>6, <2>7, <2>8 DEF LegsStand
  <2> QED
    BY <1>a, <2>1, <2>4, <2>9 DEF EditInv, RollbackOfExecuted
<1>11. ASSUME NEW e \in Edits, RestoreAmount(e) PROVE EditInv'
  <2>1. EditTypeOK'
    <3>1. erow' \in [status : {"success", "failed"}, amount : Amounts \union {FirstAmount}]
      <4>1. erow' = erow \/ erow' = [erow EXCEPT !.amount = eask[e].old]
        BY <1>11 DEF RestoreAmount
      <4>2. eask[e].old \in Amounts \union {FirstAmount}
        BY <1>a DEF EditTypeOK
      <4> QED
        BY <1>a, <4>1, <4>2 DEF EditTypeOK
    <3>2. \E mark \in BOOLEAN : EditAnswer(e, "error", mark)
      BY <1>11 DEF RestoreAmount
    <3> QED
      BY <1>11, <1>a, <3>1, <3>2 DEF RestoreAmount, EditAnswer, EditGoto, EditTypeOK
  <2> QED
    BY <1>5, <1>11, <1>a, <2>1 DEF RestoreAmount, EditAnswer, EditGoto, EditTypeOK
<1>12. ASSUME NEW e \in Edits, MarkEditAsFailed(e) PROVE EditInv'
  <2>1. EditTypeOK'
    BY <1>12, <1>a DEF MarkEditAsFailed, EditTypeOK
  <2>2. UNCHANGED <<service, epc, eask, elegs, esent, ebook>>
    BY <1>12 DEF MarkEditAsFailed
  <2>3. (LegsStand /\ RollbackOfExecuted)'
    BY <1>a, <1>c, <2>2, QuietEdit DEF LegsStand
  <2> QED
    BY <2>1, <2>3 DEF EditInv
<1>13. ASSUME NEW e \in Edits, CrashEdit(e) PROVE EditInv'
  <2>1. EditTypeOK'
    BY <1>13, <1>a DEF CrashEdit, EditGoto, EditTypeOK
  <2> QED
    BY <1>5, <1>13, <1>a, <2>1 DEF CrashEdit, EditGoto, EditTypeOK
<1>14. ASSUME UNCHANGED editVars PROVE EditInv'
  <2>1. EditTypeOK' /\ UNCHANGED <<service, epc, eask, elegs, esent, ebook>>
    BY <1>14, <1>a DEF editVars, EditTypeOK
  <2>2. (LegsStand /\ RollbackOfExecuted)'
    BY <1>a, <1>c, <2>1, QuietEdit DEF LegsStand
  <2> QED
    BY <2>1, <2>2 DEF EditInv
<1> QED
  BY <1>1, <1>2, <1>3, <1>4, <1>6, <1>7, <1>8, <1>9, <1>10, <1>11, <1>12, <1>13, <1>14 DEF EditNext

\* Types, counted movements and rollbacks agree in every edit of every service.
THEOREM EditInvHolds == EditSpec => []EditInv
BY EditInitInv, EditNextInv, PTL DEF EditSpec

\* For any number of overlapping edits: a rollback is asked for only of a
\* movement that was executed, and an operation id has one ledger entry.
THEOREM RollbackOfExecutedHolds == EditSpec => []RollbackOfExecuted
BY EditInvHolds, PTL DEF EditInv

-----------------------------------------------------------------------------
(* Edits that follow one another: the balances follow the row *)

\* Where an edit is that neither failed nor died.
Unfailed ==
    \A e \in Edits : \/ epc[e] \in {"idle", "row", "move", "status"}
                     \/ epc[e] = "done" /\ eanswer[e] = "ok"

Started == {e \in Edits : epc[e] # "idle"}

\* The movements that handlers wait for, and the executed ones that are not
\* among these.
Pending == UNION {Awaited(e) : e \in Edits}
Settled == ebook \ Pending

\* How many movements stand as their handlers see it.
Confirmed == SumFunctionOnSet(elegs, Started)

\* What a set of movements adds to an account.
NetOf(S, account) ==
    SumFunctionOnSet([m \in S |-> m.amount], {m \in S : m.account = account})

On(m, account) == IF m.account = account THEN m.amount ELSE 0

\* What the edits of a row move, once it is at an amount.
OwedAt(account, amount) ==
    LET change == amount - FirstAmount
    IN CASE service = "topup"    -> IF account = "payee" THEN change ELSE 0
         [] service = "transfer" -> IF account = "payee" THEN change ELSE -change
         [] OTHER                -> IF account = "payer" THEN -change ELSE 0

\* What the confirmed movements of an edit add to an account.
Part(e, account) ==
    (IF elegs[e] > 0 THEN On(Forward(e)[1], account) ELSE 0)
    + (IF elegs[e] > 1 THEN On(Forward(e)[2], account) ELSE 0)

\* What the row and the movements of an edit are at each of its statements.
EditAtPc ==
    \A e \in Edits :
        /\ epc[e] = "row" => erow.amount = eask[e].old
        /\ epc[e] = "row" /\ service = "topup" => elegs[e] = 0
        /\ epc[e] = "move" =>
            erow.amount = (IF service = "topup" THEN eask[e].new ELSE eask[e].old)
        /\ epc[e] = "status" => erow.amount = eask[e].new
        /\ epc[e] \in {"status", "done"} \/ (epc[e] = "row" /\ service # "topup") =>
            elegs[e] = Len(Forward(e))
        /\ eanswer[e] = "ok" => epc[e] = "done"

Accounts == {"payer", "payee"}

\* The movements S explain the row and, while an edit runs, its part.
Balanced(S) ==
    \A account \in Accounts :
        /\ \A e \in Edits : EditRunning(e) =>
              NetOf(S, account) = OwedAt(account, eask[e].old) + Part(e, account)
        /\ (\A e \in Edits : ~EditRunning(e)) =>
              NetOf(S, account) = OwedAt(account, erow.amount)

\* A movement that met its own id executed leaves fewer executed than confirmed,
\* for good; without one, the movements explain the row.
Explained ==
    \/ Cardinality(Settled) < Confirmed
    \/ Cardinality(Settled) = Confirmed /\ Balanced(Settled)

SerialInv ==
    /\ ~EditsOverlap
    /\ EditAtPc
    /\ esent \subseteq ebook \union Pending
    /\ \A m \in esent : m.amount \in Int
    /\ IsFiniteSet(Started) /\ IsFiniteSet(ebook)
    /\ Explained

\* An account of a movement set that grows.
LEMMA NetGrows ==
    ASSUME NEW S, IsFiniteSet(S), NEW m, m \notin S, NEW account,
           \A b \in S \union {m} : b.amount \in Int
    PROVE  /\ NetOf(S \union {m}, account) = NetOf(S, account) + On(m, account)
           /\ NetOf(S, account) \in Int
<1> DEFINE all == S \union {m}
           f == [b \in S |-> b.amount]
           f2 == [b \in all |-> b.amount]
           here == {b \in S : b.account = account}
           here2 == {b \in all : b.account = account}
<1>1. IsFiniteSet(here) /\ \A b \in here : f[b] \in Int /\ f[b] = f2[b] /\ f2[b] \in Int
  BY FS_Subset
<1>2. m \notin here /\ f2[m] = m.amount /\ m.amount \in Int
  OBVIOUS
<1>3. NetOf(S, account) = SumFunctionOnSet(f, here) /\ NetOf(all, account) = SumFunctionOnSet(f2, here2)
  BY DEF NetOf
<1>4. here2 = IF m.account = account THEN here \union {m} ELSE here
  OBVIOUS
<1> HIDE DEF all, f, f2, here, here2
<1>5. SumFunctionOnSet(f, here) = SumFunctionOnSet(f2, here) /\ SumFunctionOnSet(f, here) \in Int
  BY <1>1, SumCongruence, SumType
<1>6. SumFunctionOnSet(f2, here \union {m}) = SumFunctionOnSet(f2, here) + f2[m]
  BY <1>1, <1>2, SumInsert
<1>7. NetOf(all, account) = NetOf(S, account) + On(m, account)
  BY <1>2, <1>3, <1>4, <1>5, <1>6 DEF On
<1> QED
  BY <1>3, <1>5, <1>7 DEF all

\* The movements of a whole edit take the accounts from one amount to the other.
LEMMA Telescopes ==
    ASSUME EditTypeOK, NEW e \in Edits, elegs[e] = Len(Forward(e)), NEW account \in Accounts
    PROVE  OwedAt(account, eask[e].old) + Part(e, account) = OwedAt(account, eask[e].new)
<1> DEFINE new == eask[e].new
           old == eask[e].old
<1>1. new \in Int /\ old \in Int /\ FirstAmount \in Int
  <2>1. eask[e].new \in Amounts \union {FirstAmount} /\ eask[e].old \in Amounts \union {FirstAmount}
    BY DEF EditTypeOK
  <2>2. \A n \in Amounts \union {FirstAmount} : n \in Int
    BY AmountAssumption
  <2> QED
    BY <2>1, <2>2
<1>2. CASE service = "transaction"
  <2>1. Forward(e) = << Movement("reverse-old", TRUE, new, "payer", old),
                        Movement("apply-new", TRUE, new, "payer", -new) >>
    BY <1>2 DEF Forward
  <2>2. /\ On(Movement("reverse-old", TRUE, new, "payer", old), account)
             = (IF account = "payer" THEN old ELSE 0)
        /\ On(Movement("apply-new", TRUE, new, "payer", -new), account)
             = (IF account = "payer" THEN -new ELSE 0)
    BY DEF On, Movement, Accounts
  <2>3. Len(Forward(e)) = 2 /\ elegs[e] = 2
    BY <2>1
  <2>4. /\ Forward(e)[1] = Movement("reverse-old", TRUE, new, "payer", old)
        /\ Forward(e)[2] = Movement("apply-new", TRUE, new, "payer", -new)
    BY <2>1
  <2>5. /\ On(Forward(e)[1], account) = (IF account = "payer" THEN old ELSE 0)
        /\ On(Forward(e)[2], account) = (IF account = "payer" THEN -new ELSE 0)
    BY <2>2, <2>4, Zenon
  <2>6. Part(e, account) = IF account = "payer" THEN old - new ELSE 0
    BY <1>1, <2>3, <2>5 DEF Part
  <2> QED
    BY <1>1, <1>2, <2>6 DEF OwedAt
<1>3. CASE service # "transaction" /\ new - old = 0
  <2>1. Forward(e) = << >>
    BY <1>3 DEF Forward
  <2>2. Part(e, account) = 0 /\ new = old
    BY <1>1, <1>3, <2>1 DEF Part
  <2>3. OwedAt(account, old) \in Int
    BY <1>1 DEF OwedAt
  <2> QED
    BY <2>2, <2>3
<1>4. CASE service = "transfer" /\ new - old # 0
  <2>1. Forward(e) = << Movement("sender", new - old > 0, new, "payer", -(new - old)),
                        Movement("receiver", new - old > 0, new, "payee", new - old) >>
    BY <1>4 DEF Forward
  <2>2. /\ On(Movement("sender", new - old > 0, new, "payer", -(new - old)), account)
             = (IF account = "payer" THEN -(new - old) ELSE 0)
        /\ On(Movement("receiver", new - old > 0, new, "payee", new - old), account)
             = (IF account = "payee" THEN new - old ELSE 0)
    BY DEF On, Movement, Accounts
  <2>3. Part(e, account) = IF account = "payee" THEN new - old ELSE -(new - old)
    BY <1>1, <2>1, <2>2 DEF Part, Accounts
  <2> QED
    BY <1>1, <1>4, <2>3 DEF OwedAt
<1>5. CASE service = "withdraw" /\ new - old # 0
  <2>1. Forward(e) = << Movement("change", new - old > 0, new, "payer", -(new - old)) >>
    BY <1>5 DEF Forward
  <2>2. On(Movement("change", new - old > 0, new, "payer", -(new - old)), account)
             = (IF account = "payer" THEN -(new - old) ELSE 0)
    BY DEF On, Movement, Accounts
  <2>3. Part(e, account) = IF account = "payer" THEN -(new - old) ELSE 0
    BY <1>1, <2>1, <2>2 DEF Part, Accounts
  <2> QED
    BY <1>1, <1>5, <2>3 DEF OwedAt
<1>6. CASE service = "topup" /\ new - old # 0
  <2>1. Forward(e) = << Movement("change", new - old > 0, 0, "payee", new - old) >>
    BY <1>6 DEF Forward
  <2>2. On(Movement("change", new - old > 0, 0, "payee", new - old), account)
             = (IF account = "payee" THEN new - old ELSE 0)
    BY DEF On, Movement, Accounts
  <2>3. Part(e, account) = IF account = "payee" THEN new - old ELSE 0
    BY <1>1, <2>1, <2>2 DEF Part, Accounts
  <2> QED
    BY <1>1, <1>6, <2>3 DEF OwedAt
<1>7. service \in {"transfer", "transaction", "withdraw", "topup"}
  BY ServicesAssumption DEF EditTypeOK
<1> QED
  BY <1>2, <1>3, <1>4, <1>5, <1>6, <1>7

\* The table behind the sum of an account.
NetTable(g, S) ==
    g = [t \in SUBSET S |-> IF t = {} THEN 0 ELSE First(t).amount + g[t \ {First(t)}]]

\* What Net is, as a fold.
LEMMA NetUnfolds ==
    ASSUME NEW account
    PROVE  Net(account) = (CHOOSE g : NetTable(g, {b \in ebook : b.account = account}))
                              [{b \in ebook : b.account = account}]
BY Zenon DEF Net, MapThenSumSet, MapThenFoldSet, NetTable, First

\* Net, as a sum over a function.
LEMMA NetIsSum ==
    ASSUME IsFiniteSet(ebook), \A m \in ebook : m.amount \in Int, NEW account
    PROVE  Net(account) = NetOf(ebook, account)
<1> DEFINE here == {b \in ebook : b.account = account}
           f == [b \in ebook |-> b.amount]
<1>1. IsFiniteSet(here) /\ \A b \in here : f[b] \in Int
  BY FS_Subset
<1>2. \A g : NetTable(g, here) <=> SumTable(g, f, here)
  <2>1. ASSUME NEW t \in SUBSET here, t # {} PROVE f[First(t)] = First(t).amount
    BY <2>1, FirstIn
  <2> HIDE DEF f, here
  <2> QED
    BY <2>1 DEF NetTable, SumTable
<1>3. Net(account) = (CHOOSE g : NetTable(g, here))[here]
  BY NetUnfolds
<1>4. NetOf(ebook, account) = SumFunctionOnSet(f, here)
  BY DEF NetOf
<1> HIDE DEF f, here
<1>5. \E g : NetTable(g, here)
  BY <1>1, <1>2, TableExists
<1>6. NetTable(CHOOSE g : NetTable(g, here), here)
  BY <1>5
<1>7. SumTable(CHOOSE g : NetTable(g, here), f, here)
  BY <1>2, <1>6
<1>8. SumFunctionOnSet(f, here) = (CHOOSE g : NetTable(g, here))[here]
  BY <1>1, <1>7, SumInTable
<1> QED
  BY <1>3, <1>4, <1>8

\* The table behind the number of movements of the finished edits.
LengthTable(g, S) ==
    g = [t \in SUBSET S |-> IF t = {} THEN 0 ELSE Len(Forward(First(t))) + g[t \ {First(t)}]]

\* What CleanEdits counts, as a fold.
LEMMA LengthsUnfold ==
    MapThenSumSet(LAMBDA e : Len(Forward(e)), {e \in Edits : epc[e] = "done"}) =
        (CHOOSE g : LengthTable(g, {e \in Edits : epc[e] = "done"}))[{e \in Edits : epc[e] = "done"}]
BY Zenon DEF MapThenSumSet, MapThenFoldSet, LengthTable, First

\* Where every edit that started is done, that is the number of confirmed ones.
LEMMA LengthsAreConfirmed ==
    ASSUME EditTypeOK, EditAtPc, IsFiniteSet(Started), \A e \in Started : epc[e] = "done"
    PROVE  MapThenSumSet(LAMBDA e : Len(Forward(e)), {e \in Edits : epc[e] = "done"}) = Confirmed
<1>1. {e \in Edits : epc[e] = "done"} = Started
  BY DEF Started
<1>2. \A e \in Started : elegs[e] = Len(Forward(e)) /\ elegs[e] \in Int
  BY DEF EditAtPc, EditTypeOK, Started
<1>3. \A g : LengthTable(g, Started) <=> SumTable(g, elegs, Started)
  <2>1. ASSUME NEW t \in SUBSET Started, t # {} PROVE elegs[First(t)] = Len(Forward(First(t)))
    BY <1>2, <2>1, FirstIn
  <2> QED
    BY <2>1 DEF LengthTable, SumTable
<1>4. \E g : LengthTable(g, Started)
  BY <1>2, <1>3, TableExists
<1>5. LengthTable(CHOOSE g : LengthTable(g, Started), Started)
  BY <1>4
<1>6. SumTable(CHOOSE g : LengthTable(g, Started), elegs, Started)
  BY <1>3, <1>5
<1>7. Confirmed = (CHOOSE g : LengthTable(g, Started))[Started]
  BY <1>2, <1>6, SumInTable DEF Confirmed
<1> QED
  BY <1>1, <1>7, LengthsUnfold

\* Where nothing overlapped, clean edits have moved the followers' balances by the
\* difference of the row.
LEMMA CleanFollows ==
    ASSUME EditInv, SerialInv, CleanEdits
    PROVE  MoneyFollowsRow
<1>1. \A e \in Edits : ~EditRunning(e) /\ (epc[e] # "idle" => epc[e] = "done")
  BY DEF CleanEdits, SerialInv, EditAtPc, EditRunning
<1>2. Pending = {} /\ Settled = ebook
  BY <1>1 DEF Pending, Settled, Awaited, EditRunning
<1>3. Cardinality(ebook) = Confirmed
  BY <1>1, LengthsAreConfirmed DEF CleanEdits, SerialInv, EditInv, Started
<1>4. Confirmed \in Int
  <2>1. \A e \in Started : elegs[e] \in Int
    BY DEF EditInv, EditTypeOK, Started
  <2> QED
    BY <2>1, SumType DEF Confirmed, SerialInv
<1>5. Balanced(ebook)
  BY <1>2, <1>3, <1>4 DEF SerialInv, Explained
<1>6. \A m \in ebook : m.amount \in Int
  BY DEF SerialInv, EditInv, EditTypeOK
<1>7. \A account \in Accounts : Net(account) = OwedAt(account, erow.amount)
  BY <1>1, <1>5, <1>6, NetIsSum DEF Balanced, SerialInv
<1>8. \A account \in Followers : account \in Accounts /\ Owed(account) = OwedAt(account, erow.amount)
  <2>1. service \in {"transfer", "transaction", "withdraw", "topup"}
    BY ServicesAssumption DEF EditInv, EditTypeOK
  <2>2. erow.amount \in Nat /\ FirstAmount \in Nat
    BY AmountAssumption DEF EditInv, EditTypeOK
  <2>3. Parties = (IF service = "topup" THEN {"payee"}
                   ELSE IF service = "withdraw" THEN {"payer"} ELSE {"payer", "payee"})
    BY <2>1 DEF Parties
  <2>4. \A account \in Accounts :
            Owed(account) = (IF account \notin Parties THEN 0
                             ELSE IF account = "payer" THEN -(erow.amount - FirstAmount)
                             ELSE erow.amount - FirstAmount)
    BY DEF Owed
  <2>5. \A account \in Accounts :
            OwedAt(account, erow.amount) =
                (IF service = "topup" THEN IF account = "payee" THEN erow.amount - FirstAmount ELSE 0
                 ELSE IF service = "transfer"
                        THEN IF account = "payee" THEN erow.amount - FirstAmount
                                                  ELSE -(erow.amount - FirstAmount)
                 ELSE IF account = "payer" THEN -(erow.amount - FirstAmount) ELSE 0)
    BY <2>1 DEF OwedAt
  <2> QED
    BY <2>1, <2>3, <2>4, <2>5 DEF Followers, Accounts
<1>9. service = "transaction" => OwedAt("payee", erow.amount) = 0
  BY DEF OwedAt
<1> QED
  BY <1>7, <1>8, <1>9 DEF MoneyFollowsRow, Accounts

-----------------------------------------------------------------------------
(* Steps of edits that follow one another *)

\* An edit that failed stays failed.
LEMMA FailedStays ==
    ASSUME EditTypeOK, [EditNext]_editVars, Unfailed'
    PROVE  Unfailed
<1> SUFFICES ASSUME NEW e \in Edits,
                    epc[e] \in {"undo", "restore", "dead"} \/ (epc[e] = "done" /\ eanswer[e] # "ok")
             PROVE  FALSE
  BY DEF Unfailed, EditTypeOK
<1>1. ASSUME UNCHANGED <<epc[e], eanswer[e]>> PROVE FALSE
  BY <1>1 DEF Unfailed
<1>2. ASSUME NEW d \in Edits, d # e,
             epc' = epc \/ \E to : epc' = [epc EXCEPT ![d] = to],
             eanswer' = eanswer \/ \E what : eanswer' = [eanswer EXCEPT ![d] = what]
      PROVE  FALSE
  BY <1>1, <1>2 DEF EditTypeOK
<1>3. ASSUME UndoAnswered(e) \/ RestoreAmount(e) PROVE FALSE
  <2>1. UNCHANGED <<epc, eanswer>> \/ \E mark \in BOOLEAN : EditAnswer(e, "error", mark)
    BY <1>3 DEF UndoAnswered, RestoreAmount
  <2> QED
    BY <1>1, <2>1 DEF EditAnswer, EditGoto, Unfailed, EditTypeOK
<1>4. ASSUME NEW d \in Edits, UndoAnswered(d) \/ RestoreAmount(d) PROVE FALSE
  <2>1. UNCHANGED <<epc, eanswer>> \/ \E mark \in BOOLEAN : EditAnswer(d, "error", mark)
    BY <1>4 DEF UndoAnswered, RestoreAmount
  <2> QED
    BY <1>1, <1>2, <1>3, <1>4, <2>1 DEF EditAnswer, EditGoto
<1>5. ASSUME NEW d \in Edits, NEW n \in Amounts, ReadRow(d, n) PROVE FALSE
  BY <1>2, <1>5 DEF ReadRow, EditAnswer, EditGoto
<1>6. ASSUME NEW d \in Edits, NEW why, FailEdit(d, why), epc[d] \in {"row", "move", "status"} PROVE FALSE
  BY <1>2, <1>6 DEF FailEdit, GiveUp, EditAnswer, EditGoto
<1>7. ASSUME NEW d \in Edits, MovementErrored(d) \/ UpdateAmount(d) \/ UpdateEditStatus(d) PROVE FALSE
  <2>1. epc[d] \in {"row", "move", "status"} /\ d # e
    BY <1>7 DEF MovementErrored, UpdateAmount, UpdateEditStatus
  <2>2. \/ \E why : FailEdit(d, why)
        \/ (\E to : EditGoto(d, to)) /\ UNCHANGED eanswer
        \/ EditAnswer(d, "ok", FALSE)
    BY <1>7 DEF MovementErrored, UpdateAmount, UpdateEditStatus
  <2> QED
    BY <1>2, <1>6, <2>1, <2>2 DEF EditAnswer, EditGoto
<1>8. ASSUME NEW d \in Edits, MovementsDone(d) \/ CrashEdit(d) PROVE FALSE
  <2>1. d # e \/ epc'[e] = "dead"
    BY <1>8 DEF MovementsDone, CrashEdit, EditRunning, EditGoto, EditTypeOK
  <2>2. epc'[e] # "dead"
    BY DEF Unfailed
  <2> QED
    BY <1>2, <1>8, <2>1, <2>2 DEF MovementsDone, CrashEdit, EditGoto
<1>9. ASSUME \/ \E d \in Edits : SendMovement(d) \/ MovementConfirmed(d) \/ MarkEditAsFailed(d)
             \/ \E m \in esent : ExecuteMovement(m)
             \/ UNCHANGED editVars
      PROVE  FALSE
  BY <1>1, <1>9 DEF SendMovement, MovementConfirmed, MarkEditAsFailed, ExecuteMovement, editVars
<1> QED
  BY <1>4, <1>5, <1>7, <1>8, <1>9 DEF EditNext

\* So an error shows.
LEMMA FailingShows ==
    ASSUME EditTypeOK, NEW e \in Edits, NEW why, FailEdit(e, why)
    PROVE  ~Unfailed'
<1>1. \/ EditGoto(e, "restore") \/ EditGoto(e, "undo")
      \/ \E mark \in BOOLEAN : EditAnswer(e, "error", mark)
  BY DEF FailEdit, GiveUp
<1> QED
  BY <1>1 DEF EditAnswer, EditGoto, Unfailed, EditTypeOK

\* What an edit that has not failed waits for.
LEMMA AwaitedIs ==
    Unfailed => \A e \in Edits :
        Awaited(e) = IF epc[e] = "move" /\ elegs[e] < Len(Forward(e))
                       THEN {Forward(e)[elegs[e] + 1]} ELSE {}
BY DEF Unfailed, Awaited

\* So after a step.
LEMMA AwaitedIsNext ==
    (Unfailed => \A e \in Edits :
        Awaited(e) = IF epc[e] = "move" /\ elegs[e] < Len(Forward(e))
                       THEN {Forward(e)[elegs[e] + 1]} ELSE {})'
BY AwaitedIs, PTL

\* Only the edit that runs waits.
LEMMA PendingOf ==
    ASSUME Unfailed, ~EditsOverlap, NEW e \in Edits, EditRunning(e)
    PROVE  Pending = Awaited(e)
<1>1. \A d \in Edits \ {e} : Awaited(d) = {}
  BY AwaitedIs DEF EditsOverlap, EditRunning
<1> QED
  BY <1>1 DEF Pending

\* The number of confirmed movements is a number.
LEMMA ConfirmedType ==
    ASSUME EditTypeOK, IsFiniteSet(Started)
    PROVE  Confirmed \in Int /\ \A e \in Started : elegs[e] \in Int
<1>1. \A e \in Started : elegs[e] \in Int
  BY DEF EditTypeOK, Started
<1> QED
  BY <1>1, SumType DEF Confirmed

\* A step that confirms nothing can only find a movement executed already.
LEMMA ExplainedKeeps ==
    ASSUME EditTypeOK, SerialInv, Confirmed' = Confirmed, Settled' \subseteq Settled,
           Settled' = Settled /\ Balanced(Settled) => Balanced(Settled)'
    PROVE  Explained'
<1>1. Confirmed \in Int
  BY ConfirmedType DEF SerialInv
<1>2. IsFiniteSet(Settled) /\ Cardinality(Settled) \in Nat
  BY FS_Subset, FS_CardinalityType DEF SerialInv, Settled
<1>3. IsFiniteSet(Settled') /\ Cardinality(Settled') \in Nat
      /\ Cardinality(Settled') <= Cardinality(Settled)
      /\ (Settled' # Settled => Cardinality(Settled') < Cardinality(Settled))
  <2>1. IsFiniteSet(Settled') /\ Cardinality(Settled') <= Cardinality(Settled)
        /\ (Cardinality(Settled') = Cardinality(Settled) => Settled' = Settled)
    BY <1>2, FS_Subset
  <2>2. Cardinality(Settled') \in Nat
    BY <2>1, FS_CardinalityType
  <2> QED
    BY <1>2, <2>1, <2>2
<1> QED
  BY <1>1, <1>2, <1>3 DEF SerialInv, Explained

\* The sum of confirmed movements stays with its summands.
LEMMA ConfirmedStays ==
    ASSUME UNCHANGED elegs, Started' = Started
    PROVE  Confirmed' = Confirmed
BY DEF Confirmed

\* A step that leaves every handler where it is.
LEMMA HandlersStay ==
    ASSUME EditInv, EditInv', SerialInv, Unfailed, Unfailed', ~EditsOverlap',
           UNCHANGED <<service, epc, eask, elegs, eanswer>>, erow'.amount = erow.amount,
           ebook \subseteq ebook', IsFiniteSet(ebook'), ebook' \ ebook \subseteq Pending,
           esent' \subseteq esent \union Pending, \A m \in esent' : m.amount \in Int
    PROVE  SerialInv'
<1>1. \A e \in Edits : Forward(e)' = Forward(e)
  BY ForwardStands
<1>2. \A e \in Edits : Awaited(e)' = Awaited(e)
  BY <1>1, AwaitedIs, AwaitedIsNext
<1>3. Pending' = Pending /\ Settled' = Settled
  <2>1. Pending' = Pending
    BY <1>2 DEF Pending
  <2> QED
    BY <2>1 DEF Settled
<1>4. EditAtPc'
  BY <1>1 DEF SerialInv, EditAtPc
<1>5. Started' = Started
  BY DEF Started
<1>6. Balanced(Settled) => Balanced(Settled)'
  <2>1. \A e \in Edits : EditRunning(e)' <=> EditRunning(e)
    BY DEF EditRunning
  <2>2. \A e \in Edits, a \in Accounts : Part(e, a)' = Part(e, a)
    BY <1>1 DEF Part
  <2>3. \A a \in Accounts : NetOf(Settled, a)' = NetOf(Settled, a)
    BY <1>3
  <2>4. \A a \in Accounts, n \in Amounts \union {FirstAmount} : OwedAt(a, n)' = OwedAt(a, n)
    BY DEF OwedAt
  <2> QED
    BY <2>1, <2>2, <2>3, <2>4 DEF Balanced, EditInv, EditTypeOK
<1>7. Explained'
  BY <1>3, <1>5, <1>6, ConfirmedStays, ExplainedKeeps DEF EditInv
<1> QED
  BY <1>3, <1>4, <1>5, <1>7 DEF SerialInv

\* A step of a handler between two statements.
LEMMA HandlerMoves ==
    ASSUME EditInv, EditInv', SerialInv, Unfailed, Unfailed', ~EditsOverlap',
           UNCHANGED <<esent, ebook>>, Pending = {},
           EditAtPc', IsFiniteSet(Started'), Confirmed' = Confirmed,
           Balanced(ebook) => Balanced(ebook)'
    PROVE  SerialInv'
<1>1. Settled = ebook /\ Settled' \subseteq Settled
  BY DEF Settled
<1>2. Settled' = Settled => Settled' = ebook'
  BY <1>1
<1>3. Settled' = Settled /\ Balanced(Settled) => Balanced(Settled)'
  BY <1>1, <1>2 DEF Balanced
<1>4. Explained'
  BY <1>1, <1>3, ExplainedKeeps DEF EditInv
<1> QED
  BY <1>4 DEF SerialInv

\* A confirmed movement: executed just now, or known from an earlier edit.
LEMMA ConfirmedOnce ==
    ASSUME EditInv, EditInv', SerialInv, Unfailed, Unfailed', ~EditsOverlap',
           NEW e \in Edits, MovementConfirmed(e)
    PROVE  SerialInv'
<1>1. /\ UNCHANGED <<service, erow, epc, eask, ewhy, eanswer, esent, ebook, emarking>>
      /\ elegs' = [elegs EXCEPT ![e] = elegs[e] + 1] /\ epc[e] = "move"
      /\ Awaited(e) # {} /\ Awaited(e) \subseteq ebook
  BY DEF MovementConfirmed
<1> DEFINE m == Forward(e)[elegs[e] + 1]
<1>2. elegs[e] < Len(Forward(e)) /\ Awaited(e) = {m} /\ m \in ebook
  BY <1>1, AwaitedIs
<1>3. /\ elegs[e] \in Nat /\ elegs'[e] = elegs[e] + 1 /\ Len(Forward(e)) \in 0..2
      /\ \A d \in Edits \ {e} : elegs'[d] = elegs[d]
      /\ \A d \in Edits : elegs[d] \in Int /\ elegs'[d] \in Int
  BY <1>1, ForwardShape DEF EditInv, EditTypeOK
<1>4. \A d \in Edits : Forward(d)' = Forward(d)
  BY <1>1, ForwardStands
<1>5. EditRunning(e) /\ \A d \in Edits : EditRunning(d) => d = e
  BY <1>1 DEF EditRunning, SerialInv, EditsOverlap
<1>6. Pending = {m} /\ ebook = Settled \union {m} /\ m \notin Settled /\ esent \subseteq ebook
  <2>1. Pending = {m}
    BY <1>2, <1>5, PendingOf DEF SerialInv
  <2> HIDE DEF m
  <2> QED
    BY <1>2, <2>1 DEF Settled, SerialInv
<1>7. EditAtPc'
  BY <1>1, <1>3, <1>4 DEF SerialInv, EditAtPc
<1>8. Started' = Started /\ e \in Started /\ IsFiniteSet(Started)
  BY <1>1 DEF Started, SerialInv
<1>9. Confirmed' = Confirmed + 1 /\ Confirmed \in Int
  <2>1. SumFunctionOnSet(elegs', Started) = SumFunctionOnSet(elegs, Started) - elegs[e] + elegs'[e]
    <3>1. \A d \in Started : elegs[d] \in Int /\ elegs'[d] \in Int
      BY <1>3 DEF Started
    <3>2. \A d \in Started \ {e} : elegs'[d] = elegs[d]
      BY <1>3 DEF Started
    <3> HIDE DEF Started
    <3> QED
      BY <1>8, <3>1, <3>2, SumChange
  <2>2. SumFunctionOnSet(elegs, Started) \in Int
    BY <1>8, ConfirmedType DEF Confirmed, EditInv
  <2> QED
    BY <1>3, <1>8, <2>1, <2>2 DEF Confirmed
<1> HIDE DEF m
<1>10. \A b \in ebook : b.amount \in Int
  BY <1>6 DEF SerialInv, EditInv, EditTypeOK
<1>11. /\ IsFiniteSet(Settled) /\ Cardinality(Settled) \in Nat
       /\ Cardinality(ebook) = Cardinality(Settled) + 1
  <2>1. IsFiniteSet(Settled)
    BY FS_Subset DEF SerialInv, Settled
  <2> QED
    BY <1>6, <2>1, FS_AddElement, FS_CardinalityType
<1>12. /\ Settled' \subseteq ebook /\ Cardinality(Settled') \in Nat
       /\ Cardinality(Settled') <= Cardinality(ebook)
       /\ (Settled' # ebook => Cardinality(Settled') < Cardinality(ebook))
  <2>1. Settled' \subseteq ebook /\ IsFiniteSet(ebook)
    BY <1>1 DEF Settled, SerialInv
  <2>2. IsFiniteSet(Settled') /\ Cardinality(Settled') <= Cardinality(ebook)
        /\ (Cardinality(Settled') = Cardinality(ebook) => Settled' = ebook)
    BY <2>1, FS_Subset
  <2>3. Cardinality(Settled') \in Nat /\ Cardinality(ebook) \in Nat
    BY <2>1, <2>2, FS_CardinalityType
  <2> QED
    BY <2>1, <2>2, <2>3
<1>13. Balanced(Settled) /\ Settled' = ebook => Balanced(Settled)'
  <2> SUFFICES ASSUME Balanced(Settled), Settled' = ebook, NEW account \in Accounts
               PROVE  NetOf(ebook, account) = OwedAt(account, eask[e].old)' + Part(e, account)'
    BY <1>1, <1>5 DEF Balanced, EditRunning
  <2>1. /\ NetOf(ebook, account) = NetOf(Settled, account) + On(m, account)
        /\ NetOf(Settled, account) \in Int
    BY <1>6, <1>10, <1>11, NetGrows
  <2>2. NetOf(Settled, account) = OwedAt(account, eask[e].old) + Part(e, account)
    BY <1>5 DEF Balanced
  <2>3. \A b \in ebook : On(b, account) \in Int
    BY <1>10 DEF On
  <2>4. Part(e, account)' = Part(e, account) + On(m, account) /\ Part(e, account) \in Int
    <3>1. CASE elegs[e] = 0
      BY <1>2, <1>3, <1>4, <2>3, <3>1 DEF Part, m
    <3>2. CASE elegs[e] = 1
      <4>1. Forward(e)[1] \in ebook
        BY <1>3, <3>2 DEF EditInv, LegsStand
      <4> QED
        BY <1>2, <1>3, <1>4, <2>3, <3>2, <4>1 DEF Part, m
    <3>3. elegs[e] \in {0, 1}
      <4>1. \A k \in Nat, n \in 0..2 : k < n => k \in {0, 1}
        OBVIOUS
      <4> QED
        BY <1>2, <1>3, <4>1
    <3> QED
      BY <3>1, <3>2, <3>3
  <2>5. OwedAt(account, eask[e].old)' = OwedAt(account, eask[e].old) /\ OwedAt(account, eask[e].old) \in Int
    <3>1. eask[e].old \in Int /\ FirstAmount \in Int
      <4>1. eask[e].old \in Amounts \union {FirstAmount}
        BY DEF EditInv, EditTypeOK
      <4>2. \A n \in Amounts \union {FirstAmount} : n \in Int
        BY AmountAssumption
      <4> QED
        BY <4>1, <4>2, AmountAssumption
    <3> QED
      BY <1>1, <3>1 DEF OwedAt
  <2>6. On(m, account) \in Int
    BY <1>2, <2>3
  <2> QED
    BY <2>1, <2>2, <2>4, <2>5, <2>6
<1>14. Explained'
  <2>1. CASE Cardinality(Settled) < Confirmed
    BY <1>9, <1>11, <1>12, <2>1 DEF Explained
  <2>2. CASE Cardinality(Settled) = Confirmed /\ Balanced(Settled)
    BY <1>9, <1>11, <1>12, <1>13, <2>2 DEF Explained
  <2> QED
    BY <2>1, <2>2 DEF SerialInv, Explained
<1>15. esent' \subseteq ebook' \union Pending'
  BY <1>1, <1>6
<1> QED
  BY <1>1, <1>7, <1>8, <1>14, <1>15 DEF SerialInv

LEMMA OwedType ==
    ASSUME EditTypeOK, NEW account \in Accounts
    PROVE  OwedAt(account, erow.amount) \in Int
<1>1. \A n \in Amounts \union {FirstAmount} : n \in Int
  BY AmountAssumption
<1>2. erow.amount \in Int /\ FirstAmount \in Int
  BY <1>1 DEF EditTypeOK
<1> QED
  BY <1>2 DEF OwedAt

\* An edit that was answered ok has ended.
OkEnds == \A e \in Edits : eanswer[e] = "ok" => epc[e] = "done"

LEMMA OkEndsNext ==
    ASSUME EditTypeOK, OkEnds, [EditNext]_editVars
    PROVE  OkEnds'
<1>1. ASSUME UNCHANGED <<epc, eanswer>> PROVE OkEnds'
  BY <1>1 DEF OkEnds
<1>2. ASSUME NEW e \in Edits, NEW to, epc[e] # "done", EditGoto(e, to), UNCHANGED eanswer
      PROVE  OkEnds'
  BY <1>2 DEF OkEnds, EditGoto, EditTypeOK
<1>3. ASSUME NEW e \in Edits, NEW what, NEW mark, EditAnswer(e, what, mark) PROVE OkEnds'
  BY <1>3 DEF OkEnds, EditAnswer, EditGoto, EditTypeOK
<1>4. ASSUME NEW e \in Edits, NEW why, epc[e] # "done", FailEdit(e, why) PROVE OkEnds'
  BY <1>2, <1>3, <1>4 DEF FailEdit, GiveUp
<1>5. ASSUME NEW e \in Edits, NEW n \in Amounts, ReadRow(e, n) PROVE OkEnds'
  BY <1>2, <1>3, <1>5 DEF ReadRow
<1>6. ASSUME NEW e \in Edits, MovementErrored(e) \/ UpdateAmount(e) \/ UpdateEditStatus(e) PROVE OkEnds'
  BY <1>2, <1>3, <1>4, <1>6 DEF MovementErrored, UpdateAmount, UpdateEditStatus
<1>7. ASSUME NEW e \in Edits, UndoAnswered(e) \/ RestoreAmount(e) PROVE OkEnds'
  BY <1>1, <1>3, <1>7 DEF UndoAnswered, RestoreAmount
<1>8. ASSUME NEW e \in Edits, CrashEdit(e) \/ MovementsDone(e) PROVE OkEnds'
  BY <1>2, <1>8 DEF CrashEdit, EditRunning, MovementsDone
<1>9. ASSUME NEW e \in Edits, SendMovement(e) \/ MovementConfirmed(e) \/ MarkEditAsFailed(e)
      PROVE  OkEnds'
  BY <1>1, <1>9 DEF SendMovement, MovementConfirmed, MarkEditAsFailed
<1>10. ASSUME NEW m \in esent, ExecuteMovement(m) PROVE OkEnds'
  BY <1>1, <1>10 DEF ExecuteMovement
<1> QED
  BY <1>1, <1>5, <1>6, <1>7, <1>8, <1>9, <1>10 DEF EditNext, editVars

\* Every step of edits that do not overlap and do not fail keeps the invariant.
LEMMA SerialNext ==
    ASSUME EditInv, EditInv', SerialInv, Unfailed, Unfailed', ~EditsOverlap', [EditNext]_editVars
    PROVE  SerialInv'
<1>a. EditTypeOK /\ EditTypeOK' /\ LegsStand /\ ebook \subseteq esent
  BY DEF EditInv, EditTypeOK
<1>b. \A e \in Edits : epc[e] \in {"row", "move", "status"} =>
        /\ EditRunning(e) /\ \A d \in Edits : EditRunning(d) => d = e
  BY DEF EditRunning, SerialInv, EditsOverlap
<1>c. \A e \in Edits : epc[e] \in {"row", "status"} \/ (epc[e] = "move" /\ elegs[e] = Len(Forward(e))) =>
        Pending = {}
  <2> SUFFICES ASSUME NEW e \in Edits,
                      epc[e] \in {"row", "status"} \/ (epc[e] = "move" /\ elegs[e] = Len(Forward(e)))
               PROVE  Pending = {}
    OBVIOUS
  <2>1. Len(Forward(e)) \in Int
    BY <1>a, ForwardShape
  <2>2. Awaited(e) = {}
    BY <2>1, AwaitedIs
  <2> QED
    BY <1>b, <2>2, PendingOf DEF SerialInv
<1>1. ASSUME NEW e \in Edits, SendMovement(e) PROVE SerialInv'
  <2>1. /\ UNCHANGED <<service, erow, epc, eask, elegs, ewhy, eanswer, ebook, emarking>>
        /\ esent' = esent \union Awaited(e)
    BY <1>1 DEF SendMovement
  <2>2. \A m \in Awaited(e) : m.amount \in Int
    <3> SUFFICES ASSUME NEW m \in Awaited(e) PROVE m.amount \in Int
      OBVIOUS
    <3>1. m = Forward(e)[elegs[e] + 1] /\ elegs[e] < Len(Forward(e))
      BY AwaitedIs
    <3>2. elegs[e] + 1 \in 1..Len(Forward(e))
      <4>1. elegs[e] \in Nat /\ Len(Forward(e)) \in Nat
        BY <1>a, ForwardShape DEF EditTypeOK
      <4> QED
        BY <3>1, <4>1
    <3>3. IsMovement(m)
      BY <1>a, <3>1, <3>2, ForwardShape
    <3> QED
      BY <3>3 DEF IsMovement, Movement
  <2>3. Awaited(e) \subseteq Pending
    BY DEF Pending
  <2> QED
    BY <2>1, <2>2, <2>3, HandlersStay DEF SerialInv
<1>2. ASSUME NEW m \in esent, ExecuteMovement(m) PROVE SerialInv'
  <2>1. /\ UNCHANGED <<service, erow, epc, eask, elegs, ewhy, eanswer, esent, emarking>>
        /\ ebook' = ebook \union {m} /\ m \notin ebook
    BY <1>2 DEF ExecuteMovement
  <2>2. m \in Pending
    BY <2>1 DEF SerialInv
  <2>3. IsFiniteSet(ebook')
    BY <2>1, FS_AddElement DEF SerialInv
  <2> QED
    BY <2>1, <2>2, <2>3, HandlersStay DEF SerialInv
<1>3. ASSUME NEW e \in Edits, MovementConfirmed(e) PROVE SerialInv'
  BY <1>3, ConfirmedOnce
<1>4. ASSUME NEW e \in Edits, NEW n \in Amounts, ReadRow(e, n) PROVE SerialInv'
  <2>1. /\ epc[e] = "idle" /\ eask' = [eask EXCEPT ![e] = [old |-> erow.amount, new |-> n]]
        /\ UNCHANGED <<service, erow, elegs, ewhy, esent, ebook>>
    BY <1>4 DEF ReadRow
  <2>2. \A mark : ~EditAnswer(e, "error", mark)
    BY <1>a DEF EditAnswer, EditGoto, Unfailed, EditTypeOK
  <2>3. EditGoto(e, IF service = "topup" THEN "row" ELSE "move") /\ UNCHANGED eanswer
    BY <1>4, <2>2 DEF ReadRow
  <2>4. /\ epc'[e] = (IF service = "topup" THEN "row" ELSE "move")
        /\ eask'[e].old = erow.amount /\ elegs[e] = 0
        /\ \A d \in Edits \ {e} : epc'[d] = epc[d] /\ eask'[d] = eask[d]
    BY <1>a, <2>1, <2>3 DEF EditGoto, EditTypeOK, LegsStand
  <2>5. \A d \in Edits : ~EditRunning(d) /\ (EditRunning(d)' <=> d = e)
    BY <2>1, <2>4 DEF EditRunning, EditsOverlap
  <2>6. Pending = {}
    BY <2>5, AwaitedIs DEF Pending, EditRunning
  <2>7. \A d \in Edits \ {e} : Forward(d)' = Forward(d)
    BY <2>1, <2>4, ForwardStands
  <2>8. EditAtPc'
    BY <2>1, <2>3, <2>4, <2>7 DEF SerialInv, EditAtPc
  <2>9. Started' = Started \union {e} /\ e \notin Started
    BY <2>1, <2>4 DEF Started
  <2>10. IsFiniteSet(Started') /\ Confirmed' = Confirmed
    <3>1. IsFiniteSet(Started) /\ Confirmed \in Int /\ \A d \in Started : elegs[d] \in Int
      BY <1>a, ConfirmedType DEF SerialInv
    <3>2. elegs[e] \in Int /\ elegs' = elegs
      BY <2>1, <2>4
    <3> HIDE DEF Started
    <3>3. SumFunctionOnSet(elegs, Started \union {e}) = SumFunctionOnSet(elegs, Started) + elegs[e]
      BY <2>9, <3>1, <3>2, SumInsert
    <3> QED
      BY <2>4, <2>9, <3>1, <3>2, <3>3, FS_AddElement DEF Confirmed
  <2>11. Balanced(ebook) => Balanced(ebook)'
    <3> SUFFICES ASSUME Balanced(ebook), NEW account \in Accounts
                 PROVE  NetOf(ebook, account) = OwedAt(account, eask[e].old)' + Part(e, account)'
      BY <2>1, <2>5 DEF Balanced
    <3>1. NetOf(ebook, account) = OwedAt(account, erow.amount)
      BY <2>5 DEF Balanced
    <3>2. OwedAt(account, eask[e].old)' = OwedAt(account, erow.amount)
      BY <2>1, <2>4 DEF OwedAt
    <3>3. Part(e, account)' = 0
      BY <2>1, <2>4 DEF Part
    <3>4. OwedAt(account, erow.amount) \in Int
      BY <1>a, OwedType
    <3> QED
      BY <3>1, <3>2, <3>3, <3>4
  <2> QED
    BY <2>1, <2>6, <2>8, <2>10, <2>11, HandlerMoves
\* A statement of a handler that runs before and after it, or ends.
<1>5. ASSUME NEW e \in Edits, epc[e] \in {"row", "move", "status"}, epc'[e] \in {"row", "move", "status"},
             Pending = {}, UNCHANGED <<service, eask, elegs, eanswer, esent, ebook>>, EditAtPc',
             \A d \in Edits \ {e} : epc'[d] = epc[d]
      PROVE  SerialInv'
  <2>1. Started' = Started
    BY <1>5 DEF Started
  <2>2. \A d \in Edits : (EditRunning(d) <=> d = e) /\ (EditRunning(d)' <=> d = e)
    BY <1>5, <1>b DEF EditRunning
  <2>3. Forward(e)' = Forward(e)
    BY <1>5, ForwardStands
  <2>4. Balanced(ebook) => Balanced(ebook)'
    <3> SUFFICES ASSUME Balanced(ebook), NEW account \in Accounts
                 PROVE  NetOf(ebook, account) = OwedAt(account, eask[e].old)' + Part(e, account)'
      BY <1>5, <2>2 DEF Balanced
    <3>1. NetOf(ebook, account) = OwedAt(account, eask[e].old) + Part(e, account)
      BY <2>2 DEF Balanced
    <3>2. OwedAt(account, eask[e].old)' = OwedAt(account, eask[e].old) /\ Part(e, account)' = Part(e, account)
      BY <1>5, <2>3 DEF OwedAt, Part
    <3> QED
      BY <3>1, <3>2
  <2>5. IsFiniteSet(Started') /\ Confirmed' = Confirmed
    BY <1>5, <2>1, ConfirmedStays DEF SerialInv
  <2> QED
    BY <1>5, <2>4, <2>5, HandlerMoves
<1>6. ASSUME NEW e \in Edits, MovementsDone(e) PROVE SerialInv'
  <2>1. /\ epc[e] = "move" /\ elegs[e] = Len(Forward(e))
        /\ EditGoto(e, IF service = "topup" THEN "status" ELSE "row")
        /\ UNCHANGED <<service, erow, eask, elegs, ewhy, eanswer, esent, ebook, emarking>>
    BY <1>6 DEF MovementsDone
  <2>2. /\ epc'[e] = (IF service = "topup" THEN "status" ELSE "row")
        /\ \A d \in Edits \ {e} : epc'[d] = epc[d]
    BY <1>a, <2>1 DEF EditGoto, EditTypeOK
  <2>3. \A d \in Edits : Forward(d)' = Forward(d)
    BY <2>1, ForwardStands
  <2>4. EditAtPc'
    BY <2>1, <2>2, <2>3 DEF SerialInv, EditAtPc
  <2> QED
    BY <1>5, <1>c, <2>1, <2>2, <2>4
<1>7. ASSUME NEW e \in Edits, UpdateAmount(e) PROVE SerialInv'
  <2>1. /\ epc[e] = "row" /\ erow' = [erow EXCEPT !.amount = eask[e].new]
        /\ EditGoto(e, IF service = "topup" THEN "move" ELSE "status")
        /\ UNCHANGED <<service, eask, elegs, eanswer, esent, ebook>>
    BY <1>7, <1>a, FailingShows DEF UpdateAmount
  <2>2. /\ epc'[e] = (IF service = "topup" THEN "move" ELSE "status")
        /\ erow'.amount = eask[e].new
        /\ \A d \in Edits \ {e} : epc'[d] = epc[d]
    BY <1>a, <2>1 DEF EditGoto, EditTypeOK
  <2>3. \A d \in Edits : Forward(d)' = Forward(d)
    BY <2>1, ForwardStands
  <2>4. \A d \in Edits \ {e} : epc'[d] \notin {"row", "move", "status"}
    BY <1>b, <2>1, <2>2 DEF EditRunning
  <2>5. EditAtPc'
    BY <2>1, <2>2, <2>3, <2>4 DEF SerialInv, EditAtPc
  <2> QED
    BY <1>5, <1>c, <2>1, <2>2, <2>5
<1>8. ASSUME NEW e \in Edits, UpdateEditStatus(e) PROVE SerialInv'
  <2>1. /\ epc[e] = "status" /\ erow' = [erow EXCEPT !.status = "success"]
        /\ EditAnswer(e, "ok", FALSE)
        /\ UNCHANGED <<service, eask, elegs, esent, ebook>>
    BY <1>8, <1>a, FailingShows DEF UpdateEditStatus
  <2>2. /\ epc'[e] = "done" /\ erow'.amount = erow.amount
        /\ \A d \in Edits \ {e} : epc'[d] = epc[d] /\ eanswer'[d] = eanswer[d]
    BY <1>a, <2>1 DEF EditAnswer, EditGoto, EditTypeOK
  <2>3. \A d \in Edits : Forward(d)' = Forward(d)
    BY <2>1, ForwardStands
  <2>4. \A d \in Edits : (EditRunning(d) <=> d = e) /\ ~EditRunning(d)'
    BY <1>b, <2>1, <2>2 DEF EditRunning
  <2>5. EditAtPc'
    BY <2>1, <2>2, <2>3 DEF SerialInv, EditAtPc
  <2>6. Started' = Started
    BY <2>1, <2>2 DEF Started
  <2>7. IsFiniteSet(Started') /\ Confirmed' = Confirmed
    BY <2>1, <2>6, ConfirmedStays DEF SerialInv
  <2>8. Balanced(ebook) => Balanced(ebook)'
    <3> SUFFICES ASSUME Balanced(ebook), NEW account \in Accounts
                 PROVE  NetOf(ebook, account) = OwedAt(account, erow.amount)'
      BY <2>1, <2>4 DEF Balanced
    <3>1. NetOf(ebook, account) = OwedAt(account, eask[e].old) + Part(e, account)
      BY <2>4 DEF Balanced
    <3>2. elegs[e] = Len(Forward(e)) /\ erow.amount = eask[e].new
      BY <2>1 DEF SerialInv, EditAtPc
    <3>3. OwedAt(account, eask[e].old) + Part(e, account) = OwedAt(account, eask[e].new)
      BY <1>a, <3>2, Telescopes
    <3>4. OwedAt(account, erow.amount)' = OwedAt(account, eask[e].new)
      BY <2>1, <2>2, <3>2 DEF OwedAt
    <3> QED
      BY <3>1, <3>3, <3>4
  <2>9. Pending = {}
    BY <1>c, <2>1
  <2> QED
    BY <2>1, <2>5, <2>7, <2>8, <2>9, HandlerMoves
<1>9. ASSUME NEW e \in Edits, MarkEditAsFailed(e) PROVE SerialInv'
  <2>1. /\ UNCHANGED <<service, epc, eask, elegs, ewhy, eanswer, esent, ebook>>
        /\ erow' \in {erow, [erow EXCEPT !.status = "failed"]}
    BY <1>9 DEF MarkEditAsFailed
  <2>2. erow'.amount = erow.amount
    BY <1>a, <2>1 DEF EditTypeOK
  <2> QED
    BY <2>1, <2>2, HandlersStay DEF SerialInv
<1>10. ASSUME NEW e \in Edits, MovementErrored(e) PROVE SerialInv'
  BY <1>10, <1>a, FailingShows DEF MovementErrored
<1>11. ASSUME NEW e \in Edits, UndoAnswered(e) \/ RestoreAmount(e) \/ CrashEdit(e) PROVE SerialInv'
  <2>1. epc[e] \notin {"undo", "restore"} /\ epc'[e] # "dead"
    BY DEF Unfailed
  <2> QED
    BY <1>11, <1>a, <2>1 DEF UndoAnswered, RestoreAmount, CrashEdit, EditGoto, EditTypeOK
<1>12. ASSUME UNCHANGED editVars PROVE SerialInv'
  <2>1. UNCHANGED <<service, erow, epc, eask, elegs, ewhy, eanswer, esent, ebook>>
    BY <1>12 DEF editVars
  <2> QED
    BY <2>1, HandlersStay DEF SerialInv
<1> QED
  BY <1>1, <1>2, <1>3, <1>4, <1>6, <1>7, <1>8, <1>9, <1>10, <1>11, <1>12 DEF EditNext

\* Nothing has moved.
LEMMA SerialInit == EditInit => SerialInv
<1> SUFFICES ASSUME EditInit PROVE SerialInv
  OBVIOUS
<1>1. /\ Started = {} /\ esent = {} /\ ebook = {} /\ Settled = {}
      /\ ~EditsOverlap /\ EditAtPc /\ \A e \in Edits : ~EditRunning(e)
  BY DEF EditInit, Started, Settled, EditsOverlap, EditAtPc, EditRunning
<1>2. IsFiniteSet({}) /\ Cardinality({}) = 0 /\ Confirmed = 0
  BY <1>1, FS_EmptySet, SumOfNothing DEF Confirmed
<1>3. \A account \in Accounts : NetOf({}, account) = 0
  <2> SUFFICES ASSUME NEW account \in Accounts PROVE NetOf({}, account) = 0
    OBVIOUS
  <2>1. {m \in {} : m.account = account} = {}
    OBVIOUS
  <2> QED
    BY <2>1, SumOfNothing DEF NetOf
<1>4. \A account \in Accounts : OwedAt(account, erow.amount) = 0
  BY AmountAssumption DEF EditInit, OwedAt
<1>5. Balanced({})
  BY <1>1, <1>3, <1>4 DEF Balanced
<1> QED
  BY <1>1, <1>2, <1>5 DEF SerialInv, Explained

\* However many edits follow one another, of whatever amounts: if all were
\* answered ok and none met an operation id used before, the payer has paid the
\* difference of the row and the payee of a transfer or topup has got it, while the
\* merchant of a transaction has got nothing of it.
THEOREM SerialMoneyFollowsRowHolds == EditSpec => []SerialMoneyFollowsRow
<1> DEFINE Inv == OkEnds /\ (~eoverlaps /\ Unfailed => SerialInv)
<1>1. EditInit => Inv
  BY SerialInit DEF EditInit, OkEnds
<1>2. EditInv /\ EditInv' /\ Inv /\ [EditNext]_editVars => Inv'
  <2> SUFFICES ASSUME EditInv, EditInv', Inv, [EditNext]_editVars, ~eoverlaps', Unfailed'
               PROVE  SerialInv'
    BY OkEndsNext DEF EditInv
  <2>1. Unfailed
    BY FailedStays DEF EditInv
  <2>2. CASE EditNext
    <3>1. eoverlaps' = (eoverlaps \/ EditsOverlap')
      BY <2>2 DEF EditNext
    <3>2. ~eoverlaps /\ ~EditsOverlap'
      BY <3>1
    <3> QED
      BY <2>1, <3>2, SerialNext
  <2>3. CASE UNCHANGED editVars
    <3>1. eoverlaps' = eoverlaps /\ epc' = epc
      BY <2>3 DEF editVars
    <3>2. SerialInv
      BY <2>1, <3>1
    <3>3. ~EditsOverlap'
      BY <3>1, <3>2 DEF SerialInv, EditsOverlap, EditRunning
    <3> QED
      BY <2>1, <3>2, <3>3, SerialNext
  <2> QED
    BY <2>2, <2>3
<1>3. EditInv /\ Inv => SerialMoneyFollowsRow
  <2> SUFFICES ASSUME EditInv, Inv, ~eoverlaps, CleanEdits PROVE MoneyFollowsRow
    BY DEF SerialMoneyFollowsRow, MoneyFollowsRow
  <2>1. Unfailed
    BY DEF CleanEdits, Unfailed, OkEnds
  <2> QED
    BY <2>1, CleanFollows
<1> QED
  BY <1>1, <1>2, <1>3, EditInvHolds, PTL DEF EditSpec

=============================================================================
