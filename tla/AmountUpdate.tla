---------------------------- MODULE AmountUpdate ----------------------------
(***************************************************************************)
(* Changing the amount of an existing row: UpdateTransaction of the        *)
(* transfer service, Update of the transaction and withdraw services,      *)
(* UpdateTopup.  The four handlers have one shape: read the row, move the  *)
(* difference in the saldo service, write the amount, write status         *)
(* success; on an error take back what was moved and let a goroutine write *)
(* status failed.  They differ in the movements (Forward), in the order    *)
(* (topup writes the amount first) and in what an error leads to.          *)
(*                                                                         *)
(* One row of one service.  A movement is named by its operation id, which *)
(* contains the row, the new amount (not for topup) and the leg; the saldo *)
(* service executes one movement per id and confirms a repetition of the   *)
(* same movement.  Handlers of several edits may overlap.                  *)
(***************************************************************************)
EXTENDS Integers, Sequences, FiniteSets, FiniteSetsExt

CONSTANTS
    Services,      \* which of "transfer", "transaction", "withdraw", "topup"
    Edits,         \* handler executions
    Amounts,       \* amounts a client may ask for
    FirstAmount    \* amount of the row as it was created and settled

ASSUME ServicesAssumption == Services \subseteq {"transfer", "transaction", "withdraw", "topup"}
ASSUME AmountAssumption == FirstAmount \in Nat \ {0} /\ Amounts \subseteq Nat \ {0}

VARIABLES
    service,   \* the service whose row this is
    erow,      \* the row: status and amount
    epc,       \* epc[e]: what edit e does next
    eask,      \* eask[e]: the amount read and the amount asked for
    elegs,     \* elegs[e]: how many movements of e stand, as its handler sees it
    ewhy,      \* ewhy[e]: which statement failed
    eanswer,   \* eanswer[e]: what the client was told
    esent,     \* movements asked of the saldo service
    ebook,     \* movements executed by the saldo service
    emarking,  \* edits whose goroutine is about to write failed
    eoverlaps  \* history: two edits ran at the same time

editVars == <<service, erow, epc, eask, elegs, ewhy, eanswer, esent, ebook, emarking, eoverlaps>>

EditInit ==
    /\ service \in Services
    /\ erow = [status |-> "success", amount |-> FirstAmount]
    /\ epc = [e \in Edits |-> "idle"]
    /\ eask = [e \in Edits |-> [old |-> FirstAmount, new |-> FirstAmount]]
    /\ elegs = [e \in Edits |-> 0]
    /\ ewhy = [e \in Edits |-> "none"]
    /\ eanswer = [e \in Edits |-> "none"]
    /\ esent = {}
    /\ ebook = {}
    /\ emarking = {}
    /\ eoverlaps = FALSE

-----------------------------------------------------------------------------
(* Movements *)

Movement(leg, up, tag, account, amount) ==
    [id |-> [act |-> "do", leg |-> leg, up |-> up, tag |-> tag],
     account |-> account, amount |-> amount]

\* Wrong: the transaction service gives back the new amount.
MutForward(e) ==
    LET new  == eask[e].new
        diff == new - eask[e].old
    IN IF service = "transaction"
         THEN << Movement("reverse-old", TRUE, new, "payer", new),
                 Movement("apply-new", TRUE, new, "payer", -new) >>
         ELSE IF diff = 0 THEN << >>
         ELSE << Movement("change", diff > 0, new, "payer", -diff) >>

\* What the edit moves, in order; a debit is a negative amount.  The withdraw
\* service names the leg by its direction, the transfer service both legs.
Forward(e) ==
    LET new  == eask[e].new
        diff == new - eask[e].old
        up   == diff > 0
    IN CASE service = "transaction" ->
                << Movement("reverse-old", TRUE, new, "payer", eask[e].old),
                   Movement("apply-new", TRUE, new, "payer", -new) >>
         [] service # "transaction" /\ diff = 0 -> << >>
         [] service = "transfer" /\ diff # 0 ->
                << Movement("sender", up, new, "payer", -diff),
                   Movement("receiver", up, new, "payee", diff) >>
         [] service = "withdraw" /\ diff # 0 ->
                << Movement("change", up, new, "payer", -diff) >>
         [] OTHER -> << Movement("change", up, 0, "payee", diff) >>

\* The movement that undoes m, or is undone by it.
Reversal(m, act) ==
    [id |-> [m.id EXCEPT !.act = act], account |-> m.account, amount |-> -m.amount]

\* How movement i is taken back.  The withdraw service uses another id when the
\* status update failed than when the row update failed.
Backward(e, i) ==
    Reversal(Forward(e)[i],
             IF service = "withdraw" /\ ewhy[e] = "status" THEN "undo-status" ELSE "undo")

\* The movement the handler is waiting for, if any.
Awaited(e) ==
    CASE epc[e] = "move" /\ elegs[e] < Len(Forward(e)) -> {Forward(e)[elegs[e] + 1]}
      [] epc[e] = "undo" -> {Backward(e, elegs[e])}
      [] OTHER -> {}

EditRunning(e) == epc[e] \notin {"idle", "done", "dead"}

-----------------------------------------------------------------------------
(* Steps of a handler *)

EditGoto(e, to) == epc' = [epc EXCEPT ![e] = to]

EditAnswer(e, what, mark) ==
    /\ EditGoto(e, "done")
    /\ eanswer' = [eanswer EXCEPT ![e] = what]
    /\ emarking' = IF mark THEN emarking \union {e} ELSE emarking

\* FindById and the other reads and checks; each error marks the row failed, but
\* not the withdraw service's refusal of an amount, which comes before them.
ReadRow(e, n) ==
    /\ epc[e] = "idle"
    /\ eask' = [eask EXCEPT ![e] = [old |-> erow.amount, new |-> n]]
    /\ \/ EditGoto(e, IF service = "topup" THEN "row" ELSE "move") /\ UNCHANGED <<eanswer, emarking>>
       \/ EditAnswer(e, "error", TRUE)
       \/ service = "withdraw" /\ EditAnswer(e, "error", FALSE)
    /\ UNCHANGED <<service, erow, elegs, ewhy, esent, ebook>>

SendMovement(e) ==
    /\ esent' = esent \union Awaited(e)
    /\ esent' # esent
    /\ UNCHANGED <<service, erow, epc, eask, elegs, ewhy, eanswer, ebook, emarking>>

\* One movement per operation id; the same id with another movement is refused.
ExecuteMovement(m) ==
    /\ \A b \in ebook : b.id # m.id
    /\ ebook' = ebook \union {m}
    /\ UNCHANGED <<service, erow, epc, eask, elegs, ewhy, eanswer, esent, emarking>>

MovementConfirmed(e) ==
    /\ epc[e] = "move"
    /\ Awaited(e) # {} /\ Awaited(e) \subseteq ebook
    /\ elegs' = [elegs EXCEPT ![e] = @ + 1]
    /\ UNCHANGED <<service, erow, epc, eask, ewhy, eanswer, esent, ebook, emarking>>

MovementsDone(e) ==
    /\ epc[e] = "move"
    /\ elegs[e] = Len(Forward(e))
    /\ EditGoto(e, IF service = "topup" THEN "status" ELSE "row")
    /\ UNCHANGED <<service, erow, eask, elegs, ewhy, eanswer, esent, ebook, emarking>>

\* No movement is left to take back: only a failed status update leaves the row
\* unmarked.
GiveUp(e, why) == EditAnswer(e, "error", why # "status")

\* A statement failed: what comes next.
FailEdit(e, why) ==
    /\ ewhy' = [ewhy EXCEPT ![e] = why]
    /\ CASE service = "topup" /\ why = "move" ->
                EditGoto(e, "restore") /\ UNCHANGED <<eanswer, emarking>>
         [] service # "topup" /\ elegs[e] > 0 ->
                EditGoto(e, "undo") /\ UNCHANGED <<eanswer, emarking>>
         [] OTHER -> GiveUp(e, why)

\* Wrong: the movement that was answered with an error is taken back as well.
MutMovementErrored(e) ==
    /\ epc[e] = "move"
    /\ elegs[e] < Len(Forward(e))
    /\ elegs' = [elegs EXCEPT ![e] = @ + 1]
    /\ ewhy' = [ewhy EXCEPT ![e] = "move"]
    /\ EditGoto(e, "undo")
    /\ UNCHANGED <<service, erow, eask, eanswer, esent, ebook, emarking>>

\* Refused, timed out or not sent at all.
MovementErrored(e) ==
    /\ epc[e] = "move"
    /\ elegs[e] < Len(Forward(e))
    /\ FailEdit(e, "move")
    /\ UNCHANGED <<service, erow, eask, elegs, esent, ebook>>

UpdateAmount(e) ==
    /\ epc[e] = "row"
    /\ \/ /\ erow' = [erow EXCEPT !.amount = eask[e].new]
          /\ \/ /\ EditGoto(e, IF service = "topup" THEN "move" ELSE "status")
                /\ UNCHANGED <<ewhy, eanswer, emarking>>
             \/ FailEdit(e, "row")
       \/ FailEdit(e, "row") /\ UNCHANGED erow
    /\ UNCHANGED <<service, eask, elegs, esent, ebook>>

\* Unguarded: the row becomes successful whatever it was.
UpdateEditStatus(e) ==
    /\ epc[e] = "status"
    /\ \/ /\ erow' = [erow EXCEPT !.status = "success"]
          /\ \/ EditAnswer(e, "ok", FALSE) /\ UNCHANGED ewhy
             \/ FailEdit(e, "status")
       \/ FailEdit(e, "status") /\ UNCHANGED erow
    /\ UNCHANGED <<service, eask, elegs, esent, ebook>>

\* The last movement that stands is taken back, or seems not to be: the result
\* is ignored, except that a failed rollback of a row update in the withdraw
\* service leaves the row unmarked.
UndoAnswered(e) ==
    /\ epc[e] = "undo"
    /\ \E done \in BOOLEAN :
        /\ done => Awaited(e) \subseteq ebook
        /\ elegs' = [elegs EXCEPT ![e] = @ - 1]
        /\ IF elegs[e] > 1
             THEN UNCHANGED <<epc, eanswer, emarking>>
             ELSE EditAnswer(e, "error", ewhy[e] # "status" /\ (service = "withdraw" => done))
    /\ UNCHANGED <<service, erow, eask, ewhy, esent, ebook>>

\* UpdateTopupAmount back to the amount that was read; its error ends the edit.
RestoreAmount(e) ==
    /\ epc[e] = "restore"
    /\ \/ /\ erow' = [erow EXCEPT !.amount = eask[e].old]
          /\ EditAnswer(e, "error", TRUE) \/ EditAnswer(e, "error", FALSE)
       \/ EditAnswer(e, "error", FALSE) /\ UNCHANGED erow
    /\ UNCHANGED <<service, eask, elegs, ewhy, esent, ebook>>

\* The goroutine's unguarded update, which may fail.
MarkEditAsFailed(e) ==
    /\ e \in emarking
    /\ emarking' = emarking \ {e}
    /\ erow' \in {erow, [erow EXCEPT !.status = "failed"]}
    /\ UNCHANGED <<service, epc, eask, elegs, ewhy, eanswer, esent, ebook>>

CrashEdit(e) ==
    /\ EditRunning(e)
    /\ EditGoto(e, "dead")
    /\ UNCHANGED <<service, erow, eask, elegs, ewhy, eanswer, esent, ebook, emarking>>

\* Two edits run at the same time.
EditsOverlap == \E d, e \in Edits : d # e /\ EditRunning(d) /\ EditRunning(e)

EditNext ==
    /\ \/ \E e \in Edits :
           \/ \E n \in Amounts : ReadRow(e, n)
           \/ SendMovement(e) \/ MovementConfirmed(e) \/ MovementErrored(e) \/ MovementsDone(e)
           \/ UpdateAmount(e) \/ UpdateEditStatus(e) \/ UndoAnswered(e) \/ RestoreAmount(e)
           \/ MarkEditAsFailed(e) \/ CrashEdit(e)
       \/ \E m \in esent : ExecuteMovement(m)
    /\ eoverlaps' = (eoverlaps \/ EditsOverlap')

EditSpec == EditInit /\ [][EditNext]_editVars

-----------------------------------------------------------------------------
(* Properties *)

\* The types of the variables; no run lists it.
EditTypeOK ==
    /\ service \in Services
    /\ erow \in [status : {"success", "failed"}, amount : Amounts \union {FirstAmount}]
    /\ epc \in [Edits -> {"idle", "row", "move", "status", "undo", "restore", "done", "dead"}]
    /\ eask \in [Edits -> [old : Amounts \union {FirstAmount}, new : Amounts \union {FirstAmount}]]
    /\ elegs \in [Edits -> 0..2]
    /\ ewhy \in [Edits -> {"none", "move", "row", "status"}]
    /\ eanswer \in [Edits -> {"none", "ok", "error"}]
    /\ ebook \subseteq esent
    /\ emarking \subseteq Edits

\* Whatever times out, and however edits overlap, a rollback is asked for only
\* of a movement that was executed, and there is one entry per operation id.
RollbackOfExecuted ==
    /\ \A m \in esent :
        m.id.act # "do" => Reversal(m, "do") \in ebook
    /\ \A b, c \in ebook : b.id = c.id => b = c

Net(account) == MapThenSumSet(LAMBDA b : b.amount, {b \in ebook : b.account = account})

\* Who pays the amount of a row, and who gets it.
Parties ==
    CASE service = "topup"    -> {"payee"}
      [] service = "withdraw" -> {"payer"}
      [] OTHER                -> {"payer", "payee"}

\* What the row makes of an account beyond the amount it was created with.
Owed(account) ==
    LET change == erow.amount - FirstAmount
    IN IF account \notin Parties THEN 0
       ELSE IF account = "payer" THEN -change ELSE change

\* Every edit so far was answered ok and none met an operation id used before.
CleanEdits ==
    /\ \A e \in Edits : epc[e] = "idle" \/ eanswer[e] = "ok"
    /\ Cardinality(ebook) =
           MapThenSumSet(LAMBDA e : Len(Forward(e)), {e \in Edits : epc[e] = "done"})

\* The accounts whose balance an edit moves at all.  The transaction service takes
\* the difference from the card but leaves the merchant, who was credited the
\* amount of the payment, with the amount it was created with.
Followers == IF service = "transaction" THEN {"payer"} ELSE {"payer", "payee"}

\* The balances of the followers follow the row, and the merchant's stays where it
\* was.  True of clean edits that do not overlap; the premises are needed: a second
\* edit to the same amount, and any second topup edit in the same direction, finds
\* its operation id used, and moves nothing.
MoneyFollowsRow ==
    CleanEdits =>
        /\ \A account \in Followers : Net(account) = Owed(account)
        /\ service = "transaction" => Net("payee") = 0

\* When its edits are clean and did not overlap, the difference of the row has been
\* paid by the payer and, except by an edited transaction, given to the payee.
SerialMoneyFollowsRow == ~eoverlaps => MoneyFollowsRow
=============================================================================
