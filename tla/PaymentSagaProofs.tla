-------------------------- MODULE PaymentSagaProofs --------------------------
(***************************************************************************)
(* Proofs about TopupSaga and WithdrawSaga, for any sets of attempts and   *)
(* requests.  The parameters of the sagas are the attempts, so a handler   *)
(* that dies, is repeated or meets another one is always among the cases.  *)
(*                                                                         *)
(*   AnnouncedTopupStandsHolds   from TopupInv: the row, the legs that     *)
(*   FailedTopupSettledHolds     stand and the answer at each statement    *)
(*   WithdrawRollbackBackedHolds from WithdrawInv, the same of withdrawals,*)
(*   UnrepeatedWithdrawalPaidHolds with nothing repeated by another        *)
(*   SerialLimitKeptHolds        from LimitInv: past its check a handler   *)
(*                               has room for its row beside the others    *)
(***************************************************************************)
EXTENDS TopupSaga, WithdrawSaga, FiniteSetTheorems, SumLemmas, TLAPS

-----------------------------------------------------------------------------
(* Topups: types *)

\* The request of a topup under a key, and the record of that key.
LEMMA TopupKeyType ==
    ASSUME TopupTypeOK, NEW t \in Topups, TopupKeyed(t)
    PROVE  /\ TopupRequest(t) \in TopupRequests /\ treq[t] = {TopupRequest(t)}
           /\ TopupRequest(t).key \in TopupKeys
<1>1. TopupRequest(t) \in TopupRequests /\ treq[t] = {TopupRequest(t)}
  BY DEF TopupTypeOK, TopupRequest, TopupKeyed
<1> QED
  BY <1>1 DEF TopupKeyed, TopupKeys

\* What a statement on the idempotency record of a key leaves is a record.
LEMMA TopupRecordTypes ==
    ASSUME TopupTypeOK, NEW k \in TopupKeys, NEW r \in TopupRequests, NEW t \in Topups,
           \/ TopupIdem!Claim(k, r) \/ TopupIdem!Release(k, r) \/ TopupIdem!Complete(k, r, t)
    PROVE  tkeys' \in [TopupKeys -> TopupRecords]
<1>1. /\ [status |-> "processing", request |-> {r}, resource |-> {}] \in TopupRecords
      /\ [status |-> "success", request |-> {r}, resource |-> {t}] \in TopupRecords
      /\ TopupIdem!Absent \in TopupRecords
  BY DEF TopupRecords, TopupIdem!Absent
<1> QED
  BY <1>1 DEF TopupTypeOK, TopupIdem!Claim, TopupIdem!Release, TopupIdem!Complete

\* Every soft deletion sets deleted_at of some rows and nothing else.
LEMMA TopupSoftDeleteSets ==
    SoftDeleteTopups => \E T \in SUBSET Topups, to \in {"no", "trashed", "purged"} :
                            SetTopupDeleted(T, to)
BY DEF SoftDeleteTopups, TrashTopup, RestoreTopup, DeleteTopupPermanently, TrashedTopups,
       RestoreAllTopups, DeleteAllPermanentTopups

\* Before the first request everything is typed.
LEMMA TopupInitTyped == TopupInit => TopupTypeOK
BY DEF TopupInit, TopupTypeOK, TopupPCs, TopupLegs, TopupRecords, TopupIdem!Init,
       TopupIdem!Absent

\* Every step of a handler, of its goroutine and of the saldo service keeps the types.
LEMMA TopupNextTyped == TopupTypeOK /\ [TopupNext]_topupVars => TopupTypeOK'
<1> SUFFICES ASSUME TopupTypeOK, [TopupNext]_topupVars PROVE TopupTypeOK'
  OBVIOUS
<1> USE DEF TopupTypeOK
<1>1. ASSUME NEW t \in Topups, NEW r \in TopupRequests, ClaimTopup(t, r) PROVE TopupTypeOK'
  <2>1. r.key # NoTopupKey => r.key \in TopupKeys
    BY DEF TopupKeys
  <2>2. tkeys' \in [TopupKeys -> TopupRecords]
    BY <1>1, <2>1, TopupRecordTypes DEF ClaimTopup
  <2>3. tpc' \in [Topups -> TopupPCs]
    <3>1. TopupGoto(t, "check") \/ TopupGoto(t, "replay")
      BY <1>1 DEF ClaimTopup
    <3> QED
      BY <3>1 DEF TopupGoto, TopupPCs
  <2>4. treq' \in [Topups -> SUBSET TopupRequests] /\ \A s \in Topups : \A p, q \in treq'[s] : p = q
    BY <1>1 DEF ClaimTopup
  <2> QED
    BY <1>1, <2>2, <2>3, <2>4 DEF ClaimTopup
<1>2. ASSUME NEW t \in Topups,
             ReplayTopup(t) \/ CheckTopup(t) \/ UpdateCardOfTopup(t) \/ EnqueueTopupEvents(t)
      PROVE  TopupTypeOK'
  BY <1>2 DEF ReplayTopup, CheckTopup, UpdateCardOfTopup, EnqueueTopupEvents, TopupAnswer, TopupGoto,
              TopupPCs, TopupLegs
<1>3. ASSUME NEW t \in Topups, CreateTopup(t) \/ UpdateTopupStatus(t) PROVE TopupTypeOK'
  BY <1>3 DEF CreateTopup, UpdateTopupStatus, TopupGoto, TopupPCs, TopupLegs
<1>4. ASSUME NEW t \in Topups, NEW leg \in TopupLegs, SendTopup(t, leg) \/ ExecuteTopup(t, leg)
      PROVE  TopupTypeOK'
  <2>1. tcall' \in [Topups -> [TopupLegs -> {"unsent", "sent", "applied"}]]
    <3>1. PICK to \in {"sent", "applied"} : tcall' = [tcall EXCEPT ![t][leg] = to]
      BY <1>4 DEF SendTopup, ExecuteTopup
    <3> QED
      BY <3>1
  <2> QED
    BY <1>4, <2>1 DEF SendTopup, ExecuteTopup
<1>5. ASSUME NEW t \in Topups, NEW leg \in TopupLegs, TopupConfirmed(t, leg) \/ TopupErrored(t, leg)
      PROVE  TopupTypeOK'
  <2>1. TopupGoto(t, "card") \/ TopupGoto(t, "release")
    BY <1>5 DEF TopupConfirmed, TopupErrored, MarkAndRelease
  <2>2. tpc' \in [Topups -> TopupPCs]
    BY <2>1 DEF TopupGoto, TopupPCs
  <2>3. tmarking' \subseteq Topups
    BY <1>5 DEF TopupConfirmed, TopupErrored, MarkAndRelease
  <2> QED
    BY <1>5, <2>2, <2>3 DEF TopupConfirmed, TopupErrored
<1>6. ASSUME NEW t \in Topups, CompleteTopup(t) \/ ReleaseTopup(t) PROVE TopupTypeOK'
  <2>1. tkeys' \in [TopupKeys -> TopupRecords]
    BY <1>6, TopupKeyType, TopupRecordTypes DEF CompleteTopup, ReleaseTopup
  <2>2. /\ tpc' \in [Topups -> TopupPCs]
        /\ tanswer' \in [Topups -> {"none", "ok", "replayed", "error"}]
    BY <1>6 DEF CompleteTopup, ReleaseTopup, TopupAnswer, TopupGoto, TopupPCs
  <2> QED
    BY <1>6, <2>1, <2>2 DEF CompleteTopup, ReleaseTopup
<1>7. ASSUME NEW t \in Topups, MarkTopupAsFailed(t) PROVE TopupTypeOK'
  BY <1>7 DEF MarkTopupAsFailed
<1>8. ASSUME NEW t \in Topups, CrashTopup(t) PROVE TopupTypeOK'
  BY <1>8 DEF CrashTopup, TopupPCs
<1>9. ASSUME SoftDeleteTopups PROVE TopupTypeOK'
  <2>1. PICK T \in SUBSET Topups, to \in {"no", "trashed", "purged"} : SetTopupDeleted(T, to)
    BY <1>9, TopupSoftDeleteSets
  <2> QED
    BY <2>1 DEF SetTopupDeleted
<1>10. CASE UNCHANGED topupVars
  BY <1>10 DEF topupVars
<1> HIDE DEF TopupTypeOK
<1> QED
  BY <1>1, <1>2, <1>3, <1>4, <1>5, <1>6, <1>7, <1>8, <1>9, <1>10 DEF TopupNext, HandleTopup

\* A topup service with any number of handlers and keys stays well typed.
THEOREM TopupTypeCorrect == TopupSpec => []TopupTypeOK
BY TopupInitTyped, TopupNextTyped, PTL DEF TopupSpec

-----------------------------------------------------------------------------
(* Topups: what is announced, and what is called failed *)

\* Where the row and the goroutine of a topup stand at each of its statements.
TopupRowAtPc ==
    \A t \in Topups :
        /\ tpc[t] \in {"idle", "replay", "check", "create"} => trow[t] = "none"
        /\ tpc[t] \in {"credit", "card", "status"} => trow[t] = "pending"
        /\ tpc[t] = "rollback" => trow[t] \in {"pending", "success"}
        /\ tpc[t] \in {"events", "complete"} => trow[t] = "success"
        /\ t \in tmarking => tpc[t] \in {"release", "done", "dead"}
        /\ t \in tlost => tpc[t] \in {"release", "done", "dead"}

\* What the handler of a topup knows of its calls at each of its statements.
TopupCallsAtPc ==
    \A t \in Topups :
        /\ tpc[t] \in {"card", "status", "rollback", "events", "complete"} =>
            tcall[t]["credit"] = "applied"
        /\ tpc[t] \in {"idle", "replay", "check", "create", "credit", "card", "status", "events",
                       "complete"} => tcall[t]["rollback"] = "unsent"
        /\ t \in tlost => tcall[t]["rollback"] = "unsent"

\* A topup is announced by a handler that has passed every failure path.
Announced(t) == tanswer[t] = "ok" \/ t \in tevents \/ \E k \in TopupKeys : t \in tkeys[k].resource

TopupInv ==
    /\ TopupRowAtPc
    /\ TopupCallsAtPc
    /\ \A t \in Topups : Announced(t) => tpc[t] \in {"complete", "done", "dead"}
    /\ AnnouncedTopupStands
    /\ FailedTopupSettled

\* Before the first request nothing was announced.
LEMMA TopupInitInv == TopupInit => TopupInv
BY DEF TopupInit, TopupInv, TopupRowAtPc, TopupCallsAtPc, Announced, AnnouncedTopupStands,
       FailedTopupSettled, TopupLegs, TopupIdem!Init, TopupIdem!Absent

\* How a topup comes to be announced.
LEMMA TopupAnnounces ==
    ASSUME TopupTypeOK, [TopupNext]_topupVars, NEW t \in Topups, Announced(t)'
    PROVE  Announced(t) \/ EnqueueTopupEvents(t) \/ CompleteTopup(t)
<1> USE DEF Announced
<1>1. ASSUME UNCHANGED <<tanswer, tevents, tkeys>> PROVE Announced(t)
  BY <1>1
<1>2. ASSUME NEW s \in Topups, NEW r \in TopupRequests, ClaimTopup(s, r) PROVE Announced(t)
  <2>1. \A k \in TopupKeys : tkeys'[k] = tkeys[k] \/ tkeys'[k].resource = {}
    BY <1>2 DEF ClaimTopup, TopupIdem!Claim, TopupTypeOK
  <2> QED
    BY <1>2, <2>1 DEF ClaimTopup
<1>3. ASSUME NEW s \in Topups, ReplayTopup(s) PROVE Announced(t)
  BY <1>3 DEF ReplayTopup, TopupAnswer, TopupTypeOK
<1>4. ASSUME NEW s \in Topups, EnqueueTopupEvents(s) PROVE Announced(t) \/ EnqueueTopupEvents(t)
  BY <1>4 DEF EnqueueTopupEvents
<1>5. ASSUME NEW s \in Topups, CompleteTopup(s) PROVE Announced(t) \/ CompleteTopup(t)
  <2>1. \A k \in TopupKeys : tkeys'[k] = tkeys[k] \/ tkeys'[k].resource = {s}
    BY <1>5 DEF CompleteTopup, TopupIdem!Complete, TopupTypeOK
  <2> QED
    <3>1. tanswer'[t] = "ok" => tanswer[t] = "ok" \/ t = s
      BY <1>5 DEF CompleteTopup, TopupAnswer, TopupTypeOK
    <3>2. UNCHANGED tevents
      BY <1>5 DEF CompleteTopup
    <3> QED
      BY <1>5, <2>1, <3>1, <3>2
<1>6. ASSUME NEW s \in Topups, ReleaseTopup(s) PROVE Announced(t)
  <2>1. \A k \in TopupKeys : tkeys'[k] = tkeys[k] \/ tkeys'[k].resource = {}
    BY <1>6 DEF ReleaseTopup, TopupIdem!Release, TopupIdem!Absent, TopupTypeOK
  <2> QED
    BY <1>6, <2>1 DEF ReleaseTopup, TopupAnswer, TopupTypeOK
<1>7. ASSUME NEW s \in Topups,
             \/ CheckTopup(s) \/ CreateTopup(s) \/ UpdateCardOfTopup(s) \/ UpdateTopupStatus(s)
             \/ MarkTopupAsFailed(s) \/ CrashTopup(s)
             \/ \E leg \in TopupLegs : \/ SendTopup(s, leg) \/ TopupConfirmed(s, leg)
                                       \/ TopupErrored(s, leg) \/ ExecuteTopup(s, leg)
      PROVE  Announced(t)
  BY <1>1, <1>7 DEF CheckTopup, CreateTopup, UpdateCardOfTopup, UpdateTopupStatus,
                    MarkTopupAsFailed, CrashTopup, SendTopup, TopupConfirmed, TopupErrored,
                    ExecuteTopup
<1>8. ASSUME SoftDeleteTopups \/ UNCHANGED topupVars PROVE Announced(t)
  BY <1>1, <1>8, TopupSoftDeleteSets DEF SetTopupDeleted, topupVars
<1> HIDE DEF Announced
<1> QED
  BY <1>2, <1>3, <1>4, <1>5, <1>6, <1>7, <1>8 DEF TopupNext, HandleTopup

\* Every step keeps rows, goroutines, calls and announcements in agreement.
LEMMA TopupNextInv == TopupTypeOK /\ TopupInv /\ [TopupNext]_topupVars => TopupInv'
<1> SUFFICES ASSUME TopupTypeOK, TopupInv, [TopupNext]_topupVars PROVE TopupInv'
  OBVIOUS
<1>a. \A t \in Topups : Announced(t)' => Announced(t) \/ EnqueueTopupEvents(t) \/ CompleteTopup(t)
  BY TopupAnnounces
<1> DEFINE Sound ==
      /\ TopupRowAtPc /\ TopupCallsAtPc /\ FailedTopupSettled
      /\ \A t \in Topups : Announced(t) =>
            /\ tpc[t] \in {"complete", "done", "dead"}
            /\ trow[t] = "success" /\ t \notin tmarking
            /\ tcall[t]["credit"] = "applied" /\ tcall[t]["rollback"] = "unsent"
<1>b. Sound
  BY DEF TopupInv, AnnouncedTopupStands, Announced
<1> USE DEF TopupTypeOK, TopupRowAtPc, TopupCallsAtPc, FailedTopupSettled, TopupLegs
<1>1. ASSUME NEW t \in Topups, NEW r \in TopupRequests, ClaimTopup(t, r) PROVE Sound'
  BY <1>1, <1>a, <1>b DEF ClaimTopup, TopupGoto, EnqueueTopupEvents, CompleteTopup
<1>2. ASSUME NEW t \in Topups, ReplayTopup(t) \/ CheckTopup(t) \/ UpdateCardOfTopup(t)
      PROVE  Sound'
  BY <1>2, <1>a, <1>b DEF ReplayTopup, CheckTopup, UpdateCardOfTopup, TopupAnswer, TopupGoto,
                          EnqueueTopupEvents, CompleteTopup
<1>3. ASSUME NEW t \in Topups, CreateTopup(t) \/ UpdateTopupStatus(t) PROVE Sound'
  BY <1>3, <1>a, <1>b DEF CreateTopup, UpdateTopupStatus, TopupGoto, EnqueueTopupEvents,
                          CompleteTopup
<1>4. ASSUME NEW t \in Topups, NEW leg \in TopupLegs, SendTopup(t, leg) \/ ExecuteTopup(t, leg)
      PROVE  Sound'
  <2>1. \A s \in Topups : Announced(s)' => Announced(s)
    BY <1>4 DEF SendTopup, ExecuteTopup, Announced
  <2>2. CASE SendTopup(t, leg)
    BY <2>1, <2>2, <1>b DEF SendTopup
  <2>3. CASE ExecuteTopup(t, leg)
    BY <2>1, <2>3, <1>b DEF ExecuteTopup
  <2> QED
    BY <1>4, <2>2, <2>3
<1>5. ASSUME NEW t \in Topups, NEW leg \in TopupLegs, TopupConfirmed(t, leg) \/ TopupErrored(t, leg)
      PROVE  Sound'
  BY <1>5, <1>a, <1>b DEF TopupConfirmed, TopupErrored, MarkAndRelease, TopupGoto,
                          EnqueueTopupEvents, CompleteTopup
<1>6. ASSUME NEW t \in Topups, EnqueueTopupEvents(t) \/ CompleteTopup(t) \/ ReleaseTopup(t)
      PROVE  Sound'
  <2>1. \E to \in {"complete", "done"} : tpc' = [tpc EXCEPT ![t] = to]
    BY <1>6 DEF EnqueueTopupEvents, CompleteTopup, ReleaseTopup, TopupAnswer, TopupGoto
  <2>2. UNCHANGED <<trow, tmarking, tcall, tlost>>
    BY <1>6 DEF EnqueueTopupEvents, CompleteTopup, ReleaseTopup
  <2>3. tpc[t] \in {"events", "complete", "release"}
    BY <1>6 DEF EnqueueTopupEvents, CompleteTopup, ReleaseTopup
  <2>4. \A s \in Topups : Announced(s)' => Announced(s) \/ (s = t /\ tpc[t] \in {"events", "complete"})
    <3>1. \A s \in Topups : EnqueueTopupEvents(s) \/ CompleteTopup(s) =>
            tpc[s] \in {"events", "complete"} /\ tpc'[s] # tpc[s]
      BY DEF EnqueueTopupEvents, CompleteTopup, TopupAnswer, TopupGoto
    <3>2. \A s \in Topups : tpc'[s] # tpc[s] => s = t
      BY <2>1
    <3> QED
      BY <1>a, <3>1, <3>2
  <2>5. tpc'[t] \in {"complete", "done"} /\ \A s \in Topups \ {t} : tpc'[s] = tpc[s]
    BY <2>1
  <2>6. (TopupRowAtPc /\ TopupCallsAtPc /\ FailedTopupSettled)'
    <3>1. tpc'[t] = "complete" => tpc[t] = "events"
      BY <1>6, <2>5 DEF EnqueueTopupEvents, CompleteTopup, ReleaseTopup, TopupAnswer, TopupGoto
    <3> QED
      BY <1>b, <2>2, <2>3, <2>5, <3>1
  <2> QED
    BY <1>b, <2>2, <2>3, <2>4, <2>5, <2>6
<1>7. ASSUME NEW t \in Topups, MarkTopupAsFailed(t) PROVE Sound'
  BY <1>7, <1>a, <1>b DEF MarkTopupAsFailed, EnqueueTopupEvents, CompleteTopup
<1>8. ASSUME NEW t \in Topups, CrashTopup(t) PROVE Sound'
  <2>1. \A s \in Topups : Announced(s)' => Announced(s)
    BY <1>8 DEF CrashTopup, Announced
  <2> QED
    BY <1>8, <1>b, <2>1 DEF CrashTopup, TopupRunning
<1>9. ASSUME SoftDeleteTopups PROVE Sound'
  <2>1. UNCHANGED <<tpc, trow, tcall, tmarking, tanswer, tevents, tkeys, tlost>>
    BY <1>9, TopupSoftDeleteSets DEF SetTopupDeleted
  <2> QED
    BY <1>b, <2>1 DEF Announced
<1>10. ASSUME UNCHANGED topupVars PROVE Sound'
  BY <1>b, <1>10 DEF topupVars, Announced
<1> HIDE DEF TopupTypeOK, TopupRowAtPc, TopupCallsAtPc, FailedTopupSettled, Sound
<1>11. Sound'
  BY <1>1, <1>2, <1>3, <1>4, <1>5, <1>6, <1>7, <1>8, <1>9, <1>10 DEF TopupNext, HandleTopup
<1> QED
  BY <1>11 DEF Sound, TopupInv, AnnouncedTopupStands, Announced

\* Rows, goroutines, calls and announcements of topups always agree.
THEOREM TopupInvHolds == TopupSpec => []TopupInv
BY TopupInitInv, TopupNextInv, TopupTypeCorrect, PTL DEF TopupSpec

\* Of every topup: what was announced is credited for good, and neither its own
\* failure path nor another handler overwrites its row.
THEOREM AnnouncedTopupStandsHolds == TopupSpec => []AnnouncedTopupStands
BY TopupInvHolds, PTL DEF TopupInv

\* Of every topup: a row is called failed only after its credit and its rollback
\* were both executed, or after an error of the credit, and then no rollback is ever
\* asked for; and money is taken back only after it was given.
THEOREM FailedTopupSettledHolds == TopupSpec => []FailedTopupSettled
BY TopupInvHolds, PTL DEF TopupInv

-----------------------------------------------------------------------------
(* Withdrawals: types *)

USE DEF wcreateVars, wrowVars, wupdateVars

\* The request of a withdrawal that has sent one.
LEMMA WithdrawRequestType ==
    ASSUME WithdrawTypeOK, NEW w \in Withdrawals, wreq[w] # {}
    PROVE  WithdrawRequest(w) \in WithdrawRequests /\ wreq[w] = {WithdrawRequest(w)}
BY DEF WithdrawTypeOK, WithdrawRequest

\* The request of a withdrawal under a key, and the record of that key.
LEMMA WithdrawKeyType ==
    ASSUME WithdrawTypeOK, NEW w \in Withdrawals, WithdrawKeyed(w)
    PROVE  /\ WithdrawRequest(w) \in WithdrawRequests
           /\ WithdrawRequest(w).key \in WithdrawKeys
BY WithdrawRequestType DEF WithdrawKeyed, WithdrawKeys

\* What a statement on the idempotency record of a key leaves is a record.
LEMMA WithdrawRecordTypes ==
    ASSUME WithdrawTypeOK, NEW k \in WithdrawKeys, NEW r \in WithdrawRequests,
           NEW w \in Withdrawals,
           \/ WithdrawIdem!Claim(k, r)
           \/ WithdrawIdem!Release(k, r)
           \/ WithdrawIdem!Complete(k, r, w)
    PROVE  wkeys' \in [WithdrawKeys -> WithdrawRecords]
<1>1. /\ [status |-> "processing", request |-> {r}, resource |-> {}] \in WithdrawRecords
      /\ [status |-> "success", request |-> {r}, resource |-> {w}] \in WithdrawRecords
      /\ WithdrawIdem!Absent \in WithdrawRecords
  BY DEF WithdrawRecords, WithdrawIdem!Absent
<1> QED
  BY <1>1 DEF WithdrawTypeOK, WithdrawIdem!Claim, WithdrawIdem!Release, WithdrawIdem!Complete

\* Every soft deletion sets deleted_at of some rows and nothing else.
LEMMA WithdrawSoftDeleteSets ==
    SoftDeleteWithdraws => \E W \in SUBSET Withdrawals, to \in {"no", "trashed", "purged"} :
                            SetWithdrawDeleted(W, to)
BY DEF SoftDeleteWithdraws, TrashWithdraw, RestoreWithdraw, DeleteWithdrawPermanently,
       TrashedWithdraws, RestoreAllWithdraws, DeleteAllPermanentWithdraws

\* What an update that has started asks for.
LEMMA AskedType ==
    ASSUME WithdrawTypeOK, NEW u \in Updates, uask[u] # {}
    PROVE  Asked(u) \in Asks /\ uask[u] = {Asked(u)}
BY DEF WithdrawTypeOK, Asked

\* An update touches rows, its own state and the goroutines; so does a goroutine.
LEMMA UpdateTouches ==
    /\ \A u \in Updates : HandleUpdate(u) => UNCHANGED <<wcreateVars, wdeleted>>
    /\ \A w \in Withdrawals :
            MarkWithdrawAsFailed(w) => UNCHANGED <<wcreateVars, wdeleted, wamount, wtoday, upc, uask>>
<1>1. ASSUME NEW u \in Updates, HandleUpdate(u) PROVE UNCHANGED <<wcreateVars, wdeleted>>
  BY <1>1 DEF HandleUpdate, ReadWithdraw, CheckUpdate, UpdateWithdraw, SettleUpdate, CrashUpdate
<1> QED
  BY <1>1 DEF MarkWithdrawAsFailed

\* Nothing is asked of the saldo service before a request is sent, and an update
\* has a request from its first statement.
WithdrawSentAtPc ==
    /\ \A w \in Withdrawals : wpc[w] = "idle" <=> wreq[w] = {}
    /\ \A u \in Updates : upc[u] = "idle" <=> uask[u] = {}

\* Before the first request everything is typed.
LEMMA WithdrawInitTyped == WithdrawInit => WithdrawTypeOK /\ WithdrawSentAtPc
BY DEF WithdrawInit, WithdrawTypeOK, WithdrawSentAtPc, WithdrawPCs, WithdrawLegs, WithdrawRecords,
       WithdrawIdem!Init, WithdrawIdem!Absent

\* A request is sent by the claim and stays.
LEMMA WithdrawRequestsStand ==
    ASSUME WithdrawTypeOK, [WithdrawNext]_withdrawVars
    PROVE  UNCHANGED wreq \/ \E w \in Withdrawals, r \in WithdrawRequests : ClaimWithdraw(w, r)
<1>1. SoftDeleteWithdraws => UNCHANGED wreq
  BY WithdrawSoftDeleteSets DEF SetWithdrawDeleted
<1>2. \A w \in Withdrawals : HandleWithdraw(w) \/ CrashWithdraw(w) =>
        UNCHANGED wreq \/ \E r \in WithdrawRequests : ClaimWithdraw(w, r)
  BY DEF HandleWithdraw, ReplayWithdraw, CheckWithdraw, SendWithdraw, WithdrawConfirmed,
         WithdrawErrored, CreateWithdraw, UpdateWithdrawStatus, EnqueueWithdrawEvents,
         CompleteWithdraw, ReleaseWithdraw, CrashWithdraw
<1>3. \A op \in wsent : ExecuteWithdraw(op) => UNCHANGED wreq
  BY DEF ExecuteWithdraw
<1>4. \A u \in Updates : HandleUpdate(u) => UNCHANGED wreq
  BY UpdateTouches
<1>5. \A w \in Withdrawals : MarkWithdrawAsFailed(w) => UNCHANGED wreq
  BY UpdateTouches
<1>6. UNCHANGED withdrawVars => UNCHANGED wreq
  BY DEF withdrawVars
<1> QED
  BY <1>1, <1>2, <1>3, <1>4, <1>5, <1>6 DEF WithdrawNext

\* Every step of a handler and of the saldo service keeps the types.
LEMMA WithdrawNextTyped ==
    WithdrawTypeOK /\ WithdrawSentAtPc /\ [WithdrawNext]_withdrawVars =>
        WithdrawTypeOK' /\ WithdrawSentAtPc'
<1> SUFFICES ASSUME WithdrawTypeOK, WithdrawSentAtPc, [WithdrawNext]_withdrawVars
             PROVE  (WithdrawTypeOK /\ WithdrawSentAtPc)'
  OBVIOUS
<1> USE DEF WithdrawTypeOK, WithdrawSentAtPc
<1>1. ASSUME NEW w \in Withdrawals, NEW r \in WithdrawRequests, ClaimWithdraw(w, r)
      PROVE  (WithdrawTypeOK /\ WithdrawSentAtPc)'
  <2>1. r.key # NoWithdrawKey => r.key \in WithdrawKeys
    BY DEF WithdrawKeys
  <2>2. wkeys' \in [WithdrawKeys -> WithdrawRecords]
    BY <1>1, <2>1, WithdrawRecordTypes DEF ClaimWithdraw
  <2>3. WithdrawGoto(w, "check") \/ WithdrawGoto(w, "replay")
    BY <1>1 DEF ClaimWithdraw
  <2>4. wpc' \in [Withdrawals -> WithdrawPCs]
    BY <2>3 DEF WithdrawGoto, WithdrawPCs
  <2>5. /\ wreq' \in [Withdrawals -> SUBSET WithdrawRequests]
        /\ \A v \in Withdrawals : \A p, q \in wreq'[v] : p = q
    BY <1>1 DEF ClaimWithdraw
  <2>6. WithdrawSentAtPc'
    BY <1>1, <2>3 DEF ClaimWithdraw, WithdrawGoto
  <2> QED
    BY <1>1, <2>2, <2>4, <2>5, <2>6 DEF ClaimWithdraw
<1>u. ASSUME NEW u \in Updates, NEW to \in {"check", "row", "status", "done", "dead"},
             upc[u] # "idle", UpdateGoto(u, to), UNCHANGED <<wreq, wpc, uask>>
      PROVE  WithdrawSentAtPc' /\ upc' \in [Updates -> {"idle", "check", "row", "status", "done", "dead"}]
  BY <1>u DEF UpdateGoto
<1>2. ASSUME NEW w \in Withdrawals, NEW to \in WithdrawPCs \ {"idle"}, wpc[w] # "idle",
             WithdrawGoto(w, to), UNCHANGED <<wreq, upc, uask>>
      PROVE  wpc' \in [Withdrawals -> WithdrawPCs] /\ WithdrawSentAtPc'
  BY <1>2 DEF WithdrawGoto
<1> HIDE DEF WithdrawSentAtPc
<1>3. ASSUME NEW w \in Withdrawals, ReplayWithdraw(w) \/ CheckWithdraw(w) \/ EnqueueWithdrawEvents(w)
      PROVE  (WithdrawTypeOK /\ WithdrawSentAtPc)'
  <2>1. wpc[w] # "idle" /\ UNCHANGED <<wreq, upc, uask>> /\ \E to \in WithdrawPCs \ {"idle"} : WithdrawGoto(w, to)
    BY <1>3 DEF ReplayWithdraw, CheckWithdraw, EnqueueWithdrawEvents, WithdrawAnswer, WithdrawPCs,
                WithdrawLegs
  <2>2. wpc' \in [Withdrawals -> WithdrawPCs] /\ WithdrawSentAtPc'
    BY <1>2, <2>1
  <2> QED
    BY <1>3, <2>2 DEF ReplayWithdraw, CheckWithdraw, EnqueueWithdrawEvents, WithdrawAnswer
<1>4. ASSUME NEW w \in Withdrawals, CreateWithdraw(w) \/ UpdateWithdrawStatus(w)
      PROVE  (WithdrawTypeOK /\ WithdrawSentAtPc)'
  <2>1. wpc[w] # "idle" /\ UNCHANGED <<wreq, upc, uask>> /\ \E to \in WithdrawPCs \ {"idle"} : WithdrawGoto(w, to)
    BY <1>4 DEF CreateWithdraw, UpdateWithdrawStatus, WithdrawPCs, WithdrawLegs
  <2>2. UNCHANGED wupdateVars
    BY <1>4 DEF CreateWithdraw, UpdateWithdrawStatus
  <2>3. wpc' \in [Withdrawals -> WithdrawPCs] /\ WithdrawSentAtPc'
    BY <1>2, <2>1, <2>2
  <2>4. WithdrawRequest(w).amount \in WithdrawAmounts
    BY <1>4, WithdrawRequestType DEF CreateWithdraw, UpdateWithdrawStatus, WithdrawSentAtPc, WithdrawAmounts
  <2>5. wamount' \in [Withdrawals -> WithdrawAmounts \union {0}]
    BY <1>4, <2>4 DEF CreateWithdraw, UpdateWithdrawStatus
  <2> QED
    BY <1>4, <2>3, <2>5 DEF CreateWithdraw, UpdateWithdrawStatus
<1>5. ASSUME NEW w \in Withdrawals, NEW leg \in WithdrawLegs, SendWithdraw(w, leg)
      PROVE  (WithdrawTypeOK /\ WithdrawSentAtPc)'
  <2>1. WithdrawRequest(w) \in WithdrawRequests
    BY <1>5, WithdrawRequestType DEF SendWithdraw, WithdrawSentAtPc, WithdrawLegs
  <2>2. Operation(w, leg) \in Operations
    BY <2>1 DEF Operation, Operations, WithdrawAmounts
  <2> QED
    BY <1>5, <2>2 DEF SendWithdraw, WithdrawSentAtPc
<1>6. ASSUME NEW w \in Withdrawals, NEW leg \in WithdrawLegs,
             WithdrawConfirmed(w, leg) \/ WithdrawErrored(w, leg)
      PROVE  (WithdrawTypeOK /\ WithdrawSentAtPc)'
  <2>1. wpc[w] # "idle" /\ UNCHANGED <<wreq, upc, uask>> /\ \E to \in WithdrawPCs \ {"idle"} : WithdrawGoto(w, to)
    BY <1>6 DEF WithdrawConfirmed, WithdrawErrored, WithdrawPCs, WithdrawLegs
  <2>2. wpc' \in [Withdrawals -> WithdrawPCs] /\ WithdrawSentAtPc'
    BY <1>2, <2>1
  <2> QED
    BY <1>6, <2>2 DEF WithdrawConfirmed, WithdrawErrored
<1>7. ASSUME NEW w \in Withdrawals, CompleteWithdraw(w) \/ ReleaseWithdraw(w)
      PROVE  (WithdrawTypeOK /\ WithdrawSentAtPc)'
  <2>1. wpc[w] # "idle" /\ UNCHANGED <<wreq, upc, uask>> /\ \E to \in WithdrawPCs \ {"idle"} : WithdrawGoto(w, to)
    BY <1>7 DEF CompleteWithdraw, ReleaseWithdraw, WithdrawAnswer, WithdrawPCs
  <2>2. wpc' \in [Withdrawals -> WithdrawPCs] /\ WithdrawSentAtPc'
    BY <1>2, <2>1
  <2>3. wkeys' \in [WithdrawKeys -> WithdrawRecords]
    BY <1>7, WithdrawKeyType, WithdrawRecordTypes DEF CompleteWithdraw, ReleaseWithdraw
  <2>4. wanswer' \in [Withdrawals -> {"none", "ok", "replayed", "error"}]
    BY <1>7 DEF CompleteWithdraw, ReleaseWithdraw, WithdrawAnswer
  <2> QED
    BY <1>7, <2>2, <2>3, <2>4 DEF CompleteWithdraw, ReleaseWithdraw
<1>8. ASSUME NEW w \in Withdrawals, CrashWithdraw(w) PROVE (WithdrawTypeOK /\ WithdrawSentAtPc)'
  <2>1. wpc[w] # "idle" /\ UNCHANGED <<wreq, upc, uask>> /\ \E to \in WithdrawPCs \ {"idle"} : WithdrawGoto(w, to)
    BY <1>8 DEF CrashWithdraw, WithdrawRunning, WithdrawPCs
  <2>2. wpc' \in [Withdrawals -> WithdrawPCs] /\ WithdrawSentAtPc'
    BY <1>2, <2>1
  <2> QED
    BY <1>8, <2>2 DEF CrashWithdraw
<1>9. ASSUME NEW op \in wsent, ExecuteWithdraw(op) PROVE (WithdrawTypeOK /\ WithdrawSentAtPc)'
  BY <1>9 DEF ExecuteWithdraw, WithdrawSentAtPc
<1>10. ASSUME SoftDeleteWithdraws PROVE (WithdrawTypeOK /\ WithdrawSentAtPc)'
  <2>1. PICK W \in SUBSET Withdrawals, to \in {"no", "trashed", "purged"} :
            SetWithdrawDeleted(W, to)
    BY <1>10, WithdrawSoftDeleteSets
  <2> QED
    BY <2>1 DEF SetWithdrawDeleted, WithdrawSentAtPc
<1>11. ASSUME UNCHANGED withdrawVars PROVE (WithdrawTypeOK /\ WithdrawSentAtPc)'
  BY <1>11 DEF withdrawVars, WithdrawSentAtPc
<1>12. ASSUME NEW u \in Updates, NEW w \in Withdrawals, NEW n \in WithdrawAmounts,
              NEW today \in BOOLEAN, ReadWithdraw(u, w, n, today)
       PROVE  (WithdrawTypeOK /\ WithdrawSentAtPc)'
  <2> DEFINE ask == [row |-> w, old |-> wamount[w], new |-> n, today |-> today]
  <2>1. ask \in Asks
    BY DEF Asks
  <2>2. uask' = [uask EXCEPT ![u] = {ask}]
    BY <1>12 DEF ReadWithdraw
  <2> HIDE DEF ask
  <2>3. uask' \in [Updates -> SUBSET Asks] /\ \A v \in Updates : \A a, b \in uask'[v] : a = b
    BY <2>1, <2>2
  <2>4. /\ upc' \in [Updates -> {"idle", "check", "row", "status", "done", "dead"}]
        /\ wmarking' \subseteq Withdrawals
        /\ UNCHANGED <<wcreateVars, wrowVars>>
    BY <1>12 DEF ReadWithdraw, FailUpdate, UpdateGoto
  <2>5. WithdrawSentAtPc'
    <3>1. /\ upc'[u] # "idle" /\ uask'[u] # {}
          /\ \A v \in Updates \ {u} : upc'[v] = upc[v] /\ uask'[v] = uask[v]
      <4>1. PICK to \in {"check", "done"} : upc' = [upc EXCEPT ![u] = to]
        BY <1>12 DEF ReadWithdraw, FailUpdate, UpdateGoto
      <4> QED
        BY <2>2, <4>1
    <3> QED
      BY <2>4, <3>1 DEF WithdrawSentAtPc
  <2> QED
    BY <2>3, <2>4, <2>5
<1>13. ASSUME NEW u \in Updates, CheckUpdate(u) \/ UpdateWithdraw(u) \/ SettleUpdate(u) \/ CrashUpdate(u)
       PROVE  (WithdrawTypeOK /\ WithdrawSentAtPc)'
  <2>1. /\ upc[u] # "idle" /\ UNCHANGED <<wcreateVars, wdeleted, uask>>
        /\ \E to \in {"check", "row", "status", "done", "dead"} : UpdateGoto(u, to)
    BY <1>13 DEF CheckUpdate, UpdateWithdraw, SettleUpdate, CrashUpdate, FailUpdate, UpdateRunning
  <2>2. /\ upc' \in [Updates -> {"idle", "check", "row", "status", "done", "dead"}]
        /\ WithdrawSentAtPc'
    BY <1>u, <2>1
  <2>3. Asked(u) \in Asks
    BY <2>1, AskedType DEF WithdrawSentAtPc
  <2>4. wmarking' \subseteq Withdrawals
    BY <1>13, <2>3 DEF CheckUpdate, UpdateWithdraw, SettleUpdate, CrashUpdate, FailUpdate, Asks
  <2>5. /\ wamount' \in [Withdrawals -> WithdrawAmounts \union {0}]
        /\ wtoday' \in [Withdrawals -> BOOLEAN]
        /\ wrow' \in [Withdrawals -> {"none", "pending", "success", "failed"}]
    BY <1>13, <2>3 DEF CheckUpdate, UpdateWithdraw, SettleUpdate, CrashUpdate, Asks
  <2> QED
    BY <2>1, <2>2, <2>4, <2>5
<1>14. ASSUME NEW w \in Withdrawals, MarkWithdrawAsFailed(w) PROVE (WithdrawTypeOK /\ WithdrawSentAtPc)'
  BY <1>14 DEF MarkWithdrawAsFailed, WithdrawSentAtPc
<1> HIDE DEF WithdrawTypeOK
<1> QED
  BY <1>1, <1>3, <1>4, <1>5, <1>6, <1>7, <1>8, <1>9, <1>10, <1>11, <1>12, <1>13, <1>14
     DEF WithdrawNext, HandleWithdraw, HandleUpdate

\* A withdraw service with any number of handlers and keys stays well typed, and
\* works on a request from the claim to the end.
THEOREM WithdrawTypeCorrect == WithdrawSpec => [](WithdrawTypeOK /\ WithdrawSentAtPc)
BY WithdrawInitTyped, WithdrawNextTyped, PTL DEF WithdrawSpec

-----------------------------------------------------------------------------
(* Withdrawals: money *)

\* Nobody else sent a request of this time and amount.
Unrepeated(w) == wreq[w] # {} /\ \A v \in Withdrawals : SameOperations(v, w) => v = w

\* Every operation was asked for by an attempt that has sent its request.
OperationsOwned ==
    \A op \in wsent : \E v \in Withdrawals : wreq[v] # {} /\ op = Operation(v, op.leg)

\* What the handler of a withdrawal knows at each of its statements.
WithdrawAtPc ==
    \A w \in Withdrawals :
        /\ wpc[w] \in {"create", "status", "events", "complete", "rollback-create",
                       "rollback-status"} => Operation(w, "debit") \in wledger
        /\ wpc[w] \in {"events", "complete"} => wrow[w] = "success" \/ Updated(w)
        /\ w \in wmarking => Updated(w)
        /\ wanswer[w] = "ok" => wpc[w] = "done"
        /\ w \in wevents => wpc[w] \in {"complete", "done", "dead"}

\* An unrepeated withdrawal is rolled back for one reason at most, and not at all
\* once it was announced.
UnrepeatedAtPc ==
    \A w \in Withdrawals : Unrepeated(w) =>
        /\ Operation(w, "rollback-create") \in wsent =>
            /\ wpc[w] \in {"rollback-create", "release", "done", "dead"}
            /\ Operation(w, "rollback-status") \notin wsent
        /\ Operation(w, "rollback-status") \in wsent =>
            wpc[w] \in {"rollback-status", "release", "done", "dead"}
        /\ wanswer[w] = "ok" \/ w \in wevents =>
            /\ wrow[w] = "success" \/ Updated(w)
            /\ Operation(w, "debit") \in wledger
            /\ \A leg \in WithdrawLegs : Operation(w, leg) \in wsent => leg = "debit"

WithdrawInv == OperationsOwned /\ WithdrawAtPc /\ UnrepeatedAtPc /\ WithdrawRollbackBacked

\* Before the first request no operation was asked for.
LEMMA WithdrawInitInv == WithdrawInit => WithdrawInv
BY DEF WithdrawInit, WithdrawInv, OperationsOwned, WithdrawAtPc, UnrepeatedAtPc,
       WithdrawRollbackBacked

\* An update that was asked for has been asked for ever after.
LEMMA UpdatedStands ==
    ASSUME WithdrawTypeOK, WithdrawSentAtPc, [WithdrawNext]_withdrawVars,
           NEW w \in Withdrawals, Updated(w)
    PROVE  Updated(w)'
<1>1. UNCHANGED uask \/ \E u \in Updates, v \in Withdrawals, n \in WithdrawAmounts, today \in BOOLEAN :
            ReadWithdraw(u, v, n, today)
  <2>1. \A u \in Updates : HandleUpdate(u) =>
            UNCHANGED uask \/ \E v \in Withdrawals, n \in WithdrawAmounts, today \in BOOLEAN :
                                ReadWithdraw(u, v, n, today)
    BY DEF HandleUpdate, CheckUpdate, UpdateWithdraw, SettleUpdate, CrashUpdate
  <2>2. SoftDeleteWithdraws => UNCHANGED uask
    BY WithdrawSoftDeleteSets DEF SetWithdrawDeleted
  <2>3. \A v \in Withdrawals : HandleWithdraw(v) \/ CrashWithdraw(v) => UNCHANGED uask
    BY DEF HandleWithdraw, ClaimWithdraw, ReplayWithdraw, CheckWithdraw, SendWithdraw,
           WithdrawConfirmed, WithdrawErrored, CreateWithdraw, UpdateWithdrawStatus,
           EnqueueWithdrawEvents, CompleteWithdraw, ReleaseWithdraw, CrashWithdraw
  <2>4. \A op \in wsent : ExecuteWithdraw(op) => UNCHANGED uask
    BY DEF ExecuteWithdraw
  <2>5. \A v \in Withdrawals : MarkWithdrawAsFailed(v) => UNCHANGED uask
    BY UpdateTouches
  <2>6. UNCHANGED withdrawVars => UNCHANGED uask
    BY DEF withdrawVars
  <2> QED
    BY <2>1, <2>2, <2>3, <2>4, <2>5, <2>6 DEF WithdrawNext
<1>2. \A u \in Updates : uask[u] # {} => uask'[u] = uask[u]
  BY <1>1 DEF ReadWithdraw, WithdrawSentAtPc, WithdrawTypeOK
<1> QED
  BY <1>2 DEF Updated

\* The operations of a request are its own for ever, and a withdrawal that is
\* unrepeated now has been unrepeated since it was sent.
LEMMA OperationsStand ==
    ASSUME WithdrawTypeOK, WithdrawSentAtPc, [WithdrawNext]_withdrawVars,
           NEW w \in Withdrawals, wreq[w] # {}
    PROVE  /\ wreq'[w] = wreq[w]
           /\ \A leg : Operation(w, leg)' = Operation(w, leg)
           /\ Unrepeated(w)' => Unrepeated(w)
<1>1. \A v \in Withdrawals : wreq[v] # {} => wreq'[v] = wreq[v]
  BY WithdrawRequestsStand DEF ClaimWithdraw, WithdrawTypeOK, WithdrawSentAtPc
<1>2. \A v \in Withdrawals : wreq[v] # {} => \A leg : Operation(v, leg)' = Operation(v, leg)
  BY <1>1 DEF Operation, WithdrawRequest
<1>3. Unrepeated(w)' => Unrepeated(w)
  BY <1>1, <1>2 DEF Unrepeated, SameOperations
<1> QED
  BY <1>1, <1>2, <1>3

\* An unrepeated withdrawal finds its operations unasked when it is sent.
LEMMA FreshOperations ==
    ASSUME WithdrawTypeOK, WithdrawSentAtPc, OperationsOwned, NEW w \in Withdrawals,
           NEW r \in WithdrawRequests, ClaimWithdraw(w, r), Unrepeated(w)', NEW leg
    PROVE  Operation(w, leg)' \notin wsent
<1> SUFFICES ASSUME Operation(w, leg)' \in wsent PROVE FALSE
  OBVIOUS
<1>1. PICK v \in Withdrawals : wreq[v] # {} /\ Operation(w, leg)' = Operation(v, leg)
  BY DEF OperationsOwned, Operation
<1>2. wreq[w] = {}
  BY DEF ClaimWithdraw, WithdrawSentAtPc
<1>3. v # w /\ wreq'[v] = wreq[v]
  BY <1>1, <1>2 DEF ClaimWithdraw, WithdrawTypeOK
<1>4. Operation(v, leg)' = Operation(v, leg)
  BY <1>3 DEF Operation, WithdrawRequest
<1>5. Operation(v, "debit")' = Operation(w, "debit")'
  BY <1>1, <1>4 DEF Operation
<1> QED
  BY <1>1, <1>3, <1>5 DEF Unrepeated, SameOperations

\* Every step keeps handlers, operations, rows and announcements in agreement.
LEMMA WithdrawNextInv ==
    WithdrawTypeOK /\ WithdrawSentAtPc /\ WithdrawInv /\ [WithdrawNext]_withdrawVars =>
        WithdrawInv'
<1> SUFFICES ASSUME WithdrawTypeOK, WithdrawSentAtPc, OperationsOwned, WithdrawAtPc,
                    UnrepeatedAtPc, WithdrawRollbackBacked, [WithdrawNext]_withdrawVars
             PROVE  (OperationsOwned /\ WithdrawAtPc /\ UnrepeatedAtPc /\ WithdrawRollbackBacked)'
  BY DEF WithdrawInv
<1> DEFINE Sound == OperationsOwned /\ WithdrawAtPc /\ UnrepeatedAtPc /\ WithdrawRollbackBacked
<1>a. \A w \in Withdrawals : wreq[w] # {} =>
        /\ wreq'[w] = wreq[w]
        /\ \A leg : Operation(w, leg)' = Operation(w, leg)
        /\ Unrepeated(w)' => Unrepeated(w)
  BY OperationsStand
<1>b. \A w \in Withdrawals : Unrepeated(w)' => wreq'[w] # {}
  BY DEF Unrepeated
<1>c. \A w \in Withdrawals : wpc[w] = "idle" <=> wreq[w] = {}
  BY DEF WithdrawSentAtPc
<1>d. UNCHANGED <<wsent, wledger>> => OperationsOwned' /\ WithdrawRollbackBacked'
  BY <1>a DEF OperationsOwned, WithdrawRollbackBacked
<1>f. \A w \in Withdrawals : Updated(w) => Updated(w)'
  BY UpdatedStands
<1>1. ASSUME NEW w \in Withdrawals, NEW r \in WithdrawRequests, ClaimWithdraw(w, r) PROVE Sound'
  <2>1. /\ wpc' = [wpc EXCEPT ![w] = wpc'[w]] /\ wpc'[w] \in {"check", "replay"} /\ wpc[w] = "idle"
        /\ UNCHANGED <<wanswer, wrow, wsent, wledger, wevents, wmarking>>
    BY <1>1 DEF ClaimWithdraw, WithdrawGoto, WithdrawTypeOK
  <2>2. WithdrawAtPc'
    BY <1>a, <1>c, <1>f, <2>1 DEF WithdrawAtPc, WithdrawTypeOK
  <2>3. \A v \in Withdrawals \ {w} : Unrepeated(v)' => wreq[v] # {}
    BY <1>1, <1>b DEF ClaimWithdraw, WithdrawTypeOK
  <2>4. Unrepeated(w)' => \A leg \in WithdrawLegs : Operation(w, leg)' \notin wsent
    BY <1>1, FreshOperations
  <2>5. UnrepeatedAtPc'
    BY <1>a, <1>f, <2>1, <2>3, <2>4 DEF UnrepeatedAtPc, WithdrawAtPc, WithdrawTypeOK, WithdrawLegs
  <2> QED
    BY <1>d, <2>1, <2>2, <2>5
<1>2. ASSUME NEW w \in Withdrawals, NEW leg \in WithdrawLegs, SendWithdraw(w, leg) PROVE Sound'
  <2>1. /\ UNCHANGED <<wpc, wreq, wanswer, wrow, wledger, wevents, wmarking>> /\ wpc[w] = leg
        /\ wsent' = wsent \union {Operation(w, leg)}
    BY <1>2 DEF SendWithdraw
  <2>2. leg # "idle" /\ wreq[w] # {}
    BY <1>c, <2>1 DEF WithdrawLegs
  <2>3. OperationsOwned'
    <3>1. Operation(w, leg).leg = leg
      BY DEF Operation
    <3>2. \A op \in wsent : \E v \in Withdrawals : wreq'[v] # {} /\ op = Operation(v, op.leg)'
      BY <1>a DEF OperationsOwned
    <3> QED
      BY <1>a, <2>1, <2>2, <3>1, <3>2 DEF OperationsOwned
  <2>4. WithdrawAtPc'
    BY <1>a, <1>c, <1>f, <2>1 DEF WithdrawAtPc
  <2>5. WithdrawRollbackBacked'
    <3>1. Operation(w, leg).leg = leg
          /\ [Operation(w, leg) EXCEPT !.leg = "debit"] = Operation(w, "debit")
      BY DEF Operation
    <3> QED
      BY <2>1, <3>1 DEF WithdrawRollbackBacked, WithdrawAtPc, WithdrawLegs
  <2>6. ASSUME NEW v \in Withdrawals, Unrepeated(v)', NEW l \in WithdrawLegs,
               Operation(v, l) \in wsent' \ wsent
        PROVE  v = w /\ l = leg
    <3>1. Operation(v, l) = Operation(w, leg) /\ wreq[v] # {}
      BY <1>b, <2>1, <2>6
    <3>2. l = leg /\ Operation(v, "debit") = Operation(w, "debit")
      BY <3>1 DEF Operation
    <3> QED
      BY <1>a, <2>2, <2>6, <3>1, <3>2 DEF Unrepeated, SameOperations
  <2>7. UnrepeatedAtPc'
    BY <1>a, <1>b, <1>f, <2>1, <2>6 DEF UnrepeatedAtPc, WithdrawAtPc, WithdrawLegs
  <2> QED
    BY <2>3, <2>4, <2>5, <2>7
<1>3. ASSUME NEW op \in wsent, ExecuteWithdraw(op) PROVE Sound'
  <2>1. /\ UNCHANGED <<wpc, wreq, wanswer, wrow, wsent, wevents, wmarking>>
        /\ wledger' = wledger \union {op}
    BY <1>3 DEF ExecuteWithdraw
  <2>2. OperationsOwned' /\ WithdrawRollbackBacked'
    BY <1>a, <2>1 DEF OperationsOwned, WithdrawRollbackBacked
  <2>3. WithdrawAtPc'
    BY <1>a, <1>c, <1>f, <2>1 DEF WithdrawAtPc
  <2>4. UnrepeatedAtPc'
    BY <1>a, <1>b, <1>f, <2>1 DEF UnrepeatedAtPc
  <2> QED
    BY <2>2, <2>3, <2>4
<1>e. ASSUME UNCHANGED wreq
      PROVE  \A w \in Withdrawals :
                /\ \A leg : Operation(w, leg)' = Operation(w, leg)
                /\ Unrepeated(w)' <=> Unrepeated(w)
  <2>1. \A w, leg : Operation(w, leg)' = Operation(w, leg)
    BY <1>e DEF Operation, WithdrawRequest
  <2> QED
    BY <1>e, <2>1 DEF Unrepeated, SameOperations
<1>g. ASSUME UNCHANGED <<wpc, wreq, wanswer, wsent, wledger, wevents>>,
             \A w \in Withdrawals : /\ w \in wmarking' => w \in wmarking \/ Updated(w)'
                                    /\ wrow'[w] # wrow[w] => wrow'[w] = "success" \/ Updated(w)'
      PROVE  Sound'
  <2>1. WithdrawAtPc'
    BY <1>e, <1>f, <1>g DEF WithdrawAtPc
  <2>2. UnrepeatedAtPc'
    BY <1>e, <1>f, <1>g DEF UnrepeatedAtPc
  <2> QED
    BY <1>d, <1>g, <2>1, <2>2
<1>h. ASSUME NEW u \in Updates, HandleUpdate(u) PROVE Sound'
  <2>1. UNCHANGED <<wpc, wreq, wanswer, wsent, wledger, wevents>>
    BY <1>h, UpdateTouches
  <2>2. \A w \in Withdrawals : w \in wmarking' \ wmarking \/ wrow'[w] # wrow[w] => Updated(w)'
    <3>1. ASSUME NEW w \in Withdrawals, NEW n \in WithdrawAmounts, NEW today \in BOOLEAN,
                 ReadWithdraw(u, w, n, today)
          PROVE  UNCHANGED wrow /\ wmarking' \subseteq wmarking \union {w} /\ Updated(w)'
      <4> DEFINE ask == [row |-> w, old |-> wamount[w], new |-> n, today |-> today]
      <4>1. uask'[u] = {ask}
        BY <3>1 DEF ReadWithdraw, WithdrawTypeOK
      <4>2. ask.row = w
        OBVIOUS
      <4> HIDE DEF ask
      <4>3. Updated(w)'
        BY <4>1, <4>2 DEF Updated
      <4> QED
        BY <3>1, <4>3 DEF ReadWithdraw, FailUpdate
    <3>2. ASSUME CheckUpdate(u) \/ UpdateWithdraw(u) \/ SettleUpdate(u) \/ CrashUpdate(u)
          PROVE  /\ wmarking' \subseteq wmarking \union {Asked(u).row} /\ Updated(Asked(u).row)
                 /\ \A w \in Withdrawals \ {Asked(u).row} : wrow'[w] = wrow[w]
      <4>1. upc[u] # "idle"
        BY <3>2 DEF CheckUpdate, UpdateWithdraw, SettleUpdate, CrashUpdate, UpdateRunning
      <4>2. Asked(u) \in uask[u]
        BY <4>1, AskedType DEF WithdrawSentAtPc
      <4> QED
        BY <3>2, <4>2 DEF CheckUpdate, UpdateWithdraw, SettleUpdate, CrashUpdate, FailUpdate, Updated,
                          WithdrawTypeOK
    <3> QED
      BY <1>f, <1>h, <3>1, <3>2 DEF HandleUpdate
  <2> QED
    BY <1>g, <2>1, <2>2
<1>i. ASSUME NEW w \in Withdrawals, MarkWithdrawAsFailed(w) PROVE Sound'
  <2>1. UNCHANGED <<wpc, wreq, wanswer, wsent, wledger, wevents>> /\ wmarking' \subseteq wmarking
    BY <1>i DEF MarkWithdrawAsFailed
  <2>2. Updated(w)' /\ \A v \in Withdrawals \ {w} : wrow'[v] = wrow[v]
    BY <1>f, <1>i DEF MarkWithdrawAsFailed, WithdrawAtPc, WithdrawTypeOK
  <2> QED
    BY <1>g, <2>1, <2>2
<1> USE DEF WithdrawAtPc, UnrepeatedAtPc, WithdrawTypeOK, WithdrawLegs, WithdrawGoto, WithdrawAnswer
<1>4. ASSUME NEW w \in Withdrawals, ReplayWithdraw(w) \/ CheckWithdraw(w) PROVE Sound'
  <2>1. UNCHANGED <<wreq, wsent, wledger, wmarking>>
    BY <1>4 DEF ReplayWithdraw, CheckWithdraw
  <2> QED
    BY <1>4, <1>d, <1>e, <1>f, <2>1 DEF ReplayWithdraw, CheckWithdraw
<1>5. ASSUME NEW w \in Withdrawals, NEW leg \in WithdrawLegs,
             WithdrawConfirmed(w, leg) \/ WithdrawErrored(w, leg)
      PROVE  Sound'
  <2>1. UNCHANGED <<wreq, wsent, wledger, wmarking>>
    BY <1>5 DEF WithdrawConfirmed, WithdrawErrored
  <2> QED
    BY <1>5, <1>d, <1>e, <1>f, <2>1 DEF WithdrawConfirmed, WithdrawErrored
<1>6. ASSUME NEW w \in Withdrawals, CreateWithdraw(w) \/ UpdateWithdrawStatus(w) PROVE Sound'
  <2>1. UNCHANGED <<wreq, wsent, wledger, wmarking>>
    BY <1>6 DEF CreateWithdraw, UpdateWithdrawStatus
  <2> QED
    BY <1>6, <1>d, <1>e, <1>f, <2>1 DEF CreateWithdraw, UpdateWithdrawStatus
<1>7. ASSUME NEW w \in Withdrawals,
             EnqueueWithdrawEvents(w) \/ CompleteWithdraw(w) \/ ReleaseWithdraw(w)
      PROVE  Sound'
  <2>1. UNCHANGED <<wreq, wsent, wledger, wmarking>>
    BY <1>7 DEF EnqueueWithdrawEvents, CompleteWithdraw, ReleaseWithdraw
  <2> QED
    BY <1>7, <1>d, <1>e, <1>f, <2>1 DEF EnqueueWithdrawEvents, CompleteWithdraw, ReleaseWithdraw
<1>8. ASSUME NEW w \in Withdrawals, CrashWithdraw(w) PROVE Sound'
  <2>1. UNCHANGED <<wreq, wsent, wledger, wmarking>>
    BY <1>8 DEF CrashWithdraw
  <2> QED
    BY <1>8, <1>d, <1>e, <1>f, <2>1 DEF CrashWithdraw, WithdrawRunning
<1>9. ASSUME SoftDeleteWithdraws \/ UNCHANGED withdrawVars PROVE Sound'
  <2>1. UNCHANGED <<wpc, wreq, wanswer, wrow, wsent, wledger, wevents, wmarking>>
    BY <1>9, WithdrawSoftDeleteSets DEF SetWithdrawDeleted, withdrawVars
  <2> QED
    BY <1>g, <2>1
<1> HIDE DEF WithdrawAtPc, UnrepeatedAtPc, WithdrawTypeOK, Sound
<1>10. Sound'
  BY <1>1, <1>2, <1>3, <1>4, <1>5, <1>6, <1>7, <1>8, <1>9, <1>h, <1>i DEF WithdrawNext, HandleWithdraw
<1> QED
  BY <1>10 DEF Sound

\* Handlers, operations, rows and announcements of withdrawals always agree.
THEOREM WithdrawInvHolds == WithdrawSpec => []WithdrawInv
BY WithdrawInitInv, WithdrawNextInv, WithdrawTypeCorrect, PTL DEF WithdrawSpec

\* Of every withdrawal, wherever the answer of its debit got lost: the card is
\* credited back only for a debit that was executed.
THEOREM WithdrawRollbackBackedHolds == WithdrawSpec => []WithdrawRollbackBacked
BY WithdrawInvHolds, PTL DEF WithdrawInv

\* At most one of the two rollbacks is executed, after the debit.
LEMMA NetOfUnrepeated ==
    ASSUME WithdrawTypeOK, WithdrawInv, NEW w \in Withdrawals, Unrepeated(w)
    PROVE  /\ NetDebits(w) >= 0
           /\ wanswer[w] = "ok" \/ w \in wevents =>
                NetDebits(w) = 1 /\ (wrow[w] = "success" \/ Updated(w))
<1> DEFINE Debit == {"debit"} \intersect {l \in WithdrawLegs : Operation(w, l) \in wledger}
           Rollbacks == {l \in WithdrawLegs \ {"debit"} : Operation(w, l) \in wledger}
<1>1. UnrepeatedAtPc /\ WithdrawRollbackBacked /\ wledger \subseteq wsent
  BY DEF WithdrawInv, WithdrawTypeOK
<1>2. Cardinality({}) = 0 /\ \A x : Cardinality({x}) = 1
  BY FS_EmptySet, FS_Singleton
<1>3. \E x : Rollbacks \in {{}, {x}}
  BY <1>1 DEF UnrepeatedAtPc, WithdrawLegs
<1>4. Rollbacks # {} => Debit = {"debit"}
  <2>1. ASSUME NEW l \in Rollbacks PROVE Operation(w, "debit") \in wledger
    <3>1. Operation(w, l).leg = l
          /\ [Operation(w, l) EXCEPT !.leg = "debit"] = Operation(w, "debit")
      BY DEF Operation
    <3> QED
      BY <1>1, <3>1 DEF WithdrawRollbackBacked
  <2> QED
    BY <2>1 DEF WithdrawLegs
<1>5. Debit \in {{}, {"debit"}}
  OBVIOUS
<1>6. wanswer[w] = "ok" \/ w \in wevents =>
        (wrow[w] = "success" \/ Updated(w)) /\ Debit = {"debit"} /\ Rollbacks = {}
  BY <1>1 DEF UnrepeatedAtPc, WithdrawLegs
<1>7. NetDebits(w) = Cardinality(Debit) - Cardinality(Rollbacks)
  BY DEF NetDebits
<1> HIDE DEF Debit, Rollbacks
<1>8. Cardinality(Debit) \in {0, 1} /\ Cardinality(Rollbacks) \in {0, 1}
  BY <1>2, <1>3, <1>5
<1>9. Rollbacks # {} => Cardinality(Debit) = 1
  BY <1>2, <1>4
<1>10. Rollbacks = {} => Cardinality(Rollbacks) = 0
  BY <1>2
<1>11. wanswer[w] = "ok" \/ w \in wevents => Cardinality(Debit) = 1 /\ Cardinality(Rollbacks) = 0
  BY <1>2, <1>6
<1> QED
  BY <1>6, <1>7, <1>8, <1>9, <1>10, <1>11

\* For any number of attempts and requests: a withdrawal that nobody else
\* repeated is debited for good once it is announced, and never credited more
\* than it was debited.
THEOREM UnrepeatedWithdrawalPaidHolds == WithdrawSpec => []UnrepeatedWithdrawalPaid
<1>1. WithdrawTypeOK /\ WithdrawInv => UnrepeatedWithdrawalPaid
  BY NetOfUnrepeated DEF UnrepeatedWithdrawalPaid, Unrepeated
<1> QED
  BY <1>1, WithdrawTypeCorrect, WithdrawInvHolds, PTL

-----------------------------------------------------------------------------
(* Withdrawals: the daily limit, one handler at a time *)

\* Where the row of an attempt is not successful yet.
Unmarked == {"idle", "replay", "check", "debit", "create", "status"}

\* Where the limit is checked and the row does not count yet.
Admitted == {"debit", "create", "status"}

\* Finitely many rows count; an attempt has no row before it is sent, and none
\* that counts before its mark.
CountedInv ==
    /\ IsFiniteSet(CountedToday)
    /\ \A w \in Withdrawals :
        /\ wpc[w] = "idle" => wrow[w] = "none"
        /\ wpc[w] \in Unmarked => wrow[w] # "success"

\* The table behind today's sum.
TodayTable(g, S) ==
    g = [t \in SUBSET S |-> IF t = {} THEN 0 ELSE wamount[First(t)] + g[t \ {First(t)}]]

\* What the query sums, as a fold.
LEMMA TodayUnfolds == TodayWithdrawSum = (CHOOSE g : TodayTable(g, CountedToday))[CountedToday]
BY Zenon DEF TodayWithdrawSum, MapThenSumSet, MapThenFoldSet, TodayTable, First

\* Amounts of rows are natural numbers.
LEMMA AmountsTyped == ASSUME WithdrawTypeOK PROVE \A w \in Withdrawals : wamount[w] \in Nat
<1>1. \A n \in WithdrawAmounts \union {0} : n \in Nat
  BY WithdrawAssumption DEF WithdrawAmounts
<1>2. wamount \in [Withdrawals -> WithdrawAmounts \union {0}]
  BY DEF WithdrawTypeOK
<1> QED
  BY <1>1, <1>2

\* What the query sums, as a sum over a function.
LEMMA TodayIsSum ==
    ASSUME WithdrawTypeOK, IsFiniteSet(CountedToday)
    PROVE  TodayWithdrawSum = SumFunctionOnSet(wamount, CountedToday)
<1>1. \A w \in CountedToday : wamount[w] \in Int
  BY AmountsTyped DEF CountedToday
<1>2. \A g : TodayTable(g, CountedToday) <=> SumTable(g, wamount, CountedToday)
  BY DEF TodayTable, SumTable
<1>3. \E g : TodayTable(g, CountedToday)
  BY <1>1, <1>2, TableExists
<1>4. PICK g : TodayTable(g, CountedToday) /\ TodayWithdrawSum = g[CountedToday]
  <2>1. TodayTable(CHOOSE g : TodayTable(g, CountedToday), CountedToday)
    BY <1>3
  <2> QED
    BY <2>1, TodayUnfolds
<1>5. SumTable(g, wamount, CountedToday)
  BY <1>2, <1>4
<1> QED
  BY <1>1, <1>4, <1>5, SumInTable

\* What the rows beside w add up to.
Others(w) == SumFunctionOnSet(wamount, CountedToday \ {w})

\* The day has room for row w at amount n.
RoomFor(w, n) == Others(w) + n <= DailyLimit

\* Today's sum is one row and the others.
LEMMA TodayIsOthers ==
    ASSUME WithdrawTypeOK, IsFiniteSet(CountedToday), NEW w \in Withdrawals
    PROVE  /\ Others(w) \in Int /\ wamount[w] \in Nat
           /\ TodayWithdrawSum = Others(w) + (IF w \in CountedToday THEN wamount[w] ELSE 0)
<1> DEFINE rest == CountedToday \ {w}
<1>1. IsFiniteSet(rest)
  BY FS_Subset
<1>2. \A v \in rest : wamount[v] \in Int
  BY AmountsTyped DEF CountedToday
<1>3. wamount[w] \in Nat
  BY AmountsTyped
<1>4. Others(w) = SumFunctionOnSet(wamount, rest)
  BY DEF Others
<1>5. w \notin rest /\ (w \in CountedToday => rest \union {w} = CountedToday)
               /\ (w \notin CountedToday => rest = CountedToday)
  OBVIOUS
<1> HIDE DEF rest
<1>6. SumFunctionOnSet(wamount, rest) \in Int
  BY <1>1, <1>2, SumType
<1>7. wamount[w] \in Int
  BY <1>3
<1>8. SumFunctionOnSet(wamount, rest \union {w}) = SumFunctionOnSet(wamount, rest) + wamount[w]
  BY <1>1, <1>2, <1>5, <1>7, SumInsert
<1> QED
  BY <1>3, <1>4, <1>5, <1>6, <1>8, TodayIsSum

\* The same as one predicate.
TodaySplits ==
    WithdrawTypeOK /\ IsFiniteSet(CountedToday) =>
        /\ TodayWithdrawSum = SumFunctionOnSet(wamount, CountedToday)
        /\ \A v \in Withdrawals :
            /\ Others(v) \in Int /\ wamount[v] \in Nat
            /\ TodayWithdrawSum = Others(v) + (IF v \in CountedToday THEN wamount[v] ELSE 0)

\* So it is in every state.
LEMMA TodayAlwaysSplits == TodaySplits
BY TodayIsSum, TodayIsOthers DEF TodaySplits

\* What the query sums after a step.
LEMMA TodayIsSumNext ==
    ASSUME WithdrawTypeOK', IsFiniteSet(CountedToday)'
    PROVE  TodayWithdrawSum' = SumFunctionOnSet(wamount', CountedToday')
<1>1. TodaySplits'
  BY TodayAlwaysSplits, PTL
<1> QED
  BY <1>1 DEF TodaySplits

\* A row and the others after a step.
LEMMA TodayIsOthersNext ==
    ASSUME WithdrawTypeOK', IsFiniteSet(CountedToday)', NEW w \in Withdrawals
    PROVE  /\ Others(w)' \in Int /\ wamount'[w] \in Nat
           /\ TodayWithdrawSum' = Others(w)' + (IF w \in CountedToday' THEN wamount'[w] ELSE 0)
<1>1. TodaySplits'
  BY TodayAlwaysSplits, PTL
<1> QED
  BY <1>1 DEF TodaySplits

\* A step that changes at most row w leaves what the others add up to.
LEMMA OthersStay ==
    ASSUME WithdrawTypeOK, IsFiniteSet(CountedToday), NEW w \in Withdrawals,
           CountedToday' \ {w} = CountedToday \ {w},
           \A v \in CountedToday \ {w} : wamount'[v] = wamount[v]
    PROVE  Others(w)' = Others(w) /\ IsFiniteSet(CountedToday)'
<1>1. IsFiniteSet(CountedToday \ {w})
  BY FS_Subset
<1>2. IsFiniteSet((CountedToday \ {w}) \union {w})
  BY <1>1, FS_AddElement
<1>3. CountedToday' \subseteq (CountedToday \ {w}) \union {w}
  OBVIOUS
<1>4. \A v \in CountedToday \ {w} : wamount[v] \in Int /\ wamount[v] = wamount'[v]
  BY AmountsTyped DEF CountedToday
<1>5. Others(w)' = SumFunctionOnSet(wamount', CountedToday \ {w})
  BY DEF Others
<1> QED
  BY <1>1, <1>2, <1>3, <1>4, <1>5, FS_Subset, SumCongruence DEF Others

\* A step after which row w counts, if at all, with an amount the day has room
\* for, and the others as before, keeps the limit.
LEMMA RowFits ==
    ASSUME WithdrawTypeOK, WithdrawTypeOK', IsFiniteSet(CountedToday), DailyLimitKept,
           NEW w \in Withdrawals, CountedToday' \ {w} = CountedToday \ {w},
           \A v \in CountedToday \ {w} : wamount'[v] = wamount[v],
           w \in CountedToday' => RoomFor(w, wamount'[w])
    PROVE  /\ IsFiniteSet(CountedToday)' /\ DailyLimitKept'
           /\ \A n : RoomFor(w, n) => RoomFor(w, n)'
<1>1. Others(w)' = Others(w) /\ IsFiniteSet(CountedToday)'
  BY OthersStay
<1>2. \A n : RoomFor(w, n) => RoomFor(w, n)'
  BY <1>1 DEF RoomFor
<1>3. TodayWithdrawSum' <= DailyLimit
  <2>1. /\ Others(w) \in Int /\ wamount[w] \in Nat /\ wamount'[w] \in Nat
        /\ TodayWithdrawSum = Others(w) + (IF w \in CountedToday THEN wamount[w] ELSE 0)
        /\ TodayWithdrawSum' = Others(w) + (IF w \in CountedToday' THEN wamount'[w] ELSE 0)
    BY <1>1, TodayIsOthers, TodayIsOthersNext
  <2>2. Others(w) <= DailyLimit
    BY <2>1, WithdrawAssumption DEF DailyLimitKept
  <2> QED
    BY <2>1, <2>2 DEF RoomFor
<1> QED
  BY <1>1, <1>2, <1>3 DEF DailyLimitKept

\* A step after which at most one row less counts, and the others as before, keeps
\* the limit and every room.
LEMMA NothingAdded ==
    ASSUME WithdrawTypeOK, WithdrawTypeOK', IsFiniteSet(CountedToday), DailyLimitKept,
           NEW x \in Withdrawals, CountedToday' \in {CountedToday, CountedToday \ {x}},
           \A v \in CountedToday' : wamount'[v] = wamount[v]
    PROVE  /\ IsFiniteSet(CountedToday)' /\ DailyLimitKept'
           /\ \A w \in Withdrawals : \A n \in Int : RoomFor(w, n) => RoomFor(w, n)'
<1>1. IsFiniteSet(CountedToday)'
  BY FS_Subset
<1>2. ASSUME NEW w \in Withdrawals PROVE Others(w)' <= Others(w) /\ Others(w) \in Int /\ Others(w)' \in Int
  <2> DEFINE rest == CountedToday \ {w}
             less == CountedToday' \ {w}
  <2>1. IsFiniteSet(rest) /\ IsFiniteSet(less)
    BY <1>1, FS_Subset
  <2>2. \A v \in rest : wamount[v] \in Int
    BY AmountsTyped DEF CountedToday
  <2>3. wamount[x] \in Nat
    BY AmountsTyped
  <2>4. /\ \A v \in less : wamount[v] \in Int /\ wamount[v] = wamount'[v]
        /\ less = rest \/ (x \notin less /\ rest = less \union {x})
    BY <2>2
  <2>5. Others(w)' = SumFunctionOnSet(wamount', less) /\ Others(w) = SumFunctionOnSet(wamount, rest)
    BY DEF Others
  <2> HIDE DEF rest, less
  <2>6. Others(w)' = SumFunctionOnSet(wamount, less)
    BY <2>1, <2>4, <2>5, SumCongruence
  <2>7. SumFunctionOnSet(wamount, less) \in Int
    BY <2>1, <2>4, SumType
  <2>8. wamount[x] \in Int
    BY <2>3
  <2>9. x \notin less => SumFunctionOnSet(wamount, less \union {x}) = SumFunctionOnSet(wamount, less) + wamount[x]
    BY <2>1, <2>4, <2>8, SumInsert
  <2>10. CASE less = rest
    BY <2>5, <2>6, <2>7, <2>10
  <2>11. CASE x \notin less /\ rest = less \union {x}
    BY <2>3, <2>5, <2>6, <2>7, <2>9, <2>11
  <2> QED
    BY <2>4, <2>10, <2>11
<1>3. DailyLimitKept'
  <2>1. /\ TodayWithdrawSum = Others(x) + (IF x \in CountedToday THEN wamount[x] ELSE 0)
        /\ TodayWithdrawSum' = Others(x)' + (IF x \in CountedToday' THEN wamount'[x] ELSE 0)
        /\ wamount[x] \in Nat /\ wamount'[x] \in Nat
    BY <1>1, TodayIsOthers, TodayIsOthersNext
  <2>2. x \in CountedToday' => x \in CountedToday /\ wamount'[x] = wamount[x]
    OBVIOUS
  <2>3. TodayWithdrawSum' <= TodayWithdrawSum /\ TodayWithdrawSum \in Int /\ TodayWithdrawSum' \in Int
    BY <1>2, <2>1, <2>2
  <2> QED
    BY <2>3, WithdrawAssumption DEF DailyLimitKept
<1>4. \A w \in Withdrawals : \A n \in Int : RoomFor(w, n) => RoomFor(w, n)'
  <2> SUFFICES ASSUME NEW w \in Withdrawals, NEW n \in Int, Others(w) + n <= DailyLimit
               PROVE  Others(w)' + n <= DailyLimit
    BY DEF RoomFor
  <2> QED
    BY <1>2, WithdrawAssumption
<1> QED
  BY <1>1, <1>3, <1>4

\* An attempt past its check has room for its row at the amount of its request.
CreateHasRoom ==
    \A w \in Withdrawals :
        /\ wpc[w] \in Admitted => RoomFor(w, WithdrawRequest(w).amount)
        /\ wpc[w] = "status" => wamount[w] = WithdrawRequest(w).amount

\* An update works on a row that exists and is as it read it or as it wrote it; past
\* its check it has room for the row at the new amount, if the row stays.
UpdateHasRoom ==
    \A u \in Updates : UpdateRunning(u) =>
        /\ wrow[Asked(u).row] # "none"
        /\ upc[u] = "check" => wamount[Asked(u).row] = Asked(u).old
        /\ upc[u] = "status" => /\ wamount[Asked(u).row] = Asked(u).new
                                /\ wtoday[Asked(u).row] = Asked(u).today
        /\ upc[u] # "check" /\ Asked(u).today => RoomFor(Asked(u).row, Asked(u).new)

LimitInv == CountedInv /\ ~WithdrawsOverlap /\ DailyLimitKept /\ CreateHasRoom /\ UpdateHasRoom

WithdrawTypes == WithdrawTypeOK /\ WithdrawSentAtPc

\* What an update asks for is typed.
LEMMA AskedFields ==
    ASSUME WithdrawTypes, NEW u \in Updates, upc[u] # "idle"
    PROVE  /\ Asked(u).row \in Withdrawals /\ Asked(u).today \in BOOLEAN
           /\ Asked(u).new \in Int /\ Asked(u).old \in Int
<1>1. Asked(u) \in Asks
  BY AskedType DEF WithdrawTypes, WithdrawSentAtPc
<1>2. \A n \in WithdrawAmounts \union {0} : n \in Int
  BY WithdrawAssumption DEF WithdrawAmounts
<1> DEFINE a == Asked(u)
<1>3. a \in [row : Withdrawals, old : WithdrawAmounts \union {0}, new : WithdrawAmounts, today : BOOLEAN]
  BY <1>1 DEF Asks
<1> HIDE DEF a
<1>4. a.row \in Withdrawals /\ a.today \in BOOLEAN /\ a.new \in Int /\ a.old \in Int
  BY <1>2, <1>3
<1> QED
  BY <1>4 DEF a

\* Where at most one row less counts and no amount changes, only what becomes of
\* the handlers is left to show.
LEMMA RowsFade ==
    ASSUME WithdrawTypes, WithdrawTypes', LimitInv, ~WithdrawsOverlap', NEW x \in Withdrawals,
           CountedToday' \in {CountedToday, CountedToday \ {x}}, UNCHANGED <<wamount, wtoday, uask>>,
           \A w \in Withdrawals : /\ wpc'[w] = "idle" => wrow'[w] = "none"
                                  /\ wpc'[w] \in Unmarked => wrow'[w] # "success"
                                  /\ wpc'[w] \in Admitted => wreq'[w] = wreq[w] /\ wpc[w] \in Unmarked
                                  /\ wpc'[w] \in Admitted => wpc[w] \in Admitted \/ WithinLimit(w)
                                  /\ wpc'[w] = "status" => wpc[w] = "status"
                                  /\ wrow'[w] = "none" => wrow[w] = "none",
           \A u \in Updates : upc'[u] = upc[u] \/ ~UpdateRunning(u)'
    PROVE  LimitInv'
<1>1. /\ IsFiniteSet(CountedToday)' /\ DailyLimitKept'
      /\ \A w \in Withdrawals : \A n \in Int : RoomFor(w, n) => RoomFor(w, n)'
  BY NothingAdded DEF WithdrawTypes, LimitInv, CountedInv
<1>2. CountedInv'
  BY <1>1 DEF CountedInv
<1>3. CreateHasRoom'
  <2> SUFFICES ASSUME NEW w \in Withdrawals, wpc'[w] \in Admitted
               PROVE  /\ RoomFor(w, WithdrawRequest(w).amount)'
                      /\ wpc'[w] = "status" => wamount'[w] = WithdrawRequest(w)'.amount
    BY DEF CreateHasRoom, Admitted
  <2>1. WithdrawRequest(w)' = WithdrawRequest(w)
    BY DEF WithdrawRequest
  <2>2. wreq[w] # {}
    BY DEF WithdrawTypes, WithdrawSentAtPc, Admitted
  <2>3. WithdrawRequest(w).amount \in Int
    BY <2>2, WithdrawRequestType, WithdrawAssumption DEF WithdrawTypes
  <2>4. RoomFor(w, WithdrawRequest(w).amount)
    <3>1. CASE wpc[w] \in Admitted
      BY <3>1 DEF LimitInv, CreateHasRoom
    <3>2. CASE WithinLimit(w)
      <4>1. w \notin CountedToday
        BY DEF LimitInv, CountedInv, CountedToday
      <4>2. TodayWithdrawSum = Others(w) /\ Others(w) \in Int
        BY <4>1, TodayIsOthers DEF WithdrawTypes, LimitInv, CountedInv
      <4> QED
        BY <3>2, <4>2 DEF WithinLimit, RoomFor
    <3> QED
      BY <3>1, <3>2
  <2>5. wpc'[w] = "status" => wamount[w] = WithdrawRequest(w).amount
    BY DEF LimitInv, CreateHasRoom
  <2>6. RoomFor(w, WithdrawRequest(w).amount)'
    BY <1>1, <2>1, <2>3, <2>4 DEF RoomFor
  <2> QED
    BY <2>1, <2>5, <2>6
<1>4. UpdateHasRoom'
  <2> SUFFICES ASSUME NEW u \in Updates, UpdateRunning(u)'
               PROVE  /\ wrow'[Asked(u)'.row] # "none"
                      /\ upc'[u] = "check" => wamount'[Asked(u)'.row] = Asked(u)'.old
                      /\ upc'[u] = "status" => /\ wamount'[Asked(u)'.row] = Asked(u)'.new
                                               /\ wtoday'[Asked(u)'.row] = Asked(u)'.today
                      /\ upc'[u] # "check" /\ Asked(u)'.today => RoomFor(Asked(u).row, Asked(u).new)'
    BY DEF UpdateHasRoom
  <2>1. Asked(u)' = Asked(u) /\ upc'[u] = upc[u] /\ UpdateRunning(u)
    BY DEF Asked, UpdateRunning
  <2>2. Asked(u).row \in Withdrawals /\ Asked(u).new \in Int
    BY <2>1, AskedFields DEF UpdateRunning
  <2> QED
    BY <1>1, <2>1, <2>2 DEF LimitInv, UpdateHasRoom
<1> QED
  BY <1>1, <1>2, <1>3, <1>4 DEF LimitInv

\* Nor is more left to show where rows, requests and handlers stay.
LEMMA NothingMoves ==
    ASSUME WithdrawTypes, WithdrawTypes', LimitInv, UNCHANGED <<wpc, wreq, wrowVars, upc, uask>>
    PROVE  LimitInv'
<1>1. CountedToday' = CountedToday
  BY DEF CountedToday
<1>2. CountedInv' /\ ~WithdrawsOverlap'
  BY <1>1 DEF LimitInv, CountedInv, WithdrawsOverlap, WithdrawRunning, UpdateRunning
<1>3. TodayWithdrawSum' = TodayWithdrawSum
  BY <1>1, <1>2, TodayIsSum, TodayIsSumNext DEF LimitInv, CountedInv, WithdrawTypes
<1>4. \A w, n : RoomFor(w, n)' <=> RoomFor(w, n)
  BY <1>1 DEF RoomFor, Others
<1>5. \A w \in Withdrawals : WithdrawRequest(w)' = WithdrawRequest(w)
  BY DEF WithdrawRequest
<1>6. \A u \in Updates : Asked(u)' = Asked(u) /\ (UpdateRunning(u)' <=> UpdateRunning(u))
  BY DEF Asked, UpdateRunning
<1>7. CreateHasRoom'
  <2> SUFFICES ASSUME NEW w \in Withdrawals
               PROVE  /\ wpc'[w] \in Admitted => RoomFor(w, WithdrawRequest(w).amount)'
                      /\ wpc'[w] = "status" => wamount'[w] = WithdrawRequest(w)'.amount
    BY DEF CreateHasRoom
  <2> QED
    BY <1>1, <1>5 DEF LimitInv, CreateHasRoom, RoomFor, Others
<1>8. UpdateHasRoom'
  <2> SUFFICES ASSUME NEW u \in Updates, UpdateRunning(u)'
               PROVE  /\ wrow'[Asked(u)'.row] # "none"
                      /\ upc'[u] = "check" => wamount'[Asked(u)'.row] = Asked(u)'.old
                      /\ upc'[u] = "status" => /\ wamount'[Asked(u)'.row] = Asked(u)'.new
                                               /\ wtoday'[Asked(u)'.row] = Asked(u)'.today
                      /\ upc'[u] # "check" /\ Asked(u)'.today => RoomFor(Asked(u).row, Asked(u).new)'
    BY DEF UpdateHasRoom
  <2> QED
    BY <1>1, <1>6 DEF LimitInv, UpdateHasRoom, RoomFor, Others
<1> QED
  BY <1>2, <1>3, <1>7, <1>8 DEF LimitInv, DailyLimitKept

\* A handler that leaves the rows alone passes its check within the limit, and
\* writes its row only where it has room.
LEMMA HandlerFades ==
    ASSUME WithdrawTypes, WithdrawTypes', LimitInv, ~WithdrawsOverlap', NEW w \in Withdrawals,
           UNCHANGED <<wrowVars, wupdateVars>>,
           \A v \in Withdrawals : v # w => wpc'[v] = wpc[v] /\ wreq'[v] = wreq[v],
           wpc'[w] # "idle", wpc'[w] \in Unmarked => wpc[w] \in Unmarked,
           wpc'[w] \in Admitted => wreq'[w] = wreq[w] /\ (wpc[w] \in Admitted \/ WithinLimit(w)),
           wpc'[w] = "status" => wpc[w] = "status"
    PROVE  LimitInv'
<1>1. CountedToday' = CountedToday
  BY DEF CountedToday
<1>2. \A v \in Withdrawals :
        /\ wpc'[v] = "idle" => wrow'[v] = "none"
        /\ wpc'[v] \in Unmarked => wrow'[v] # "success"
        /\ wpc'[v] \in Admitted => wreq'[v] = wreq[v] /\ wpc[v] \in Unmarked
        /\ wpc'[v] \in Admitted => wpc[v] \in Admitted \/ WithinLimit(v)
        /\ wpc'[v] = "status" => wpc[v] = "status"
        /\ wrow'[v] = "none" => wrow[v] = "none"
  BY DEF LimitInv, CountedInv, Unmarked, Admitted
<1> QED
  BY <1>1, <1>2, RowsFade

\* The insert of a pending row adds nothing to the sum.
LEMMA CreateFits ==
    ASSUME WithdrawTypes, WithdrawTypes', LimitInv, ~WithdrawsOverlap', NEW w \in Withdrawals,
           CreateWithdraw(w)
    PROVE  LimitInv'
<1>1. /\ UNCHANGED <<wdeleted, wtoday, wreq, upc, uask>>
      /\ wpc[w] = "create" /\ wpc'[w] \in {"status", "rollback-create"}
      /\ wrow'[w] \in {wrow[w], "pending"}
      /\ wpc'[w] = "status" => wamount'[w] = WithdrawRequest(w).amount
      /\ \A v \in Withdrawals : v # w => wpc'[v] = wpc[v] /\ wrow'[v] = wrow[v] /\ wamount'[v] = wamount[v]
  BY DEF CreateWithdraw, WithdrawGoto, WithdrawTypes, WithdrawTypeOK
<1>2. wrow[w] # "success"
  BY <1>1 DEF LimitInv, CountedInv, Unmarked
<1>3. CountedToday' = CountedToday /\ w \notin CountedToday
  BY <1>1, <1>2 DEF CountedToday
<1>4. /\ IsFiniteSet(CountedToday)' /\ DailyLimitKept'
      /\ \A v \in Withdrawals : \A n \in Int : RoomFor(v, n) => RoomFor(v, n)'
  <2>1. \A v \in CountedToday' : wamount'[v] = wamount[v]
    BY <1>1, <1>3 DEF CountedToday
  <2> QED
    BY <1>3, <2>1, NothingAdded DEF WithdrawTypes, LimitInv, CountedInv
<1>5. CountedInv'
  BY <1>1, <1>2, <1>4 DEF LimitInv, CountedInv, Unmarked
<1>6. /\ \A v \in Withdrawals : wpc'[v] \in Admitted => v = w
      /\ \A u \in Updates : ~UpdateRunning(u)'
  BY <1>1 DEF LimitInv, WithdrawsOverlap, WithdrawRunning, UpdateRunning, Admitted
<1>7. RoomFor(w, WithdrawRequest(w).amount)'
  <2>1. RoomFor(w, WithdrawRequest(w).amount) /\ WithdrawRequest(w)' = WithdrawRequest(w)
    BY <1>1 DEF LimitInv, CreateHasRoom, Admitted, WithdrawRequest
  <2>2. WithdrawRequest(w).amount \in Int
    BY <1>1, WithdrawRequestType, WithdrawAssumption DEF WithdrawTypes, WithdrawSentAtPc
  <2> QED
    BY <1>4, <2>1, <2>2 DEF RoomFor
<1>8. CreateHasRoom'
  <2>1. WithdrawRequest(w)' = WithdrawRequest(w)
    BY <1>1 DEF WithdrawRequest
  <2> QED
    BY <1>1, <1>6, <1>7, <2>1 DEF CreateHasRoom, Admitted
<1>9. UpdateHasRoom'
  BY <1>6 DEF UpdateHasRoom
<1> QED
  BY <1>4, <1>5, <1>8, <1>9 DEF LimitInv

\* The mark finds the room that the check left.
LEMMA StatusFits ==
    ASSUME WithdrawTypes, WithdrawTypes', LimitInv, ~WithdrawsOverlap', NEW w \in Withdrawals,
           UpdateWithdrawStatus(w)
    PROVE  LimitInv'
<1>1. /\ UNCHANGED <<wdeleted, wtoday, wamount, wreq, upc, uask>>
      /\ wpc[w] = "status" /\ wpc'[w] \in {"events", "rollback-status"}
      /\ \A v \in Withdrawals : v # w => wpc'[v] = wpc[v] /\ wrow'[v] = wrow[v]
  BY DEF UpdateWithdrawStatus, WithdrawGoto, WithdrawTypes, WithdrawTypeOK
<1>2. CountedToday' \ {w} = CountedToday \ {w}
  BY <1>1 DEF CountedToday
<1>3. RoomFor(w, wamount'[w])
  BY <1>1 DEF LimitInv, CreateHasRoom, Admitted
<1>4. IsFiniteSet(CountedToday)' /\ DailyLimitKept'
  BY <1>1, <1>2, <1>3, RowFits DEF WithdrawTypes, LimitInv, CountedInv
<1>5. CountedInv'
  BY <1>1, <1>4 DEF LimitInv, CountedInv, Unmarked
<1>6. /\ \A v \in Withdrawals : wpc'[v] \notin Admitted
      /\ \A u \in Updates : ~UpdateRunning(u)'
  BY <1>1 DEF LimitInv, WithdrawsOverlap, WithdrawRunning, UpdateRunning, Admitted
<1>7. CreateHasRoom' /\ UpdateHasRoom'
  BY <1>6 DEF CreateHasRoom, UpdateHasRoom, Admitted
<1> QED
  BY <1>4, <1>5, <1>7 DEF LimitInv

\* An update reads a row as it is.
LEMMA ReadFits ==
    ASSUME WithdrawTypes, WithdrawTypes', LimitInv, ~WithdrawsOverlap', NEW u \in Updates,
           NEW w \in Withdrawals, NEW n \in WithdrawAmounts, NEW today \in BOOLEAN,
           ReadWithdraw(u, w, n, today)
    PROVE  LimitInv'
<1> DEFINE ask == [row |-> w, old |-> wamount[w], new |-> n, today |-> today]
<1>1. /\ UNCHANGED <<wpc, wreq, wrow, wdeleted, wamount, wtoday>>
      /\ \A t \in Updates : t # u => upc'[t] = upc[t] /\ uask'[t] = uask[t]
      /\ upc'[u] \in {"check", "done"} /\ uask'[u] = {ask}
      /\ upc'[u] = "check" => wrow[w] # "none"
  BY DEF ReadWithdraw, UpdateGoto, FailUpdate, WithdrawTypes, WithdrawTypeOK
<1>2. Asked(u)' = ask
  BY <1>1 DEF Asked
<1> HIDE DEF ask
<1>3. ask.row = w /\ ask.old = wamount[w]
  BY DEF ask
<1>4. CountedToday' = CountedToday
  BY <1>1 DEF CountedToday
<1>5. CountedInv' /\ DailyLimitKept'
  BY <1>1, <1>4, TodayIsSum, TodayIsSumNext DEF WithdrawTypes, LimitInv, CountedInv, DailyLimitKept
<1>6. CreateHasRoom'
  <2> SUFFICES ASSUME NEW v \in Withdrawals
               PROVE  /\ wpc'[v] \in Admitted => RoomFor(v, WithdrawRequest(v).amount)'
                      /\ wpc'[v] = "status" => wamount'[v] = WithdrawRequest(v)'.amount
    BY DEF CreateHasRoom
  <2>1. WithdrawRequest(v)' = WithdrawRequest(v)
    BY <1>1 DEF WithdrawRequest
  <2> QED
    BY <1>1, <1>4, <2>1 DEF LimitInv, CreateHasRoom, RoomFor, Others
<1>7. UpdateHasRoom'
  <2> SUFFICES ASSUME NEW t \in Updates, UpdateRunning(t)'
               PROVE  /\ wrow'[Asked(t)'.row] # "none"
                      /\ upc'[t] = "check" => wamount'[Asked(t)'.row] = Asked(t)'.old
                      /\ upc'[t] = "status" => /\ wamount'[Asked(t)'.row] = Asked(t)'.new
                                               /\ wtoday'[Asked(t)'.row] = Asked(t)'.today
                      /\ upc'[t] # "check" /\ Asked(t)'.today => RoomFor(Asked(t).row, Asked(t).new)'
    BY DEF UpdateHasRoom
  <2>1. CASE t = u
    BY <1>1, <1>2, <1>3, <2>1 DEF UpdateRunning
  <2>2. CASE t # u
    <3>1. Asked(t)' = Asked(t) /\ UpdateRunning(t) /\ upc'[t] = upc[t]
      BY <1>1, <2>2 DEF Asked, UpdateRunning
    <3>2. RoomFor(Asked(t).row, Asked(t).new)' <=> RoomFor(Asked(t).row, Asked(t).new)
      BY <1>1, <1>4, <3>1 DEF RoomFor, Others
    <3> QED
      BY <1>1, <3>1, <3>2 DEF LimitInv, UpdateHasRoom
  <2> QED
    BY <2>1, <2>2
<1> QED
  BY <1>5, <1>6, <1>7 DEF LimitInv

\* An update of a row that counts passes its check only if the day has room for the
\* row at the new amount: an increase by the check, a decrease by the limit so far.
LEMMA CheckUpdateFits ==
    ASSUME WithdrawTypes, WithdrawTypes', LimitInv, ~WithdrawsOverlap', ~UncountedUpdated,
           NEW u \in Updates, CheckUpdate(u)
    PROVE  LimitInv'
<1> DEFINE row == Asked(u).row
<1>1. /\ UNCHANGED <<wpc, wreq, wrow, wdeleted, wamount, wtoday, uask>>
      /\ \A t \in Updates : t # u => upc'[t] = upc[t]
      /\ upc[u] = "check" /\ upc'[u] \in {"row", "done"}
      /\ upc'[u] = "row" => UpdateWithinLimit(Asked(u))
  BY DEF CheckUpdate, UpdateGoto, FailUpdate, WithdrawTypes, WithdrawTypeOK
<1>2. /\ row \in Withdrawals /\ Asked(u).today \in BOOLEAN
      /\ Asked(u).new \in Int /\ Asked(u).old \in Int
  BY <1>1, AskedFields
<1>3. CountedToday' = CountedToday
  BY <1>1 DEF CountedToday
<1>4. CountedInv' /\ DailyLimitKept'
  BY <1>1, <1>3, TodayIsSum, TodayIsSumNext DEF WithdrawTypes, LimitInv, CountedInv, DailyLimitKept
<1>5. CreateHasRoom'
  <2> SUFFICES ASSUME NEW v \in Withdrawals
               PROVE  /\ wpc'[v] \in Admitted => RoomFor(v, WithdrawRequest(v).amount)'
                      /\ wpc'[v] = "status" => wamount'[v] = WithdrawRequest(v)'.amount
    BY DEF CreateHasRoom
  <2>1. WithdrawRequest(v)' = WithdrawRequest(v)
    BY <1>1 DEF WithdrawRequest
  <2> QED
    BY <1>1, <1>3, <2>1 DEF LimitInv, CreateHasRoom, RoomFor, Others
<1>6. wrow[row] # "none" /\ wamount[row] = Asked(u).old
  BY <1>1 DEF LimitInv, UpdateHasRoom, UpdateRunning
<1>7. upc'[u] = "row" /\ Asked(u).today => RoomFor(row, Asked(u).new)
  <2> SUFFICES ASSUME upc'[u] = "row", Asked(u).today
               PROVE  RoomFor(row, Asked(u).new)
    OBVIOUS
  <2>1. row \in CountedToday
    BY <1>1 DEF UncountedUpdated
  <2>2. TodayWithdrawSum = Others(row) + Asked(u).old /\ Others(row) \in Int
    BY <1>2, <1>6, <2>1, TodayIsOthers DEF WithdrawTypes, LimitInv, CountedInv
  <2>3. CASE Asked(u).new > Asked(u).old
    BY <1>1, <1>2, <2>2, <2>3 DEF UpdateWithinLimit, RoomFor
  <2>4. CASE Asked(u).new <= Asked(u).old
    BY <1>2, <2>2, <2>4, WithdrawAssumption DEF LimitInv, DailyLimitKept, RoomFor
  <2> QED
    BY <1>2, <2>3, <2>4
<1>8. \A t \in Updates : UpdateRunning(t)' => t = u
  BY <1>1 DEF WithdrawsOverlap, UpdateRunning, LimitInv
<1>9. Asked(u)' = Asked(u)
  BY <1>1 DEF Asked
<1>10. UpdateHasRoom'
  <2> SUFFICES ASSUME UpdateRunning(u)'
               PROVE  /\ wrow'[row] # "none"
                      /\ upc'[u] = "check" => wamount'[row] = Asked(u).old
                      /\ upc'[u] = "status" => /\ wamount'[row] = Asked(u).new
                                               /\ wtoday'[row] = Asked(u).today
                      /\ upc'[u] # "check" /\ Asked(u).today => RoomFor(row, Asked(u).new)'
    BY <1>8, <1>9 DEF UpdateHasRoom
  <2>1. RoomFor(row, Asked(u).new)' <=> RoomFor(row, Asked(u).new)
    BY <1>1, <1>3, <1>9 DEF RoomFor, Others
  <2> QED
    BY <1>1, <1>6, <1>7, <2>1 DEF UpdateRunning
<1> QED
  BY <1>4, <1>5, <1>10 DEF LimitInv

\* The row takes the amount it has room for, or leaves the card and the day.
LEMMA UpdateWithdrawFits ==
    ASSUME WithdrawTypes, WithdrawTypes', LimitInv, ~WithdrawsOverlap', NEW u \in Updates,
           UpdateWithdraw(u)
    PROVE  LimitInv'
<1>1. /\ UNCHANGED <<wpc, wreq, wrow, wdeleted, uask>>
      /\ \A t \in Updates : t # u => upc'[t] = upc[t]
      /\ upc[u] = "row" /\ upc'[u] \in {"status", "done"}
  BY DEF UpdateWithdraw, UpdateGoto, FailUpdate, WithdrawTypes, WithdrawTypeOK
<1>2. /\ Asked(u).row \in Withdrawals /\ Asked(u).today \in BOOLEAN
      /\ Asked(u).new \in Int /\ Asked(u).old \in Int
  BY <1>1, AskedFields
<1>r. PICK row \in Withdrawals : row = Asked(u).row
  BY <1>2
<1>3. /\ \/ wamount'[row] = Asked(u).new /\ wtoday'[row] = Asked(u).today
         \/ upc'[u] = "done" /\ wamount'[row] = wamount[row] /\ wtoday'[row] = wtoday[row]
      /\ \A v \in Withdrawals : v # row => wamount'[v] = wamount[v] /\ wtoday'[v] = wtoday[v]
  BY <1>2, <1>r DEF UpdateWithdraw, UpdateGoto, FailUpdate, WithdrawTypes, WithdrawTypeOK
<1>4. CountedToday' \ {row} = CountedToday \ {row}
  BY <1>1, <1>3 DEF CountedToday
<1>5. wrow[row] # "none" /\ (Asked(u).today => RoomFor(row, Asked(u).new))
  BY <1>1, <1>r DEF LimitInv, UpdateHasRoom, UpdateRunning
<1>6. /\ IsFiniteSet(CountedToday)' /\ DailyLimitKept'
      /\ \A n : RoomFor(row, n) => RoomFor(row, n)'
  <2>0. WithdrawTypeOK /\ WithdrawTypeOK' /\ IsFiniteSet(CountedToday) /\ DailyLimitKept
    BY DEF WithdrawTypes, LimitInv, CountedInv
  <2>1. CASE wamount'[row] = Asked(u).new /\ wtoday'[row] = Asked(u).today
    <3>1. row \in CountedToday' => RoomFor(row, wamount'[row])
      BY <1>5, <2>1 DEF CountedToday
    <3>2. \A v \in CountedToday \ {row} : wamount'[v] = wamount[v]
      BY <1>3 DEF CountedToday
    <3> QED
      BY <1>4, <2>0, <3>1, <3>2, RowFits
  <2>2. CASE wamount'[row] = wamount[row] /\ wtoday'[row] = wtoday[row]
    <3>1. CountedToday' = CountedToday
      BY <1>1, <1>3, <2>2 DEF CountedToday
    <3>2. \A v \in CountedToday' : wamount'[v] = wamount[v]
      BY <1>3, <2>2 DEF CountedToday
    <3>3. /\ IsFiniteSet(CountedToday)' /\ DailyLimitKept'
      BY <3>1, <3>2, NothingAdded DEF WithdrawTypes, LimitInv, CountedInv
    <3>4. Others(row)' = Others(row)
      BY <1>4, <2>0, <3>1, <3>2, OthersStay
    <3> QED
      BY <3>3, <3>4 DEF RoomFor
  <2> QED
    BY <1>3, <2>1, <2>2
<1>7. CountedInv'
  BY <1>1, <1>6 DEF LimitInv, CountedInv
<1>8. /\ \A t \in Updates : UpdateRunning(t)' => t = u
      /\ \A w \in Withdrawals : wpc'[w] \notin Admitted
  BY <1>1 DEF LimitInv, WithdrawsOverlap, WithdrawRunning, UpdateRunning, Admitted
<1>9. CreateHasRoom'
  BY <1>8 DEF CreateHasRoom, Admitted
<1>10. Asked(u)' = Asked(u)
  BY <1>1 DEF Asked
<1>11. UpdateHasRoom'
  <2> SUFFICES ASSUME UpdateRunning(u)'
               PROVE  /\ wrow'[row] # "none"
                      /\ upc'[u] = "check" => wamount'[row] = Asked(u).old
                      /\ upc'[u] = "status" => /\ wamount'[row] = Asked(u).new
                                               /\ wtoday'[row] = Asked(u).today
                      /\ upc'[u] # "check" /\ Asked(u).today => RoomFor(row, Asked(u).new)'
    BY <1>8, <1>10, <1>r DEF UpdateHasRoom
  <2>1. RoomFor(row, Asked(u).new) => RoomFor(row, Asked(u).new)'
    BY <1>6, <1>10 DEF RoomFor
  <2> QED
    BY <1>1, <1>3, <1>5, <2>1 DEF UpdateRunning
<1> QED
  BY <1>6, <1>7, <1>9, <1>11 DEF LimitInv

\* The row of an update is successful again, or for the first time, at an amount
\* it has room for.
LEMMA SettleFits ==
    ASSUME WithdrawTypes, WithdrawTypes', LimitInv, ~WithdrawsOverlap', NEW u \in Updates,
           SettleUpdate(u)
    PROVE  LimitInv'
<1> DEFINE row == Asked(u).row
<1>1. /\ UNCHANGED <<wpc, wreq, wdeleted, wamount, wtoday, uask>>
      /\ \A t \in Updates : t # u => upc'[t] = upc[t]
      /\ upc[u] = "status" /\ upc'[u] = "done"
  BY DEF SettleUpdate, UpdateGoto, WithdrawTypes, WithdrawTypeOK
<1>2. row \in Withdrawals
  BY <1>1, AskedFields
<1>3. \A v \in Withdrawals : v # row => wrow'[v] = wrow[v]
  BY <1>2 DEF SettleUpdate, WithdrawTypes, WithdrawTypeOK
<1>4. /\ wrow[row] # "none" /\ wamount[row] = Asked(u).new /\ wtoday[row] = Asked(u).today
      /\ Asked(u).today => RoomFor(row, Asked(u).new)
  BY <1>1 DEF LimitInv, UpdateHasRoom, UpdateRunning
<1>5. CountedToday' \ {row} = CountedToday \ {row}
  BY <1>1, <1>3 DEF CountedToday
<1>6. row \in CountedToday' => RoomFor(row, wamount'[row])
  BY <1>1, <1>4 DEF CountedToday
<1>7. IsFiniteSet(CountedToday)' /\ DailyLimitKept'
  <2> HIDE DEF row
  <2> QED
    BY <1>1, <1>2, <1>5, <1>6, RowFits DEF WithdrawTypes, LimitInv, CountedInv
<1>8. \A w \in Withdrawals : ~WithdrawRunning(w)
  BY <1>1 DEF LimitInv, WithdrawsOverlap, UpdateRunning
<1>9. wpc[row] \notin Unmarked
  BY <1>2, <1>4, <1>8 DEF LimitInv, CountedInv, Unmarked, WithdrawRunning
<1>10. CountedInv'
  BY <1>1, <1>2, <1>3, <1>7, <1>9 DEF LimitInv, CountedInv, Unmarked
<1>11. /\ \A t \in Updates : ~UpdateRunning(t)'
       /\ \A w \in Withdrawals : wpc'[w] \notin Admitted
  BY <1>1, <1>8 DEF LimitInv, WithdrawsOverlap, WithdrawRunning, UpdateRunning, Admitted
<1>12. CreateHasRoom' /\ UpdateHasRoom'
  BY <1>11 DEF CreateHasRoom, UpdateHasRoom, Admitted
<1> QED
  BY <1>7, <1>10, <1>12 DEF LimitInv

\* Soft deletion takes at most one row away, as long as it restores none.
LEMMA SoftDeleteFades ==
    ASSUME WithdrawTypes, WithdrawTypes', LimitInv, ~WithdrawsOverlap', SoftDeleteWithdraws,
           ~WithdrawRestored
    PROVE  LimitInv'
<1>1. UNCHANGED <<wpc, wreq, wrow, wamount, wtoday, upc, uask>>
  BY WithdrawSoftDeleteSets DEF SetWithdrawDeleted
<1>2. CASE \E x \in Withdrawals : TrashWithdraw(x)
  <2>1. PICK x \in Withdrawals : TrashWithdraw(x)
    BY <1>2
  <2>2. CountedToday' = CountedToday \ {x}
    BY <1>1, <2>1 DEF CountedToday, TrashWithdraw, SetWithdrawDeleted
  <2>3. \A w \in Withdrawals : /\ wpc[w] = "idle" => wrow[w] = "none"
                               /\ wpc[w] \in Unmarked => wrow[w] # "success"
                               /\ wpc[w] \in Admitted => wpc[w] \in Unmarked
    BY DEF LimitInv, CountedInv, Unmarked, Admitted
  <2> QED
    BY <1>1, <2>2, <2>3, RowsFade
<1>3. CASE ~\E x \in Withdrawals : TrashWithdraw(x)
  <2>1. PICK W \in SUBSET TrashedWithdraws, to \in {"no", "purged"} : SetWithdrawDeleted(W, to)
    BY <1>3 DEF SoftDeleteWithdraws, RestoreWithdraw, DeleteWithdrawPermanently,
                RestoreAllWithdraws, DeleteAllPermanentWithdraws
  <2>2. to = "purged"
    BY <2>1 DEF SetWithdrawDeleted, WithdrawRestored, TrashedWithdraws
  <2>3. CountedToday' = CountedToday
    BY <1>1, <2>1, <2>2 DEF CountedToday, SetWithdrawDeleted, TrashedWithdraws
  <2>4. PICK x \in W : x \in Withdrawals
    BY <2>1 DEF SetWithdrawDeleted, TrashedWithdraws
  <2>5. \A w \in Withdrawals : /\ wpc[w] = "idle" => wrow[w] = "none"
                               /\ wpc[w] \in Unmarked => wrow[w] # "success"
                               /\ wpc[w] \in Admitted => wpc[w] \in Unmarked
    BY DEF LimitInv, CountedInv, Unmarked, Admitted
  <2> QED
    BY <1>1, <2>3, <2>4, <2>5, RowsFade
<1> QED
  BY <1>2, <1>3

\* The goroutine takes its row out of the sum, if it was there.
LEMMA MarkFades ==
    ASSUME WithdrawTypes, WithdrawTypes', LimitInv, ~WithdrawsOverlap', NEW w \in Withdrawals,
           MarkWithdrawAsFailed(w)
    PROVE  LimitInv'
<1>1. /\ UNCHANGED <<wpc, wreq, wdeleted, wamount, wtoday, upc, uask>>
      /\ wrow' = wrow \/ (wrow[w] # "none" /\ wrow' = [wrow EXCEPT ![w] = "failed"])
  BY DEF MarkWithdrawAsFailed
<1>2. CountedToday' \in {CountedToday, CountedToday \ {w}}
  BY <1>1 DEF CountedToday, WithdrawTypes, WithdrawTypeOK
<1>3. \A v \in Withdrawals : /\ wpc[v] = "idle" => wrow'[v] = "none"
                             /\ wpc[v] \in Unmarked => wrow'[v] # "success"
                             /\ wpc[v] \in Admitted => wpc[v] \in Unmarked
                             /\ wrow'[v] = "none" => wrow[v] = "none"
  BY <1>1 DEF LimitInv, CountedInv, Unmarked, Admitted, WithdrawTypes, WithdrawTypeOK
<1> QED
  BY <1>1, <1>2, <1>3, RowsFade

\* A dead update asks for nothing more.
LEMMA CrashFades ==
    ASSUME WithdrawTypes, WithdrawTypes', LimitInv, ~WithdrawsOverlap', NEW u \in Updates,
           CrashUpdate(u)
    PROVE  LimitInv'
<1>1. /\ UNCHANGED <<wpc, wreq, wrow, wdeleted, wamount, wtoday, uask>>
      /\ upc[u] # "idle" /\ upc'[u] = "dead"
      /\ \A t \in Updates : t # u => upc'[t] = upc[t]
  BY DEF CrashUpdate, UpdateGoto, UpdateRunning, WithdrawTypes, WithdrawTypeOK
<1>2. Asked(u).row \in Withdrawals
  BY <1>1, AskedFields
<1>3. CountedToday' = CountedToday
  BY <1>1 DEF CountedToday
<1>4. \A w \in Withdrawals : /\ wpc[w] = "idle" => wrow[w] = "none"
                             /\ wpc[w] \in Unmarked => wrow[w] # "success"
                             /\ wpc[w] \in Admitted => wpc[w] \in Unmarked
  BY DEF LimitInv, CountedInv, Unmarked, Admitted
<1>5. \A t \in Updates : upc'[t] = upc[t] \/ ~UpdateRunning(t)'
  BY <1>1 DEF UpdateRunning
<1> QED
  BY <1>1, <1>2, <1>3, <1>4, <1>5, RowsFade

\* As long as handlers take turns, no row is restored and no update passes its checks
\* for a row that does not count, past a check there stays room for the row.
LEMMA LimitNext ==
    ASSUME WithdrawTypes, WithdrawTypes', LimitInv, [WithdrawNext]_withdrawVars, ~wdisturbed'
    PROVE  LimitInv'
<1>1. CASE UNCHANGED withdrawVars
  BY <1>1, NothingMoves DEF withdrawVars
<1> SUFFICES ASSUME WithdrawNext PROVE LimitInv'
  BY <1>1
<1>2. ~WithdrawsOverlap' /\ ~WithdrawRestored /\ ~UncountedUpdated
  BY DEF WithdrawNext
<1> USE DEF WithdrawTypes, WithdrawTypeOK
<1>3. ASSUME NEW w \in Withdrawals, NEW r \in WithdrawRequests, ClaimWithdraw(w, r) PROVE LimitInv'
  <2>1. /\ UNCHANGED <<wrowVars, wupdateVars>> /\ wpc[w] = "idle" /\ wpc'[w] \in {"check", "replay"}
        /\ \A v \in Withdrawals : v # w => wpc'[v] = wpc[v] /\ wreq'[v] = wreq[v]
    BY <1>3 DEF ClaimWithdraw, WithdrawGoto
  <2> QED
    BY <1>2, <2>1, HandlerFades DEF Unmarked, Admitted
<1>4. ASSUME NEW w \in Withdrawals,
             \/ ReplayWithdraw(w) \/ EnqueueWithdrawEvents(w) \/ CompleteWithdraw(w)
             \/ ReleaseWithdraw(w) \/ CrashWithdraw(w)
      PROVE  LimitInv'
  <2>1. /\ UNCHANGED <<wrowVars, wupdateVars, wreq>> /\ wpc'[w] \in {"complete", "done", "dead"}
        /\ \A v \in Withdrawals : v # w => wpc'[v] = wpc[v]
    BY <1>4 DEF ReplayWithdraw, EnqueueWithdrawEvents, CompleteWithdraw, ReleaseWithdraw,
                CrashWithdraw, WithdrawAnswer, WithdrawGoto
  <2> QED
    BY <1>2, <2>1, HandlerFades DEF Unmarked, Admitted
<1>5. ASSUME NEW w \in Withdrawals, CheckWithdraw(w) PROVE LimitInv'
  <2>1. /\ UNCHANGED <<wrowVars, wupdateVars, wreq>> /\ wpc[w] = "check"
        /\ wpc'[w] = "release" \/ (wpc'[w] = "debit" /\ WithinLimit(w))
        /\ \A v \in Withdrawals : v # w => wpc'[v] = wpc[v]
    BY <1>5 DEF CheckWithdraw, WithdrawGoto
  <2> QED
    BY <1>2, <2>1, HandlerFades DEF Unmarked, Admitted
<1>6. ASSUME NEW w \in Withdrawals, NEW leg \in WithdrawLegs,
             SendWithdraw(w, leg) \/ WithdrawConfirmed(w, leg) \/ WithdrawErrored(w, leg)
      PROVE  LimitInv'
  <2>1. /\ UNCHANGED <<wrowVars, wupdateVars, wreq>> /\ wpc[w] = leg
        /\ wpc'[w] = leg \/ wpc'[w] = "release" \/ (leg = "debit" /\ wpc'[w] = "create")
        /\ \A v \in Withdrawals : v # w => wpc'[v] = wpc[v]
    BY <1>6 DEF SendWithdraw, WithdrawConfirmed, WithdrawErrored, WithdrawGoto
  <2> QED
    BY <1>2, <2>1, HandlerFades DEF Unmarked, Admitted, WithdrawLegs
<1>7. ASSUME NEW op \in wsent, ExecuteWithdraw(op) PROVE LimitInv'
  BY <1>7, NothingMoves DEF ExecuteWithdraw
<1>8. ASSUME NEW u \in Updates, HandleUpdate(u) PROVE LimitInv'
  <2>1. ASSUME NEW w \in Withdrawals, NEW n \in WithdrawAmounts, NEW today \in BOOLEAN,
               ReadWithdraw(u, w, n, today)
        PROVE  LimitInv'
    BY <1>2, <2>1, ReadFits
  <2>2. CASE CheckUpdate(u)
    BY <1>2, <2>2, CheckUpdateFits
  <2>3. CASE UpdateWithdraw(u)
    BY <1>2, <2>3, UpdateWithdrawFits
  <2>4. CASE SettleUpdate(u)
    BY <1>2, <2>4, SettleFits
  <2>5. CASE CrashUpdate(u)
    BY <1>2, <2>5, CrashFades
  <2> QED
    BY <1>8, <2>1, <2>2, <2>3, <2>4, <2>5 DEF HandleUpdate
<1>9. ASSUME NEW w \in Withdrawals, HandleWithdraw(w) \/ CrashWithdraw(w) \/ MarkWithdrawAsFailed(w)
      PROVE  LimitInv'
  BY <1>2, <1>3, <1>4, <1>5, <1>6, <1>9, CreateFits, StatusFits, MarkFades, Zenon DEF HandleWithdraw
<1> QED
  BY <1>2, <1>7, <1>8, <1>9, SoftDeleteFades, Zenon DEF WithdrawNext

\* No row counts yet.
LEMMA LimitInit == WithdrawInit => LimitInv
<1> SUFFICES ASSUME WithdrawInit PROVE LimitInv
  OBVIOUS
<1>1. CountedToday = {}
  BY DEF WithdrawInit, CountedToday
<1>2. CountedInv
  BY <1>1, FS_EmptySet DEF WithdrawInit, CountedInv
<1>3. ~WithdrawsOverlap /\ CreateHasRoom /\ UpdateHasRoom
  BY DEF WithdrawInit, WithdrawsOverlap, WithdrawRunning, UpdateRunning, CreateHasRoom,
         UpdateHasRoom, Admitted
<1>4. TodayWithdrawSum = 0
  BY <1>1, <1>2, WithdrawInitTyped, TodayIsSum, SumOfNothing DEF CountedInv
<1> QED
  BY <1>2, <1>3, <1>4, WithdrawAssumption DEF LimitInv, DailyLimitKept

\* As long as no two handlers ran at the same time, no row was restored and no update
\* passed its checks for a row that the sum did not contain, the successful withdrawals
\* of the day never exceed the limit: for any number of attempts and of updates, of any
\* amounts, whatever dies, is retried, is marked failed by a goroutine, or is called
\* successful without the handler knowing.
THEOREM SerialLimitKeptHolds == WithdrawSpec => []SerialLimitKept
<1> DEFINE SerialInv == WithdrawTypes /\ (~wdisturbed => LimitInv)
<1>1. WithdrawInit => SerialInv
  BY WithdrawInitTyped, LimitInit DEF WithdrawTypes
<1>2. SerialInv /\ [WithdrawNext]_withdrawVars => SerialInv'
  <2> SUFFICES ASSUME SerialInv, [WithdrawNext]_withdrawVars PROVE SerialInv'
    OBVIOUS
  <2>1. WithdrawTypes'
    BY WithdrawNextTyped DEF WithdrawTypes
  <2>2. ASSUME ~wdisturbed' PROVE LimitInv'
    <3>1. ~wdisturbed
      BY <2>2, Zenon DEF WithdrawNext, withdrawVars
    <3> QED
      BY <2>1, <2>2, <3>1, LimitNext
  <2> QED
    BY <2>1, <2>2
<1>3. SerialInv => SerialLimitKept
  BY DEF LimitInv, SerialLimitKept
<1> QED
  BY <1>1, <1>2, <1>3, PTL DEF WithdrawSpec
=============================================================================
