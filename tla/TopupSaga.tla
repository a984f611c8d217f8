------------------------------ MODULE TopupSaga ------------------------------
(***************************************************************************)
(* CreateTopup of the topup service                                        *)
(* (service/topup/service/topupCommandService.go): claim the key, insert   *)
(* the row, credit the card, touch the card, mark the row successful; take *)
(* the credit back when one of the last two fails.  The row is marked      *)
(* failed by a goroutine of its own (shared/async), after the client has   *)
(* its answer or before.                                                   *)
(*                                                                         *)
(* Row and attempt share a name; the operation ids contain the row's id.   *)
(* No key expires.                                                         *)
(***************************************************************************)
EXTENDS Integers, FiniteSets

CONSTANTS
    Topups,         \* handler executions, and the rows they create
    TopupRequests,  \* what a client may send: records [key, payload]
    NoTopupKey      \* the key of a request without Idempotency-Key

VARIABLES
    tpc,       \* tpc[t]: what attempt t does next
    treq,      \* treq[t]: its request, {} before it starts
    tanswer,   \* tanswer[t]: what the client was told
    trow,      \* trow[t]: topups.status, "none" before the insert
    tdeleted,  \* tdeleted[t]: deleted_at: no, trashed, or the row is purged
    tcall,     \* tcall[t][leg]: fate of the call in the saldo service
    tmarking,  \* topups whose goroutine is about to mark the row failed
    tkeys,     \* the idempotency records
    tevents,   \* topups whose events are in the outbox
    tlost      \* history: topups whose credit was answered with an error

topupVars == <<tpc, treq, tanswer, trow, tdeleted, tcall, tmarking, tkeys, tevents, tlost>>

TopupKeys == {r.key : r \in TopupRequests} \ {NoTopupKey}
TopupLegs == {"credit", "rollback"}

TopupIdem == INSTANCE IdempotencyStore WITH Keys <- TopupKeys, idem <- tkeys

TopupRequest(t) == CHOOSE r \in treq[t] : TRUE
TopupKeyed(t) == treq[t] # {} /\ TopupRequest(t).key # NoTopupKey
TopupRunning(t) == tpc[t] \notin {"idle", "done", "dead"}

TopupInit ==
    /\ tpc = [t \in Topups |-> "idle"]
    /\ treq = [t \in Topups |-> {}]
    /\ tanswer = [t \in Topups |-> "none"]
    /\ trow = [t \in Topups |-> "none"]
    /\ tdeleted = [t \in Topups |-> "no"]
    /\ tcall = [t \in Topups |-> [leg \in TopupLegs |-> "unsent"]]
    /\ tmarking = {}
    /\ TopupIdem!Init
    /\ tevents = {}
    /\ tlost = {}

TopupGoto(t, to) == tpc' = [tpc EXCEPT ![t] = to]

TopupAnswer(t, what) ==
    /\ TopupGoto(t, "done")
    /\ tanswer' = [tanswer EXCEPT ![t] = what]

-----------------------------------------------------------------------------
ClaimTopup(t, r) ==
    /\ tpc[t] = "idle"
    /\ treq' = [treq EXCEPT ![t] = {r}]
    /\ IF r.key = NoTopupKey
         THEN TopupGoto(t, "check") /\ UNCHANGED tkeys
         ELSE \/ TopupIdem!Claim(r.key, r) /\ (TopupGoto(t, "check") \/ TopupGoto(t, "replay"))
              \/ TopupGoto(t, "replay") /\ UNCHANGED tkeys
    /\ UNCHANGED <<tanswer, trow, tdeleted, tcall, tmarking, tevents, tlost>>

ReplayTopup(t) ==
    /\ tpc[t] = "replay"
    /\ \/ /\ TopupIdem!Replayable(TopupRequest(t).key, TopupRequest(t))
          /\ TopupAnswer(t, "replayed")
       \/ TopupAnswer(t, "error")
    /\ UNCHANGED <<treq, trow, tdeleted, tcall, tmarking, tkeys, tevents, tlost>>

\* Amount, card and owner checks.
CheckTopup(t) ==
    /\ tpc[t] = "check"
    /\ TopupGoto(t, "create") \/ TopupGoto(t, "release")
    /\ UNCHANGED <<treq, tanswer, trow, tdeleted, tcall, tmarking, tkeys, tevents, tlost>>

CreateTopup(t) ==
    /\ tpc[t] = "create"
    /\ \/ /\ trow' = [trow EXCEPT ![t] = "pending"]
          /\ TopupGoto(t, "credit") \/ TopupGoto(t, "release")
       \/ TopupGoto(t, "release") /\ UNCHANGED trow
    /\ UNCHANGED <<treq, tanswer, tdeleted, tcall, tmarking, tkeys, tevents, tlost>>

SendTopup(t, leg) ==
    /\ tpc[t] = leg
    /\ tcall[t][leg] = "unsent"
    /\ tcall' = [tcall EXCEPT ![t][leg] = "sent"]
    /\ UNCHANGED <<tpc, treq, tanswer, trow, tdeleted, tmarking, tkeys, tevents, tlost>>

ExecuteTopup(t, leg) ==
    /\ tcall[t][leg] = "sent"
    /\ tcall' = [tcall EXCEPT ![t][leg] = "applied"]
    /\ UNCHANGED <<tpc, treq, tanswer, trow, tdeleted, tmarking, tkeys, tevents, tlost>>

\* markTopupAsFailed: the goroutine starts, the handler goes on to its return.
MarkAndRelease(t) ==
    /\ tmarking' = tmarking \union {t}
    /\ TopupGoto(t, "release")

TopupConfirmed(t, leg) ==
    /\ tpc[t] = leg
    /\ tcall[t][leg] = "applied"
    /\ IF leg = "credit" THEN TopupGoto(t, "card") /\ UNCHANGED tmarking
                         ELSE MarkAndRelease(t)
    /\ UNCHANGED <<treq, tanswer, trow, tdeleted, tcall, tkeys, tevents, tlost>>

\* Wrong: the row is marked failed although the rollback may not have happened.
MutTopupErrored(t, leg) ==
    /\ tpc[t] = leg
    /\ MarkAndRelease(t)
    /\ tlost' = IF leg = "credit" THEN tlost \union {t} ELSE tlost
    /\ UNCHANGED <<treq, tanswer, trow, tdeleted, tcall, tkeys, tevents>>

\* An error answers the credit: the row fails, whatever becomes of the call.  An
\* error answers the rollback: the row stays as it is.
TopupErrored(t, leg) ==
    /\ tpc[t] = leg
    /\ IF leg = "credit" THEN MarkAndRelease(t) /\ tlost' = tlost \union {t}
                         ELSE TopupGoto(t, "release") /\ UNCHANGED <<tmarking, tlost>>
    /\ UNCHANGED <<treq, tanswer, trow, tdeleted, tcall, tkeys, tevents>>

\* UpdateCard of the card service.
UpdateCardOfTopup(t) ==
    /\ tpc[t] = "card"
    /\ TopupGoto(t, "status") \/ TopupGoto(t, "rollback")
    /\ UNCHANGED <<treq, tanswer, trow, tdeleted, tcall, tmarking, tkeys, tevents, tlost>>

\* Wrong: an error of the mark is only logged.
MutUpdateTopupStatus(t) ==
    /\ tpc[t] = "status"
    /\ trow' \in {trow, [trow EXCEPT ![t] = "success"]}
    /\ TopupGoto(t, "events")
    /\ UNCHANGED <<treq, tanswer, tdeleted, tcall, tmarking, tkeys, tevents, tlost>>

\* UpdateTopupStatus to success, of a row that is not deleted; its error may
\* hide a committed update.
UpdateTopupStatus(t) ==
    /\ tpc[t] = "status"
    /\ \/ /\ tdeleted[t] = "no"
          /\ trow' = [trow EXCEPT ![t] = "success"]
          /\ TopupGoto(t, "events") \/ TopupGoto(t, "rollback")
       \/ TopupGoto(t, "rollback") /\ UNCHANGED trow
    /\ UNCHANGED <<treq, tanswer, tdeleted, tcall, tmarking, tkeys, tevents, tlost>>

EnqueueTopupEvents(t) ==
    /\ tpc[t] = "events"
    /\ TopupGoto(t, "complete")
    /\ tevents' \in {tevents, tevents \union {t}}
    /\ UNCHANGED <<treq, tanswer, trow, tdeleted, tcall, tmarking, tkeys, tlost>>

CompleteTopup(t) ==
    /\ tpc[t] = "complete"
    /\ TopupAnswer(t, "ok")
    /\ \/ UNCHANGED tkeys
       \/ TopupKeyed(t) /\ TopupIdem!Complete(TopupRequest(t).key, TopupRequest(t), t)
    /\ UNCHANGED <<treq, trow, tdeleted, tcall, tmarking, tevents, tlost>>

ReleaseTopup(t) ==
    /\ tpc[t] = "release"
    /\ TopupAnswer(t, "error")
    /\ \/ UNCHANGED tkeys
       \/ TopupKeyed(t) /\ TopupIdem!Release(TopupRequest(t).key, TopupRequest(t))
    /\ UNCHANGED <<treq, trow, tdeleted, tcall, tmarking, tevents, tlost>>

\* The goroutine's unguarded update, which may fail or time out.
MarkTopupAsFailed(t) ==
    /\ t \in tmarking
    /\ tmarking' = tmarking \ {t}
    /\ \/ tdeleted[t] = "no" /\ trow' = [trow EXCEPT ![t] = "failed"]
       \/ UNCHANGED trow
    /\ UNCHANGED <<tpc, treq, tanswer, tdeleted, tcall, tkeys, tevents, tlost>>

\* The process of attempt t stops, with its goroutine.
CrashTopup(t) ==
    /\ TopupRunning(t) \/ t \in tmarking
    /\ tpc' = [tpc EXCEPT ![t] = IF TopupRunning(t) THEN "dead" ELSE tpc[t]]
    /\ tmarking' = tmarking \ {t}
    /\ UNCHANGED <<treq, tanswer, trow, tdeleted, tcall, tkeys, tevents, tlost>>

\* Soft deletion asks for no status; a topup may be purged untrashed.
SetTopupDeleted(T, to) ==
    /\ T # {}
    /\ tdeleted' = [t \in Topups |-> IF t \in T THEN to ELSE tdeleted[t]]
    /\ UNCHANGED <<tpc, treq, tanswer, trow, tcall, tmarking, tkeys, tevents, tlost>>

TrashedTopups == {t \in Topups : tdeleted[t] = "trashed"}

TrashTopup(t) == trow[t] # "none" /\ tdeleted[t] = "no" /\ SetTopupDeleted({t}, "trashed")
RestoreTopup(t) == SetTopupDeleted(TrashedTopups \intersect {t}, "no")
DeleteTopupPermanently(t) == trow[t] # "none" /\ tdeleted[t] # "purged" /\ SetTopupDeleted({t}, "purged")
RestoreAllTopups == SetTopupDeleted(TrashedTopups, "no")
DeleteAllPermanentTopups == SetTopupDeleted(TrashedTopups, "purged")

-----------------------------------------------------------------------------
HandleTopup(t) ==
    \/ \E r \in TopupRequests : ClaimTopup(t, r)
    \/ ReplayTopup(t) \/ CheckTopup(t) \/ CreateTopup(t)
    \/ \E leg \in TopupLegs : SendTopup(t, leg) \/ TopupConfirmed(t, leg) \/ TopupErrored(t, leg)
    \/ UpdateCardOfTopup(t) \/ UpdateTopupStatus(t) \/ EnqueueTopupEvents(t)
    \/ CompleteTopup(t) \/ ReleaseTopup(t)

SoftDeleteTopups ==
    \/ \E t \in Topups : TrashTopup(t) \/ RestoreTopup(t) \/ DeleteTopupPermanently(t)
    \/ RestoreAllTopups
    \/ DeleteAllPermanentTopups

TopupNext ==
    \/ \E t \in Topups : HandleTopup(t) \/ MarkTopupAsFailed(t) \/ CrashTopup(t)
    \/ SoftDeleteTopups
    \/ \E t \in Topups, leg \in TopupLegs : ExecuteTopup(t, leg)

TopupSpec == TopupInit /\ [][TopupNext]_topupVars

-----------------------------------------------------------------------------
(* Properties *)

TopupPCs == {"idle", "replay", "check", "create", "card", "status", "events", "complete",
             "release", "done", "dead"} \union TopupLegs

TopupRecords == [status : {"absent", "processing", "success"},
                 request : SUBSET TopupRequests, resource : SUBSET Topups]

\* The types of the variables; a request is one record.
TopupTypeOK ==
    /\ tpc \in [Topups -> TopupPCs]
    /\ treq \in [Topups -> SUBSET TopupRequests]
    /\ \A t \in Topups : \A r, s \in treq[t] : r = s
    /\ tanswer \in [Topups -> {"none", "ok", "replayed", "error"}]
    /\ trow \in [Topups -> {"none", "pending", "success", "failed"}]
    /\ tdeleted \in [Topups -> {"no", "trashed", "purged"}]
    /\ tcall \in [Topups -> [TopupLegs -> {"unsent", "sent", "applied"}]]
    /\ tmarking \subseteq Topups
    /\ tkeys \in [TopupKeys -> TopupRecords]
    /\ tevents \subseteq Topups
    /\ tlost \subseteq Topups

\* A topup that a client, a replay, a stored response or an event calls
\* successful is credited for good, and its row stays successful: no goroutine
\* of a failure path is left to overwrite it.
AnnouncedTopupStands ==
    \A t \in Topups :
        tanswer[t] = "ok" \/ t \in tevents \/ (\E k \in TopupKeys : t \in tkeys[k].resource) =>
            /\ trow[t] = "success" /\ t \notin tmarking
            /\ tcall[t]["credit"] = "applied" /\ tcall[t]["rollback"] = "unsent"

\* A row is called failed, or is about to be, in two cases only: its credit and its
\* rollback are both executed, or its credit was answered with an error and no
\* rollback is ever asked for.  In the second case the credit may be executed all
\* the same, and the failed topup keeps the money.  Money is taken back only after
\* it was given.
FailedTopupSettled ==
    \A t \in Topups :
        /\ trow[t] = "failed" \/ t \in tmarking =>
            IF t \in tlost
              THEN tcall[t]["rollback"] = "unsent"
              ELSE tcall[t]["credit"] = "applied" /\ tcall[t]["rollback"] = "applied"
        /\ tcall[t]["rollback"] # "unsent" => tcall[t]["credit"] = "applied"
=============================================================================
