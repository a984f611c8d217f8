-------------------------- MODULE OutboxPublisher --------------------------
(***************************************************************************)
(* The outbox table of a service and the publishers of its replicas: each   *)
(* polls the table, claims a batch, sends every event to Kafka and records  *)
(* the outcome (src/shared/outbox).                                         *)
(*                                                                         *)
(* available_at is kept as what the claim compares it with: whether the row *)
(* of its status may be claimed yet (odue).  Sending and recording are      *)
(* statements of their own; either may fail, and a failed send may still    *)
(* have stored the message.                                                *)
(***************************************************************************)
EXTENDS Integers, Sequences, FiniteSets, SequencesExt, FiniteSetsExt

CONSTANTS
    Events,         \* event ids
    Routed,         \* those whose type resolveTopic knows
    Publishers,
    BatchSize,
    MaxAttempts

ASSUME OutboxAssumption ==
    IsFiniteSet(Events) /\ Routed \subseteq Events /\ BatchSize \in Nat \ {0} /\ MaxAttempts \in Nat \ {0}

VARIABLES
    ostatus,        \* the row's status, "absent" before the insert
    oattempts,
    odue,           \* available_at has passed, by ten minutes when processing
    obatch,         \* per publisher: the claimed events it has not dealt with
    ophase,         \* per publisher: what it does next to the first of them
    osent           \* the events of which Kafka holds at least one message

outboxVars == <<ostatus, oattempts, odue, obatch, ophase, osent>>
rows == <<ostatus, oattempts, odue>>

OutboxInit ==
    /\ ostatus = [e \in Events |-> "absent"]
    /\ oattempts = [e \in Events |-> 0]
    /\ odue = [e \in Events |-> FALSE]
    /\ obatch = [p \in Publishers |-> <<>>]
    /\ ophase = [p \in Publishers |-> "send"]
    /\ osent = {}

InsertOutbox(e) ==
    /\ ostatus[e] = "absent"
    /\ ostatus' = [ostatus EXCEPT ![e] = "pending"]
    /\ odue' = [odue EXCEPT ![e] = TRUE]
    /\ UNCHANGED <<oattempts, obatch, ophase, osent>>

\* Time passes: 30 seconds for a failed row, 15 minutes for a processing one.
Wait(e) ==
    /\ ostatus[e] \in {"failed", "processing"} /\ ~odue[e]
    /\ odue' = [odue EXCEPT ![e] = TRUE]
    /\ UNCHANGED <<ostatus, oattempts, obatch, ophase, osent>>

\* Mutant: the rows of dead publishers are not reclaimed.
MutClaimable ==
    {e \in Events : ostatus[e] \in {"pending", "failed"} /\ oattempts[e] < MaxAttempts /\ odue[e]}

Claimable ==
    {e \in Events : /\ ostatus[e] \in {"pending", "failed", "processing"}
                    /\ oattempts[e] < MaxAttempts
                    /\ odue[e]}

\* LIMIT takes the oldest rows; their age is abstracted from.
Claims(batch) ==
    /\ batch \subseteq Claimable
    /\ batch # {}
    /\ Cardinality(batch) = Min({BatchSize, Cardinality(Claimable)})

ClaimPendingOutbox(p) ==
    /\ obatch[p] = <<>>
    /\ \E batch \in SUBSET Events :
        /\ Claims(batch)
        /\ \E order \in SetToSeqs(batch) : obatch' = [obatch EXCEPT ![p] = order]
        /\ ostatus' = [e \in Events |-> IF e \in batch THEN "processing" ELSE ostatus[e]]
        /\ oattempts' = [e \in Events |-> IF e \in batch THEN oattempts[e] + 1 ELSE oattempts[e]]
        /\ odue' = [e \in Events |-> e \notin batch /\ odue[e]]
    /\ UNCHANGED <<ophase, osent>>

\* Mutant: a failed send falls through to the completion.
MutSendFailed(p) == ophase' = [ophase EXCEPT ![p] = "complete"]

SendFailed(p) == ophase' = [ophase EXCEPT ![p] = "fail"]

\* An event of unknown type is completed without being sent.
Publish(p) ==
    /\ obatch[p] # <<>> /\ ophase[p] = "send"
    /\ LET e == Head(obatch[p]) IN
       \/ e \notin Routed /\ ophase' = [ophase EXCEPT ![p] = "complete"] /\ UNCHANGED osent
       \/ e \in Routed /\ ophase' = [ophase EXCEPT ![p] = "complete"] /\ osent' = osent \union {e}
       \/ e \in Routed /\ SendFailed(p) /\ osent' \in {osent, osent \union {e}}
    /\ UNCHANGED <<rows, obatch>>

NextRecord(p) ==
    /\ obatch' = [obatch EXCEPT ![p] = Tail(@)]
    /\ ophase' = [ophase EXCEPT ![p] = "send"]
    /\ UNCHANGED osent

\* Both updates name the event alone: whichever comes last wins.
CompleteOutbox(p) ==
    /\ ophase[p] = "complete"
    /\ LET e == Head(obatch[p]) IN ostatus' = [ostatus EXCEPT ![e] = "published"]
    /\ UNCHANGED <<oattempts, odue>>
    /\ NextRecord(p)

FailOutbox(p) ==
    /\ ophase[p] = "fail"
    /\ LET e == Head(obatch[p]) IN
        /\ ostatus' = [ostatus EXCEPT ![e] = "failed"]
        /\ odue' = [odue EXCEPT ![e] = FALSE]
    /\ UNCHANGED oattempts
    /\ NextRecord(p)

\* The outcome cannot be stored: the error is logged, the row stays as it is.
RecordLost(p) ==
    /\ ophase[p] \in {"complete", "fail"}
    /\ UNCHANGED rows
    /\ NextRecord(p)

PublisherDies(p) ==
    /\ obatch[p] # <<>>
    /\ obatch' = [obatch EXCEPT ![p] = <<>>]
    /\ ophase' = [ophase EXCEPT ![p] = "send"]
    /\ UNCHANGED <<rows, osent>>

PollAndPublish(p) ==
    ClaimPendingOutbox(p) \/ Publish(p) \/ CompleteOutbox(p) \/ FailOutbox(p) \/ RecordLost(p)

OutboxNext ==
    \/ \E e \in Events : InsertOutbox(e) \/ Wait(e)
    \/ \E p \in Publishers : PollAndPublish(p) \/ PublisherDies(p)

\* The ticker polls for ever and a publisher works through its batch: so does
\* time.  Nothing is assumed about how often sends, updates or publishers fail.
OutboxFairness ==
    /\ \A e \in Events : WF_outboxVars(Wait(e))
    /\ \A p \in Publishers : WF_outboxVars(PollAndPublish(p))

OutboxSpec == OutboxInit /\ [][OutboxNext]_outboxVars /\ OutboxFairness

-----------------------------------------------------------------------------
\* An event the table calls published has reached Kafka, whichever publisher
\* wrote that last and however often it was claimed, if its type has a topic.
PublishedWasSent == \A e \in Routed : ostatus[e] = "published" => e \in osent

\* An inserted event is not forgotten: it is published at some time or has used
\* all its attempts, though publishers die with it in their batch and outcomes
\* cannot be stored.
EventSettles ==
    \A e \in Events :
        ostatus[e] # "absent" ~> ostatus[e] = "published" \/ oattempts[e] = MaxAttempts
=============================================================================
