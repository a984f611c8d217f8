--------------------------- MODULE DeliveryProofs ---------------------------
(***************************************************************************)
(* Proofs about what lies between the services, for any number of events,   *)
(* publishers, messages, callers, queries and changes: the outbox           *)
(* publishers, the statistics writer, the dependency guard and the saldo    *)
(* cache.  The four share no state; each part gives the inductive invariant *)
(* first.                                                                   *)
(*                                                                         *)
(*   OutboxTypeCorrect         the table and the publishers are well typed  *)
(*   PublishedWasSentHolds     a published event has reached Kafka          *)
(*   AckedMeansKeptHolds       a committed offset is stored, held or lost   *)
(*   PermitsReturnedHolds      the limiter counts who is inside, exactly    *)
(*   RefusedWhileOpenHolds     an open circuit lets nobody through          *)
(*   DeletedUnlessSparedHolds  what outlives a deletion was spared by it    *)
(***************************************************************************)
EXTENDS OutboxPublisher, StatsWriter, DependencyGuard, SaldoCache, FiniteSetTheorems, TLAPS

-----------------------------------------------------------------------------
(* The outbox: the completion of an event names no claim, so the argument is *)
(* about every publisher at once.  Whoever is about to complete an event has *)
(* sent it or found that its type has no topic (Completing).                 *)

RowsOK ==
    /\ ostatus \in [Events -> {"absent", "pending", "processing", "published", "failed"}]
    /\ oattempts \in [Events -> Nat]
    /\ odue \in [Events -> BOOLEAN]

PublishersOK ==
    /\ obatch \in [Publishers -> Seq(Events)]
    /\ ophase \in [Publishers -> {"send", "complete", "fail"}]
    /\ \A p \in Publishers : obatch[p] = <<>> => ophase[p] = "send"

OutboxTypeOK == RowsOK /\ PublishersOK /\ osent \subseteq Events

\* The batch a claim returns, in whatever order, is a sequence of events.
LEMMA ClaimedInOrder ==
    ASSUME NEW claimed \in SUBSET Events, NEW order \in SetToSeqs(claimed)
    PROVE  order \in Seq(Events)
<1>1. Cardinality(claimed) \in Nat
  BY OutboxAssumption, FS_Subset, FS_CardinalityType
<1>2. order \in [1..Cardinality(claimed) -> claimed]
  BY DEF SetToSeqs
<1> QED BY <1>1, <1>2

\* What is left of a batch after its first event.
LEMMA RestOfBatch ==
    ASSUME OutboxTypeOK, NEW p \in Publishers, obatch[p] # <<>>
    PROVE  Head(obatch[p]) \in Events /\ Tail(obatch[p]) \in Seq(Events)
BY DEF OutboxTypeOK, PublishersOK

\* An empty table and idle publishers are well typed.
LEMMA OutboxInitTyped == OutboxInit => OutboxTypeOK
BY DEF OutboxInit, OutboxTypeOK, RowsOK, PublishersOK

\* Every step of a publisher or of a row keeps the types.
LEMMA OutboxNextTyped == OutboxTypeOK /\ [OutboxNext]_outboxVars => OutboxTypeOK'
<1> SUFFICES ASSUME OutboxTypeOK, [OutboxNext]_outboxVars PROVE OutboxTypeOK'
  OBVIOUS
<1> USE DEF OutboxTypeOK, RowsOK, PublishersOK
<1>1. ASSUME NEW e \in Events, InsertOutbox(e) PROVE OutboxTypeOK'
  BY <1>1 DEF InsertOutbox
<1>2. ASSUME NEW e \in Events, Wait(e) PROVE OutboxTypeOK'
  BY <1>2 DEF Wait
<1>3. ASSUME NEW p \in Publishers, ClaimPendingOutbox(p) PROVE OutboxTypeOK'
  <2>1. PICK claimed \in SUBSET Events : ClaimPendingOutbox(p)!2!(claimed)
    BY <1>3 DEF ClaimPendingOutbox
  <2>2. PICK order \in SetToSeqs(claimed) : obatch' = [obatch EXCEPT ![p] = order]
    BY <2>1
  <2>3. order \in Seq(Events) /\ order # <<>>
    <3>1. order \in Seq(Events)
      BY <2>2, ClaimedInOrder
    <3>2. Cardinality(claimed) \in Nat /\ Cardinality(claimed) # 0
      BY <2>1, OutboxAssumption, FS_Subset, FS_CardinalityType, FS_EmptySet DEF Claims
    <3>3. order \in [1..Cardinality(claimed) -> claimed]
      BY <2>2 DEF SetToSeqs
    <3> QED BY <3>1, <3>2, <3>3
  <2>4. RowsOK'
    BY <2>1
  <2>5. PublishersOK'
    BY <1>3, <2>2, <2>3 DEF ClaimPendingOutbox
  <2> QED BY <1>3, <2>4, <2>5 DEF ClaimPendingOutbox
<1>4. ASSUME NEW p \in Publishers, Publish(p) PROVE OutboxTypeOK'
  BY <1>4, RestOfBatch DEF Publish, SendFailed, rows
<1>5. ASSUME NEW p \in Publishers, CompleteOutbox(p) PROVE OutboxTypeOK'
  BY <1>5, RestOfBatch DEF CompleteOutbox, NextRecord
<1>6. ASSUME NEW p \in Publishers, FailOutbox(p) PROVE OutboxTypeOK'
  BY <1>6, RestOfBatch DEF FailOutbox, NextRecord
<1>7. ASSUME NEW p \in Publishers, RecordLost(p) PROVE OutboxTypeOK'
  BY <1>7, RestOfBatch DEF RecordLost, NextRecord, rows
<1>8. ASSUME NEW p \in Publishers, PublisherDies(p) PROVE OutboxTypeOK'
  BY <1>8 DEF PublisherDies, rows
<1>9. CASE UNCHANGED outboxVars
  BY <1>9 DEF outboxVars
<1> QED
  BY <1>1, <1>2, <1>3, <1>4, <1>5, <1>6, <1>7, <1>8, <1>9 DEF OutboxNext, PollAndPublish

\* The outbox table and every publisher stay well typed, whatever publishers die
\* and whatever sends and updates fail.
THEOREM OutboxTypeCorrect == OutboxSpec => []OutboxTypeOK
BY OutboxInitTyped, OutboxNextTyped, PTL DEF OutboxSpec

\* A publisher about to complete an event has sent it, or it has no topic.
Completing ==
    \A p \in Publishers :
        ophase[p] = "complete" /\ Head(obatch[p]) \in Routed => Head(obatch[p]) \in osent

\* Completions are right and every publication is the outcome of one.
LEMMA OutboxNextSent ==
    OutboxTypeOK /\ Completing /\ PublishedWasSent /\ [OutboxNext]_outboxVars
        => Completing' /\ PublishedWasSent'
<1> SUFFICES ASSUME OutboxTypeOK, Completing, PublishedWasSent, [OutboxNext]_outboxVars
             PROVE  Completing' /\ PublishedWasSent'
  OBVIOUS
<1> USE OutboxAssumption DEF OutboxTypeOK, RowsOK, PublishersOK, Completing, PublishedWasSent
<1>1. ASSUME NEW e \in Events, InsertOutbox(e) PROVE Completing' /\ PublishedWasSent'
  BY <1>1 DEF InsertOutbox
<1>2. ASSUME NEW e \in Events, Wait(e) PROVE Completing' /\ PublishedWasSent'
  BY <1>2 DEF Wait
<1>3. ASSUME NEW p \in Publishers, ClaimPendingOutbox(p) PROVE Completing' /\ PublishedWasSent'
  <2>1. PICK claimed \in SUBSET Events : ClaimPendingOutbox(p)!2!(claimed)
    BY <1>3 DEF ClaimPendingOutbox
  <2>2. \A q \in Publishers : ophase[q] = "complete" => obatch'[q] = obatch[q]
    BY <1>3, <2>1 DEF ClaimPendingOutbox
  <2>3. Completing'
    BY <1>3, <2>2 DEF ClaimPendingOutbox
  <2>4. PublishedWasSent'
    BY <1>3, <2>1 DEF ClaimPendingOutbox
  <2> QED BY <2>3, <2>4
<1>4. ASSUME NEW p \in Publishers, Publish(p) PROVE Completing' /\ PublishedWasSent'
  BY <1>4 DEF Publish, SendFailed, rows
<1>5. ASSUME NEW p \in Publishers, CompleteOutbox(p) PROVE Completing' /\ PublishedWasSent'
  BY <1>5 DEF CompleteOutbox, NextRecord
<1>6. ASSUME NEW p \in Publishers, FailOutbox(p) PROVE Completing' /\ PublishedWasSent'
  BY <1>6, RestOfBatch DEF FailOutbox, NextRecord
<1>7. ASSUME NEW p \in Publishers, RecordLost(p) PROVE Completing' /\ PublishedWasSent'
  BY <1>7 DEF RecordLost, NextRecord, rows
<1>8. ASSUME NEW p \in Publishers, PublisherDies(p) PROVE Completing' /\ PublishedWasSent'
  BY <1>8 DEF PublisherDies, rows
<1>9. CASE UNCHANGED outboxVars
  BY <1>9 DEF outboxVars
<1> QED
  BY <1>1, <1>2, <1>3, <1>4, <1>5, <1>6, <1>7, <1>8, <1>9 DEF OutboxNext, PollAndPublish

\* A published event has been sent, for any number of publishers that claim it
\* again from each other and finish in any order.
THEOREM PublishedWasSentHolds == OutboxSpec => []PublishedWasSent
<1>1. OutboxInit => Completing /\ PublishedWasSent
  BY OutboxAssumption DEF OutboxInit, Completing, PublishedWasSent
<1> QED
  BY <1>1, OutboxTypeCorrect, OutboxNextSent, PTL DEF OutboxSpec

-----------------------------------------------------------------------------
(* The statistics writer: the session's mark never passes what was          *)
(* delivered, a new session starts at the mark or before it, and whatever   *)
(* was delivered once is accounted for for ever.                            *)

\* What the service knows of an event: its row is stored, waits, or is lost.
Kept(o) == o \in stored \union ToSet(batch) \union lost

WriterInv ==
    /\ batch \in Seq(1..Messages)
    /\ next \in 1..(Messages + 1) /\ marked \in 1..(Messages + 1) /\ committed \in 1..(Messages + 1)
    /\ committed <= marked /\ marked <= next
    /\ \A o \in 1..Messages : o < next => Kept(o)

\* An offset appended to a batch is in it, with what was there.
LEMMA AppendedOffsets ==
    ASSUME NEW s \in Seq(1..Messages), NEW o \in 1..Messages
    PROVE  Append(s, o) \in Seq(1..Messages) /\ ToSet(Append(s, o)) = ToSet(s) \union {o}
<1>1. /\ Append(s, o) \in Seq(1..Messages)
      /\ DOMAIN Append(s, o) = 1..(Len(s) + 1)
      /\ DOMAIN s = 1..Len(s) /\ Len(s) \in Nat
      /\ Append(s, o)[Len(s) + 1] = o
      /\ \A i \in 1..Len(s) : Append(s, o)[i] = s[i]
  OBVIOUS
<1>2. ASSUME NEW x PROVE x \in ToSet(Append(s, o)) <=> x \in ToSet(s) \/ x = o
  <2>1. ASSUME x \in ToSet(Append(s, o)) PROVE x \in ToSet(s) \/ x = o
    <3>1. PICK i \in 1..(Len(s) + 1) : x = Append(s, o)[i]
      BY <2>1, <1>1 DEF ToSet
    <3>2. CASE i = Len(s) + 1
      BY <3>1, <3>2, <1>1
    <3>3. CASE i \in 1..Len(s)
      BY <3>1, <3>3, <1>1 DEF ToSet
    <3> QED
      BY <3>2, <3>3, <1>1
  <2>2. ASSUME x \in ToSet(s) PROVE x \in ToSet(Append(s, o))
    <3>1. PICK i \in 1..Len(s) : x = s[i]
      BY <2>2, <1>1 DEF ToSet
    <3>2. i \in 1..(Len(s) + 1) /\ x = Append(s, o)[i]
      BY <3>1, <1>1
    <3> QED
      BY <3>2, <1>1 DEF ToSet
  <2>3. ASSUME x = o PROVE x \in ToSet(Append(s, o))
    <3>1. Len(s) + 1 \in 1..(Len(s) + 1)
      BY <1>1
    <3> QED
      BY <2>3, <3>1, <1>1 DEF ToSet
  <2> QED
    BY <2>1, <2>2, <2>3
<1> QED
  BY <1>1, <1>2

\* Nothing waits in an empty batch.
LEMMA EmptyBatch == <<>> \in Seq(1..Messages) /\ ToSet(<<>>) = {}
BY DEF ToSet

\* Sending rows, stored or lost, forgets none of them.
LEMMA SendKeeps ==
    ASSUME NEW kept, NEW ok \in BOOLEAN, Send(kept, ok)
    PROVE  /\ batch' \in Seq(1..Messages)
           /\ stored' \union ToSet(batch') \union lost' = stored \union ToSet(kept) \union lost
BY EmptyBatch DEF Send

\* A step keeps WriterInv that forgets no row, leaves the offsets in order and
\* delivers at most the next offset, which it then keeps.
LEMMA KeptStays ==
    ASSUME WriterInv,
           batch' \in Seq(1..Messages),
           stored \union ToSet(batch) \union lost \subseteq stored' \union ToSet(batch') \union lost',
           next' \in 1..(Messages + 1), marked' \in 1..(Messages + 1), committed' \in 1..(Messages + 1),
           committed' <= marked', marked' <= next',
           next' <= next \/ (next' = next + 1 /\ next \in stored' \union ToSet(batch') \union lost')
    PROVE  WriterInv'
<1>1. ASSUME NEW o \in 1..Messages, o < next' PROVE Kept(o)'
  <2>1. o < next \/ o = next
    BY <1>1 DEF WriterInv
  <2>2. CASE o < next
    BY <2>2 DEF WriterInv, Kept
  <2>3. CASE o = next
    BY <1>1, <2>3 DEF WriterInv, Kept
  <2> QED
    BY <2>1, <2>2, <2>3
<1> QED
  BY <1>1 DEF WriterInv

\* Nothing is delivered, so nothing is marked or owed.
LEMMA InitWriter == WriterInit => WriterInv
BY EmptyBatch, WriterAssumption DEF WriterInit, WriterInv

\* Every message, flush, rebalance and restart keeps the invariant.
LEMMA NextWriter == WriterInv /\ [WriterNext]_writerVars => WriterInv'
<1> SUFFICES ASSUME WriterInv, [WriterNext]_writerVars PROVE WriterInv'
  OBVIOUS
<1> USE WriterAssumption
<1>1. CASE PassOver
  BY <1>1, KeptStays DEF PassOver, Delivered, WriterInv
<1>2. CASE AppendToBatch
  <2> DEFINE full == Append(batch, next)
  <2>1. next \in 1..Messages /\ batch \in Seq(1..Messages)
    BY <1>2 DEF AppendToBatch, Delivered, WriterInv
  <2>2. full \in Seq(1..Messages) /\ ToSet(full) = ToSet(batch) \union {next}
    BY <2>1, AppendedOffsets
  <2>3. /\ batch' \in Seq(1..Messages)
        /\ stored' \union ToSet(batch') \union lost' = stored \union ToSet(full) \union lost
    <3>1. CASE batch' = full /\ UNCHANGED <<stored, lost>>
      BY <3>1, <2>2
    <3>2. CASE \E ok \in BOOLEAN : Send(full, ok)
      BY <3>2, SendKeeps
    <3> QED
      BY <1>2, <3>1, <3>2 DEF AppendToBatch
  <2>4. next' = next + 1 /\ committed' = committed /\ (MarkMessage(next) \/ marked' = marked)
    BY <1>2 DEF AppendToBatch
  <2>5. /\ marked' \in 1..(Messages + 1) /\ next' \in 1..(Messages + 1)
        /\ committed' \in 1..(Messages + 1)
        /\ committed' <= marked' /\ marked' <= next'
    BY <2>1, <2>4 DEF MarkMessage, WriterInv
  <2> QED
    BY <2>2, <2>3, <2>4, <2>5, KeptStays
<1>3. CASE FlushTick
  BY <1>3, SendKeeps, KeptStays DEF FlushTick, Flush, offsets, WriterInv
<1>4. CASE AutoCommit
  BY <1>4, KeptStays DEF AutoCommit, WriterInv
<1>5. CASE Cleanup
  <2>1. \E ok \in BOOLEAN : Send(batch, ok)
    BY <1>5 DEF Cleanup, Flush
  <2>2. PICK o \in {committed, marked} : Resume(o)
    BY <1>5 DEF Cleanup
  <2> QED
    BY <2>1, <2>2, SendKeeps, KeptStays DEF Resume, WriterInv
<1>6. CASE JoinGroup
  BY <1>6, KeptStays DEF JoinGroup, offsets, WriterInv
<1>7. CASE Shutdown
  BY <1>7, SendKeeps, KeptStays DEF Shutdown, Flush, offsets, WriterInv
<1>8. CASE Restart
  BY <1>8, EmptyBatch, KeptStays DEF Restart, Resume, WriterInv
<1>9. CASE UNCHANGED writerVars
  BY <1>9 DEF writerVars, WriterInv, Kept
<1> QED
  BY <1>1, <1>2, <1>3, <1>4, <1>5, <1>6, <1>7, <1>8, <1>9 DEF WriterNext

\* The writer's offsets are in order and every delivered event is kept.
THEOREM WriterInvHolds == WriterSpec => []WriterInv
BY InitWriter, NextWriter, PTL DEF WriterSpec

\* No rebalance, redelivery or restart loses an acknowledged event silently.
THEOREM AckedMeansKeptHolds == WriterSpec => []AckedMeansKept
<1>1. WriterInv => AckedMeansKept
  BY DEF WriterInv, AckedMeansKept, Kept
<1> QED
  BY <1>1, WriterInvHolds, PTL

-----------------------------------------------------------------------------
(* The dependency guard: who holds a permit and who is counted in flight.   *)

Steps == {"out", "count", "ask", "time", "half open", "call", "success", "is open", "no failures",
          "failure", "is closed", "open", "open count", "open time",
          "close call", "close failures call", "close successes call",
          "close record", "close failures record", "close successes record",
          "release", "uncount"}

\* The callers between taking a permit and giving it back, and those between
\* being counted and being uncounted.
Holding == {c \in Callers : step[c] \notin {"out", "uncount"}}
Counted == {c \in Callers : step[c] \notin {"out", "count"}}

PermitInv ==
    /\ step \in [Callers -> Steps]
    /\ maxConcurrent \in Nat
    /\ IsFiniteSet(Holding) /\ permits = Cardinality(Holding)
    /\ IsFiniteSet(Counted) /\ inFlight = Cardinality(Counted)
    /\ permits <= maxConcurrent

\* A step of a caller from inside the call to inside the call.
Within(c) ==
    \E to \in Steps \ {"out", "count", "uncount"} :
        /\ step[c] \notin {"out", "count", "uncount"}
        /\ GuardGoto(c, to)
        /\ UNCHANGED limiter

\* It leaves permits and counter to whom they belong.
LEMMA WithinKeeps ==
    ASSUME PermitInv, NEW c \in Callers, Within(c)
    PROVE  PermitInv'
<1>1. PICK to \in Steps \ {"out", "count", "uncount"} :
        step[c] \notin {"out", "count", "uncount"} /\ step' = [step EXCEPT ![c] = to]
  BY DEF Within, GuardGoto
<1>2. Holding' = Holding /\ Counted' = Counted
  BY <1>1 DEF Holding, Counted, PermitInv
<1>3. step' \in [Callers -> Steps]
  BY <1>1 DEF PermitInv
<1> QED
  BY <1>2, <1>3 DEF PermitInv, Within, limiter

\* The steps of a closing, and those that may follow it.
LEMMA ClosingSteps ==
    ASSUME NEW closing \in Closings
    PROVE  /\ closing.flag \in {"close call", "close record"}
           /\ closing.failures \in {"close failures call", "close failures record"}
           /\ closing.successes \in {"close successes call", "close successes record"}
           /\ closing.after \in {"call", "no failures"}
<1>1. CASE closing = [flag |-> "close call", failures |-> "close failures call",
                      successes |-> "close successes call", after |-> "call"]
  BY <1>1
<1>2. CASE closing = [flag |-> "close record", failures |-> "close failures record",
                      successes |-> "close successes record", after |-> "no failures"]
  BY <1>2
<1> QED
  BY <1>1, <1>2, Zenon DEF Closings

\* Every step of a call but those of the limiter is one.
LEMMA CallStepsWithin ==
    ASSUME NEW c \in Callers,
           ShouldAllowRequest(c) \/ Call(c) \/ RecordSuccess(c) \/ RecordFailure(c)
               \/ OpenCircuit(c) \/ CloseCircuit(c)
    PROVE  Within(c)
<1> USE DEF At, Within, GuardGoto, Steps
<1>1. CASE ShouldAllowRequest(c)
  BY <1>1 DEF ShouldAllowRequest, HalfOpen, Refuse
<1>2. CASE Call(c)
  BY <1>2 DEF Call
<1>3. CASE RecordSuccess(c)
  BY <1>3 DEF RecordSuccess
<1>4. CASE RecordFailure(c)
  BY <1>4 DEF RecordFailure
<1>5. CASE OpenCircuit(c)
  BY <1>5 DEF OpenCircuit
<1>6. CASE CloseCircuit(c)
  <2>1. PICK closing \in Closings :
          \/ At(c, closing.flag) /\ GuardGoto(c, closing.failures)
          \/ At(c, closing.failures) /\ GuardGoto(c, closing.successes)
          \/ At(c, closing.successes) /\ GuardGoto(c, closing.after)
    BY <1>6 DEF CloseCircuit
  <2>2. UNCHANGED limiter
    BY <1>6 DEF CloseCircuit
  <2> QED
    BY <2>1, <2>2, ClosingSteps
<1> QED
  BY <1>1, <1>2, <1>3, <1>4, <1>5, <1>6

\* Nobody is inside.
LEMMA InitPermits == GuardInit => PermitInv
<1> SUFFICES ASSUME GuardInit PROVE PermitInv
  OBVIOUS
<1>1. Holding = {} /\ Counted = {}
  BY DEF GuardInit, Holding, Counted
<1> QED
  BY <1>1, FS_EmptySet, GuardAssumption DEF GuardInit, PermitInv, Steps

\* Taking a permit and being counted: the caller joins one of the two sets.
LEMMA AcquirePermits ==
    ASSUME PermitInv, NEW c \in Callers, TryAcquire(c)
    PROVE  PermitInv'
<1> USE DEF At, GuardGoto, PermitInv, Steps
<1>1. CASE At(c, "out")
  <2>1. /\ permits < maxConcurrent /\ permits' = permits + 1
        /\ step' = [step EXCEPT ![c] = "count"]
        /\ maxConcurrent' = maxConcurrent /\ inFlight' = inFlight
    BY <1>1 DEF TryAcquire
  <2>2. Holding' = Holding \union {c} /\ c \notin Holding /\ Counted' = Counted
    BY <1>1, <2>1 DEF Holding, Counted
  <2>3. IsFiniteSet(Holding') /\ Cardinality(Holding') = permits + 1
    BY <2>2, FS_AddElement
  <2>4. permits \in Nat
    BY FS_CardinalityType
  <2>5. permits' <= maxConcurrent'
    <3> HIDE DEF Steps
    <3> QED
      BY <2>1, <2>4
  <2>6. step' \in [Callers -> Steps]
    BY <2>1
  <2> HIDE DEF Steps
  <2> QED
    BY <2>1, <2>2, <2>3, <2>5, <2>6
<1>2. CASE At(c, "count")
  <2>1. /\ inFlight' = inFlight + 1 /\ step' = [step EXCEPT ![c] = "ask"]
        /\ maxConcurrent' = maxConcurrent /\ permits' = permits
    BY <1>2 DEF TryAcquire
  <2>2. Counted' = Counted \union {c} /\ c \notin Counted /\ Holding' = Holding
    BY <1>2, <2>1 DEF Holding, Counted
  <2>3. IsFiniteSet(Counted') /\ Cardinality(Counted') = inFlight + 1
    BY <2>2, FS_AddElement
  <2> QED
    BY <2>1, <2>2, <2>3
<1> QED
  BY <1>1, <1>2 DEF TryAcquire

\* Giving the permit back and being uncounted: it leaves one of them.
LEMMA ReleasePermits ==
    ASSUME PermitInv, NEW c \in Callers, Release(c)
    PROVE  PermitInv'
<1> USE DEF At, GuardGoto, PermitInv, Steps
<1>1. CASE At(c, "release")
  <2>1. /\ permits' = permits - 1 /\ step' = [step EXCEPT ![c] = "uncount"]
        /\ maxConcurrent' = maxConcurrent /\ inFlight' = inFlight
    BY <1>1 DEF Release
  <2>2. Holding' = Holding \ {c} /\ c \in Holding /\ Counted' = Counted
    BY <1>1, <2>1 DEF Holding, Counted
  <2>3. IsFiniteSet(Holding') /\ Cardinality(Holding') = permits - 1
    BY <2>2, FS_RemoveElement
  <2>4. permits \in Nat
    BY FS_CardinalityType
  <2>5. permits' <= maxConcurrent'
    <3> HIDE DEF Steps
    <3> QED
      BY <2>1, <2>4
  <2>6. step' \in [Callers -> Steps]
    BY <2>1
  <2> HIDE DEF Steps
  <2> QED
    BY <2>1, <2>2, <2>3, <2>5, <2>6
<1>2. CASE At(c, "uncount")
  <2>1. /\ inFlight' = inFlight - 1 /\ step' = [step EXCEPT ![c] = "out"]
        /\ maxConcurrent' = maxConcurrent /\ permits' = permits
    BY <1>2 DEF Release
  <2>2. Counted' = Counted \ {c} /\ c \in Counted /\ Holding' = Holding
    BY <1>2, <2>1 DEF Holding, Counted
  <2>3. IsFiniteSet(Counted') /\ Cardinality(Counted') = inFlight - 1
    BY <2>2, FS_RemoveElement
  <2> QED
    BY <2>1, <2>2, <2>3
<1> QED
  BY <1>1, <1>2 DEF Release

\* Every atomic step of a caller keeps both counters exact.
LEMMA NextPermits == PermitInv /\ [GuardNext]_guardVars => PermitInv'
<1> SUFFICES ASSUME PermitInv, [GuardNext]_guardVars PROVE PermitInv'
  OBVIOUS
<1>1. ASSUME NEW c \in Callers, CallStep(c) PROVE PermitInv'
  BY <1>1, AcquirePermits, ReleasePermits, CallStepsWithin, WithinKeeps DEF CallStep
<1>2. CASE UNCHANGED <<limiter, step>>
  BY <1>2 DEF PermitInv, Holding, Counted, limiter
<1>3. CASE TimePasses \/ DependencyChanges \/ UNCHANGED guardVars
  BY <1>2, <1>3 DEF TimePasses, DependencyChanges, guardVars, limiter
<1> QED
  BY <1>1, <1>3 DEF GuardNext

\* However calls interleave, permits and counter are those of the callers
\* that hold them, and the bulkhead is never exceeded.
THEOREM PermitsReturnedHolds == GuardSpec => []PermitsReturned
<1>1. PermitInv => PermitsReturned
  BY DEF PermitInv, PermitsReturned, Holding, Counted
<1> QED
  BY <1>1, InitPermits, NextPermits, PTL DEF GuardSpec

-----------------------------------------------------------------------------
(* The breaker: while it is quiet nobody has closed it and its timeout has  *)
(* not passed, so a caller that asked since then finds it open, finds the   *)
(* timeout running, and is refused.                                         *)

RefusalInv ==
    /\ step \in [Callers -> Steps]
    /\ isOpen \in BOOLEAN /\ cooled \in BOOLEAN /\ quiet \in BOOLEAN
    /\ quiet => isOpen /\ ~cooled
    /\ late \subseteq Callers
    /\ late # {} => quiet
    /\ \A c \in late : step[c] \in {"ask", "time", "release"}

\* A step that leaves the breaker alone, of a caller that is not late.
Aside(c) ==
    \E to \in Steps :
        /\ step[c] \notin {"ask", "time", "release"}
        /\ GuardGoto(c, to)
        /\ UNCHANGED <<isOpen, cooled, quiet, late>>

\* A caller on its way that touches no breaker state keeps the invariant.
LEMMA AsideKeeps ==
    ASSUME RefusalInv, NEW c \in Callers, Aside(c)
    PROVE  RefusalInv'
BY DEF Aside, RefusalInv, GuardGoto

\* The circuit is closed and nobody is late.
LEMMA InitRefusal == GuardInit => RefusalInv
BY DEF GuardInit, RefusalInv, Steps

\* Every atomic step of breaker and callers keeps the invariant.
LEMMA NextRefusal == RefusalInv /\ [GuardNext]_guardVars => RefusalInv'
<1> SUFFICES ASSUME RefusalInv, [GuardNext]_guardVars PROVE RefusalInv'
  OBVIOUS
<1> USE DEF At, limiter, breaker, ghosts
<1>1. ASSUME NEW c \in Callers, CallStep(c) PROVE RefusalInv'
  <2> USE DEF Steps
  <2>1. CASE TryAcquire(c)
    <3>1. CASE At(c, "out")
      BY <2>1, <3>1, AsideKeeps DEF TryAcquire, Aside
    <3>2. CASE At(c, "count")
      <4>1. /\ step' = [step EXCEPT ![c] = "ask"]
            /\ late' = IF quiet THEN late \union {c} ELSE late
            /\ UNCHANGED <<isOpen, cooled, quiet>>
        BY <2>1, <3>2 DEF TryAcquire, GuardGoto
      <4> QED
        BY <4>1 DEF RefusalInv
    <3> QED
      BY <2>1, <3>1, <3>2 DEF TryAcquire
  <2>2. CASE ShouldAllowRequest(c)
    BY <2>2 DEF ShouldAllowRequest, HalfOpen, Refuse, GuardGoto, RefusalInv
  <2>3. CASE Call(c)
    BY <2>3 DEF Call, GuardGoto, RefusalInv
  <2>4. CASE RecordSuccess(c)
    BY <2>4, AsideKeeps DEF RecordSuccess, Aside
  <2>5. CASE RecordFailure(c)
    BY <2>5, AsideKeeps DEF RecordFailure, Aside
  <2>6. CASE OpenCircuit(c)
    <3>1. CASE At(c, "open")
      <4>1. /\ isOpen' = TRUE /\ step' = [step EXCEPT ![c] = "open count"]
            /\ UNCHANGED <<cooled, quiet, late>>
        BY <2>6, <3>1 DEF OpenCircuit, GuardGoto
      <4> QED
        BY <3>1, <4>1 DEF RefusalInv
    <3>2. CASE At(c, "open count")
      BY <2>6, <3>2, AsideKeeps DEF OpenCircuit, Aside
    <3>3. CASE At(c, "open time")
      <4>1. /\ cooled' = FALSE /\ quiet' = isOpen /\ step' = [step EXCEPT ![c] = "release"]
            /\ UNCHANGED <<isOpen, late>>
        BY <2>6, <3>3 DEF OpenCircuit, Stamp, GuardGoto
      <4> QED
        BY <3>3, <4>1 DEF RefusalInv
    <3> QED
      BY <2>6, <3>1, <3>2, <3>3 DEF OpenCircuit
  <2>7. CASE CloseCircuit(c)
    <3>1. PICK closing \in Closings :
            \/ /\ At(c, closing.flag) /\ GuardGoto(c, closing.failures)
               /\ isOpen' = FALSE /\ quiet' = FALSE /\ late' = {} /\ cooled' = cooled
            \/ /\ \/ At(c, closing.failures) /\ GuardGoto(c, closing.successes)
                  \/ At(c, closing.successes) /\ GuardGoto(c, closing.after)
               /\ UNCHANGED <<isOpen, cooled, quiet, late>>
      BY <2>7 DEF CloseCircuit, ghosts
    <3>2. CASE UNCHANGED <<isOpen, cooled, quiet, late>>
      BY <3>1, <3>2, AsideKeeps, ClosingSteps DEF Aside
    <3>3. CASE isOpen' = FALSE /\ quiet' = FALSE /\ late' = {} /\ cooled' = cooled
      <4>1. step' \in [Callers -> Steps]
        BY <3>1, ClosingSteps DEF RefusalInv, GuardGoto
      <4> QED
        BY <3>3, <4>1 DEF RefusalInv
    <3> QED
      BY <3>1, <3>2, <3>3
  <2>8. CASE Release(c)
    <3>1. \E to \in Steps : step' = [step EXCEPT ![c] = to] /\ (to # "uncount" => c \notin late)
      BY <2>8 DEF Release, GuardGoto, RefusalInv
    <3>2. UNCHANGED <<isOpen, cooled, quiet>> /\ late' = late \ {c}
      BY <2>8 DEF Release, RefusalInv
    <3> QED
      BY <3>1, <3>2 DEF RefusalInv
  <2> QED
    BY <1>1, <2>1, <2>2, <2>3, <2>4, <2>5, <2>6, <2>7, <2>8 DEF CallStep
<1>2. CASE TimePasses
  BY <1>2 DEF TimePasses, RefusalInv
<1>3. CASE DependencyChanges
  BY <1>3 DEF DependencyChanges, RefusalInv
<1>4. CASE UNCHANGED guardVars
  BY <1>4 DEF guardVars, RefusalInv
<1> QED
  BY <1>1, <1>2, <1>3, <1>4 DEF GuardNext

\* A request that asks after the breaker has opened does not reach the
\* dependency before the timeout passes or an admitted call closes it.
THEOREM RefusedWhileOpenHolds == GuardSpec => []RefusedWhileOpen
<1>1. RefusalInv => RefusedWhileOpen
  BY DEF RefusalInv, RefusedWhileOpen
<1> QED
  BY <1>1, InitRefusal, NextRefusal, PTL DEF GuardSpec

-----------------------------------------------------------------------------
(* The saldo cache: every delete that was made for a change, by either      *)
(* path, found no entry older than the change, or removed it, or spared it  *)
(* on record; so did every delete that an entry stored late comes after.    *)

CacheTypes ==
    /\ made \in 0..MaxChanges
    /\ change \in [Changes -> {"none", "move", "update", "refill", "trash", "restore", "purge"}]
    /\ handler \in [Changes -> {"none", "id", "card", "outbox", "gateway", "done", "died"}]
    /\ event \in [Changes -> {"none", "stored", "sent", "half", "consumed"}]
    /\ entry \in [CacheKeys -> [seen : Int, spared : SUBSET (Int \X {"handler", "event", "resolver"})]]
    /\ query \in [Queries -> [key : CacheKeys, seen : Int] \union {NoQuery}]

\* A change that has not been made has no handler and no event.
ChangesBegin == \A c \in Changes : c > made => handler[c] = "none" /\ event[c] = "none"

SparedInv ==
    \A c \in Changes, k \in CacheKeys :
        change[c] \in {"move", "update"} /\ Older(k, c) =>
            \A path \in Deleted(c, k) : <<c, path>> \in entry[k].spared

CacheInv == CacheTypes /\ ChangesBegin /\ SparedInv

\* An entry goes or stays what it is, with what it is spared added.
Keeps(k) ==
    \/ entry'[k] = NoEntry
    \/ /\ entry[k] # NoEntry
       /\ entry'[k].seen = entry[k].seen
       /\ entry[k].spared \subseteq entry'[k].spared

\* The delete for change c by a path is answered for at key k.
Answered(c, k, path) ==
    \/ entry'[k] = NoEntry
    \/ entry'[k].seen >= c
    \/ <<c, path>> \in entry'[k].spared

\* Such steps keep the invariant if every delete they complete is answered for.
LEMMA SparedStays ==
    ASSUME CacheTypes, SparedInv, CacheTypes', UNCHANGED tableVars,
           \A k \in CacheKeys : Keeps(k),
           \A c \in Changes, k \in CacheKeys : \A path \in Deleted(c, k)' :
               path \in Deleted(c, k) \/ Answered(c, k, path)
    PROVE  SparedInv'
<1> SUFFICES ASSUME NEW c \in Changes, NEW k \in CacheKeys,
                    change'[c] \in {"move", "update"}, Older(k, c)',
                    NEW path \in Deleted(c, k)'
             PROVE  <<c, path>> \in entry'[k].spared
  BY DEF SparedInv
<1>1. /\ change[c] \in {"move", "update"} /\ c <= made
      /\ entry'[k] # NoEntry /\ entry'[k].seen < c
  BY DEF tableVars, Older
<1>2. Keeps(k)
  OBVIOUS
<1>3. entry[k] # NoEntry /\ entry[k].seen = entry'[k].seen /\ entry[k].spared \subseteq entry'[k].spared
  BY <1>1, <1>2 DEF Keeps
<1>4. CASE path \in Deleted(c, k)
  BY <1>1, <1>3, <1>4 DEF SparedInv, Older
<1>5. CASE Answered(c, k, path)
  <2>1. entry'[k].seen \in Int /\ c \in Int
    BY DEF CacheTypes, Changes
  <2> QED
    BY <1>1, <1>5, <2>1 DEF Answered
<1> QED
  BY <1>4, <1>5

\* What a delete does to the entries.
LEMMA DeleteEffect ==
    ASSUME CacheTypes, NEW c \in Changes, NEW key \in CacheKeys,
           NEW path \in {"handler", "event", "resolver"}, DeleteFromCache(c, key, path)
    PROVE  /\ entry' \in [CacheKeys -> [seen : Int, spared : SUBSET (Int \X {"handler", "event", "resolver"})]]
           /\ \A k \in CacheKeys : Keeps(k)
           /\ Answered(c, key, path)
<1> DEFINE Entries == [seen : Int, spared : SUBSET (Int \X {"handler", "event", "resolver"})]
<1>1. entry \in [CacheKeys -> Entries] /\ c \in Int
  BY DEF CacheTypes, Changes
<1>2. CASE entry' = [entry EXCEPT ![key] = NoEntry]
  <2>1. NoEntry \in Entries
    BY DEF NoEntry
  <2> QED
    BY <1>1, <1>2, <2>1 DEF Keeps, Answered
<1>3. CASE entry[key] # NoEntry /\ entry' # [entry EXCEPT ![key] = NoEntry]
  <2> DEFINE spared == IF entry[key].seen < c THEN {<<c, path>>} ELSE {}
             new == [seen |-> entry[key].seen, spared |-> entry[key].spared \union spared]
  <2>1. entry' = [entry EXCEPT ![key] = new]
    BY <1>3 DEF DeleteFromCache
  <2>2. spared \subseteq Int \X {"handler", "event", "resolver"}
    BY <1>1
  <2>3. /\ new \in Entries /\ new.seen = entry[key].seen
        /\ new.spared = entry[key].spared \union spared
    <3>1. entry[key] \in Entries
      BY <1>1
    <3> QED
      BY <3>1, <2>2
  <2>4. new.seen >= c \/ <<c, path>> \in new.spared
    BY <1>1, <2>3
  <2> HIDE DEF new
  <2> QED
    BY <1>1, <1>3, <2>1, <2>3, <2>4 DEF Keeps, Answered
<1> QED
  BY <1>2, <1>3 DEF DeleteFromCache

\* Nothing is cached and no change is made.
LEMMA InitCache == CacheInit => CacheInv
BY CacheAssumption DEF CacheInit, CacheInv, CacheTypes, ChangesBegin, SparedInv, Older, CacheKeys,
   Changes, NoEntry, NoQuery

\* A change begins with no delete made for it.
LEMMA CommitKeeps ==
    ASSUME CacheInv, NEW what \in {"move", "update", "refill", "trash", "restore", "purge"},
           NEW to, NEW first \in {"id", "gateway", "done"}, Commit(what, to, first),
           what \in {"move", "update"} => first = "id"
    PROVE  CacheInv'
<1>1. /\ made + 1 \in Changes /\ made' = made + 1 /\ made \in 0..MaxChanges
      /\ change' = [change EXCEPT ![made + 1] = what]
      /\ handler' = [handler EXCEPT ![made + 1] = first]
      /\ event' = event /\ entry' = entry /\ query' = query
  BY CacheAssumption DEF Commit, CacheInv, CacheTypes, Changes
<1>2. CacheTypes'
  BY <1>1, CacheAssumption DEF CacheInv, CacheTypes, Changes
<1>3. ChangesBegin'
  BY <1>1 DEF CacheInv, CacheTypes, ChangesBegin, Changes
<1>4. ASSUME NEW c \in Changes, NEW k \in CacheKeys,
             change'[c] \in {"move", "update"}, Older(k, c)', NEW path \in Deleted(c, k)'
      PROVE  <<c, path>> \in entry'[k].spared
  <2>1. CASE c = made + 1
    <3>1. handler'[c] = "id" /\ event'[c] = "none"
      BY <1>1, <1>4, <2>1 DEF CacheInv, CacheTypes, ChangesBegin, Changes
    <3> QED
      BY <1>4, <3>1 DEF Deleted
  <2>2. CASE c # made + 1
    <3>1. change[c] \in {"move", "update"} /\ handler'[c] = handler[c] /\ event'[c] = event[c]
      BY <1>1, <1>4, <2>2 DEF CacheInv, CacheTypes
    <3>2. Older(k, c)
      BY <1>1, <1>4, <2>2 DEF Older, Changes
    <3>3. Deleted(c, k)' = Deleted(c, k)
      BY <3>1 DEF Deleted
    <3> QED
      BY <1>1, <1>4, <3>1, <3>2, <3>3 DEF CacheInv, SparedInv
  <2> QED
    BY <2>1, <2>2
<1> QED
  BY <1>2, <1>3, <1>4 DEF CacheInv, SparedInv

\* A delete of a handler, a resolver or the consumer, with the step its owner
\* takes: it counts as a delete of c at that key by that path, and no other.
LEMMA DeleteKeeps ==
    ASSUME CacheInv, UNCHANGED <<tableVars, query>>,
           NEW c \in Changes, NEW key \in CacheKeys,
           NEW path \in {"handler", "event", "resolver"}, DeleteFromCache(c, key, path),
           handler' \in [Changes -> {"none", "id", "card", "outbox", "gateway", "done", "died"}],
           event' \in [Changes -> {"none", "stored", "sent", "half", "consumed"}],
           ChangesBegin',
           \A d \in Changes, k \in CacheKeys : \A p \in Deleted(d, k)' :
               p \in Deleted(d, k) \/ (d = c /\ k = key /\ p = path)
    PROVE  CacheInv'
<1>1. CacheTypes'
  BY DeleteEffect DEF CacheInv, CacheTypes, tableVars
<1>2. \A k \in CacheKeys : Keeps(k)
  BY DeleteEffect DEF CacheInv
<1>3. Answered(c, key, path)
  BY DeleteEffect DEF CacheInv
<1>4. SparedInv'
  BY <1>1, <1>2, <1>3, SparedStays DEF CacheInv
<1> QED
  BY <1>1, <1>4 DEF CacheInv

\* A step that leaves the entries, or expires one, and makes no delete.
LEMMA NoDeleteKeeps ==
    ASSUME CacheInv, UNCHANGED tableVars, CacheTypes', ChangesBegin',
           \A k \in CacheKeys : entry'[k] \in {entry[k], NoEntry},
           \A d \in Changes, k \in CacheKeys : Deleted(d, k)' \subseteq Deleted(d, k)
    PROVE  CacheInv'
<1>1. \A k \in CacheKeys : Keeps(k)
  BY DEF Keeps
<1> QED
  BY <1>1, SparedStays DEF CacheInv

\* The queries: an entry stored late answers for the deletes it comes after.
LEMMA StoreKeeps ==
    ASSUME CacheInv, NEW q \in Queries, Store(q)
    PROVE  CacheInv'
<1> DEFINE key == query[q].key
           seen == query[q].seen
           spared == DeletedSince(key, seen)
<1>1. key \in CacheKeys /\ seen \in Int
  BY DEF Store, CacheInv, CacheTypes
<1>2. /\ entry' = [entry EXCEPT ![key] = [seen |-> seen, spared |-> spared]]
      /\ query' = [query EXCEPT ![q] = NoQuery] /\ UNCHANGED <<tableVars, handler, event>>
  BY DEF Store
<1>3. ASSUME NEW c \in Changes, NEW k \in CacheKeys PROVE Deleted(c, k)' = Deleted(c, k)
  BY <1>2 DEF Deleted
<1>4. spared \subseteq Int \X {"handler", "event", "resolver"}
  <2>1. \A c \in (seen + 1)..made : c \in Int /\ Deleted(c, key) \subseteq {"handler", "event"}
    BY DEF Deleted
  <2> QED
    BY <2>1 DEF DeletedSince
<1>5. ASSUME NEW c \in Changes, seen < c, c <= made, NEW path \in Deleted(c, key)
      PROVE  <<c, path>> \in spared
  <2>1. c \in (seen + 1)..made
    BY <1>1, <1>5 DEF CacheInv, CacheTypes, Changes
  <2> QED
    BY <1>5, <2>1 DEF DeletedSince
<1>6. CacheTypes'
  BY <1>1, <1>2, <1>4 DEF CacheInv, CacheTypes, tableVars
<1>7. ChangesBegin'
  BY <1>2 DEF CacheInv, ChangesBegin, tableVars
<1>8. SparedInv'
  <2> SUFFICES ASSUME NEW c \in Changes, NEW k \in CacheKeys,
                      change'[c] \in {"move", "update"}, Older(k, c)', NEW path \in Deleted(c, k)'
               PROVE  <<c, path>> \in entry'[k].spared
    BY DEF SparedInv
  <2>1. path \in Deleted(c, k) /\ change[c] \in {"move", "update"} /\ c <= made
    BY <1>2, <1>3 DEF Older, tableVars
  <2>2. CASE k = key
    <3>1. entry'[k].seen = seen /\ entry'[k].spared = spared
      BY <1>1, <1>2, <2>2 DEF CacheInv, CacheTypes
    <3> QED
      BY <1>5, <2>1, <2>2, <3>1 DEF Older
  <2>3. CASE k # key
    <3>1. entry'[k] = entry[k] /\ Older(k, c)
      BY <1>1, <1>2, <2>3 DEF CacheInv, CacheTypes, Older, tableVars
    <3> QED
      BY <2>1, <3>1 DEF CacheInv, SparedInv
  <2> QED
    BY <2>2, <2>3
<1> QED
  BY <1>6, <1>7, <1>8 DEF CacheInv

\* A read, or a store that fails, touches no entry.
LEMMA QueryKeeps ==
    ASSUME CacheInv, NEW q \in Queries, StoreFails(q) \/ \E k \in CacheKeys : Read(q, k)
    PROVE  CacheInv'
<1>1. /\ UNCHANGED <<tableVars, handler, event, entry>>
      /\ query' \in [Queries -> [key : CacheKeys, seen : Int] \union {NoQuery}]
  BY DEF StoreFails, Read, CacheInv, CacheTypes
<1>2. CacheTypes' /\ ChangesBegin'
  BY <1>1 DEF CacheInv, CacheTypes, ChangesBegin, tableVars
<1>3. \A d \in Changes, k \in CacheKeys : Deleted(d, k)' = Deleted(d, k)
  BY <1>1 DEF Deleted
<1> QED
  BY <1>1, <1>2, <1>3, NoDeleteKeeps

\* An entry that expires is no entry, and no entry is stale.
LEMMA ExpiryKeeps ==
    ASSUME CacheInv, NEW key \in CacheKeys, ExpireEntry(key)
    PROVE  CacheInv'
<1>1. /\ UNCHANGED <<tableVars, handler, event, query>>
      /\ entry' = [entry EXCEPT ![key] = NoEntry]
  BY DEF ExpireEntry
<1>2. NoEntry \in [seen : Int, spared : SUBSET (Int \X {"handler", "event", "resolver"})]
  BY DEF NoEntry
<1>3. CacheTypes' /\ ChangesBegin'
  BY <1>1, <1>2 DEF CacheInv, CacheTypes, ChangesBegin, tableVars
<1>4. \A d \in Changes, k \in CacheKeys : Deleted(d, k)' = Deleted(d, k)
  BY <1>1 DEF Deleted
<1>5. \A k \in CacheKeys : entry'[k] \in {entry[k], NoEntry}
  BY <1>1 DEF CacheInv, CacheTypes
<1> QED
  BY <1>1, <1>3, <1>4, <1>5, NoDeleteKeeps

\* The owners of a change: its handler, its resolver and the consumer.
LEMMA OwnersKeep ==
    ASSUME CacheInv, NEW c \in Changes,
           \/ DeleteSaldoCache(c) \/ DeleteSaldoCacheByCardNumber(c) \/ EnqueueSaldoChanged(c)
           \/ GatewayDelete(c) \/ HandlerDies(c)
           \/ PublishSaldoChanged(c) \/ InvalidateCard(c) \/ InvalidateId(c) \/ Redeliver(c)
    PROVE  CacheInv'
<1> DEFINE HandlerTo(s) == handler' = [handler EXCEPT ![c] = s] /\ event' = event
           EventTo(s) == event' = [event EXCEPT ![c] = s] /\ handler' = handler
           Handlers == {"none", "id", "card", "outbox", "gateway", "done", "died"}
           EventStages == {"none", "stored", "sent", "half", "consumed"}
<1>0. /\ handler \in [Changes -> Handlers] /\ event \in [Changes -> EventStages]
      /\ ChangesBegin /\ CacheTypes
  BY DEF CacheInv, CacheTypes
<1>1. CASE DeleteSaldoCache(c)
  <2>1. /\ handler[c] = "id" /\ HandlerTo("card") /\ DeleteFromCache(c, "id", "handler")
        /\ UNCHANGED <<tableVars, query>>
    BY <1>1 DEF DeleteSaldoCache
  <2>2. /\ handler' \in [Changes -> Handlers] /\ event' \in [Changes -> EventStages] /\ ChangesBegin'
    BY <1>0, <2>1 DEF ChangesBegin, tableVars
  <2>3. \A d \in Changes, k \in CacheKeys : \A p \in Deleted(d, k)' :
          p \in Deleted(d, k) \/ (d = c /\ k = "id" /\ p = "handler")
    BY <1>0, <2>1 DEF Deleted, CacheKeys
  <2> QED
    BY <2>1, <2>2, <2>3, DeleteKeeps DEF CacheKeys
<1>2. CASE DeleteSaldoCacheByCardNumber(c)
  <2>1. /\ handler[c] = "card" /\ HandlerTo("outbox") /\ DeleteFromCache(c, "card", "handler")
        /\ UNCHANGED <<tableVars, query>>
    BY <1>2 DEF DeleteSaldoCacheByCardNumber
  <2>2. /\ handler' \in [Changes -> Handlers] /\ event' \in [Changes -> EventStages] /\ ChangesBegin'
    BY <1>0, <2>1 DEF ChangesBegin, tableVars
  <2>3. \A d \in Changes, k \in CacheKeys : \A p \in Deleted(d, k)' :
          p \in Deleted(d, k) \/ (d = c /\ k = "card" /\ p = "handler")
    BY <1>0, <2>1 DEF Deleted, CacheKeys
  <2> QED
    BY <2>1, <2>2, <2>3, DeleteKeeps DEF CacheKeys
<1>3. CASE EnqueueSaldoChanged(c)
  <2>1. /\ handler[c] = "outbox"
        /\ handler' = [handler EXCEPT ![c] = IF change[c] = "update" THEN "gateway" ELSE "done"]
        /\ event' \in {event, [event EXCEPT ![c] = "stored"]}
        /\ UNCHANGED <<tableVars, entry, query>>
    BY <1>3 DEF EnqueueSaldoChanged
  <2>2. CacheTypes' /\ ChangesBegin'
    BY <1>0, <2>1 DEF CacheTypes, ChangesBegin, tableVars
  <2>3. \A d \in Changes, k \in CacheKeys : Deleted(d, k)' \subseteq Deleted(d, k)
    BY <1>0, <2>1 DEF Deleted, CacheKeys
  <2> QED
    BY <2>1, <2>2, <2>3, NoDeleteKeeps
<1>4. CASE GatewayDelete(c)
  <2>1. /\ handler[c] = "gateway" /\ HandlerTo("done") /\ DeleteFromCache(c, "id", "resolver")
        /\ UNCHANGED <<tableVars, query>>
    BY <1>4 DEF GatewayDelete
  <2>2. /\ handler' \in [Changes -> Handlers] /\ event' \in [Changes -> EventStages] /\ ChangesBegin'
    BY <1>0, <2>1 DEF ChangesBegin, tableVars
  <2>3. \A d \in Changes, k \in CacheKeys : \A p \in Deleted(d, k)' : p \in Deleted(d, k)
    BY <1>0, <2>1 DEF Deleted, CacheKeys
  <2> QED
    BY <2>1, <2>2, <2>3, DeleteKeeps DEF CacheKeys
<1>5. CASE HandlerDies(c)
  <2>1. handler[c] # "none" /\ HandlerTo("died") /\ UNCHANGED <<tableVars, entry, query>>
    BY <1>5 DEF HandlerDies
  <2>2. CacheTypes' /\ ChangesBegin'
    BY <1>0, <2>1 DEF CacheTypes, ChangesBegin, tableVars
  <2>3. \A d \in Changes, k \in CacheKeys : Deleted(d, k)' \subseteq Deleted(d, k)
    BY <1>0, <2>1 DEF Deleted, CacheKeys
  <2> QED
    BY <2>1, <2>2, <2>3, NoDeleteKeeps
<1>6. CASE PublishSaldoChanged(c) \/ Redeliver(c)
  <2>1. event[c] # "none" /\ EventTo("sent") /\ UNCHANGED <<tableVars, entry, query>>
    BY <1>6 DEF PublishSaldoChanged, Redeliver
  <2>2. CacheTypes' /\ ChangesBegin'
    BY <1>0, <2>1 DEF CacheTypes, ChangesBegin, tableVars
  <2>3. \A d \in Changes, k \in CacheKeys : Deleted(d, k)' \subseteq Deleted(d, k)
    BY <1>0, <2>1 DEF Deleted, CacheKeys
  <2> QED
    BY <2>1, <2>2, <2>3, NoDeleteKeeps
<1>7. CASE InvalidateCard(c)
  <2>1. /\ event[c] = "sent" /\ EventTo("half") /\ DeleteFromCache(c, "card", "event")
        /\ UNCHANGED <<tableVars, query>>
    BY <1>7 DEF InvalidateCard
  <2>2. /\ handler' \in [Changes -> Handlers] /\ event' \in [Changes -> EventStages] /\ ChangesBegin'
    BY <1>0, <2>1 DEF ChangesBegin, tableVars
  <2>3. \A d \in Changes, k \in CacheKeys : \A p \in Deleted(d, k)' :
          p \in Deleted(d, k) \/ (d = c /\ k = "card" /\ p = "event")
    BY <1>0, <2>1 DEF Deleted, CacheKeys
  <2> QED
    BY <2>1, <2>2, <2>3, DeleteKeeps DEF CacheKeys
<1>8. CASE InvalidateId(c)
  <2>1. /\ event[c] = "half" /\ EventTo("consumed") /\ DeleteFromCache(c, "id", "event")
        /\ UNCHANGED <<tableVars, query>>
    BY <1>8 DEF InvalidateId
  <2>2. /\ handler' \in [Changes -> Handlers] /\ event' \in [Changes -> EventStages] /\ ChangesBegin'
    BY <1>0, <2>1 DEF ChangesBegin, tableVars
  <2>3. \A d \in Changes, k \in CacheKeys : \A p \in Deleted(d, k)' :
          p \in Deleted(d, k) \/ (d = c /\ k = "id" /\ p = "event")
    BY <1>0, <2>1 DEF Deleted, CacheKeys
  <2> QED
    BY <2>1, <2>2, <2>3, DeleteKeeps DEF CacheKeys
<1> QED
  BY <1>1, <1>2, <1>3, <1>4, <1>5, <1>6, <1>7, <1>8

\* Every step of a change, a query, an event or Redis keeps the invariant.
LEMMA NextCache == CacheInv /\ [CacheNext]_cacheVars => CacheInv'
<1> SUFFICES ASSUME CacheInv, [CacheNext]_cacheVars PROVE CacheInv'
  OBVIOUS
<1>1. ASSUME NEW q \in Queries, Store(q) \/ StoreFails(q) \/ \E k \in CacheKeys : Read(q, k)
      PROVE  CacheInv'
  BY <1>1, StoreKeeps, QueryKeeps
<1>2. ASSUME NEW k \in CacheKeys, ExpireEntry(k) PROVE CacheInv'
  BY <1>2, ExpiryKeeps
<1>3. ASSUME NEW what \in {"move", "update"}, Move(what) PROVE CacheInv'
  BY <1>3, CommitKeeps DEF Move
<1>4. CASE Refill \/ Trash \/ Restore \/ RestoreAll \/ DeletePermanent \/ DeleteAllPermanent
  BY <1>4, CommitKeeps DEF Refill, Trash, Restore, RestoreAll, DeletePermanent, DeleteAllPermanent
<1>5. ASSUME NEW c \in Changes,
             \/ DeleteSaldoCache(c) \/ DeleteSaldoCacheByCardNumber(c) \/ EnqueueSaldoChanged(c)
             \/ GatewayDelete(c) \/ HandlerDies(c)
             \/ PublishSaldoChanged(c) \/ InvalidateCard(c) \/ InvalidateId(c) \/ Redeliver(c)
      PROVE  CacheInv'
  BY <1>5, OwnersKeep
<1>6. CASE UNCHANGED cacheVars
  BY <1>6 DEF cacheVars, CacheInv, CacheTypes, ChangesBegin, SparedInv, Older, Deleted
<1> QED
  BY <1>1, <1>2, <1>3, <1>4, <1>5, <1>6 DEF CacheNext

\* After the deletes of a money movement no older entry is left under either
\* key, but one stored later or one that Redis would not delete.
THEOREM DeletedUnlessSparedHolds == CacheSpec => []DeletedUnlessSpared
<1>1. CacheInv => DeletedUnlessSpared
  <2> SUFFICES ASSUME CacheInv, NEW c \in Changes, NEW k \in CacheKeys,
                      change[c] \in {"move", "update"} /\ Older(k, c)
               PROVE  /\ handler[c] \in {"gateway", "done"} => <<c, "handler">> \in entry[k].spared
                      /\ event[c] = "consumed" => <<c, "event">> \in entry[k].spared
    BY DEF DeletedUnlessSpared
  <2>1. handler[c] \in {"gateway", "done"} => "handler" \in Deleted(c, k)
    BY DEF Deleted, CacheKeys
  <2>2. event[c] = "consumed" => "event" \in Deleted(c, k)
    BY DEF Deleted, CacheKeys
  <2> QED
    BY <2>1, <2>2 DEF CacheInv, SparedInv
<1> QED
  BY <1>1, InitCache, NextCache, PTL DEF CacheSpec

=============================================================================
