---------------------------- MODULE StatsWriter ----------------------------
(***************************************************************************)
(* The statistics writer on one partition of one topic: the consumer group  *)
(* handler that appends events to a ClickHouse batch, the loop that flushes *)
(* the batch, and the group's offsets (src/service/stats-writer,            *)
(* src/pkg/kafka).                                                          *)
(*                                                                         *)
(* The outbox publishes payloads without an envelope, so the handler's      *)
(* deduplication by event id never applies and is left out.                 *)
(***************************************************************************)
EXTENDS Integers, Sequences, SequencesExt

CONSTANTS
    Messages,       \* the partition holds the offsets 1..Messages
    RowsPerBatch,
    MaxRetries,     \* consecutive errors after which a consumer stops
    MaxSessions     \* bound: sessions and processes after the first

ASSUME WriterAssumption ==
    Messages \in Nat /\ RowsPerBatch \in Nat \ {0} /\ MaxRetries \in Nat \ {0} /\ MaxSessions \in Nat

VARIABLES
    session,        \* "up", "between" two sessions, or "stopped" for ever
    retries,
    next,           \* the offset delivered next
    marked,         \* the session's mark: the offset after the last marked one
    committed,      \* the group's offset
    batch,          \* the offsets of the rows not yet sent to ClickHouse
    stored,         \* the offsets with a row in ClickHouse
    lost,           \* ghost: the offsets with a row lost, for one of three reasons
    flusher,        \* the flush loop: "running" or "stopped"; "exiting" on shutdown
    sessions        \* sessions and processes begun so far

writerVars == <<session, retries, next, marked, committed, batch, stored, lost, flusher, sessions>>
group == <<session, retries, sessions>>
offsets == <<next, marked, committed>>

WriterInit ==
    /\ session = "up" /\ retries = 0 /\ sessions = 0
    /\ next = 1 /\ marked = 1 /\ committed = 1
    /\ batch = <<>> /\ stored = {} /\ lost = {}
    /\ flusher = "running"

\* Mutant: the batch is emptied and never sent.
MutSend(rows, ok) == batch' = <<>> /\ UNCHANGED <<stored, lost>>

\* ClickHouse takes the rows or fails; they leave the batch either way.
Send(rows, ok) ==
    /\ batch' = <<>>
    /\ stored' = IF ok THEN stored \union ToSet(rows) ELSE stored
    /\ lost' = IF ok THEN lost ELSE lost \union ToSet(rows)

\* An empty batch has nothing to fail.
Flush(ok) == (batch # <<>> \/ ok) /\ Send(batch, ok)

MarkMessage(o) == marked' = IF o >= marked THEN o + 1 ELSE marked

Delivered == session = "up" /\ next <= Messages

\* A malformed event, or one ClickHouse has no batch for, is logged and passed
\* over: not marked, but the next mark acknowledges it.
PassOver ==
    /\ Delivered
    /\ lost' = lost \union {next}
    /\ next' = next + 1
    /\ UNCHANGED <<group, marked, committed, batch, stored, flusher>>

AppendToBatch ==
    /\ Delivered
    /\ LET full == Append(batch, next) IN
       \/ /\ Len(full) < RowsPerBatch
          /\ batch' = full /\ MarkMessage(next)
          /\ UNCHANGED <<stored, lost>>
       \/ /\ Len(full) >= RowsPerBatch
          /\ \E ok \in BOOLEAN :
                Send(full, ok) /\ IF ok THEN MarkMessage(next) ELSE UNCHANGED marked
    /\ next' = next + 1
    /\ UNCHANGED <<group, committed, flusher>>

\* Mutant: the loop sends full batches only.
MutFlushTick ==
    /\ flusher = "running" /\ Len(batch) >= RowsPerBatch
    /\ \E ok \in BOOLEAN : Flush(ok)
    /\ UNCHANGED <<group, offsets, flusher>>

FlushTick ==
    /\ flusher = "running" /\ batch # <<>>
    /\ \E ok \in BOOLEAN : Flush(ok)
    /\ UNCHANGED <<group, offsets, flusher>>

\* The group's offset follows the mark, once a second.
AutoCommit ==
    /\ session = "up" /\ committed # marked
    /\ committed' = marked
    /\ UNCHANGED <<group, next, marked, batch, stored, lost, flusher>>

\* StartConsumers: an error is counted and the consumer stops at the limit.
ConsumeFailed ==
    /\ retries' = retries + 1
    /\ session' = IF retries' >= MaxRetries THEN "stopped" ELSE "between"

ConsumeReturned == retries' = 0 /\ session' = "between"

\* The offset a new session starts from: the mark, if its last commit arrived.
Resume(o) == o \in {committed, marked} /\ committed' = o /\ marked' = o /\ next' = o

\* A rebalance ends the session; Cleanup closes the repository, which stops the
\* flush loop for ever and flushes.  Its error is the error of Consume.
Cleanup ==
    /\ session = "up" /\ sessions < MaxSessions
    /\ sessions' = sessions + 1
    /\ flusher' = IF flusher = "running" THEN "stopped" ELSE flusher
    /\ \E ok \in BOOLEAN : Flush(ok) /\ IF ok THEN ConsumeReturned ELSE ConsumeFailed
    /\ \E o \in {committed, marked} : Resume(o)

JoinGroup ==
    /\ session = "between"
    /\ \/ session' = "up" /\ UNCHANGED retries
       \/ ConsumeFailed
    /\ UNCHANGED <<offsets, batch, stored, lost, flusher, sessions>>

\* main closes the repository on a signal, beside the consumers, and returns.
Shutdown ==
    /\ flusher # "exiting" /\ sessions < MaxSessions
    /\ flusher' = "exiting"
    /\ \E ok \in BOOLEAN : Flush(ok)
    /\ UNCHANGED <<group, offsets>>

\* The process ends, with what it holds in memory, and a new one is started.
Restart ==
    /\ sessions < MaxSessions
    /\ sessions' = sessions + 1
    /\ lost' = lost \union ToSet(batch) /\ batch' = <<>>
    /\ session' = "between" /\ retries' = 0 /\ flusher' = "running"
    /\ Resume(committed)
    /\ UNCHANGED stored

WriterNext ==
    \/ PassOver \/ AppendToBatch \/ FlushTick \/ AutoCommit
    \/ Cleanup \/ JoinGroup \/ Shutdown \/ Restart

\* The ticker of the flush loop fires for ever.
WriterFairness == WF_writerVars(FlushTick)

WriterSpec == WriterInit /\ [][WriterNext]_writerVars /\ WriterFairness

-----------------------------------------------------------------------------
\* An acknowledged event is stored or waits in the batch, over rebalances,
\* redeliveries and restarts, unless its row was lost in one of three ways: it
\* was passed over, a send failed, or the process ended with it in the batch.
AckedMeansKept ==
    \A o \in 1..Messages : o < marked => o \in stored \union ToSet(batch) \union lost

\* "go r.flushLoop()": a row does not stay in the batch, however few follow, as
\* long as no rebalance or shutdown has closed the repository.
BatchLeaves ==
    \A o \in 1..Messages :
        o \in ToSet(batch) /\ flusher = "running" ~> o \notin ToSet(batch) \/ flusher \in {"stopped", "exiting"}
=============================================================================
