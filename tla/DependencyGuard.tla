-------------------------- MODULE DependencyGuard --------------------------
(***************************************************************************)
(* Calls of one dependency through DependencyGuard.Call: the bulkhead        *)
(* (RequestLimiter), the circuit breaker and the call, with every atomic     *)
(* load, add and store of the two a step of its own (src/pkg/resilience).    *)
(*                                                                         *)
(* Counters are compared with a limit only, so they are kept up to it.  The  *)
(* time of the last failure is kept as whether the timeout has passed since; *)
(* it is the zero time at first, which has.                                  *)
(***************************************************************************)
EXTENDS Integers, Sequences, FiniteSets

CONSTANTS
    Callers,
    Threshold,
    HalfOpenMaxRequests,
    MaxBulkhead             \* bound: the largest maxConcurrent tried

ASSUME GuardAssumption ==
    /\ Threshold \in Nat \ {0}
    /\ HalfOpenMaxRequests \in Nat \ {0}
    /\ MaxBulkhead \in Nat \ {0}

VARIABLES
    maxConcurrent,
    permits,                \* taken from the semaphore
    inFlight,               \* the limiter's counter
    isOpen,
    failureCount,
    successCount,
    cooled,                 \* the timeout has passed since lastFailureTime
    step,                   \* per caller: its next step
    reached,                \* per caller: the count it got was at its limit
    healthy,                \* the dependency answers
    quiet,                  \* ghost: opened, and neither closed nor cooled since
    late                    \* ghost: the callers that asked for admission after that

guardVars == <<maxConcurrent, permits, inFlight, isOpen, failureCount, successCount,
               cooled, step, reached, healthy, quiet, late>>
limiter == <<maxConcurrent, permits, inFlight>>
breaker == <<isOpen, failureCount, successCount, cooled>>
ghosts == <<quiet, late>>

UpTo(limit, n) == IF n > limit THEN limit ELSE n

GuardInit ==
    /\ maxConcurrent \in 1..MaxBulkhead
    /\ permits = 0 /\ inFlight = 0
    /\ isOpen = FALSE /\ failureCount = 0 /\ successCount = 0 /\ cooled = TRUE
    /\ step = [c \in Callers |-> "out"]
    /\ reached = [c \in Callers |-> FALSE]
    /\ healthy = TRUE
    /\ quiet = FALSE /\ late = {}

At(c, s) == step[c] = s
GuardGoto(c, s) == step' = [step EXCEPT ![c] = s]

TryAcquire(c) ==
    \/ /\ At(c, "out") /\ permits < maxConcurrent
       /\ permits' = permits + 1
       /\ GuardGoto(c, "count")
       /\ UNCHANGED <<maxConcurrent, inFlight, breaker, reached, healthy, ghosts>>
    \/ /\ At(c, "count")
       /\ inFlight' = inFlight + 1
       /\ GuardGoto(c, "ask")
       /\ late' = IF quiet THEN late \union {c} ELSE late
       /\ UNCHANGED <<maxConcurrent, permits, breaker, reached, healthy, quiet>>

\* Mutant: a refused call returns without giving its permit back.
MutRefuse(c) == GuardGoto(c, "out")

Refuse(c) == GuardGoto(c, "release")

\* Mutant: the dependency is never tried again.
MutHalfOpen(c) == Refuse(c)

\* Any number of calls is let through until enough have succeeded.
HalfOpen(c) == IF successCount < HalfOpenMaxRequests THEN GuardGoto(c, "call") ELSE GuardGoto(c, "close call")

ShouldAllowRequest(c) ==
    /\ \/ At(c, "ask") /\ GuardGoto(c, IF isOpen THEN "time" ELSE "call")
       \/ At(c, "time") /\ cooled /\ GuardGoto(c, "half open")
       \/ At(c, "time") /\ ~cooled /\ Refuse(c)
       \/ At(c, "half open") /\ HalfOpen(c)
    /\ UNCHANGED <<limiter, breaker, reached, healthy, ghosts>>

\* A business error is an answer like any other.
Call(c) ==
    /\ At(c, "call")
    /\ \/ GuardGoto(c, "success")
       \/ ~healthy /\ GuardGoto(c, "failure")
    /\ late' = late \ {c}
    /\ UNCHANGED <<limiter, breaker, reached, healthy, quiet>>

RecordSuccess(c) ==
    \/ /\ At(c, "success")
       /\ successCount' = UpTo(HalfOpenMaxRequests, successCount + 1)
       /\ reached' = [reached EXCEPT ![c] = successCount' = HalfOpenMaxRequests]
       /\ GuardGoto(c, "is open")
       /\ UNCHANGED <<limiter, isOpen, failureCount, cooled, healthy, ghosts>>
    \/ /\ At(c, "is open")
       /\ GuardGoto(c, IF isOpen /\ reached[c] THEN "close record" ELSE "no failures")
       /\ UNCHANGED <<limiter, breaker, reached, healthy, ghosts>>
    \/ /\ At(c, "no failures")
       /\ failureCount' = 0
       /\ GuardGoto(c, "release")
       /\ UNCHANGED <<limiter, isOpen, successCount, cooled, reached, healthy, ghosts>>

RecordFailure(c) ==
    \/ /\ At(c, "failure")
       /\ failureCount' = UpTo(Threshold, failureCount + 1)
       /\ GuardGoto(c, IF failureCount' = Threshold THEN "is closed" ELSE "release")
       /\ UNCHANGED <<limiter, isOpen, successCount, cooled, reached, healthy, ghosts>>
    \/ /\ At(c, "is closed")
       /\ GuardGoto(c, IF isOpen THEN "release" ELSE "open")
       /\ UNCHANGED <<limiter, breaker, reached, healthy, ghosts>>

\* Mutant: opening does not set the time of the failure.
MutStamp == UNCHANGED cooled

Stamp == cooled' = FALSE

OpenCircuit(c) ==
    \/ /\ At(c, "open")
       /\ isOpen' = TRUE
       /\ GuardGoto(c, "open count")
       /\ UNCHANGED <<limiter, failureCount, successCount, cooled, reached, healthy, ghosts>>
    \/ /\ At(c, "open count")
       /\ successCount' = 0
       /\ GuardGoto(c, "open time")
       /\ UNCHANGED <<limiter, isOpen, failureCount, cooled, reached, healthy, ghosts>>
    \/ /\ At(c, "open time")
       /\ Stamp
       /\ quiet' = isOpen
       /\ GuardGoto(c, "release")
       /\ UNCHANGED <<limiter, isOpen, failureCount, successCount, reached, healthy, late>>

\* Closing: its steps from the admission of a call and from the record of its
\* success, and the step that follows each.
Closings ==
    {[flag |-> "close call", failures |-> "close failures call",
      successes |-> "close successes call", after |-> "call"],
     [flag |-> "close record", failures |-> "close failures record",
      successes |-> "close successes record", after |-> "no failures"]}

CloseCircuit(c) ==
    \/ \E closing \in Closings :
        /\ At(c, closing.flag)
        /\ isOpen' = FALSE
        /\ quiet' = FALSE /\ late' = {}
        /\ GuardGoto(c, closing.failures)
        /\ UNCHANGED <<limiter, failureCount, successCount, cooled, reached, healthy>>
    \/ \E closing \in Closings :
        /\ At(c, closing.failures)
        /\ failureCount' = 0
        /\ GuardGoto(c, closing.successes)
        /\ UNCHANGED <<limiter, isOpen, successCount, cooled, reached, healthy, ghosts>>
    \/ \E closing \in Closings :
        /\ At(c, closing.successes)
        /\ successCount' = 0
        /\ GuardGoto(c, closing.after)
        /\ UNCHANGED <<limiter, isOpen, failureCount, cooled, reached, healthy, ghosts>>

\* A counter below zero would be reported and set to zero.
Release(c) ==
    \/ /\ At(c, "release")
       /\ permits' = permits - 1
       /\ GuardGoto(c, "uncount")
       /\ late' = late \ {c}
       /\ UNCHANGED <<maxConcurrent, inFlight, breaker, reached, healthy, quiet>>
    \/ /\ At(c, "uncount")
       /\ inFlight' = inFlight - 1
       /\ reached' = [reached EXCEPT ![c] = FALSE]
       /\ GuardGoto(c, "out")
       /\ UNCHANGED <<maxConcurrent, permits, breaker, healthy, ghosts>>

CallStep(c) ==
    \/ TryAcquire(c) \/ ShouldAllowRequest(c) \/ Call(c)
    \/ RecordSuccess(c) \/ RecordFailure(c)
    \/ OpenCircuit(c) \/ CloseCircuit(c) \/ Release(c)

TimePasses ==
    /\ ~cooled
    /\ cooled' = TRUE
    /\ quiet' = FALSE /\ late' = {}
    /\ UNCHANGED <<limiter, isOpen, failureCount, successCount, step, reached, healthy>>

DependencyChanges ==
    /\ healthy' = ~healthy
    /\ UNCHANGED <<limiter, breaker, step, reached, ghosts>>

GuardNext == (\E c \in Callers : CallStep(c)) \/ TimePasses \/ DependencyChanges

\* Goroutines are scheduled, requests keep coming and time passes.
GuardFairness ==
    /\ \A c \in Callers : WF_guardVars(CallStep(c))
    /\ WF_guardVars(TimePasses)

GuardSpec == GuardInit /\ [][GuardNext]_guardVars /\ GuardFairness

-----------------------------------------------------------------------------
\* Every way through a call gives its permit back, and the limiter's counter
\* trails the semaphore by the callers between the two and is never negative
\* ("Released more permits than were acquired" is never reported).
PermitsReturned ==
    /\ permits = Cardinality({c \in Callers : step[c] \notin {"out", "uncount"}})
    /\ inFlight = Cardinality({c \in Callers : step[c] \notin {"out", "count"}})
    /\ permits <= maxConcurrent

\* "failing fast": a request that asks after the breaker has been opened does
\* not reach the dependency before the timeout has passed or a call that was
\* already admitted closes it, however the atomic writes of others interleave.
RefusedWhileOpen == \A c \in late : step[c] # "call"

\* A dependency that recovers is used again: if it answers from some time on,
\* the breaker is closed from some time on, though failures of calls still under
\* way, stale successes and half-written openings go into its counters.
BreakerCloses == <>[]healthy => <>[]~isOpen
=============================================================================
