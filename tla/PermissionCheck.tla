-------------------------- MODULE PermissionCheck --------------------------
(***************************************************************************)
(* The gateway asks the role or merchant service over Kafka and waits for    *)
(* the answer: the callers, the map of response channels, the consumer that  *)
(* delivers answers to them, and the topics between (src/service/apigateway/ *)
(* internal/permission, src/service/role/kafka, src/service/merchant/kafka). *)
(*                                                                         *)
(* Both topics deliver at least once.  An answer is whether it says valid;   *)
(* the correlation id is the caller.                                       *)
(***************************************************************************)
EXTENDS Integers, FiniteSets

CONSTANTS
    Askers,         \* the calls of ValidateRole or ValidateMerchant
    MaxAnswers      \* bound: the answers to one request

VARIABLES
    kind,           \* "role" or "merchant": which of the two this is
    roleCache,      \* the roles of the user are cached
    asker,          \* per caller: where it is
    responseChans,  \* the callers whose channel is in the map
    closed,         \* the callers whose channel is closed
    buffer,         \* per caller: the answers in its channel, of capacity one
    requestTopic,   \* the requests not yet acknowledged
    answers,        \* per caller: the answers in the response topic
    answered,       \* per caller: how many answers were sent
    consumer        \* the response handler: what it holds between lookup and send

permVars == <<kind, roleCache, asker, responseChans, closed, buffer,
              requestTopic, answers, answered, consumer>>
topics == <<requestTopic, answers, answered>>
channels == <<responseChans, closed, buffer>>

Waiting == [at |-> "waiting"]
Found(a, valid) == [at |-> "found", to |-> a, valid |-> valid]
Panicked == [at |-> "panicked"]

PermInit ==
    /\ kind \in {"role", "merchant"}
    /\ roleCache = FALSE
    /\ asker = [a \in Askers |-> "idle"]
    /\ responseChans = {} /\ closed = {}
    /\ buffer = [a \in Askers |-> {}]
    /\ requestTopic = {}
    /\ answers = [a \in Askers |-> {}]
    /\ answered = [a \in Askers |-> 0]
    /\ consumer = Waiting

\* A panic of the handler's goroutine ends the gateway.
Alive == consumer # Panicked

\* What the caller returns, roles or an error, is not kept.
Returns(a) == asker' = [asker EXCEPT ![a] = "leaving"]

\* The roles of a user are answered from the cache, and no channel is made.
RoleCached(a) ==
    /\ Alive /\ asker[a] = "idle" /\ kind = "role" /\ roleCache
    /\ asker' = [asker EXCEPT ![a] = "returned"]
    /\ UNCHANGED <<kind, roleCache, channels, topics, consumer>>

CacheExpires ==
    /\ roleCache
    /\ roleCache' = FALSE
    /\ UNCHANGED <<kind, asker, channels, topics, consumer>>

Register(a) ==
    /\ Alive /\ asker[a] = "idle" /\ (kind = "role" => ~roleCache)
    /\ asker' = [asker EXCEPT ![a] = "registered"]
    /\ responseChans' = responseChans \union {a}
    /\ UNCHANGED <<kind, roleCache, closed, buffer, topics, consumer>>

\* A send that fails may have stored the request.
SendValidationRequest(a) ==
    /\ Alive /\ asker[a] = "registered"
    /\ \/ /\ asker' = [asker EXCEPT ![a] = "waiting"]
          /\ requestTopic' = requestTopic \union {a}
       \/ /\ Returns(a)
          /\ requestTopic' \in {requestTopic, requestTopic \union {a}}
    /\ UNCHANGED <<kind, roleCache, channels, answers, answered, consumer>>

\* The service answers and acknowledges; the acknowledgement may be lost.  When
\* the lookup fails the role service answers that no role was found and the
\* merchant service leaves the request to be delivered again.  The role service
\* acknowledges although its answer could not be sent.
Answer(a) ==
    /\ a \in requestTopic
    /\ requestTopic' \in {requestTopic, requestTopic \ {a}}
    /\ \/ /\ answered[a] < MaxAnswers
          /\ \E valid \in BOOLEAN : answers' = [answers EXCEPT ![a] = @ \union {valid}]
          /\ answered' = [answered EXCEPT ![a] = @ + 1]
       \/ /\ kind = "role"
          /\ UNCHANGED <<answers, answered>>
    /\ UNCHANGED <<kind, roleCache, asker, channels, consumer>>

\* The handler looks the channel up under the lock and gives the lock back.  The
\* answer may be delivered again: its mark is committed later.
LookUp(a) ==
    /\ consumer = Waiting
    /\ \E valid \in answers[a] :
        /\ answers' \in {answers, [answers EXCEPT ![a] = @ \ {valid}]}
        /\ consumer' = IF a \in responseChans THEN Found(a, valid) ELSE Waiting
    /\ UNCHANGED <<kind, roleCache, asker, channels, requestTopic, answered>>

\* It then sends.  A full channel makes the role handler drop the answer and
\* the merchant handler wait.  A send on a closed channel panics, in a select
\* with a default as well.
Deliver ==
    /\ consumer.at = "found"
    /\ LET a == consumer.to IN
       \/ /\ a \in closed
          /\ consumer' = Panicked /\ UNCHANGED buffer
       \/ /\ a \notin closed /\ buffer[a] = {}
          /\ buffer' = [buffer EXCEPT ![a] = {consumer.valid}]
          /\ consumer' = Waiting
       \/ /\ a \notin closed /\ buffer[a] # {} /\ kind = "role"
          /\ consumer' = Waiting /\ UNCHANGED buffer
    /\ UNCHANGED <<kind, roleCache, asker, responseChans, closed, topics>>

\* The roles are cached; a merchant's answer is returned as it is.
Receive(a) ==
    /\ Alive /\ asker[a] = "waiting"
    /\ Returns(a)
    /\ \E valid \in buffer[a] : roleCache' = (roleCache \/ (kind = "role" /\ valid))
    /\ buffer' = [buffer EXCEPT ![a] = {}]
    /\ UNCHANGED <<kind, responseChans, closed, topics, consumer>>

\* Mutant: the answer is awaited for ever.
MutTimeOut(a) == FALSE /\ UNCHANGED permVars

TimeOut(a) ==
    /\ Alive /\ asker[a] = "waiting"
    /\ Returns(a)
    /\ UNCHANGED <<kind, roleCache, channels, topics, consumer>>

\* The deferred function, under the lock.
Unregister(a) ==
    /\ Alive /\ asker[a] = "leaving"
    /\ asker' = [asker EXCEPT ![a] = "returned"]
    /\ responseChans' = responseChans \ {a}
    /\ closed' = closed \union {a}
    /\ UNCHANGED <<kind, roleCache, buffer, topics, consumer>>

AskerStep(a) ==
    \/ RoleCached(a) \/ Register(a) \/ SendValidationRequest(a)
    \/ Receive(a) \/ TimeOut(a) \/ Unregister(a)

PermNext ==
    \/ \E a \in Askers : AskerStep(a) \/ Answer(a) \/ LookUp(a)
    \/ Deliver \/ CacheExpires

\* The callers are scheduled and their timers fire; nothing is assumed of Kafka,
\* of the services or of the response handler.
PermFairness == \A a \in Askers : WF_permVars(AskerStep(a))

PermSpec == PermInit /\ [][PermNext]_permVars /\ PermFairness

-----------------------------------------------------------------------------
\* Every call that asks returns, though its request or answer is lost, delivered twice or
\* late, unless the gateway itself has ended.
CallersReturn == \A a \in Askers : asker[a] = "registered" ~> asker[a] = "returned" \/ ~Alive

\* "Response channel full or closed": an answer that comes when its caller has
\* given up is dropped, and the response handler goes on.
ClosedChannelTolerated == Alive
=============================================================================
