---------------------------- MODULE MCDelivery ----------------------------
(***************************************************************************)
(* What lies between the services and shares no state: outbox publishers,  *)
(* the statistics writer, the dependency guard, the permission checks of   *)
(* the gateway and its saldo cache.  As in MCCommandServices the initial   *)
(* state chooses which one a behaviour is about.                           *)
(***************************************************************************)
EXTENDS OutboxPublisher, StatsWriter, DependencyGuard, PermissionCheck, SaldoCache

CONSTANTS
    o1, o2, r1, r2,         \* events and publishers
    g1, g2,                 \* callers of the guard
    q1, q2,                 \* askers
    u1                      \* a query of the saldo cache

VARIABLES topic

Topics == {"outbox", "statistics", "guard", "permissions", "cache"}

TwoEvents == {o1, o2}
OneRouted == {o1}
TwoPublishers == {r1, r2}
TwoCallers == {g1, g2}
TwoAskers == {q1, q2}
OneQuery == {u1}
AllFaults == {"redis", "crash", "outbox"}

deliveryVars == <<outboxVars, writerVars, guardVars, permVars, cacheVars, topic>>

DeliveryInit ==
    /\ topic \in Topics
    /\ OutboxInit /\ WriterInit /\ GuardInit /\ PermInit /\ CacheInit
    /\ topic = "guard" \/ maxConcurrent = 1
    /\ topic = "permissions" \/ kind = "role"

DeliveryNext ==
    /\ UNCHANGED topic
    /\ \/ topic = "outbox" /\ OutboxNext /\ UNCHANGED <<writerVars, guardVars, permVars, cacheVars>>
       \/ topic = "statistics" /\ WriterNext /\ UNCHANGED <<outboxVars, guardVars, permVars, cacheVars>>
       \/ topic = "guard" /\ GuardNext /\ UNCHANGED <<outboxVars, writerVars, permVars, cacheVars>>
       \/ topic = "permissions" /\ PermNext /\ UNCHANGED <<outboxVars, writerVars, guardVars, cacheVars>>
       \/ topic = "cache" /\ CacheNext /\ UNCHANGED <<outboxVars, writerVars, guardVars, permVars>>

\* The fairness of each module, where a behaviour is about it.
DeliveryFairness ==
    /\ OutboxFairness /\ WriterFairness /\ CacheFairness
    /\ \A c \in Callers : WF_guardVars(topic = "guard" /\ CallStep(c))
    /\ WF_guardVars(TimePasses)
    /\ \A a \in Askers : WF_permVars(topic = "permissions" /\ AskerStep(a))

DeliverySpec == DeliveryInit /\ [][DeliveryNext]_deliveryVars /\ DeliveryFairness

PermissionsSpec == DeliveryInit /\ topic = "permissions" /\ [][DeliveryNext]_deliveryVars
=============================================================================
