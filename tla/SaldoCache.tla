---------------------------- MODULE SaldoCache ----------------------------
(***************************************************************************)
(* One saldo in Redis: the entry under its id and the entry under its card *)
(* number, filled by the gateway's queries (saldo.resolvers.go), deleted by *)
(* the saldo service after a commit (enqueueSaldoChanged), once more by the *)
(* consumer of saldo.changed (cache_invalidator.go), and by the gateway's  *)
(* mutations.                                                              *)
(*                                                                         *)
(* Gateway and saldo service use the same keys in the same Redis.  What an *)
(* entry holds is the number of changes its reader saw; a balance may be   *)
(* zero, and a create refill the row, whenever the row is active.          *)
(***************************************************************************)
EXTENDS Integers, FiniteSets

CONSTANTS
    Queries,        \* queries of the gateway in flight
    MaxChanges,
    Faults          \* what may happen: "redis", "crash", "outbox"

ASSUME CacheAssumption == MaxChanges \in Nat /\ Faults \subseteq {"redis", "crash", "outbox"}

CacheKeys == {"id", "card"}
Changes == 1..MaxChanges
NoEntry == [seen |-> -1, spared |-> {}]
NoQuery == [key |-> "none", seen |-> -1]

VARIABLES
    saldoRow,       \* "active", "trashed", "purged"
    made,           \* the changes committed so far
    change,         \* what they did
    handler,        \* what their handler does next
    event,          \* their saldo.changed event
    entry,          \* per key; spared is history: the deletes for newer changes
                    \* that came before it or that Redis refused
    query           \* what a query read and has not stored yet

cacheVars == <<saldoRow, made, change, handler, event, entry, query>>
tableVars == <<saldoRow, made, change>>

CacheInit ==
    /\ saldoRow = "active"
    /\ made = 0
    /\ change = [c \in Changes |-> "none"]
    /\ handler = [c \in Changes |-> "none"]
    /\ event = [c \in Changes |-> "none"]
    /\ entry = [k \in CacheKeys |-> NoEntry]
    /\ query = [q \in Queries |-> NoQuery]

-----------------------------------------------------------------------------
(* The gateway's queries.                                                  *)

\* FindByIDSaldo, FindByCardNumberSaldo: a miss, or an error of Redis, reads
\* the active row; a row in the trash is an error and stores nothing.
Read(q, k) ==
    /\ query[q] = NoQuery
    /\ entry[k] = NoEntry \/ "redis" \in Faults
    /\ saldoRow = "active"
    /\ query' = [query EXCEPT ![q] = [key |-> k, seen |-> made]]
    /\ UNCHANGED <<tableVars, handler, event, entry>>

\* The deletes of newer changes that key k has already had, by either path.
Deleted(c, k) ==
    {path \in {"handler", "event"} :
        \/ path = "handler" /\ k = "id" /\ handler[c] \in {"card", "outbox", "gateway", "done"}
        \/ path = "handler" /\ k = "card" /\ handler[c] \in {"outbox", "gateway", "done"}
        \/ path = "event" /\ k = "card" /\ event[c] \in {"half", "consumed"}
        \/ path = "event" /\ k = "id" /\ event[c] = "consumed"}

DeletedSince(k, seen) == UNION {{c} \X Deleted(c, k) : c \in (seen + 1)..made}

Store(q) ==
    /\ query[q] # NoQuery
    /\ LET k == query[q].key  seen == query[q].seen IN
        entry' = [entry EXCEPT ![k] = [seen |-> seen, spared |-> DeletedSince(k, seen)]]
    /\ query' = [query EXCEPT ![q] = NoQuery]
    /\ UNCHANGED <<tableVars, handler, event>>

\* Redis refuses the entry, or the gateway ends.
StoreFails(q) ==
    /\ query[q] # NoQuery /\ Faults \intersect {"redis", "crash"} # {}
    /\ query' = [query EXCEPT ![q] = NoQuery]
    /\ UNCHANGED <<tableVars, handler, event, entry>>

\* Wrong: the entries under the card number are stored with a TTL of zero,
\* which jitterExpiration leaves alone and Redis takes for no expiry.
MutExpireEntry(k) ==
    /\ k = "id" /\ entry[k] # NoEntry
    /\ entry' = [entry EXCEPT ![k] = NoEntry]
    /\ UNCHANGED <<tableVars, handler, event, query>>

\* Five minutes, give or take thirty seconds.
ExpireEntry(k) ==
    /\ entry[k] # NoEntry
    /\ entry' = [entry EXCEPT ![k] = NoEntry]
    /\ UNCHANGED <<tableVars, handler, event, query>>

-----------------------------------------------------------------------------
(* Changes of the row, each with the first thing its handler does after the *)
(* commit.                                                                 *)

Commit(what, to, first) ==
    /\ made < MaxChanges
    /\ made' = made + 1
    /\ saldoRow' = to
    /\ change' = [change EXCEPT ![made + 1] = what]
    /\ handler' = [handler EXCEPT ![made + 1] = first]
    /\ UNCHANGED <<event, entry, query>>

\* DebitSaldo, CreditSaldo, ApplySaldoAdjustment, UpdateSaldoWithdraw; and
\* UpdateSaldo, which a mutation of the gateway is waiting for.
Move(what) == saldoRow = "active" /\ Commit(what, "active", "id")

\* CreateSaldo gives the empty row of a card-created event its balance.
Refill == saldoRow = "active" /\ Commit("refill", "active", "done")

Trash == saldoRow = "active" /\ Commit("trash", "trashed", "gateway")
Restore == saldoRow = "trashed" /\ Commit("restore", "active", "gateway")
RestoreAll == saldoRow = "trashed" /\ Commit("restore", "active", "done")
DeletePermanent == saldoRow = "trashed" /\ Commit("purge", "purged", "gateway")
DeleteAllPermanent == saldoRow = "trashed" /\ Commit("purge", "purged", "done")

-----------------------------------------------------------------------------
(* What a handler does after its commit.                                   *)

DeleteFromCache(c, k, path) ==
    \/ entry' = [entry EXCEPT ![k] = NoEntry]
    \/ /\ "redis" \in Faults /\ entry[k] # NoEntry
       /\ LET spared == IF entry[k].seen < c THEN {<<c, path>>} ELSE {} IN
            entry' = [entry EXCEPT ![k] = [seen |-> @.seen, spared |-> @.spared \union spared]]

DeleteSaldoCache(c) ==
    /\ handler[c] = "id"
    /\ DeleteFromCache(c, "id", "handler")
    /\ handler' = [handler EXCEPT ![c] = "card"]
    /\ UNCHANGED <<tableVars, event, query>>

DeleteSaldoCacheByCardNumber(c) ==
    /\ handler[c] = "card"
    /\ DeleteFromCache(c, "card", "handler")
    /\ handler' = [handler EXCEPT ![c] = "outbox"]
    /\ UNCHANGED <<tableVars, event, query>>

\* An insert that fails is logged.
EnqueueSaldoChanged(c) ==
    /\ handler[c] = "outbox"
    /\ \/ event' = [event EXCEPT ![c] = "stored"]
       \/ "outbox" \in Faults /\ UNCHANGED event
    /\ handler' = [handler EXCEPT ![c] = IF change[c] = "update" THEN "gateway" ELSE "done"]
    /\ UNCHANGED <<tableVars, entry, query>>

\* The resolvers of the gateway delete the entry by id, the only one they can.
GatewayDelete(c) ==
    /\ handler[c] = "gateway"
    /\ DeleteFromCache(c, "id", "resolver")
    /\ handler' = [handler EXCEPT ![c] = "done"]
    /\ UNCHANGED <<tableVars, event, query>>

\* The process ends, or the statement after the commit fails or loses its
\* answer, which ends the handler with an error.
HandlerDies(c) ==
    /\ "crash" \in Faults
    /\ handler[c] \in {"id", "card", "outbox", "gateway"}
    /\ handler' = [handler EXCEPT ![c] = "died"]
    /\ UNCHANGED <<tableVars, event, entry, query>>

-----------------------------------------------------------------------------
(* The event: the outbox publisher sends it, possibly more than once, and  *)
(* the consumer takes one message at a time.                               *)

PublishSaldoChanged(c) ==
    /\ event[c] = "stored"
    /\ event' = [event EXCEPT ![c] = "sent"]
    /\ UNCHANGED <<tableVars, handler, entry, query>>

InvalidateCard(c) ==
    /\ event[c] = "sent"
    /\ \A other \in Changes : event[other] # "half"
    /\ DeleteFromCache(c, "card", "event")
    /\ event' = [event EXCEPT ![c] = "half"]
    /\ UNCHANGED <<tableVars, handler, query>>

\* Wrong: the consumer was written before the event carried an id.
MutInvalidateId(c) ==
    /\ event[c] = "half"
    /\ event' = [event EXCEPT ![c] = "consumed"]
    /\ UNCHANGED <<tableVars, handler, entry, query>>

\* The message is marked whatever Redis said.
InvalidateId(c) ==
    /\ event[c] = "half"
    /\ DeleteFromCache(c, "id", "event")
    /\ event' = [event EXCEPT ![c] = "consumed"]
    /\ UNCHANGED <<tableVars, handler, query>>

\* The consumer restarts before its mark is committed.
Redeliver(c) ==
    /\ "crash" \in Faults /\ event[c] \in {"half", "consumed"}
    /\ event' = [event EXCEPT ![c] = "sent"]
    /\ UNCHANGED <<tableVars, handler, entry, query>>

-----------------------------------------------------------------------------
CacheNext ==
    \/ \E q \in Queries : Store(q) \/ StoreFails(q) \/ \E k \in CacheKeys : Read(q, k)
    \/ \E k \in CacheKeys : ExpireEntry(k)
    \/ \E what \in {"move", "update"} : Move(what)
    \/ Refill \/ Trash \/ Restore \/ RestoreAll \/ DeletePermanent \/ DeleteAllPermanent
    \/ \E c \in Changes :
        \/ DeleteSaldoCache(c) \/ DeleteSaldoCacheByCardNumber(c) \/ EnqueueSaldoChanged(c)
        \/ GatewayDelete(c) \/ HandlerDies(c)
        \/ PublishSaldoChanged(c) \/ InvalidateCard(c) \/ InvalidateId(c) \/ Redeliver(c)

\* Redis expires what has a TTL and a query ends.  Handlers, publisher and
\* consumer may stop for ever.
CacheFairness ==
    /\ \A k \in CacheKeys : WF_cacheVars(ExpireEntry(k))
    /\ \A q \in Queries : WF_cacheVars(Store(q) \/ StoreFails(q))

CacheSpec == CacheInit /\ [][CacheNext]_cacheVars /\ CacheFairness

-----------------------------------------------------------------------------
Older(k, c) == entry[k] # NoEntry /\ entry[k].seen < c /\ c <= made

\* A debit, credit, adjustment or update that is through with its deletes,
\* or whose event the consumer is through with, leaves no entry from before
\* it under either key, except one that a query in flight stored afterwards
\* or one that Redis would not delete.
DeletedUnlessSpared ==
    \A c \in Changes, k \in CacheKeys :
        change[c] \in {"move", "update"} /\ Older(k, c) =>
            /\ handler[c] \in {"gateway", "done"} => <<c, "handler">> \in entry[k].spared
            /\ event[c] = "consumed" => <<c, "event">> \in entry[k].spared

\* Once changes end, the cache agrees with the table for good, though deletes
\* were refused, handlers and events lost and old values stored late: the TTL
\* is the safety net enqueueSaldoChanged calls it.
CacheConverges == <>[](\A k \in CacheKeys : ~Older(k, made))
=============================================================================
