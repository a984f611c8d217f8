---------------------------- MODULE CardBilling ----------------------------
(***************************************************************************)
(* Statements of cards (src/service/card): schedulers call                 *)
(* ProcessBillingCycles at any time and as often as they like; each call   *)
(* computes the period that closed last and inserts a statement for every   *)
(* active card that has none for it.                                       *)
(*                                                                         *)
(* Time is kept in days: a period begins and ends at midnight, and a call   *)
(* on the closing day is after it.  A date is a month, counted through the  *)
(* calendar, and a day; the calendar gives the lengths of the months.  The  *)
(* notice on Kafka that follows an insert, which nobody consumes, is left   *)
(* out.                                                                    *)
(***************************************************************************)
EXTENDS Integers, Sequences, FiniteSets, FiniteSetsExt

CONSTANTS
    Calendars,      \* sequences of month lengths, from two months back
    BillingDays,    \* BILLING_CYCLE_DAY of a deployment
    Cards,
    Schedulers      \* calls in flight

ASSUME BillingAssumption ==
    /\ Calendars \subseteq Seq(1..31) /\ \A c \in Calendars : Len(c) > 2
    /\ BillingDays \subseteq 1..31

VARIABLES
    calendar,
    billingDay,
    today,
    cardState,      \* "active", "trashed", "purged"
    statements,     \* per card, in the order of their billing_id
    period          \* per call: the period it computed and has not inserted yet

billingVars == <<calendar, billingDay, today, cardState, statements, period>>
deployment == <<calendar, billingDay>>

Earlier(a, b) == a.month < b.month \/ (a.month = b.month /\ a.day < b.day)

DateInMonth(month, day) == [month |-> month, day |-> Min({day, calendar[month]})]

\* Wrong: the period starts one month before its end, as AddDate has it, which
\* turns the 31st of a month after a short one into a day of that month.
MutBillingPeriod(now) ==
    LET thisMonth == DateInMonth(now.month, billingDay)
        end == IF Earlier(now, thisMonth) THEN DateInMonth(now.month - 1, billingDay) ELSE thisMonth
        length == calendar[end.month - 1]
        start == IF end.day <= length THEN [end EXCEPT !.month = @ - 1] ELSE [end EXCEPT !.day = @ - length]
    IN [start |-> start, end |-> end]

BillingPeriod(now) ==
    LET thisMonth == DateInMonth(now.month, billingDay)
        end == IF Earlier(now, thisMonth) THEN DateInMonth(now.month - 1, billingDay) ELSE thisMonth
    IN [start |-> DateInMonth(end.month - 1, billingDay), end |-> end]

NoPeriod == [start |-> [month |-> 0, day |-> 0], end |-> [month |-> 0, day |-> 0]]

BillingInit ==
    /\ calendar \in Calendars
    /\ billingDay \in BillingDays
    /\ today = [month |-> 3, day |-> 1]
    /\ cardState = [c \in Cards |-> "active"]
    /\ statements = [c \in Cards |-> <<>>]
    /\ period = [s \in Schedulers |-> NoPeriod]

NextDay ==
    /\ today' = IF today.day < calendar[today.month]
                THEN [today EXCEPT !.day = @ + 1]
                ELSE [month |-> today.month + 1, day |-> 1]
    /\ today'.month \in DOMAIN calendar
    /\ UNCHANGED <<deployment, cardState, statements, period>>

-----------------------------------------------------------------------------
TriggerBillingCycle(s) ==
    /\ period[s] = NoPeriod
    /\ period' = [period EXCEPT ![s] = BillingPeriod(today)]
    /\ UNCHANGED <<deployment, today, cardState, statements>>

Billed(c, start) == \E i \in DOMAIN statements[c] : statements[c][i].start = start

\* Wrong: the unique index is on the id alone.
MutBillable(p) == {c \in Cards : cardState[c] = "active"}

\* The unique index (card_number, cycle_start).
Billable(p) == {c \in Cards : cardState[c] = "active" /\ ~Billed(c, p.start)}

Insert(p) ==
    statements' = [c \in Cards |-> IF c \in Billable(p) THEN Append(statements[c], p) ELSE statements[c]]

CreateBillingCycles(s) ==
    /\ period[s] # NoPeriod
    /\ Insert(period[s])
    /\ period' = [period EXCEPT ![s] = NoPeriod]
    /\ UNCHANGED <<deployment, today, cardState>>

\* The insert fails as a whole, or the scheduler dies before it.
CreateFails(s) ==
    /\ period[s] # NoPeriod
    /\ period' = [period EXCEPT ![s] = NoPeriod]
    /\ UNCHANGED <<deployment, today, cardState, statements>>

-----------------------------------------------------------------------------
SetCard(cs, to) ==
    /\ cardState' = [c \in Cards |-> IF c \in cs THEN to ELSE cardState[c]]
    /\ UNCHANGED <<deployment, today, statements, period>>

Trashed == {c \in Cards : cardState[c] = "trashed"}

TrashCard(c) == cardState[c] = "active" /\ SetCard({c}, "trashed")
RestoreCard(c) == cardState[c] = "trashed" /\ SetCard({c}, "active")
RestoreAllCards == Trashed # {} /\ SetCard(Trashed, "active")

\* billing_cycles refers to cards without a cascade: a DELETE that meets a
\* statement fails as a whole.
DeleteCardPermanently(c) ==
    /\ cardState[c] = "trashed" /\ statements[c] = <<>>
    /\ SetCard({c}, "purged")

DeleteAllPermanentCards ==
    /\ Trashed # {} /\ \A c \in Trashed : statements[c] = <<>>
    /\ SetCard(Trashed, "purged")

-----------------------------------------------------------------------------
BillingNext ==
    \/ NextDay
    \/ \E s \in Schedulers :
        TriggerBillingCycle(s) \/ CreateBillingCycles(s) \/ CreateFails(s)
    \/ \E c \in Cards : TrashCard(c) \/ RestoreCard(c) \/ DeleteCardPermanently(c)
    \/ RestoreAllCards \/ DeleteAllPermanentCards

BillingSpec == BillingInit /\ [][BillingNext]_billingVars

-----------------------------------------------------------------------------
\* What billingPeriod's comment says: a month has one billing date, its last
\* day if it is too short; the latest period runs between the last two.
BillingDate(d) == d.day = billingDay \/ (d.day = calendar[d.month] /\ d.day < billingDay)

Dates == UNION {[month : {m}, day : 1..calendar[m]] : m \in DOMAIN calendar}

\* However late calls insert what they computed, however often they are made,
\* whatever cards are restored in between and however months end: a statement
\* runs from one billing date to the next, has closed, and is the card's only
\* one for that time.  So the statements of a card never overlap.
StatementsTile ==
    \A c \in Cards : \A i \in DOMAIN statements[c] :
        LET s == statements[c][i] IN
        /\ BillingDate(s.start) /\ BillingDate(s.end) /\ Earlier(s.start, s.end)
        /\ ~Earlier(today, s.end)
        /\ \A d \in Dates : Earlier(s.start, d) /\ Earlier(d, s.end) => ~BillingDate(d)
        /\ \A j \in DOMAIN statements[c] \ {i} : statements[c][j].start # s.start
=============================================================================
