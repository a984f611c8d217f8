-------------------------- MODULE CardBillingProofs --------------------------
(***************************************************************************)
(* Proofs about CardBilling, for any calendars of at least three months,    *)
(* any billing days, cards and schedulers.  What a call computes is a       *)
(* period of the deployment (PeriodIsGood), stays one however long the call *)
(* waits, and is inserted for a card that has none with its start.          *)
(***************************************************************************)
EXTENDS CardBilling, TLAPS

Day == [month : DOMAIN calendar, day : 1..31]
Periods == [start : Day, end : Day]

\* One period between two neighbouring billing dates that has closed.
GoodPeriod(p) ==
    /\ p \in Periods
    /\ BillingDate(p.start) /\ BillingDate(p.end) /\ Earlier(p.start, p.end)
    /\ ~Earlier(today, p.end)
    /\ \A d \in Dates : Earlier(p.start, d) /\ Earlier(d, p.end) => ~BillingDate(d)

\* Statements that are good periods, each with a start of its own.
Tiled(ss) ==
    \A i \in DOMAIN ss :
        GoodPeriod(ss[i]) /\ \A j \in DOMAIN ss \ {i} : ss[j].start # ss[i].start

CalendarTypes ==
    /\ calendar \in Seq(1..31) /\ billingDay \in 1..31
    /\ today \in [month : DOMAIN calendar \ {1, 2}, day : 1..31]

BillingInv ==
    /\ CalendarTypes
    /\ period \in [Schedulers -> Periods \union {NoPeriod}]
    /\ statements \in [Cards -> Seq(Periods)]
    /\ \A s \in Schedulers : period[s] # NoPeriod => GoodPeriod(period[s])
    /\ \A c \in Cards : Tiled(statements[c])

\* The library's minimum, of two numbers.
LEMMA MinOfTwo ==
    ASSUME NEW a \in Int, NEW b \in Int
    PROVE  Min({a, b}) = IF a <= b THEN a ELSE b
<1> DEFINE least == IF a <= b THEN a ELSE b
<1>1. least \in {a, b} /\ \A y \in {a, b} : least <= y
  OBVIOUS
<1>2. \A x \in {a, b} : (\A y \in {a, b} : x <= y) => x = least
  OBVIOUS
<1> HIDE DEF least
<1>3. (CHOOSE x \in {a, b} : \A y \in {a, b} : x <= y) = least
  BY <1>1, <1>2
<1> QED
  BY <1>3 DEF Min, least

\* The months of a calendar are numbered from one, without a gap.
LEMMA Months ==
    ASSUME NEW c \in Seq(1..31)
    PROVE  /\ Len(c) \in Nat /\ DOMAIN c = 1..Len(c)
           /\ \A m \in DOMAIN c : m \in Nat /\ c[m] \in 1..31
OBVIOUS

\* The date a month is billed at is its billing date.
LEMMA DateIsBillingDate ==
    ASSUME CalendarTypes, NEW m \in DOMAIN calendar
    PROVE  /\ DateInMonth(m, billingDay) \in Day
           /\ DateInMonth(m, billingDay).month = m
           /\ DateInMonth(m, billingDay).day =
                IF billingDay <= calendar[m] THEN billingDay ELSE calendar[m]
           /\ BillingDate(DateInMonth(m, billingDay))
<1>1. calendar[m] \in 1..31 /\ billingDay \in 1..31
  BY Months DEF CalendarTypes
<1>2. Min({billingDay, calendar[m]}) = IF billingDay <= calendar[m] THEN billingDay ELSE calendar[m]
  BY <1>1, MinOfTwo
<1> QED
  BY <1>1, <1>2 DEF DateInMonth, Day, BillingDate

\* billingPeriod computes the latest closed period of the deployment.
LEMMA PeriodIsGood ==
    ASSUME CalendarTypes
    PROVE  GoodPeriod(BillingPeriod(today))
<1> DEFINE thisMonth == DateInMonth(today.month, billingDay)
           month == IF Earlier(today, thisMonth) THEN today.month - 1 ELSE today.month
           end == DateInMonth(month, billingDay)
           start == DateInMonth(month - 1, billingDay)
<1>1. /\ today.month \in DOMAIN calendar /\ today.day \in Int
      /\ month \in DOMAIN calendar /\ month - 1 \in DOMAIN calendar
      /\ month \in Nat /\ today.month \in Nat
  <2>1. /\ today.month \in DOMAIN calendar \ {1, 2} /\ today.day \in 1..31
        /\ calendar \in Seq(1..31)
    BY DEF CalendarTypes
  <2>2. Len(calendar) \in Nat /\ DOMAIN calendar = 1..Len(calendar)
    BY <2>1, Months
  <2>3. month \in {today.month - 1, today.month}
    OBVIOUS
  <2>4. today.month \in 3..Len(calendar) /\ today.day \in Int
    <3>1. \A m \in 1..Len(calendar) : m \notin {1, 2} => m \in 3..Len(calendar)
      BY <2>2
    <3>2. today.month \in 1..Len(calendar) /\ today.month \notin {1, 2}
      BY <2>1, <2>2
    <3>3. today.month \in 3..Len(calendar)
      BY <3>1, <3>2, Zenon
    <3>4. today.day \in 1..31
      BY <2>1
    <3>5. today.day \in Int
      BY <3>4
    <3> QED
      BY <3>3, <3>5
  <2> HIDE DEF month
  <2>5. month \in 2..Len(calendar) /\ month - 1 \in 1..Len(calendar)
    BY <2>2, <2>3, <2>4
  <2> QED
    BY <2>2, <2>4, <2>5
<1>2. /\ end \in Day /\ end.month = month /\ BillingDate(end)
      /\ end.day = IF billingDay <= calendar[month] THEN billingDay ELSE calendar[month]
  BY <1>1, DateIsBillingDate
<1>3. /\ start \in Day /\ start.month = month - 1 /\ BillingDate(start)
      /\ start.day = IF billingDay <= calendar[month - 1] THEN billingDay ELSE calendar[month - 1]
  BY <1>1, DateIsBillingDate
<1>4. BillingPeriod(today) = [start |-> start, end |-> end]
  <2>1. end.month = month
    BY <1>2
  <2>2. CASE Earlier(today, thisMonth)
    BY <2>1, <2>2 DEF BillingPeriod
  <2>3. CASE ~Earlier(today, thisMonth)
    BY <2>1, <2>3 DEF BillingPeriod
  <2> QED
    BY <2>2, <2>3
<1>5. Earlier(start, end)
  BY <1>1, <1>2, <1>3 DEF Earlier
<1>6. ~Earlier(today, end)
  BY <1>1, <1>2 DEF Earlier
<1>7. ASSUME NEW d \in Dates, Earlier(start, d), Earlier(d, end) PROVE ~BillingDate(d)
  <2>1. d.month \in DOMAIN calendar /\ d.day \in 1..calendar[d.month] /\ d.month \in Nat
    BY DEF Dates, CalendarTypes
  <2>2. /\ calendar[d.month] \in 1..31 /\ calendar[month] \in 1..31
        /\ calendar[month - 1] \in 1..31 /\ billingDay \in 1..31
    BY <1>1, <2>1 DEF CalendarTypes
  <2>3. d.month \in {month - 1, month}
    BY <1>1, <1>2, <1>3, <1>7, <2>1 DEF Earlier
  <2>4. CASE d.month = month - 1
    BY <1>1, <1>2, <1>3, <1>7, <2>1, <2>2, <2>4 DEF Earlier, BillingDate
  <2>5. CASE d.month = month
    BY <1>1, <1>2, <1>3, <1>7, <2>1, <2>2, <2>5 DEF Earlier, BillingDate
  <2> QED
    BY <2>3, <2>4, <2>5
<1> HIDE DEF start, end
<1> QED
  BY <1>2, <1>3, <1>4, <1>5, <1>6, <1>7 DEF GoodPeriod, Periods

\* Months and days are numbers.
LEMMA DayNumbers ==
    ASSUME CalendarTypes, NEW d, d \in Day \/ d = today
    PROVE  d.month \in Int /\ d.day \in Int
<1>1. \A m \in DOMAIN calendar : m \in Int
  BY Months DEF CalendarTypes
<1>2. d.month \in DOMAIN calendar /\ d.day \in 1..31
  BY DEF Day, CalendarTypes
<1> QED
  BY <1>1, <1>2

\* A day later the sums and days of months are what they were.
LEMMA DayNumbersNext ==
    (CalendarTypes => today.month \in Int /\ today.day \in Int)'
<1>1. CalendarTypes => today.month \in Int /\ today.day \in Int
  BY DayNumbers
<1> QED
  BY <1>1, PTL

\* A good period stays one as days pass.
LEMMA GoodStays ==
    ASSUME NEW p, GoodPeriod(p), CalendarTypes, UNCHANGED deployment,
           CalendarTypes', ~Earlier(today', today)
    PROVE  GoodPeriod(p)'
<1>1. Dates' = Dates /\ Periods' = Periods
  BY DEF deployment, Dates, Periods, Day
<1>2. ASSUME NEW d PROVE BillingDate(d)' = BillingDate(d)
  BY DEF deployment, BillingDate
<1>3. p.end.month \in Int /\ p.end.day \in Int
  BY DayNumbers DEF GoodPeriod, Periods
<1>4. /\ today.month \in Int /\ today.day \in Int
      /\ today'.month \in Int /\ today'.day \in Int
  BY DayNumbers, DayNumbersNext
<1>5. ~Earlier(today', p.end)
  BY <1>3, <1>4 DEF GoodPeriod, Earlier
<1> QED
  BY <1>1, <1>2, <1>5 DEF GoodPeriod

\* No call has started and no card has a statement.
LEMMA InitBilling == BillingInit => BillingInv
<1> SUFFICES ASSUME BillingInit PROVE BillingInv
  OBVIOUS
<1>1. calendar \in Seq(1..31) /\ Len(calendar) > 2 /\ billingDay \in 1..31
  BY BillingAssumption DEF BillingInit
<1>2. 3 \in DOMAIN calendar
  BY <1>1, Months
<1>3. CalendarTypes
  BY <1>1, <1>2 DEF BillingInit, CalendarTypes
<1>4. statements = [c \in Cards |-> <<>>] /\ <<>> \in Seq(Periods) /\ DOMAIN <<>> = {}
  BY DEF BillingInit
<1> QED
  BY <1>3, <1>4 DEF BillingInit, BillingInv, Tiled

\* A step that changes neither deployment nor day keeps what depends on them.
LEMMA SameDay ==
    ASSUME UNCHANGED <<deployment, today>>
    PROVE  /\ CalendarTypes' = CalendarTypes /\ Periods' = Periods
           /\ \A p : GoodPeriod(p)' = GoodPeriod(p)
           /\ \A ss : Tiled(ss)' = Tiled(ss)
<1>1. Dates' = Dates /\ Periods' = Periods
  BY DEF deployment, Dates, Periods, Day
<1>2. \A d : BillingDate(d)' = BillingDate(d)
  BY DEF deployment, BillingDate
<1> QED
  <2>1. \A p : GoodPeriod(p)' = GoodPeriod(p)
    BY <1>1, <1>2 DEF GoodPeriod
  <2> QED
    BY <1>1, <2>1 DEF Tiled, CalendarTypes, deployment

\* The next day leaves calls and statements as they are; later days keep good periods good.
LEMMA DayKeeps ==
    ASSUME BillingInv, NextDay
    PROVE  BillingInv'
<1>1. CalendarTypes /\ calendar' = calendar /\ billingDay' = billingDay
  BY DEF BillingInv, NextDay, deployment
<1>2. /\ calendar[today.month] \in 1..31 /\ today.month \in Nat /\ today.day \in 1..31
      /\ today.month \in DOMAIN calendar \ {1, 2}
  BY <1>1, Months DEF CalendarTypes
<1>3. \/ /\ today.day < calendar[today.month]
         /\ today' = [month |-> today.month, day |-> today.day + 1]
      \/ today' = [month |-> today.month + 1, day |-> 1]
  BY DEF NextDay, BillingInv, CalendarTypes
<1>4. today' \in [month : DOMAIN calendar \ {1, 2}, day : 1..31]
  <2>1. today'.month \in DOMAIN calendar
    BY <1>1 DEF NextDay
  <2>2. today'.month \notin {1, 2} /\ today'.day \in 1..31
    <3>1. today.month # 0
      BY <1>1, <1>2, Months DEF CalendarTypes
    <3> QED
      BY <1>2, <1>3, <3>1
  <2> QED
    BY <1>3, <2>1, <2>2
<1>5. CalendarTypes'
  BY <1>1, <1>4 DEF CalendarTypes
<1>6. ~Earlier(today', today)
  BY <1>2, <1>3 DEF Earlier
<1>7. \A p : GoodPeriod(p) => GoodPeriod(p)'
  BY <1>1, <1>5, <1>6, GoodStays DEF deployment
<1>8. Periods' = Periods
  BY <1>1 DEF Periods, Day
<1> QED
  BY <1>5, <1>7, <1>8 DEF BillingInv, Tiled, NextDay

\* A good period may follow statements that have other starts.
LEMMA AppendStatement ==
    ASSUME NEW ss \in Seq(Periods), Tiled(ss), NEW p \in Periods, GoodPeriod(p),
           \A i \in DOMAIN ss : ss[i].start # p.start
    PROVE  Append(ss, p) \in Seq(Periods) /\ Tiled(Append(ss, p))
<1> DEFINE new == Append(ss, p)
<1>1. /\ new \in Seq(Periods) /\ DOMAIN new = 1..(Len(ss) + 1)
      /\ DOMAIN ss = 1..Len(ss) /\ Len(ss) \in Nat
      /\ new[Len(ss) + 1] = p /\ \A i \in 1..Len(ss) : new[i] = ss[i]
  OBVIOUS
<1> HIDE DEF new
<1>2. \A i \in DOMAIN new : i = Len(ss) + 1 \/ i \in DOMAIN ss
  BY <1>1
<1>3. \A i \in DOMAIN ss : new[i] = ss[i] /\ i # Len(ss) + 1
  BY <1>1
<1>4. Tiled(new)
  BY <1>1, <1>2, <1>3 DEF Tiled
<1> QED
  BY <1>1, <1>4 DEF new

\* A statement is inserted for cards that have none with its start.
LEMMA InsertKeeps ==
    ASSUME BillingInv, NEW s \in Schedulers, CreateBillingCycles(s)
    PROVE  BillingInv'
<1> DEFINE p == period[s]
<1>1. p # NoPeriod /\ GoodPeriod(p) /\ p \in Periods
  BY DEF CreateBillingCycles, BillingInv, GoodPeriod
<1>2. UNCHANGED <<deployment, today>> /\ CalendarTypes'
  BY SameDay DEF CreateBillingCycles, BillingInv
<1>3. Periods' = Periods /\ (\A q : GoodPeriod(q)' = GoodPeriod(q)) /\ \A ss : Tiled(ss)' = Tiled(ss)
  BY <1>2, SameDay
<1>4. /\ period' \in [Schedulers -> Periods \union {NoPeriod}]
      /\ \A t \in Schedulers : period'[t] # NoPeriod => GoodPeriod(period'[t])
  BY DEF CreateBillingCycles, BillingInv
<1>5. ASSUME NEW c \in Cards
      PROVE  statements'[c] \in Seq(Periods) /\ Tiled(statements'[c])
  <2>1. statements[c] \in Seq(Periods) /\ Tiled(statements[c])
    BY DEF BillingInv
  <2>2. statements'[c] = IF c \in Billable(p) THEN Append(statements[c], p) ELSE statements[c]
    BY DEF CreateBillingCycles, Insert
  <2>3. CASE c \in Billable(p)
    <3>1. \A i \in DOMAIN statements[c] : statements[c][i].start # p.start
      BY <2>3 DEF Billable, Billed
    <3> HIDE DEF p
    <3> QED
      BY <1>1, <2>1, <2>2, <2>3, <3>1, AppendStatement
  <2> QED
    BY <2>1, <2>2, <2>3
<1>6. statements' \in [Cards -> Seq(Periods)]
  <2>1. statements' = [c \in Cards |-> statements'[c]]
    BY DEF CreateBillingCycles, Insert
  <2> QED
    BY <1>5, <2>1
<1> QED
  BY <1>2, <1>3, <1>4, <1>5, <1>6 DEF BillingInv

\* Steps that leave the statements and compute, drop or leave periods.
LEMMA PeriodsKeep ==
    ASSUME BillingInv, UNCHANGED <<deployment, today, statements>>,
           \/ period' = period
           \/ \E s \in Schedulers, q \in {NoPeriod, BillingPeriod(today)} :
                 period' = [period EXCEPT ![s] = q]
    PROVE  BillingInv'
<1>1. GoodPeriod(BillingPeriod(today)) /\ BillingPeriod(today) \in Periods
  BY PeriodIsGood DEF BillingInv, GoodPeriod
<1>2. CalendarTypes' /\ Periods' = Periods
      /\ (\A p : GoodPeriod(p)' = GoodPeriod(p)) /\ \A ss : Tiled(ss)' = Tiled(ss)
  BY SameDay DEF BillingInv
<1>3. /\ period' \in [Schedulers -> Periods \union {NoPeriod}]
      /\ \A s \in Schedulers : period'[s] # NoPeriod => GoodPeriod(period'[s])
  BY <1>1 DEF BillingInv
<1> QED
  BY <1>2, <1>3 DEF BillingInv

\* Every step of a call, of a card or of the calendar keeps the invariant.
LEMMA NextBilling == BillingInv /\ [BillingNext]_billingVars => BillingInv'
<1> SUFFICES ASSUME BillingInv, [BillingNext]_billingVars PROVE BillingInv'
  OBVIOUS
<1>1. CASE NextDay
  BY <1>1, DayKeeps
<1>2. ASSUME NEW s \in Schedulers, CreateBillingCycles(s) PROVE BillingInv'
  BY <1>2, InsertKeeps
<1>3. ASSUME NEW s \in Schedulers, TriggerBillingCycle(s) \/ CreateFails(s) PROVE BillingInv'
  BY <1>3, PeriodsKeep DEF TriggerBillingCycle, CreateFails
<1>4. ASSUME NEW cs, NEW to, SetCard(cs, to) PROVE BillingInv'
  BY <1>4, PeriodsKeep DEF SetCard
<1>5. ASSUME NEW c \in Cards, TrashCard(c) \/ RestoreCard(c) \/ DeleteCardPermanently(c)
      PROVE  BillingInv'
  BY <1>4, <1>5 DEF TrashCard, RestoreCard, DeleteCardPermanently
<1>6. CASE RestoreAllCards \/ DeleteAllPermanentCards
  BY <1>4, <1>6 DEF RestoreAllCards, DeleteAllPermanentCards
<1>7. CASE UNCHANGED billingVars
  BY <1>7, PeriodsKeep DEF billingVars, deployment
<1> QED
  BY <1>1, <1>2, <1>3, <1>5, <1>6, <1>7 DEF BillingNext

\* The statements and pending periods of a deployment are good ones, and a
\* card has one statement for each.
THEOREM BillingInvHolds == BillingSpec => []BillingInv
BY InitBilling, NextBilling, PTL DEF BillingSpec

\* The statements of a card tile the calendar: one closed period each, between
\* neighbouring billing dates, and no two for the same time.
THEOREM StatementsTileHolds == BillingSpec => []StatementsTile
<1>1. BillingInv => StatementsTile
  BY DEF BillingInv, Tiled, GoodPeriod, StatementsTile
<1> QED
  BY <1>1, BillingInvHolds, PTL

=============================================================================
