------------------------ MODULE TrafficPeriod_proofs ------------------------
(***************************************************************************)
(* Theorems about TrafficPeriod, for any plans, instants, users and        *)
(* workers, and the facts of the calendar they rest on.                    *)
(***************************************************************************)
EXTENDS TrafficPeriod, TLAPS

-----------------------------------------------------------------------------
(* The calendar. *)

\* Days of a year before its month k, January being month 0.
Before(k) == DaysBefore[k + 1]

LEMMA DaysOfTheYear ==
  /\ \A k \in 0..11 : Before(k) \in Nat /\ k <= Before(k) /\ Before(k) <= 334
  /\ \A k \in 0..10 : Before(k) + 28 <= Before(k + 1)
  /\ \A j, k \in 0..11 : j <= k => Before(j) <= Before(k)
  /\ Before(0) = 0 /\ Before(11) = 334
  /\ \A e \in 0..364 : \E k \in 0..11 : Before(k) <= e /\ (k < 11 => e < Before(k + 1))
<1>1. /\ Before(0) = 0   /\ Before(1) = 31  /\ Before(2) = 59   /\ Before(3) = 90
      /\ Before(4) = 120 /\ Before(5) = 151 /\ Before(6) = 181  /\ Before(7) = 212
      /\ Before(8) = 243 /\ Before(9) = 273 /\ Before(10) = 304 /\ Before(11) = 334
  BY DEF Before, DaysBefore
<1>2. \A k \in 0..11 : k \in {0, 1, 2, 3, 4, 5, 6, 7, 8, 9, 10, 11}
  OBVIOUS
<1>3. \A k \in 0..11 : Before(k) \in Nat /\ k <= Before(k) /\ Before(k) <= 334
  BY <1>1, <1>2
<1>4. \A k \in 0..10 : Before(k) + 28 <= Before(k + 1)
  BY <1>1, <1>2
<1>5. \A j, k \in 0..11 : j <= k => Before(j) <= Before(k)
  BY <1>1, <1>2
<1>6. ASSUME NEW e \in 0..364
      PROVE  \E k \in 0..11 : Before(k) <= e /\ (k < 11 => e < Before(k + 1))
  BY <1>1
<1>. QED
  BY <1>1, <1>3, <1>4, <1>5, <1>6

LEMMA BeforeIsDay ==
  ASSUME NEW k \in 0..11
  PROVE  Before(k) \in Nat /\ k <= Before(k) /\ Before(k) <= 334
BY DaysOfTheYear

LEMMA StartOf ==
  ASSUME NEW q \in Nat, NEW k \in 0..11
  PROVE  MonthStart(12 * q + k) = 365 * q + Before(k)
<1>1. (12 * q + k) \div 12 = q /\ (12 * q + k) % 12 = k
  OBVIOUS
<1>. QED
  BY <1>1 DEF MonthStart, YearDays, Before

\* The January of the next year.
LEMMA YearAfter ==
  ASSUME NEW q \in Nat
  PROVE  MonthStart(12 * q + 12) = 365 * q + 365
<1>1. MonthStart(12 * (q + 1) + 0) = 365 * (q + 1) + Before(0)
  <2>. q + 1 \in Nat /\ 0 \in 0..11
    OBVIOUS
  <2>. QED
    BY StartOf, ZenonT(30)
<1>2. 12 * (q + 1) + 0 = 12 * q + 12 /\ Before(0) = 0
  BY DaysOfTheYear
<1>. QED
  BY <1>1, <1>2

LEMMA MonthAfter ==
  ASSUME NEW q \in Nat, NEW k \in 0..10
  PROVE  /\ MonthStart(12 * q + k + 1) = 365 * q + Before(k + 1)
         /\ Before(k + 1) \in Nat /\ Before(k) + 28 <= Before(k + 1)
<1>1. k + 1 \in 0..11 /\ 12 * q + (k + 1) = 12 * q + k + 1
  OBVIOUS
<1>2. MonthStart(12 * q + (k + 1)) = 365 * q + Before(k + 1)
  BY <1>1, StartOf
<1>3. Before(k + 1) \in Nat /\ Before(k) + 28 <= Before(k + 1)
  BY <1>1, DaysOfTheYear
<1>. QED
  BY <1>1, <1>2, <1>3

LEMMA MonthIs == \A m \in Nat : \E q \in Nat, k \in 0..11 : m = 12 * q + k
<1>. SUFFICES ASSUME NEW m \in Nat PROVE m \div 12 \in Nat /\ m % 12 \in 0..11 /\ m = 12 * (m \div 12) + (m % 12)
  OBVIOUS
<1>. QED
  OBVIOUS

LEMMA MonthGap ==
  ASSUME NEW m \in Nat
  PROVE  MonthStart(m) \in Nat /\ MonthStart(m + 1) \in Nat /\ MonthStart(m) + 28 <= MonthStart(m + 1)
<1>1. PICK q \in Nat, k \in 0..11 : m = 12 * q + k
  BY MonthIs
<1>2. MonthStart(m) = 365 * q + Before(k) /\ Before(k) \in Nat
  <2>1. Before(k) \in Nat
    BY BeforeIsDay
  <2>. QED
    BY <1>1, <2>1, StartOf
<1>3. CASE k \in 0..10
  <2>1. MonthStart(m + 1) = 365 * q + Before(k + 1) /\ Before(k) + 28 <= Before(k + 1) /\ Before(k + 1) \in Nat
    BY <1>1, <1>3, MonthAfter
  <2>. QED
    BY <1>2, <2>1
<1>4. CASE k = 11
  <2>1. MonthStart(m + 1) = 365 * q + 365
    <3>1. m + 1 = 12 * q + 12
      BY <1>1, <1>4
    <3>. QED
      BY <3>1, YearAfter
  <2>2. MonthStart(m) = 365 * q + 334
    BY <1>2, <1>4, DaysOfTheYear
  <2>. QED
    BY <2>1, <2>2
<1>. QED
  BY <1>3, <1>4

LEMMA MonthsInOrder ==
  ASSUME NEW m \in Nat, NEW n \in Nat, m <= n
  PROVE  MonthStart(m) <= MonthStart(n)
<1>1. PICK q \in Nat, k \in 0..11 : m = 12 * q + k
  BY MonthIs
<1>2. PICK p \in Nat, j \in 0..11 : n = 12 * p + j
  BY MonthIs
<1>3. MonthStart(m) = 365 * q + Before(k) /\ MonthStart(n) = 365 * p + Before(j)
  BY <1>1, <1>2, StartOf
<1>4. q < p \/ (q = p /\ k <= j)
  BY <1>1, <1>2
<1>5. Before(k) \in Nat /\ Before(k) <= 334 /\ Before(j) \in Nat
  BY BeforeIsDay
<1>6. k <= j => Before(k) <= Before(j)
  BY DaysOfTheYear, ZenonT(30)
<1>. QED
  BY <1>3, <1>4, <1>5, <1>6

LEMMA MonthOfDay ==
  ASSUME NEW d \in Nat
  PROVE  /\ MonthOf(d) \in Nat
         /\ MonthStart(MonthOf(d)) <= d /\ d < MonthStart(MonthOf(d) + 1)
<1>1. d \div 365 \in Nat /\ d % 365 \in 0..364 /\ d = 365 * (d \div 365) + (d % 365)
  OBVIOUS
<1>2. PICK q \in Nat, e \in 0..364 : d = 365 * q + e
  BY <1>1
<1>3. PICK k \in 0..11 : Before(k) <= e /\ (k < 11 => e < Before(k + 1))
  BY DaysOfTheYear
<1>4. MonthStart(12 * q + k) = 365 * q + Before(k) /\ Before(k) \in Nat /\ k <= Before(k)
  <2>1. Before(k) \in Nat /\ k <= Before(k)
    BY BeforeIsDay
  <2>. QED
    BY <2>1, StartOf
<1>5. d < MonthStart(12 * q + k + 1)
  <2>1. CASE k \in 0..10
    <3>1. MonthStart(12 * q + k + 1) = 365 * q + Before(k + 1) /\ Before(k + 1) \in Nat
      BY <2>1, MonthAfter
    <3>. QED
      BY <1>2, <1>3, <2>1, <3>1
  <2>2. CASE k = 11
    <3>1. 12 * q + k + 1 = 12 * q + 12
      BY <2>2
    <3>. QED
      BY <1>2, <3>1, YearAfter
  <2>. QED
    BY <2>1, <2>2
<1>6. 12 * q + k \in 0..d /\ MonthStart(12 * q + k) <= d
  BY <1>2, <1>3, <1>4
<1>7. MonthOf(d) \in 0..d /\ MonthStart(MonthOf(d)) <= d /\ d < MonthStart(MonthOf(d) + 1)
  BY <1>5, <1>6 DEF MonthOf
<1>. QED
  BY <1>7

\* The first 28 days of a month are in it.
LEMMA MonthOfEarlyDay ==
  ASSUME NEW m \in Nat, NEW k \in 0..27
  PROVE  MonthOf(MonthStart(m) + k) = m
<1>. DEFINE d == MonthStart(m) + k
            n == MonthOf(d)
<1>1. d \in Nat /\ MonthStart(m) <= d /\ d < MonthStart(m + 1) /\ MonthStart(m) \in Nat
  BY MonthGap
<1>2. n \in Nat /\ MonthStart(n) <= d /\ d < MonthStart(n + 1)
  BY <1>1, MonthOfDay
<1>. HIDE DEF d, n
<1>3. ~(m < n)
  <2>. SUFFICES ASSUME m < n PROVE FALSE
    OBVIOUS
  <2>1. MonthStart(m + 1) <= MonthStart(n)
    BY <1>2, MonthsInOrder
  <2>. QED
    BY <1>1, <1>2, <2>1, MonthGap
<1>4. ~(n < m)
  <2>. SUFFICES ASSUME n < m PROVE FALSE
    OBVIOUS
  <2>1. MonthStart(n + 1) <= MonthStart(m)
    BY <1>2, MonthsInOrder
  <2>. QED
    BY <1>1, <1>2, <2>1, MonthGap
<1>5. n = m
  BY <1>2, <1>3, <1>4
<1>. QED
  BY <1>5 DEF n, d

\* An instant by its day and the hours into it.
LEMMA DayAndHours ==
  ASSUME NEW t \in Nat
  PROVE  /\ Date(t) \in Nat /\ t % DayHours \in 0..23
         /\ t = Midnight(Date(t)) + (t % DayHours)
BY DEF Date, Midnight, DayHours

LEMMA DateOf ==
  ASSUME NEW d \in Nat, NEW h \in 0..23
  PROVE  Date(Midnight(d) + h) = d /\ (Midnight(d) + h) % DayHours = h
BY DEF Date, Midnight, DayHours

LEMMA LaterIsInstant ==
  ASSUME NEW t \in Nat, NEW n \in Nat
  PROVE  AddDate(t, n, 0) \in Nat
<1>. DEFINE d == Date(t)
<1>1. d \in Nat /\ t % DayHours \in 0..23
  BY DayAndHours
<1>. HIDE DEF d
<1>2. MonthOf(d) \in Nat /\ MonthStart(MonthOf(d)) <= d /\ MonthStart(MonthOf(d)) \in Nat
  BY <1>1, MonthOfDay, MonthGap
<1>3. MonthStart(MonthOf(d) + n) \in Nat
  BY <1>2, MonthGap
<1>4. AddDate(t, n, 0) =
        Midnight(MonthStart(MonthOf(d) + n) + DayOfMonth(d) - 1 + 0) + (t % DayHours)
  BY DEF AddDate, d
<1>5. DayOfMonth(d) - 1 \in Nat
  BY <1>1, <1>2 DEF DayOfMonth
<1>. QED
  BY <1>1, <1>3, <1>4, <1>5 DEF Midnight, DayHours

(***************************************************************************)
(* From one of the first 28 days of a month AddDate goes n months ahead    *)
(* and comes back to the same day, whatever the lengths of the months.     *)
(***************************************************************************)
LEMMA ThereAndBack ==
  ASSUME NEW t \in Nat, NEW n \in Nat, DayOfMonth(Date(t)) <= 28
  PROVE  AddDate(AddDate(t, n, 0), -n, -1) = Midnight(Date(t) - 1) + (t % DayHours)
<1>. DEFINE d == Date(t)
            m == MonthOf(d)
            k == d - MonthStart(m)
            s == AddDate(t, n, 0)
            h == t % DayHours
<1>1. d \in Nat /\ h \in 0..23
  BY DayAndHours
<1>2. m \in Nat /\ MonthStart(m) <= d /\ MonthStart(m) \in Nat
  BY <1>1, MonthOfDay, MonthGap
<1>3. k \in 0..27 /\ DayOfMonth(d) = k + 1
  BY <1>1, <1>2 DEF DayOfMonth
<1>4. MonthStart(m + n) \in Nat /\ m + n \in Nat
  BY <1>2, MonthGap
<1>5. s = Midnight(MonthStart(m + n) + k) + h
  <2>1. s = Midnight(MonthStart(m + n) + DayOfMonth(d) - 1 + 0) + h
    BY DEF AddDate
  <2>2. MonthStart(m + n) + DayOfMonth(d) - 1 + 0 = MonthStart(m + n) + k
    BY <1>3, <1>4
  <2>. QED
    BY <2>1, <2>2
<1>. HIDE DEF s
<1>6. Date(s) = MonthStart(m + n) + k /\ s % DayHours = h
  BY <1>1, <1>3, <1>4, <1>5, DateOf
<1>7. MonthOf(Date(s)) = m + n
  BY <1>3, <1>4, <1>6, MonthOfEarlyDay
<1>8. DayOfMonth(Date(s)) = k + 1
  BY <1>3, <1>4, <1>6, <1>7 DEF DayOfMonth
<1>9. AddDate(s, -n, -1) =
        Midnight(MonthStart(MonthOf(Date(s)) + (-n)) + DayOfMonth(Date(s)) - 1 + (-1)) + (s % DayHours)
  BY DEF AddDate
<1>10. MonthOf(Date(s)) + (-n) = m
  BY <1>2, <1>7
<1>11. MonthStart(m) + DayOfMonth(Date(s)) - 1 + (-1) = d - 1
  BY <1>1, <1>2, <1>3, <1>8
<1>. QED
  BY <1>6, <1>9, <1>10, <1>11 DEF s

-----------------------------------------------------------------------------
(* The rows. *)

\* What a worker goes by, and what it is about to write.
PassOK(pp) ==
  /\ \A u \in Users : pp.seen[u].plan # None => None \notin {pp.seen[u].expiry, pp.seen[u].reset}
  /\ \A u \in pp.todo : pp.seen[u].plan # None
  /\ pp.roll # None =>
       LET row == pp.seen[pp.roll.user] IN
       /\ row.plan # None
       /\ pp.roll.mark = AddDate(pp.roll.at, Months[row.plan], 0)
       /\ pp.roll.mark < row.expiry + Slack

PassesOK == \A w \in Workers : Running(w) => PassOK(pass[w])

\* A mark is the end of a cycle of the user's plan, counted from when it was begun.
MarksOK ==
  \A u \in Users :
    Subscribed(u) /\ "replanned" \notin causes[u] =>
      /\ began[u] # None
      /\ users[u].reset = AddDate(began[u], Months[users[u].plan], 0)

(***************************************************************************)
(* The inductive invariant: what was read is as good as a row, a decision  *)
(* that was taken pays, and a mark remembers its cycle.                    *)
(***************************************************************************)
PeriodInv == TypeOK /\ PassesOK /\ MarksOK /\ PaidUp

LEMMA InitPeriod == Init => PeriodInv
<1>. SUFFICES ASSUME Init PROVE PeriodInv
  OBVIOUS
<1>1. NoPlan \in UserRow /\ NoPlan.plan = None
  BY DEF NoPlan, UserRow
<1>2. \A u \in Users : users[u] = NoPlan
  BY DEF Init
<1>3. TypeOK
  BY <1>1, <1>2 DEF Init, TypeOK
<1>. QED
  BY <1>1, <1>2, <1>3 DEF Init, PeriodInv, PassesOK, Running, MarksOK, Subscribed, PaidUp

LEMMA NumbersAreNotNull == (\A t \in Nat : t # None) /\ (\A t \in Instants : t \in Nat)
BY PlanAssumption

LEMMA MonthsOfPlan ==
  ASSUME NEW p \in Plans
  PROVE  Months[p] \in Nat
BY PlanAssumption

-----------------------------------------------------------------------------
(* The administrators. *)

LEMMA AssociateKeeps ==
  ASSUME PeriodInv, NEW u \in Users, NEW p \in Plans, AssociatePlan(u, p)
  PROVE  PeriodInv'
<1>. TypeOK /\ PassesOK /\ MarksOK /\ PaidUp
  BY DEF PeriodInv
<1>1. PICK until : until = PlanPeriodEnd(now, p)
  OBVIOUS
<1>2. until \in Nat /\ until = AddDate(now, Months[p], 0) /\ now \in Instants
  BY <1>1, PlanAssumption, MonthsOfPlan, LaterIsInstant DEF PlanPeriodEnd, TypeOK
<1>3. /\ users' = [users EXCEPT ![u] = [plan |-> p, expiry |-> until, reset |-> until]]
      /\ began' = [began EXCEPT ![u] = now]
      /\ causes' = [causes EXCEPT ![u] = {}]
      /\ now' = now /\ pass' = pass /\ daily' = daily
  BY <1>1 DEF AssociatePlan
<1>4. /\ users'[u] = [plan |-> p, expiry |-> until, reset |-> until]
      /\ began'[u] = now /\ causes'[u] = {}
      /\ \A v \in Users \ {u} :
           users'[v] = users[v] /\ began'[v] = began[v] /\ causes'[v] = causes[v]
  BY <1>3 DEF TypeOK
<1>5. TypeOK'
  <2>1. users'[u] \in UserRow /\ None \notin {until}
    BY <1>2, <1>4, PlanAssumption DEF UserRow
  <2>2. users' \in [Users -> UserRow]
    BY <1>3, <1>4, <2>1 DEF TypeOK
  <2>3. \A v \in Users : users'[v].plan # None => None \notin {users'[v].expiry, users'[v].reset}
    BY <1>4, <2>1 DEF TypeOK
  <2>. QED
    BY <1>2, <1>3, <2>2, <2>3 DEF TypeOK
<1>6. PassesOK'
  BY <1>3 DEF PassesOK, Running, PassOK
<1>7. MarksOK'
  BY <1>2, <1>4, PlanAssumption DEF MarksOK, Subscribed
<1>8. PaidUp'
  BY <1>2, <1>4, PlanAssumption DEF PaidUp, Subscribed
<1>. QED
  BY <1>5, <1>6, <1>7, <1>8 DEF PeriodInv

LEMMA EditKeeps ==
  ASSUME PeriodInv, NEW u \in Users, NEW e \in Instants, EditUser(u, e)
  PROVE  PeriodInv'
<1>. TypeOK /\ PassesOK /\ MarksOK /\ PaidUp
  BY DEF PeriodInv
<1>1. e \in Nat /\ None \notin Nat
  BY PlanAssumption
<1>2. /\ users'[u] = [users[u] EXCEPT !.expiry = e]
      /\ causes'[u] = IF users[u].plan # None /\ e < users[u].expiry THEN causes[u] \cup {"curtailed"}
                                                                    ELSE causes[u]
      /\ \A v \in Users \ {u} : users'[v] = users[v] /\ causes'[v] = causes[v]
      /\ began' = began /\ now' = now /\ pass' = pass /\ daily' = daily
  BY DEF EditUser, TypeOK
<1>3. users[u] \in UserRow
  BY DEF TypeOK
<1>4. /\ users'[u].plan = users[u].plan /\ users'[u].reset = users[u].reset /\ users'[u].expiry = e
      /\ users'[u] \in UserRow
  BY <1>1, <1>2, <1>3 DEF UserRow
<1>5. TypeOK'
  <2>1. users' \in [Users -> UserRow]
    BY <1>4 DEF TypeOK, EditUser
  <2>2. \A v \in Users : users'[v].plan # None => None \notin {users'[v].expiry, users'[v].reset}
    <3>1. users'[u].plan # None => None \notin {users'[u].expiry, users'[u].reset}
      BY <1>1, <1>4 DEF TypeOK
    <3>. QED
      BY <3>1, <1>2 DEF TypeOK
  <2>3. causes' \in [Users -> SUBSET {"replanned", "curtailed"}]
    BY DEF TypeOK, EditUser
  <2>. QED
    BY <1>2, <2>1, <2>2, <2>3 DEF TypeOK
<1>6. PassesOK'
  BY <1>2 DEF PassesOK, Running, PassOK
<1>7. MarksOK'
  BY <1>2, <1>4 DEF MarksOK, Subscribed
<1>8. PaidUp'
  <2>. SUFFICES ASSUME NEW v \in Users, users'[v].plan # None, "curtailed" \notin causes'[v]
                PROVE  users'[v].reset < users'[v].expiry + Slack
    BY DEF PaidUp, Subscribed
  <2>1. CASE v = u
    <3>1. users[u].plan # None /\ ~(e < users[u].expiry) /\ "curtailed" \notin causes[u]
      BY <1>2, <1>4, <2>1
    <3>2. users[u].expiry \in Nat /\ users[u].reset \in Nat
      BY <1>3, <3>1 DEF TypeOK, UserRow
    <3>3. users[u].reset < users[u].expiry + Slack
      BY <3>1 DEF PaidUp, Subscribed
    <3>. QED
      BY <1>1, <1>4, <2>1, <3>1, <3>2, <3>3, PlanAssumption
  <2>2. CASE v # u
    BY <1>2, <2>2 DEF PaidUp, Subscribed
  <2>. QED
    BY <2>1, <2>2
<1>. QED
  BY <1>5, <1>6, <1>7, <1>8 DEF PeriodInv

-----------------------------------------------------------------------------
(* The worker. *)

\* A step of the worker w that does not write.
LEMMA WorkerKeeps ==
  ASSUME PeriodInv, NEW w \in Workers, UNCHANGED <<now, users, daily, began, causes>>,
         NEW new \in Pass \cup {None}, pass' = [pass EXCEPT ![w] = new],
         new # None => PassOK(new)
  PROVE  PeriodInv'
<1>. TypeOK /\ PassesOK /\ MarksOK /\ PaidUp
  BY DEF PeriodInv
<1>1. TypeOK'
  BY DEF TypeOK
<1>2. pass'[w] = new /\ \A x \in Workers \ {w} : pass'[x] = pass[x]
  BY DEF TypeOK
<1>3. PassesOK'
  BY <1>2 DEF PassesOK, Running
<1>4. MarksOK' /\ PaidUp'
  BY DEF MarksOK, Subscribed, PaidUp
<1>. QED
  BY <1>1, <1>3, <1>4 DEF PeriodInv

LEMMA StartKeeps ==
  ASSUME PeriodInv, NEW w \in Workers, StartPass(w)
  PROVE  PeriodInv'
<1>. DEFINE new == [seen |-> users, todo |-> {u \in Users : users[u].plan # None}, roll |-> None]
<1>1. new \in Pass
  BY DEF PeriodInv, TypeOK, Pass
<1>2. PassOK(new)
  BY DEF PeriodInv, TypeOK, PassOK
<1>. QED
  BY <1>1, <1>2, WorkerKeeps DEF StartPass

LEMMA PassIs ==
  ASSUME PeriodInv, NEW w \in Workers, Running(w)
  PROVE  pass[w] \in Pass /\ PassOK(pass[w])
BY DEF PeriodInv, TypeOK, PassesOK, Running

LEMMA SkipKeeps ==
  ASSUME PeriodInv, NEW w \in Workers, NEW u \in Users, UsageFails(w, u) \/ RollFails(w, u)
  PROVE  PeriodInv'
<1>1. pass[w] \in Pass /\ PassOK(pass[w])
  BY PassIs DEF UsageFails, RollFails, Rolling
<1>2. CASE UsageFails(w, u)
  <2>. DEFINE new == [pass[w] EXCEPT !.todo = @ \ {u}]
  <2>1. /\ new \in Pass /\ new.seen = pass[w].seen /\ new.roll = pass[w].roll
        /\ new.todo = pass[w].todo \ {u}
    BY <1>1 DEF Pass
  <2>2. pass' = [pass EXCEPT ![w] = new]
    BY <1>2 DEF UsageFails
  <2>3. PassOK(new)
    <3>. HIDE DEF new
    <3>. QED
      BY <1>1, <2>1 DEF PassOK
  <2>. HIDE DEF new
  <2>. QED
    BY <1>2, <2>1, <2>2, <2>3, WorkerKeeps DEF UsageFails
<1>3. CASE RollFails(w, u)
  <2>. DEFINE new == [pass[w] EXCEPT !.roll = None]
  <2>1. /\ new \in Pass /\ new.seen = pass[w].seen /\ new.todo = pass[w].todo /\ new.roll = None
    BY <1>1 DEF Pass
  <2>2. pass' = [pass EXCEPT ![w] = new]
    BY <1>3 DEF RollFails
  <2>3. PassOK(new)
    <3>. HIDE DEF new
    <3>. QED
      BY <1>1, <2>1 DEF PassOK
  <2>. HIDE DEF new
  <2>. QED
    BY <1>3, <2>1, <2>2, <2>3, WorkerKeeps DEF RollFails
<1>. QED
  BY <1>2, <1>3

\* The mark that is decided on is what nextResetTime says, and it pays.
LEMMA DecideKeeps ==
  ASSUME PeriodInv, NEW w \in Workers, NEW u \in Users, Decide(w, u)
  PROVE  PeriodInv'
<1>. DEFINE row == pass[w].seen[u]
            roll == IF Due(u, row) /\ Payable(row)
                    THEN [user |-> u, at |-> now, mark |-> nextResetTime(now, row.plan)]
                    ELSE None
<1>1. pass[w] \in Pass /\ PassOK(pass[w]) /\ u \in pass[w].todo /\ now \in Instants /\ now \in Nat
  BY PassIs, PlanAssumption DEF Decide, PeriodInv, TypeOK
<1>2. row.plan \in Plans /\ row.expiry \in Nat
  BY <1>1 DEF PassOK, Pass, UserRow
<1>3. nextResetTime(now, row.plan) \in Nat
  BY <1>1, <1>2, MonthsOfPlan, LaterIsInstant DEF nextResetTime
<1>4. roll \in [user : Users, at : Instants, mark : Nat] \cup {None}
  BY <1>1, <1>3
<1>5. roll # None =>
        /\ roll.user = u /\ roll.mark = AddDate(roll.at, Months[row.plan], 0)
        /\ roll.mark < row.expiry + Slack
  BY <1>2, <1>3, PlanAssumption DEF Payable, nextResetTime
<1>. DEFINE new == [pass[w] EXCEPT !.todo = @ \ {u}, !.roll = roll]
<1>6. pass' = [pass EXCEPT ![w] = new]
  BY DEF Decide
<1>. HIDE DEF roll
<1>7. /\ new \in Pass /\ new.seen = pass[w].seen /\ new.roll = roll
      /\ new.todo = pass[w].todo \ {u}
  BY <1>1, <1>4 DEF Pass
<1>. HIDE DEF new
<1>8. PassOK(new)
  BY <1>1, <1>2, <1>5, <1>7, PlanAssumption DEF PassOK
<1>. QED
  BY <1>6, <1>7, <1>8, WorkerKeeps DEF Decide

\* The mark is written over whatever the row has become: the causes say what was missed.
LEMMA RollKeeps ==
  ASSUME PeriodInv, NEW w \in Workers, NEW u \in Users, rollTrafficPeriod(w, u)
  PROVE  PeriodInv'
<1>. TypeOK /\ PassesOK /\ MarksOK /\ PaidUp
  BY DEF PeriodInv
<1>. DEFINE row == pass[w].seen[u]
            mark == pass[w].roll.mark
<1>1. pass[w] \in Pass /\ PassOK(pass[w]) /\ pass[w].roll # None /\ pass[w].roll.user = u
  BY PassIs DEF rollTrafficPeriod, Rolling
<1>2. /\ row \in UserRow /\ row.plan # None /\ row.expiry \in Nat /\ pass[w].roll.at \in Instants
      /\ mark \in Nat /\ mark = AddDate(pass[w].roll.at, Months[row.plan], 0)
      /\ mark < row.expiry + Slack
  BY <1>1 DEF Pass, PassOK, UserRow
<1>3. /\ users'[u] = [users[u] EXCEPT !.reset = mark]
      /\ began'[u] = pass[w].roll.at
      /\ causes'[u] = Missed(w, u)
      /\ \A v \in Users \ {u} :
           users'[v] = users[v] /\ began'[v] = began[v] /\ causes'[v] = causes[v]
      /\ now' = now /\ daily' = daily
  BY DEF rollTrafficPeriod, TypeOK
<1>. HIDE DEF mark
<1>4. users[u] \in UserRow
  BY DEF TypeOK
<1>5. /\ users'[u].plan = users[u].plan /\ users'[u].expiry = users[u].expiry /\ users'[u].reset = mark
      /\ users'[u] \in UserRow
  BY <1>2, <1>3, <1>4 DEF UserRow
<1>6. Missed(w, u) \subseteq {"replanned", "curtailed"}
  BY DEF Missed
<1>. DEFINE new == [pass[w] EXCEPT !.roll = None]
<1>7. /\ new \in Pass /\ new.seen = pass[w].seen /\ new.todo = pass[w].todo /\ new.roll = None
  BY <1>1 DEF Pass
<1>8. pass' = [pass EXCEPT ![w] = new]
  BY DEF rollTrafficPeriod
<1>. HIDE DEF new
<1>9. PassOK(new)
  BY <1>1, <1>7 DEF PassOK
<1>10. TypeOK'
  <2>1. users' \in [Users -> UserRow]
    BY <1>5 DEF TypeOK, rollTrafficPeriod
  <2>2. \A v \in Users : users'[v].plan # None => None \notin {users'[v].expiry, users'[v].reset}
    <3>1. mark # None
      BY <1>2, NumbersAreNotNull
    <3>2. users'[u].plan # None => None \notin {users'[u].expiry, users'[u].reset}
      BY <1>5, <3>1 DEF TypeOK
    <3>. QED
      BY <3>2, <1>3 DEF TypeOK
  <2>3. causes' \in [Users -> SUBSET {"replanned", "curtailed"}]
    BY <1>6 DEF TypeOK, rollTrafficPeriod
  <2>4. began' \in [Users -> Instants \cup {None}]
    BY <1>2 DEF TypeOK, rollTrafficPeriod
  <2>5. pass' \in [Workers -> Pass \cup {None}]
    BY <1>7, <1>8 DEF TypeOK
  <2>. QED
    BY <1>3, <2>1, <2>2, <2>3, <2>4, <2>5 DEF TypeOK
<1>11. PassesOK'
  BY <1>8, <1>9 DEF PassesOK, Running, TypeOK
<1>12. MarksOK'
  <2>1. "replanned" \notin causes'[u] => users[u].plan = row.plan
    BY <1>3 DEF Missed
  <2>2. pass[w].roll.at # None
    BY <1>2, NumbersAreNotNull
  <2>. QED
    BY <1>2, <1>3, <1>5, <2>1, <2>2 DEF MarksOK, Subscribed
<1>13. PaidUp'
  <2>. SUFFICES ASSUME NEW v \in Users, users'[v].plan # None, "curtailed" \notin causes'[v]
                PROVE  users'[v].reset < users'[v].expiry + Slack
    BY DEF PaidUp, Subscribed
  <2>1. CASE v = u
    <3>1. ~(users[u].expiry < row.expiry)
      BY <1>3, <2>1 DEF Missed
    <3>2. users[u].expiry \in Nat
      BY <1>4, <1>5, <2>1 DEF TypeOK, UserRow
    <3>. QED
      BY <1>2, <1>5, <2>1, <3>1, <3>2, PlanAssumption
  <2>2. CASE v # u
    BY <1>3, <2>2 DEF PaidUp, Subscribed
  <2>. QED
    BY <2>1, <2>2
<1>. QED
  BY <1>10, <1>11, <1>12, <1>13 DEF PeriodInv

-----------------------------------------------------------------------------
LEMMA OthersKeep ==
  ASSUME PeriodInv, Tick \/ (\E u \in Users : ReportTraffic(u)) \/ UNCHANGED vars
  PROVE  PeriodInv'
<1>1. UNCHANGED <<users, pass, began, causes>> /\ now' \in Instants
  BY DEF Tick, ReportTraffic, vars, PeriodInv, TypeOK
<1>2. daily' \in [Users -> [Dates -> {0, Volume}]]
  <2>1. CASE \E u \in Users : ReportTraffic(u)
    <3>1. PICK u \in Users : ReportTraffic(u)
      BY <2>1
    <3>2. daily[u] \in [Dates -> {0, Volume}] /\ daily[u][Date(now)] + Volume = Volume
      BY <3>1, PlanAssumption DEF ReportTraffic, PeriodInv, TypeOK
    <3>3. daily'[u] = [daily[u] EXCEPT ![Date(now)] = daily[u][Date(now)] + Volume]
      BY <3>1 DEF ReportTraffic, PeriodInv, TypeOK
    <3>4. daily'[u] \in [Dates -> {0, Volume}]
      BY <3>2, <3>3
    <3>. QED
      BY <3>1, <3>4 DEF ReportTraffic, PeriodInv, TypeOK
  <2>. QED
    BY <2>1 DEF Tick, vars, PeriodInv, TypeOK
<1>3. TypeOK'
  BY <1>1, <1>2 DEF PeriodInv, TypeOK
<1>4. PassesOK' /\ MarksOK' /\ PaidUp'
  BY <1>1 DEF PeriodInv, PassesOK, Running, PassOK, MarksOK, Subscribed, PaidUp
<1>. QED
  BY <1>3, <1>4 DEF PeriodInv

(***************************************************************************)
(* Rows, passes and marks keep to one another, whatever the workers have   *)
(* not seen of what the administrators do: for any plans of one, three,    *)
(* six or twelve months, at any instants.                                  *)
(***************************************************************************)
THEOREM PeriodInvariant == Spec => []PeriodInv
<1>1. PeriodInv /\ [Next]_vars => PeriodInv'
  <2>. SUFFICES ASSUME PeriodInv, [Next]_vars PROVE PeriodInv'
    OBVIOUS
  <2>1. ASSUME NEW w \in Workers, EndPass(w) PROVE PeriodInv'
    BY <2>1, WorkerKeeps DEF EndPass
  <2>. QED
    BY <2>1, AssociateKeeps, EditKeeps, StartKeeps, SkipKeeps, DecideKeeps, RollKeeps, OthersKeep
       DEF Next, Admin
<1>. QED
  BY InitPeriod, <1>1, PTL DEF Spec

\* Type correctness of the rows and the passes over them.
THEOREM TypeCorrect == Spec => []TypeOK
<1>1. PeriodInv => TypeOK
  BY DEF PeriodInv
<1>. QED
  BY <1>1, PeriodInvariant, PTL

(***************************************************************************)
(* No user is given allowance past the subscription, however many workers  *)
(* write marks at once, each by what it read before.                       *)
(***************************************************************************)
THEOREM AllowanceIsPaid == Spec => []PaidUp
<1>1. PeriodInv => PaidUp
  BY DEF PeriodInv
<1>. QED
  BY <1>1, PeriodInvariant, PTL

(***************************************************************************)
(* The window that decides a cycle holds the whole cycle: billingPeriod    *)
(* goes back to the day before the one it began on.                        *)
(***************************************************************************)
THEOREM CyclesAreBilled == Spec => []CycleBilled
<1>1. ASSUME PeriodInv PROVE CycleBilled
  <2>. SUFFICES ASSUME NEW u \in Users, Subscribed(u), "replanned" \notin causes[u],
                       DayOfMonth(Date(began[u])) <= 28, NEW d \in Cycle(u)
                PROVE  d \in Billed(users[u])
    BY DEF CycleBilled
  <2>. DEFINE row == users[u]
              t == began[u]
              n == Months[row.plan]
  <2>1. t \in Nat /\ row.plan \in Plans /\ row.reset = AddDate(t, n, 0)
    BY <1>1, PlanAssumption DEF PeriodInv, MarksOK, TypeOK, UserRow, Subscribed
  <2>2. n \in Nat
    BY <2>1, MonthsOfPlan
  <2>3. billingPeriod(row).from = Midnight(Date(t) - 1) + (t % DayHours) /\ billingPeriod(row).to = row.reset
    BY <2>1, <2>2, ThereAndBack DEF billingPeriod
  <2>4. d \in Dates /\ Date(t) <= d /\ Midnight(d) <= row.reset
    BY DEF Cycle
  <2>5. d \in Nat
    BY <2>4, DayAndHours, PlanAssumption DEF Dates
  <2>6. Date(t) \in Nat /\ t % DayHours \in 0..23
    BY <2>1, DayAndHours
  <2>7. Midnight(Date(t) - 1) + (t % DayHours) <= Midnight(d)
    BY <2>4, <2>5, <2>6 DEF Midnight, DayHours
  <2>. QED
    BY <2>3, <2>4, <2>7 DEF Billed
<1>. QED
  BY <1>1, PeriodInvariant, PTL
=============================================================================
