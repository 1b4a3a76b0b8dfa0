---------------------------- MODULE TrafficPeriod ----------------------------
(***************************************************************************)
(* Traffic plans: a user's expiry and traffic-reset marks, written by the  *)
(* administrators and by the worker.                                       *)
(*                                                                         *)
(* The worker reads every user once per pass and then, one user at a time, *)
(* totals the traffic of the window that ends at the reset mark it read,   *)
(* decides whether the cycle has ended, and writes a new mark.  It writes  *)
(* that one column whatever the row has become since.  docs/architecture   *)
(* asks for a single worker; nothing enforces it, so Workers is a set.     *)
(*                                                                         *)
(* The history variables say when the current cycle of a user began and    *)
(* what was done to the row behind the back of the worker that set it.     *)
(***************************************************************************)
EXTENDS Calendar, FiniteSets, FiniteSetsExt

CONSTANTS
  Users,     \* accounts
  Plans,     \* traffic_plan rows: never edited, never deleted
  Months,    \* length of each plan's period in months
  Quota,     \* TotalTraffic of each plan
  Workers,   \* controller processes that run the worker
  Slack,     \* hours by which a mark may lie past the expiry
  Instants,  \* instants at which something may happen: bounds the clock
  Volume,    \* traffic of a day that has any: bounds the traffic
  None       \* NULL

ASSUME PlanAssumption ==
  /\ Months \in [Plans -> {1, 3, 6, 12}]
  /\ Quota \in [Plans -> Nat \ {0}]
  /\ Slack \in Nat \ {0}
  /\ Instants \subseteq Nat /\ Volume \in Nat \ {0}
  /\ None \notin Plans /\ None \notin Int

VARIABLES
  now,     \* the clock
  users,   \* plan_id, expiration_time and reset_traffic_time of each user
  daily,   \* user_daily_traffic: traffic of each user on each day
  pass,    \* the pass each worker is in
  began,   \* history: when the cycle that ends at the reset mark was begun
  causes   \* history: what parts the reset mark from the rest of the row

vars == <<now, users, daily, pass, began, causes>>

Dates == {Date(t) : t \in Instants}

NoPlan == [plan |-> None, expiry |-> None, reset |-> None]

Init ==
  /\ now \in Instants
  /\ users = [u \in Users |-> NoPlan]
  /\ daily = [u \in Users |-> [d \in Dates |-> 0]]
  /\ pass = [w \in Workers |-> None]
  /\ began = [u \in Users |-> None]
  /\ causes = [u \in Users |-> {}]

-----------------------------------------------------------------------------
PlanPeriodEnd(from, p) == AddDate(from, Months[p], 0)

nextResetTime(from, p) == AddDate(from, Months[p], 0)

\* Mutant: the window starts on the dot, not a day earlier.
billingPeriod_NoDayBack(row) ==
  [from |-> AddDate(row.reset, -Months[row.plan], 0), to |-> row.reset]

\* The daily rows a mark stands for: dated from a day before the cycle up to its end.
billingPeriod(row) ==
  [from |-> AddDate(row.reset, -Months[row.plan], -1), to |-> row.reset]

Billed(row) ==
  {d \in Dates : billingPeriod(row).from <= Midnight(d) /\ Midnight(d) <= billingPeriod(row).to}

PeriodTrafficUsage(u, row) == MapThenSumSet(LAMBDA d : daily[u][d], Billed(row))

-----------------------------------------------------------------------------
(* Administrators, traffic, the clock.                                     *)

\* AssociatePlan; CreatePlan and the creation of an account set the same marks.
AssociatePlan(u, p) ==
  LET until == PlanPeriodEnd(now, p) IN
  /\ users' = [users EXCEPT ![u] = [plan |-> p, expiry |-> until, reset |-> until]]
  /\ began' = [began EXCEPT ![u] = now]
  /\ causes' = [causes EXCEPT ![u] = {}]
  /\ UNCHANGED <<now, daily, pass>>

\* EditUser writes the expiry alone.
EditUser(u, e) ==
  /\ users' = [users EXCEPT ![u].expiry = e]
  /\ causes' = [causes EXCEPT ![u] =
                  IF users[u].plan # None /\ e < users[u].expiry THEN @ \cup {"curtailed"} ELSE @]
  /\ UNCHANGED <<now, daily, pass, began>>

ReportTraffic(u) ==
  /\ daily[u][Date(now)] = 0
  /\ daily' = [daily EXCEPT ![u][Date(now)] = @ + Volume]
  /\ UNCHANGED <<now, users, pass, began, causes>>

Tick ==
  /\ \E t \in Instants : t > now /\ now' = t
  /\ UNCHANGED <<users, daily, pass, began, causes>>

-----------------------------------------------------------------------------
(* The worker: ReconcileTrafficPlans.                                      *)

Running(w) == pass[w] # None

StartPass(w) ==
  /\ ~Running(w)
  /\ pass' = [pass EXCEPT ![w] =
                [seen |-> users, todo |-> {u \in Users : users[u].plan # None}, roll |-> None]]
  /\ UNCHANGED <<now, users, daily, began, causes>>

\* Mutant: only a blown quota ends a cycle.
Due_QuotaOnly(u, row) == PeriodTrafficUsage(u, row) > Quota[row.plan]

Due(u, row) == now > row.reset \/ PeriodTrafficUsage(u, row) > Quota[row.plan]

\* Mutant: a subscription that has run out is rolled like any other.
Payable_Always(row) == TRUE

\* The next cycle must not end later than Slack past what was paid for.
Payable(row) == row.expiry + Slack > nextResetTime(now, row.plan)

\* One user's turn up to the write: usage, decision, and the mark to be written.
Decide(w, u) ==
  LET row == pass[w].seen[u] IN
  /\ Running(w) /\ pass[w].roll = None
  /\ u \in pass[w].todo
  /\ pass' = [pass EXCEPT
       ![w].todo = @ \ {u},
       ![w].roll = IF Due(u, row) /\ Payable(row)
                   THEN [user |-> u, at |-> now, mark |-> nextResetTime(now, row.plan)]
                   ELSE None]
  /\ UNCHANGED <<now, users, daily, began, causes>>

\* The usage query fails: the user is passed over.
UsageFails(w, u) ==
  /\ Running(w) /\ pass[w].roll = None
  /\ u \in pass[w].todo
  /\ pass' = [pass EXCEPT ![w].todo = @ \ {u}]
  /\ UNCHANGED <<now, users, daily, began, causes>>

Rolling(w, u) == Running(w) /\ pass[w].roll # None /\ pass[w].roll.user = u

\* What the worker did not see when it writes a mark over the row of u.
Missed(w, u) ==
  LET row == pass[w].seen[u] IN
  (IF users[u].plan # row.plan THEN {"replanned"} ELSE {})
    \cup (IF users[u].expiry < row.expiry THEN {"curtailed"} ELSE {})

rollTrafficPeriod(w, u) ==
  /\ Rolling(w, u)
  /\ users' = [users EXCEPT ![u].reset = pass[w].roll.mark]
  /\ began' = [began EXCEPT ![u] = pass[w].roll.at]
  /\ causes' = [causes EXCEPT ![u] = Missed(w, u)]
  /\ pass' = [pass EXCEPT ![w].roll = None]
  /\ UNCHANGED <<now, daily>>

RollFails(w, u) ==
  /\ Rolling(w, u)
  /\ pass' = [pass EXCEPT ![w].roll = None]
  /\ UNCHANGED <<now, users, daily, began, causes>>

\* The pass is over when nobody is left, or cut short by a shutdown.
EndPass(w) ==
  /\ Running(w)
  /\ pass' = [pass EXCEPT ![w] = None]
  /\ UNCHANGED <<now, users, daily, began, causes>>

-----------------------------------------------------------------------------
Admin(u) ==
  \/ \E p \in Plans : AssociatePlan(u, p)
  \/ \E e \in Instants : EditUser(u, e)

Next ==
  \/ Tick
  \/ \E u \in Users : Admin(u) \/ ReportTraffic(u)
  \/ \E w \in Workers : StartPass(w) \/ EndPass(w)
  \/ \E w \in Workers, u \in Users :
       Decide(w, u) \/ UsageFails(w, u) \/ rollTrafficPeriod(w, u) \/ RollFails(w, u)

Spec == Init /\ [][Next]_vars

\* The ticker starts pass after pass, and a query tried for ever succeeds at times.
Fairness ==
  \A w \in Workers :
    /\ WF_vars(StartPass(w))
    /\ WF_vars(EndPass(w))
    /\ \A u \in Users : SF_vars(Decide(w, u)) /\ SF_vars(rollTrafficPeriod(w, u))

FairSpec == Spec /\ Fairness

-----------------------------------------------------------------------------
UserRow == [plan : Plans \cup {None}, expiry : Nat \cup {None}, reset : Nat \cup {None}]

Pass ==
  [seen : [Users -> UserRow], todo : SUBSET Users,
   roll : [user : Users, at : Instants, mark : Nat] \cup {None}]

(***************************************************************************)
(* Type correctness, with the shape of a row: one that has a plan has both *)
(* marks, so that ReconcileTrafficPlans never meets a NULL once it has     *)
(* seen a plan.                                                            *)
(***************************************************************************)
TypeOK ==
  /\ now \in Instants
  /\ users \in [Users -> UserRow]
  /\ \A u \in Users : users[u].plan # None => None \notin {users[u].expiry, users[u].reset}
  /\ daily \in [Users -> [Dates -> {0, Volume}]]
  /\ pass \in [Workers -> Pass \cup {None}]
  /\ began \in [Users -> Instants \cup {None}]
  /\ causes \in [Users -> SUBSET {"replanned", "curtailed"}]

Subscribed(u) == users[u].plan # None

\* The daily rows of the cycle the user is in.
Cycle(u) == {d \in Dates : Date(began[u]) <= d /\ Midnight(d) <= users[u].reset}

(***************************************************************************)
(* The usage that decides a cycle is the usage of the whole cycle: every   *)
(* day from the one it began on up to the reset mark lies in the window    *)
(* that PeriodTrafficUsage totals.  Except when the mark was written for   *)
(* another plan than the user now has, or when the cycle began on one of   *)
(* the last days of a month, which AddDate does not bring back.            *)
(***************************************************************************)
CycleBilled ==
  \A u \in Users :
    Subscribed(u) /\ "replanned" \notin causes[u] /\ DayOfMonth(Date(began[u])) <= 28 =>
      Cycle(u) \subseteq Billed(users[u])

(***************************************************************************)
(* No user is given allowance past the subscription: the reset mark lies   *)
(* within Slack of the expiry unless the expiry was cut short, before the  *)
(* mark was written or behind the worker that wrote it.                    *)
(***************************************************************************)
PaidUp ==
  \A u \in Users :
    Subscribed(u) /\ "curtailed" \notin causes[u] => users[u].reset < users[u].expiry + Slack

\* The cycle of a user has ended and the subscription pays for another.
Overdue(u) == Subscribed(u) /\ now > users[u].reset /\ Payable(users[u])

(***************************************************************************)
(* A user whose cycle has ended and who has paid gets the next one, though *)
(* the pass may fail for other users, fail for this one at times, or be    *)
(* cut short.                                                              *)
(***************************************************************************)
OverdueRolled == \A u \in Users : Overdue(u) ~> ~Overdue(u)
=============================================================================
