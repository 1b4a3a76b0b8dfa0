------------------------------ MODULE Accounts ------------------------------
(***************************************************************************)
(* Console accounts and the catalogue of plans: the handlers of            *)
(* admin/handler/user.go and auth.go and CreatePlan, each run by several   *)
(* administrators at once.  The tables have no unique key on names and no  *)
(* auto-increment on accounts, so what keeps names and ids apart is the    *)
(* order of reads, locks and writes modelled here.                         *)
(***************************************************************************)
EXTENDS Absent, Naturals, FiniteSets, FiniteSetsExt

CONSTANTS
  Procs,     \* concurrent console requests
  MaxId,     \* bounds the ids of accounts
  Names,
  PlanNames

Roles == {"SUPER_ADMIN", "USER"}
AccountIds == 1..MaxId

\* None is no name, no role, and no request to replace one.
ASSUME AccountsAssumption ==
  /\ MaxId \in Nat \ {0}
  /\ None \notin Names \cup PlanNames \cup Roles
  /\ None \notin [pc : {"role"}, id : AccountIds, role : Roles]

VARIABLES
  users,     \* user table: rows [id, name, birth]
  roles,     \* user_roles_role: pairs <<id, role>>
  plans,     \* traffic_plan: rows [id, name]
  ops,       \* what each request is in the middle of
  given,     \* history: the role each account was last given
  confused,  \* history: ids whose role rows are not those of one request for an account
  doubtful   \* history: names counted as free twice, or given by a rename

accountsHist == <<given, confused, doubtful>>
accountsVars == <<users, roles, plans, ops, accountsHist>>

AccountsInit ==
  /\ users = {[id |-> 1, name |-> CHOOSE n \in Names : TRUE, birth |-> 0]} 
  /\ roles = {<<1, "SUPER_ADMIN">>}
  /\ plans = {}
  /\ ops = [p \in Procs |-> None]
  /\ given = [i \in AccountIds |-> IF i = 1 THEN "SUPER_ADMIN" ELSE None]
  /\ confused = {} /\ doubtful = {}

-----------------------------------------------------------------------------
Free(p) == ops[p] = None

Stands(p, pc) == ~Free(p) /\ ops[p].pc = pc

Enter(p, op) == ops' = [ops EXCEPT ![p] = op]

Leave(p) == ops' = [ops EXCEPT ![p] = None]

IdsOf(rows) == {r.id : r \in rows}

Named(rows, n) == {r \in rows : r.name = n}

\* Requests between the two statements that replace a role.
Replacing(i) == \E p \in Procs : Stands(p, "role") /\ ops[p].id = i

Creating(n) == \E p \in Procs : Stands(p, "add") /\ ops[p].name = n

-----------------------------------------------------------------------------
(* Add: the name is counted without a lock, the id picked under one.       *)

\* Mutant: the name is not counted.
NameCounts_Skip(p) ==
  /\ Free(p)
  /\ \E n \in Names, r \in Roles :
       /\ Enter(p, [pc |-> "add", name |-> n, role |-> r])
       /\ doubtful' = IF Creating(n) THEN doubtful \cup {n} ELSE doubtful
  /\ UNCHANGED <<users, roles, plans, given, confused>>

NameCounts(p) ==
  /\ Free(p)
  /\ \E n \in Names, r \in Roles :
       /\ Named(users, n) = {}
       /\ Enter(p, [pc |-> "add", name |-> n, role |-> r])
       /\ doubtful' = IF Creating(n) THEN doubtful \cup {n} ELSE doubtful
  /\ UNCHANGED <<users, roles, plans, given, confused>>

\* Tells two rows of one id apart.
NewBirth == CHOOSE b \in 0..MaxId : \A u \in users : u.birth # b

\* Mutant: ids are counted rather than taken past the greatest.
NewId_Count == Cardinality(users) + 1

\* Read FOR UPDATE, so that creations take turns until they commit.
NewId == (IF users = {} THEN 0 ELSE Max(IdsOf(users))) + 1

\* From the locking read to the commit nobody else creates an account.
AddCommits(p) ==
  LET i == NewId IN
  /\ Stands(p, "add") /\ i \in AccountIds
  /\ users' = users \cup {[id |-> i, name |-> ops[p].name, birth |-> NewBirth]}
  /\ roles' = roles \cup {<<i, ops[p].role>>}
  /\ given' = [given EXCEPT ![i] = ops[p].role]
  /\ Leave(p)
  /\ UNCHANGED <<plans, confused, doubtful>>

\* The plan asked for does not exist, or a statement fails: all is rolled back.
AddRollsBack(p) ==
  /\ Stands(p, "add")
  /\ Leave(p)
  /\ UNCHANGED <<users, roles, plans, accountsHist>>

Add(p) == NameCounts(p) \/ AddCommits(p) \/ AddRollsBack(p)

-----------------------------------------------------------------------------
(* Update: a rename looks at nothing; a role is replaced by two statements *)
(* outside a transaction.                                                  *)

UpdateName(p) ==
  /\ Free(p)
  /\ \E u \in users, n \in Names :
       /\ users' = {IF v.id = u.id THEN [v EXCEPT !.name = n] ELSE v : v \in users}
       /\ doubtful' = IF Named(users, n) # {} \/ Creating(n) THEN doubtful \cup {n} ELSE doubtful
  /\ UNCHANGED <<roles, plans, ops, given, confused>>

\* Two requests at work on one id, or no account with it: whoever gets the id
\* next finds the row.
Confuse(i) == confused' = IF Replacing(i) \/ i \notin IdsOf(users) THEN confused \cup {i} ELSE confused \ {i}

\* Mutant: the role is added to what the account has.
UpdDeletesRole_Keep(p) ==
  /\ Free(p)
  /\ \E i \in AccountIds, r \in Roles :
       /\ Enter(p, [pc |-> "role", id |-> i, role |-> r])
       /\ Confuse(i)
  /\ UNCHANGED <<users, roles, plans, given, doubtful>>

\* Whether there is such an account is not asked.
UpdDeletesRole(p) ==
  /\ Free(p)
  /\ \E i \in AccountIds, r \in Roles :
       /\ Enter(p, [pc |-> "role", id |-> i, role |-> r])
       /\ \/ roles' = {x \in roles : x[1] # i} /\ Confuse(i)
          \/ confused' = confused \cup {i} /\ UNCHANGED roles
  /\ UNCHANGED <<users, plans, given, doubtful>>

\* The error of either statement is dropped: the account may be left without a
\* role, or with one more.
UpdCreatesRole(p) ==
  LET i == ops[p].id IN
  /\ Stands(p, "role")
  /\ \/ /\ roles' = roles \cup {<<i, ops[p].role>>}
        /\ given' = IF i \in IdsOf(users) THEN [given EXCEPT ![i] = ops[p].role] ELSE given
        /\ UNCHANGED confused
     \/ confused' = confused \cup {i} /\ UNCHANGED <<roles, given>>
  /\ Leave(p)
  /\ UNCHANGED <<users, plans, doubtful>>

Update(p) == UpdateName(p) \/ UpdDeletesRole(p) \/ UpdCreatesRole(p)

-----------------------------------------------------------------------------
\* In one transaction; rules and grants of the account keep its id.
Delete(p) ==
  /\ Free(p)
  /\ \E i \in IdsOf(users) :
       /\ users' = {u \in users : u.id # i}
       /\ roles' = {x \in roles : x[1] # i}
       /\ given' = [given EXCEPT ![i] = None]
       /\ confused' = IF Replacing(i) THEN confused \cup {i} ELSE confused \ {i}
  /\ UNCHANGED <<plans, ops, doubtful>>

roleOf(i) == IF <<i, "SUPER_ADMIN">> \in roles THEN "SUPER_ADMIN" ELSE "USER"

-----------------------------------------------------------------------------
(* CreatePlan: the catalogue is locked by the count until the commit.      *)

Locked == \E p \in Procs : Stands(p, "plan")

\* From Month to Year; the column would take any other number.
Periods == 0..3

\* The name is what is left of it without the spaces around it: None if nothing is.
Draft == [name : PlanNames \cup {None}, traffic : {0, 1}, period : {0, 4}]

validateCreatePlan(d) == d.name # None /\ d.traffic > 0 /\ d.period \in Periods

PlanCounts(p) ==
  /\ Free(p) /\ ~Locked
  /\ \E d \in Draft :
       /\ validateCreatePlan(d)
       /\ Named(plans, d.name) = {}
       /\ Enter(p, [pc |-> "plan", name |-> d.name])
  /\ UNCHANGED <<users, roles, plans, accountsHist>>

\* The id is the table's next; the account's marks are TrafficPeriod's.
PlanCommits(p) ==
  /\ Stands(p, "plan")
  /\ plans' = plans \cup {[id |-> Cardinality(plans) + 1, name |-> ops[p].name]}
  /\ Leave(p)
  /\ UNCHANGED <<users, roles, accountsHist>>

\* The account the plan is for does not exist, or a statement fails.
PlanRollsBack(p) ==
  /\ Stands(p, "plan")
  /\ Leave(p)
  /\ UNCHANGED <<users, roles, plans, accountsHist>>

CreatePlan(p) == PlanCounts(p) \/ PlanCommits(p) \/ PlanRollsBack(p)

AccountsNext ==
  \E p \in Procs :
    \/ Add(p) \/ Update(p) \/ Delete(p) \/ CreatePlan(p)

AccountsSpec == AccountsInit /\ [][AccountsNext]_accountsVars

-----------------------------------------------------------------------------
(***************************************************************************)
(* An account's id is its own: the table has no key that would refuse a    *)
(* second row, and every other table names accounts by it.                 *)
(***************************************************************************)
OneRowPerId == \A u, v \in users : u.id = v.id => u = v

(***************************************************************************)
(* What the comment on Add says: no second account with the same name; but *)
(* for creations that counted at once, and for renames.  Plan names have   *)
(* no exception, since there the count is a locking read.                  *)
(***************************************************************************)
NamesUnique ==
  /\ \A u, v \in users : u.name = v.name /\ u # v => u.name \in doubtful
  /\ \A p, q \in plans : p.name = q.name => p = q

(***************************************************************************)
(* An account acts with the role it was last given, and a new one never    *)
(* inherits the role of the account that had its id.  But not an account   *)
(* two requests have worked on at once, one a statement has failed for, or *)
(* one whose id an Update named while nobody had it: its row waits for the *)
(* next account, since ids are used again.                                 *)
(***************************************************************************)
RoleKept ==
  \A u \in users : u.id \notin confused /\ ~Replacing(u.id) => roleOf(u.id) = given[u.id]
=============================================================================
