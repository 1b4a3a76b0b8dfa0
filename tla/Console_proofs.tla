---------------------------- MODULE Console_proofs ----------------------------
(***************************************************************************)
(* The small components of the console and what stands beside it, each     *)
(* with its own inductive invariant: accounts and plans, signing in, gost, *)
(* the life of a process, and the way of a request.  They share no state,  *)
(* and each part below stands for itself.                                  *)
(***************************************************************************)
EXTENDS Accounts, SignIn, Gost, Lifecycle, Dispatch, SequenceTheorems, WellFoundedInduction, TLAPS

(***************************************************************************)
(* The greatest of some ids of accounts is one of them, and none is        *)
(* greater.                                                                *)
(***************************************************************************)
LEMMA GreatestAccount ==
  ASSUME NEW S \in SUBSET AccountIds, S # {}
  PROVE  Max(S) \in S /\ \A y \in S : Max(S) >= y
<1> DEFINE T == {MaxId - x : x \in S}
<1>1. T \in SUBSET Nat /\ T # {}
  <2>1. ASSUME NEW x \in S
        PROVE  MaxId - x \in Nat
    BY AccountsAssumption DEF AccountIds
  <2>2. QED BY <2>1
<1> DEFINE R == OpToRel(<, Nat)
<1>2. \A x, y \in Nat : x < y => <<x, y>> \in R
  BY DEF OpToRel
<1>3. IsWellFoundedOn(R, Nat)
  BY NatLessThanWellFounded
<1> HIDE DEF R, T
<1>4. PICK t \in T : \A u \in T : ~(<<u, t>> \in R)
  BY <1>1, <1>3, WFMin
<1>5. \A u \in T : t =< u
  <2>1. SUFFICES ASSUME NEW u \in T
                 PROVE  t =< u
    OBVIOUS
  <2>2. t \in Nat /\ u \in Nat /\ ~(u < t)
    BY <1>1, <1>2, <1>4
  <2>3. QED BY <2>2
<1>6. PICK x \in S : t = MaxId - x
  BY DEF T
<1>7. \A y \in S : x >= y
  <2>1. SUFFICES ASSUME NEW y \in S
                 PROVE  x >= y
    OBVIOUS
  <2>2. MaxId - x =< MaxId - y
    BY <1>5, <1>6 DEF T
  <2>3. QED BY <2>2, AccountsAssumption DEF AccountIds
<1>8. QED BY <1>7 DEF Max

-----------------------------------------------------------------------------
(***************************************************************************)
(* Accounts.  Between its count and its commit a creation holds its name:  *)
(* nobody has it yet, or it is known to be doubtful.  Between its two      *)
(* statements a change of role has the account without any, and alone.     *)
(***************************************************************************)
IsUser(u) == u.id \in AccountIds /\ u = [id |-> u.id, name |-> u.name, birth |-> u.birth]

RoleRequest == [pc : {"role"}, id : AccountIds, role : Roles]

AddRequest(o) == o.pc = "add" /\ o.role \in Roles

PlanRequest(o) == o.pc = "plan"

AccountsOK ==
  /\ \A u \in users : IsUser(u)
  /\ ops = [p \in Procs |-> ops[p]]
  /\ \A p \in Procs : Free(p) \/ ops[p] \in RoleRequest \/ AddRequest(ops[p]) \/ PlanRequest(ops[p])
  /\ given = [i \in AccountIds |-> given[i]]
  /\ confused \subseteq AccountIds

\* Names: of accounts, and of plans.
NamesHeld ==
  /\ \A p \in Procs : Stands(p, "add") => Named(users, ops[p].name) = {} \/ ops[p].name \in doubtful
  /\ \A p, q \in Procs :
       Stands(p, "add") /\ Stands(q, "add") /\ ops[p].name = ops[q].name => p = q \/ ops[p].name \in doubtful
  /\ \A u, v \in users : u.name = v.name /\ u # v => u.name \in doubtful

PlansHeld ==
  /\ \A p \in Procs : Stands(p, "plan") => Named(plans, ops[p].name) = {}
  /\ \A p, q \in Procs : Stands(p, "plan") /\ Stands(q, "plan") => p = q
  /\ \A p, q \in plans : p.name = q.name => p = q

Holds(i, r) == <<i, r>> \in roles

\* Roles, of an account that is not confused.
RoleSettled(i) ==
  /\ \A p, q \in Procs : Stands(p, "role") /\ Stands(q, "role") /\ ops[p].id = i /\ ops[q].id = i => p = q
  /\ Replacing(i) => i \in IdsOf(users) /\ \A r \in Roles : ~Holds(i, r)
  /\ ~Replacing(i) =>
       /\ i \in IdsOf(users) => given[i] \in Roles
       /\ \A r \in Roles : Holds(i, r) <=> i \in IdsOf(users) /\ given[i] = r

RolesHeld == \A i \in AccountIds \ confused : RoleSettled(i)

AccountsInv == AccountsOK /\ OneRowPerId /\ NamesHeld /\ PlansHeld /\ RolesHeld

LEMMA AccountsInitInv == AccountsInit => AccountsInv
<1> SUFFICES ASSUME AccountsInit
             PROVE  AccountsInv
  OBVIOUS
<1> USE DEF AccountsInit
<1>1. 1 \in AccountIds /\ \A p \in Procs : Free(p)
  BY AccountsAssumption DEF AccountIds, Free
<1>2. AccountsOK
  BY <1>1 DEF AccountsOK, IsUser
<1>3. OneRowPerId /\ NamesHeld /\ PlansHeld
  BY <1>1 DEF OneRowPerId, NamesHeld, PlansHeld, Stands
<1>4. IdsOf(users) = {1}
  BY DEF IdsOf
<1>5. RolesHeld
  BY <1>1, <1>4, AccountsAssumption DEF RolesHeld, RoleSettled, Replacing, Stands, Holds, Roles
<1>6. QED BY <1>2, <1>3, <1>5 DEF AccountsInv

LEMMA NameCountsInv == ASSUME AccountsInv, NEW p \in Procs, NameCounts(p) PROVE AccountsInv'
<1> USE DEF AccountsInv
<1>1. PICK n \in Names, r \in Roles :
        /\ Named(users, n) = {}
        /\ Enter(p, [pc |-> "add", name |-> n, role |-> r])
        /\ doubtful' = IF Creating(n) THEN doubtful \cup {n} ELSE doubtful
  BY DEF NameCounts
<1> DEFINE o == [pc |-> "add", name |-> n, role |-> r]
<1>2. o.pc = "add" /\ o.name = n /\ o.role = r
  OBVIOUS
<1> HIDE DEF o
<1>3. UNCHANGED <<users, roles, plans, given, confused>> /\ Free(p)
  BY DEF NameCounts
<1>4. /\ ops' = [q \in Procs |-> ops'[q]]
      /\ ops'[p] = o /\ \A q \in Procs \ {p} : ops'[q] = ops[q]
  BY <1>1 DEF Enter, AccountsOK, o
<1>5. AccountsOK'
  BY <1>2, <1>3, <1>4 DEF AccountsOK, Free, AddRequest, IsUser, PlanRequest
<1>6. \A q \in Procs, pc \in {"role", "plan"} : Stands(q, pc)' <=> Stands(q, pc)
  BY <1>2, <1>3, <1>4 DEF Stands, Free
<1>7. \A q \in Procs : Stands(q, "add")' => q = p \/ Stands(q, "add")
  BY <1>4 DEF Stands, Free
<1>8. NamesHeld'
  <2>1. \A q \in Procs : Stands(q, "add")' => Named(users, ops'[q].name) = {} \/ ops'[q].name \in doubtful'
    BY <1>1, <1>2, <1>4, <1>7 DEF NamesHeld
  <2>2. ASSUME NEW q \in Procs, NEW s \in Procs, Stands(q, "add")', Stands(s, "add")',
               ops'[q].name = ops'[s].name, q # s
        PROVE  ops'[q].name \in doubtful'
    BY <1>1, <1>2, <1>4, <1>7, <2>2 DEF NamesHeld, Creating
  <2>3. \A u, v \in users : u.name = v.name /\ u # v => u.name \in doubtful'
    BY <1>1 DEF NamesHeld
  <2>4. QED BY <1>3, <2>1, <2>2, <2>3 DEF NamesHeld, Named
<1>9. PlansHeld'
  BY <1>3, <1>4, <1>6, <1>2 DEF PlansHeld, Stands, Named
<1>10. RolesHeld'
  <2>1. \A i \in AccountIds, q \in Procs :
          Stands(q, "role")' /\ ops'[q].id = i <=> Stands(q, "role") /\ ops[q].id = i
    BY <1>4, <1>6, <1>2, <1>3 DEF Stands, Free
  <2>2. \A i \in AccountIds : Replacing(i)' <=> Replacing(i)
    BY <2>1 DEF Replacing
  <2>3. QED BY <1>3, <2>1, <2>2 DEF RolesHeld, RoleSettled, IdsOf, Holds
<1>11. OneRowPerId'
  BY <1>3 DEF OneRowPerId
<1>12. QED BY <1>5, <1>8, <1>9, <1>10, <1>11

\* What is left of the requests when one of them is over.
LEMMA RequestLeaves ==
  ASSUME AccountsOK, NEW p \in Procs, Leave(p)
  PROVE  /\ ops' = [q \in Procs |-> ops'[q]]
         /\ \A q \in Procs : (Free(q) \/ ops[q] \in RoleRequest \/ AddRequest(ops[q]) \/ PlanRequest(ops[q]))'
         /\ \A q \in Procs : \A pc : Stands(q, pc)' <=> q # p /\ Stands(q, pc)
         /\ \A q \in Procs : Free(q)' <=> q = p \/ Free(q)
         /\ \A q \in Procs \ {p} : ops'[q] = ops[q]
<1>1. /\ ops' = [q \in Procs |-> ops'[q]]
      /\ ops'[p] = None /\ \A q \in Procs \ {p} : ops'[q] = ops[q]
  BY DEF Leave, AccountsOK
<1>2. QED BY <1>1 DEF Stands, Free, AccountsOK, AddRequest, PlanRequest

LEMMA NewIdFree ==
  ASSUME \A u \in users : IsUser(u)
  PROVE  NewId \notin IdsOf(users)
<1>1. CASE users = {}
  BY <1>1 DEF IdsOf
<1>2. CASE users # {}
  <2>1. IdsOf(users) \in SUBSET AccountIds /\ IdsOf(users) # {}
    BY <1>2 DEF IdsOf, IsUser
  <2>2. Max(IdsOf(users)) \in AccountIds /\ \A y \in IdsOf(users) : Max(IdsOf(users)) >= y
    BY <2>1, GreatestAccount
  <2> DEFINE m == Max(IdsOf(users))
  <2>3. NewId = m + 1
    BY <1>2 DEF NewId
  <2> HIDE DEF m
  <2>4. m \in Nat /\ \A y \in IdsOf(users) : y \in Nat /\ m >= y
    BY <2>1, <2>2 DEF m, AccountIds
  <2>5. QED BY <2>3, <2>4
<1>3. QED BY <1>1, <1>2

LEMMA AddCommitsInv == ASSUME AccountsInv, NEW p \in Procs, AddCommits(p) PROVE AccountsInv'
<1> USE DEF AccountsInv
<1> DEFINE i == NewId
           n == ops[p].name
           r == ops[p].role
           b == NewBirth
           new == [id |-> i, name |-> n, birth |-> b]
<1>1. /\ Stands(p, "add") /\ i \in AccountIds
      /\ users' = users \cup {new} /\ roles' = roles \cup {<<i, r>>}
      /\ given' = [given EXCEPT ![i] = r]
      /\ Leave(p)
      /\ UNCHANGED <<plans, confused, doubtful>>
  BY DEF AddCommits
<1>2. /\ ops' = [q \in Procs |-> ops'[q]]
      /\ \A q \in Procs : (Free(q) \/ ops[q] \in RoleRequest \/ AddRequest(ops[q]) \/ PlanRequest(ops[q]))'
      /\ \A q \in Procs : \A pc : Stands(q, pc)' <=> q # p /\ Stands(q, pc)
      /\ \A q \in Procs \ {p} : ops'[q] = ops[q]
  BY <1>1, RequestLeaves
<1>3. i \notin IdsOf(users) /\ r \in Roles
  BY <1>1, NewIdFree DEF AccountsOK, Stands, RoleRequest, AddRequest, PlanRequest
<1>4. new.id = i /\ new.name = n /\ IsUser(new)
  BY <1>1 DEF IsUser
<1> HIDE DEF i, r, n, new
<1>5. AccountsOK'
  <2>1. given' = [j \in AccountIds |-> given'[j]]
    BY <1>1 DEF AccountsOK
  <2>2. \A u \in users' : IsUser(u)
    BY <1>1, <1>4 DEF AccountsOK
  <2>3. QED BY <1>1, <1>2, <2>1, <2>2 DEF AccountsOK, IsUser
<1>6. OneRowPerId'
  BY <1>1, <1>3, <1>4 DEF OneRowPerId, IdsOf
<1>7. Named(users, n) = {} \/ n \in doubtful
  BY <1>1 DEF NamesHeld, n
<1>8. NamesHeld'
  <2>1. ASSUME NEW q \in Procs, Stands(q, "add")'
        PROVE  (Named(users, ops[q].name) = {} \/ ops[q].name \in doubtful)'
    <3>1. q # p /\ Stands(q, "add") /\ ops'[q] = ops[q]
      BY <1>2, <2>1
    <3>2. ops[q].name = n => n \in doubtful
      BY <1>1, <3>1 DEF NamesHeld, n
    <3>3. Named(users, ops[q].name) = {} \/ ops[q].name \in doubtful
      BY <3>1 DEF NamesHeld
    <3>4. QED BY <1>1, <1>4, <3>1, <3>2, <3>3 DEF Named
  <2>2. ASSUME NEW q \in Procs, NEW s \in Procs, Stands(q, "add")', Stands(s, "add")',
               ops'[q].name = ops'[s].name, q # s
        PROVE  ops'[q].name \in doubtful'
    BY <1>1, <1>2, <2>2 DEF NamesHeld
  <2>3. ASSUME NEW u \in users', NEW v \in users', u.name = v.name, u # v
        PROVE  u.name \in doubtful
    <3>1. \A w \in users : w.name = n => n \in doubtful
      BY <1>7 DEF Named
    <3>2. QED BY <1>1, <1>4, <2>3, <3>1 DEF NamesHeld
  <2>4. QED BY <1>1, <2>1, <2>2, <2>3 DEF NamesHeld
<1>9. PlansHeld'
  BY <1>1, <1>2 DEF PlansHeld, Named
<1>10. RolesHeld'
  <2>1. SUFFICES ASSUME NEW j \in AccountIds \ confused
                 PROVE  RoleSettled(j)'
    BY <1>1 DEF RolesHeld
  <2>2. RoleSettled(j)
    BY DEF RolesHeld
  <2>3. \A q \in Procs : Stands(q, "role")' <=> Stands(q, "role")
    BY <1>1, <1>2 DEF Stands
  <2>4. Replacing(j)' <=> Replacing(j)
    BY <1>1, <1>2, <2>3 DEF Replacing, Stands
  <2>5. IdsOf(users)' = IdsOf(users) \cup {i}
    BY <1>1, <1>4 DEF IdsOf
  <2>6. \A q, s \in Procs : (Stands(q, "role") /\ Stands(s, "role") /\ ops[q].id = j /\ ops[s].id = j => q = s)'
    BY <1>1, <1>2, <2>2, <2>3 DEF RoleSettled, Stands
  <2>7. CASE j = i
    <3>1. ~Replacing(j) /\ \A x \in Roles : ~Holds(j, x)
      BY <1>3, <2>2, <2>7 DEF RoleSettled
    <3>2. \A x \in Roles : Holds(j, x)' <=> x = r
      BY <1>1, <2>7, <3>1 DEF Holds
    <3>3. given'[j] = r
      BY <1>1, <2>7 DEF AccountsOK
    <3>4. QED BY <1>3, <2>4, <2>5, <2>6, <2>7, <3>1, <3>2, <3>3 DEF RoleSettled
  <2>8. CASE j # i
    <3>1. \A x \in Roles : Holds(j, x)' <=> Holds(j, x)
      BY <1>1, <2>8 DEF Holds
    <3>2. given'[j] = given[j] /\ (j \in IdsOf(users)' <=> j \in IdsOf(users))
      BY <1>1, <2>5, <2>8 DEF AccountsOK
    <3>3. QED BY <2>2, <2>4, <2>6, <3>1, <3>2 DEF RoleSettled
  <2>9. QED BY <2>7, <2>8
<1>11. QED BY <1>5, <1>6, <1>8, <1>9, <1>10

LEMMA RollsBackInv ==
  ASSUME AccountsInv, NEW p \in Procs, AddRollsBack(p) \/ PlanRollsBack(p)
  PROVE  AccountsInv'
<1> USE DEF AccountsInv
<1>1. /\ Stands(p, "add") \/ Stands(p, "plan")
      /\ Leave(p)
      /\ UNCHANGED <<users, roles, plans, given, confused, doubtful>>
  BY DEF AddRollsBack, PlanRollsBack, accountsHist
<1>2. /\ ops' = [q \in Procs |-> ops'[q]]
      /\ \A q \in Procs : (Free(q) \/ ops[q] \in RoleRequest \/ AddRequest(ops[q]) \/ PlanRequest(ops[q]))'
      /\ \A q \in Procs : \A pc : Stands(q, pc)' <=> q # p /\ Stands(q, pc)
      /\ \A q \in Procs \ {p} : ops'[q] = ops[q]
  BY <1>1, RequestLeaves
<1>3. AccountsOK' /\ OneRowPerId'
  BY <1>1, <1>2 DEF AccountsOK, IsUser, OneRowPerId
<1>4. NamesHeld'
  BY <1>1, <1>2 DEF NamesHeld, Named
<1>5. PlansHeld'
  BY <1>1, <1>2 DEF PlansHeld, Named
<1>6. RolesHeld'
  <2>1. \A j \in AccountIds, q \in Procs :
          Stands(q, "role")' /\ ops'[q].id = j <=> Stands(q, "role") /\ ops[q].id = j
    BY <1>1, <1>2 DEF Stands
  <2>2. \A j \in AccountIds : Replacing(j)' <=> Replacing(j)
    BY <2>1 DEF Replacing
  <2>3. QED BY <1>1, <2>1, <2>2 DEF RolesHeld, RoleSettled, IdsOf, Holds
<1>7. QED BY <1>3, <1>4, <1>5, <1>6

LEMMA UpdateNameInv == ASSUME AccountsInv, NEW p \in Procs, UpdateName(p) PROVE AccountsInv'
<1> USE DEF AccountsInv
<1>1. PICK u \in users, n \in Names :
       /\ users' = {IF v.id = u.id THEN [v EXCEPT !.name = n] ELSE v : v \in users}
       /\ doubtful' = IF Named(users, n) # {} \/ Creating(n) THEN doubtful \cup {n} ELSE doubtful
  BY DEF UpdateName
<1>2. UNCHANGED <<roles, plans, ops, given, confused>>
  BY DEF UpdateName
<1> DEFINE New(v) == IF v.id = u.id THEN [v EXCEPT !.name = n] ELSE v
<1>3. \A v \in users :
        /\ New(v).id = v.id /\ IsUser(New(v))
        /\ New(v).name = IF v = u THEN n ELSE v.name
        /\ v # u => New(v) = v
  <2>1. SUFFICES ASSUME NEW v \in users
                 PROVE  /\ New(v).id = v.id /\ IsUser(New(v))
                        /\ New(v).name = IF v = u THEN n ELSE v.name
                        /\ v # u => New(v) = v
    OBVIOUS
  <2>2. IsUser(v) /\ (v.id = u.id <=> v = u)
    BY DEF AccountsOK, OneRowPerId
  <2>3. CASE v # u
    BY <2>2, <2>3
  <2>4. CASE v = u
    <3>1. v = [id |-> v.id, name |-> v.name, birth |-> v.birth] /\ v.id \in AccountIds
      BY <2>2 DEF IsUser
    <3>2. New(v) = [id |-> v.id, name |-> n, birth |-> v.birth]
      BY <2>4, <3>1
    <3>3. QED BY <2>4, <3>1, <3>2 DEF IsUser
  <2>5. QED BY <2>3, <2>4
<1>4. users' = {New(v) : v \in users}
  BY <1>1
<1> HIDE DEF New
<1>5. IdsOf(users)' = IdsOf(users)
  BY <1>3, <1>4 DEF IdsOf
<1>6. AccountsOK' /\ OneRowPerId'
  BY <1>2, <1>3, <1>4 DEF AccountsOK, IsUser, OneRowPerId, Free, AddRequest, PlanRequest
<1>7. NamesHeld'
  <2>1. doubtful \subseteq doubtful' /\ (n \notin doubtful' => Named(users, n) = {} /\ ~Creating(n))
    BY <1>1
  <2>2. ASSUME NEW q \in Procs, Stands(q, "add"), ops[q].name \notin doubtful'
        PROVE  Named(users', ops[q].name) = {}
    <3>1. ops[q].name # n /\ Named(users, ops[q].name) = {}
      BY <2>1, <2>2 DEF Creating, NamesHeld
    <3>2. \A v \in users : v.name # ops[q].name
      BY <3>1 DEF Named
    <3>3. \A v \in users : New(v).name # ops[q].name
      BY <1>3, <3>1, <3>2
    <3>4. QED BY <1>4, <3>3 DEF Named
  <2>3. ASSUME NEW v \in users, NEW w \in users, New(v).name = New(w).name, New(v) # New(w)
        PROVE  New(v).name \in doubtful'
    <3>1. v # w
      BY <2>3
    <3>2. CASE v = u \/ w = u
      <4>1. New(v).name = n /\ \E x \in users : x.name = n
        BY <1>3, <2>3, <3>1, <3>2
      <4>2. QED BY <2>1, <4>1 DEF Named
    <3>3. CASE v # u /\ w # u
      <4>1. New(v).name = v.name /\ New(w).name = w.name
        BY <1>3, <3>3
      <4>2. v.name \in doubtful
        BY <2>3, <3>1, <4>1 DEF NamesHeld
      <4>3. QED BY <2>1, <4>1, <4>2
    <3>4. QED BY <3>2, <3>3
  <2>4. \A v, w \in users' : v.name = w.name /\ v # w => v.name \in doubtful'
    BY <1>4, <2>3
  <2>5. QED BY <1>2, <2>1, <2>2, <2>4 DEF NamesHeld, Stands, Free
<1>8. PlansHeld'
  BY <1>2 DEF PlansHeld, Stands, Free
<1>9. RolesHeld'
  BY <1>2, <1>5 DEF RolesHeld, RoleSettled, Replacing, Stands, Free, Holds
<1>10. QED BY <1>6, <1>7, <1>8, <1>9

LEMMA UpdDeletesRoleInv == ASSUME AccountsInv, NEW p \in Procs, UpdDeletesRole(p) PROVE AccountsInv'
<1> USE DEF AccountsInv
<1>1. PICK i \in AccountIds, r \in Roles :
        /\ Enter(p, [pc |-> "role", id |-> i, role |-> r])
        /\ \/ roles' = {x \in roles : x[1] # i} /\ Confuse(i)
           \/ confused' = confused \cup {i} /\ UNCHANGED roles
  BY DEF UpdDeletesRole
<1>2. UNCHANGED <<users, plans, given, doubtful>> /\ Free(p)
  BY DEF UpdDeletesRole
<1> DEFINE o == [pc |-> "role", id |-> i, role |-> r]
<1>3. /\ confused' \in {confused \cup {i}, confused \ {i}} /\ roles' \subseteq roles
      /\ i \notin confused' => roles' = {x \in roles : x[1] # i} /\ ~Replacing(i) /\ i \in IdsOf(users)
      /\ \A x \in roles : x[1] # i => x \in roles'
  BY <1>1 DEF Confuse
<1>4. o \in RoleRequest /\ o # None /\ o.pc = "role" /\ o.id = i
  BY AccountsAssumption DEF RoleRequest
<1> HIDE DEF o
<1>5. /\ ops' = [q \in Procs |-> ops'[q]]
      /\ ops'[p] = o /\ \A q \in Procs \ {p} : ops'[q] = ops[q]
  BY <1>1 DEF Enter, AccountsOK, o
<1>6. AccountsOK'
  BY <1>2, <1>3, <1>4, <1>5 DEF AccountsOK, Free, AddRequest, IsUser, PlanRequest
<1>7. \A q \in Procs, pc \in {"add", "plan"} : Stands(q, pc)' <=> Stands(q, pc)
  BY <1>2, <1>4, <1>5 DEF Stands, Free
<1>8. \A q \in Procs, pc \in {"add", "plan"} : Stands(q, pc) => ops'[q] = ops[q]
  BY <1>2, <1>5 DEF Stands
<1>9. \A q \in Procs, j \in AccountIds :
        Stands(q, "role")' /\ ops'[q].id = j <=> (q = p /\ i = j) \/ (Stands(q, "role") /\ ops[q].id = j)
  BY <1>2, <1>4, <1>5 DEF Stands, Free
<1>10. NamesHeld' /\ PlansHeld' /\ OneRowPerId'
  BY <1>2, <1>7, <1>8 DEF NamesHeld, PlansHeld, OneRowPerId, Named
<1>11. RolesHeld'
  <2>1. SUFFICES ASSUME NEW j \in AccountIds \ confused'
                 PROVE  RoleSettled(j)'
    BY DEF RolesHeld
  <2>2. \A x \in Roles : Holds(j, x)' <=> j # i /\ Holds(j, x)
    BY <1>3, <2>1 DEF Holds
  <2>3. Replacing(j)' <=> j = i \/ Replacing(j)
    BY <1>9 DEF Replacing
  <2>4. CASE j = i
    <3>1. ~Replacing(i) /\ i \in IdsOf(users)
      BY <1>3, <2>1, <2>4
    <3>2. \A q \in Procs : Stands(q, "role")' /\ ops'[q].id = i => q = p
      BY <1>9, <3>1 DEF Replacing
    <3>3. QED BY <1>2, <2>2, <2>3, <2>4, <3>1, <3>2 DEF RoleSettled, IdsOf
  <2>5. CASE j # i
    <3>1. RoleSettled(j)
      BY <1>3, <2>1, <2>5 DEF RolesHeld
    <3>2. \A q \in Procs : Stands(q, "role")' /\ ops'[q].id = j <=> Stands(q, "role") /\ ops[q].id = j
      BY <1>9, <2>5
    <3>3. QED BY <1>2, <2>2, <2>3, <2>5, <3>1, <3>2 DEF RoleSettled, IdsOf
  <2>6. QED BY <2>4, <2>5
<1>12. QED BY <1>6, <1>10, <1>11

LEMMA UpdCreatesRoleInv == ASSUME AccountsInv, NEW p \in Procs, UpdCreatesRole(p) PROVE AccountsInv'
<1> USE DEF AccountsInv
<1> DEFINE i == ops[p].id
           r == ops[p].role
<1>1. /\ Stands(p, "role") /\ Leave(p) /\ UNCHANGED <<users, plans, doubtful>>
      /\ \/ /\ roles' = roles \cup {<<i, r>>}
            /\ given' = IF i \in IdsOf(users) THEN [given EXCEPT ![i] = r] ELSE given
            /\ UNCHANGED confused
         \/ confused' = confused \cup {i} /\ UNCHANGED <<roles, given>>
  BY DEF UpdCreatesRole
<1>2. /\ ops' = [q \in Procs |-> ops'[q]]
      /\ \A q \in Procs : (Free(q) \/ ops[q] \in RoleRequest \/ AddRequest(ops[q]) \/ PlanRequest(ops[q]))'
      /\ \A q \in Procs : \A pc : Stands(q, pc)' <=> q # p /\ Stands(q, pc)
      /\ \A q \in Procs \ {p} : ops'[q] = ops[q]
  BY <1>1, RequestLeaves
<1>3. i \in AccountIds /\ r \in Roles
  BY <1>1 DEF AccountsOK, Stands, RoleRequest, AddRequest, PlanRequest
<1>4. Stands(p, "role") /\ ops[p].id = i
  BY <1>1
<1> HIDE DEF i, r
<1>5. AccountsOK' /\ OneRowPerId'
  <2>1. given' = [j \in AccountIds |-> given'[j]] /\ confused' \subseteq AccountIds
    BY <1>1, <1>3 DEF AccountsOK
  <2>2. QED BY <1>1, <1>2, <2>1 DEF AccountsOK, OneRowPerId, IsUser
<1>6. \A q \in Procs, pc \in {"add", "plan"} : (Stands(q, pc)' <=> Stands(q, pc))
        /\ (Stands(q, pc) => ops'[q] = ops[q])
  BY <1>2, <1>4 DEF Stands
<1>7. NamesHeld' /\ PlansHeld'
  BY <1>1, <1>6 DEF NamesHeld, PlansHeld, Named
<1>8. RolesHeld'
  <2>1. SUFFICES ASSUME NEW j \in AccountIds \ confused'
                 PROVE  RoleSettled(j)'
    BY DEF RolesHeld
  <2>2. RoleSettled(j) /\ IdsOf(users)' = IdsOf(users)
    BY <1>1, <2>1 DEF RolesHeld, IdsOf
  <2>3. \A q \in Procs : Stands(q, "role")' /\ ops'[q].id = j <=> q # p /\ Stands(q, "role") /\ ops[q].id = j
    BY <1>2
  <2>4. CASE j = i
    <3>1. roles' = roles \cup {<<i, r>>} /\ given' = IF i \in IdsOf(users) THEN [given EXCEPT ![i] = r] ELSE given
      BY <1>1, <2>1, <2>4
    <3>2. j \in IdsOf(users) /\ \A x \in Roles : ~Holds(j, x)
      BY <1>4, <2>2, <2>4 DEF RoleSettled, Replacing
    <3>3. \A q \in Procs : ~(Stands(q, "role")' /\ ops'[q].id = j)
      BY <1>4, <2>2, <2>3, <2>4 DEF RoleSettled
    <3>4. ~Replacing(j)'
      BY <3>3 DEF Replacing
    <3>5. given'[j] = r
      BY <1>3, <2>4, <3>1, <3>2 DEF AccountsOK
    <3>6. \A x \in Roles : Holds(j, x)' <=> x = r
      BY <2>4, <3>1, <3>2 DEF Holds
    <3>7. QED BY <1>3, <2>2, <3>2, <3>3, <3>4, <3>5, <3>6 DEF RoleSettled
  <2>5. CASE j # i
    <3>1. \A q \in Procs : Stands(q, "role")' /\ ops'[q].id = j <=> Stands(q, "role") /\ ops[q].id = j
      BY <1>4, <2>3, <2>5
    <3>2. Replacing(j)' <=> Replacing(j)
      BY <3>1 DEF Replacing
    <3>3. given'[j] = given[j] /\ \A x \in Roles : Holds(j, x)' <=> Holds(j, x)
      BY <1>1, <2>5 DEF Holds, AccountsOK
    <3>4. QED BY <2>2, <3>1, <3>2, <3>3 DEF RoleSettled
  <2>6. QED BY <2>4, <2>5
<1>9. QED BY <1>5, <1>7, <1>8

LEMMA DeleteInv == ASSUME AccountsInv, NEW p \in Procs, Delete(p) PROVE AccountsInv'
<1> USE DEF AccountsInv
<1>1. PICK i \in IdsOf(users) :
        /\ users' = {u \in users : u.id # i}
        /\ roles' = {x \in roles : x[1] # i}
        /\ given' = [given EXCEPT ![i] = None]
        /\ confused' = IF Replacing(i) THEN confused \cup {i} ELSE confused \ {i}
  BY DEF Delete
<1>2. UNCHANGED <<plans, ops, doubtful>>
  BY DEF Delete
<1>3. i \in AccountIds
  BY DEF AccountsOK, IdsOf, IsUser
<1>4. AccountsOK' /\ OneRowPerId'
  <2>1. given' = [j \in AccountIds |-> given'[j]] /\ confused' \subseteq AccountIds
    BY <1>1, <1>3 DEF AccountsOK
  <2>2. QED BY <1>1, <1>2, <2>1 DEF AccountsOK, OneRowPerId, IsUser, Free, AddRequest, PlanRequest
<1>5. NamesHeld' /\ PlansHeld'
  <2>1. \A n : Named(users, n)' \subseteq Named(users, n)
    BY <1>1 DEF Named
  <2>2. NamesHeld'
    BY <1>1, <1>2 DEF NamesHeld, Named, Stands, Free
  <2>3. QED BY <1>2, <2>2 DEF PlansHeld, Stands, Free, Named
<1>6. RolesHeld'
  <2>1. SUFFICES ASSUME NEW j \in AccountIds \ confused'
                 PROVE  RoleSettled(j)'
    BY DEF RolesHeld
  <2>2. \A x \in Roles : Holds(j, x)' <=> j # i /\ Holds(j, x)
    BY <1>1 DEF Holds
  <2>3. Replacing(j)' <=> Replacing(j)
    BY <1>2 DEF Replacing, Stands, Free
  <2>4. j \in IdsOf(users)' <=> j # i /\ j \in IdsOf(users)
    BY <1>1 DEF IdsOf
  <2>5. CASE j = i
    <3>1. ~Replacing(j)
      BY <1>1, <2>1, <2>5
    <3>2. QED BY <2>2, <2>3, <2>4, <2>5, <3>1 DEF RoleSettled, Replacing
  <2>6. CASE j # i
    <3>1. RoleSettled(j) /\ given'[j] = given[j]
      BY <1>1, <2>1, <2>6 DEF RolesHeld, AccountsOK
    <3>2. QED BY <1>2, <2>2, <2>3, <2>4, <2>6, <3>1 DEF RoleSettled, Stands, Free
  <2>7. QED BY <2>5, <2>6
<1>7. QED BY <1>4, <1>5, <1>6

LEMMA PlanCountsInv == ASSUME AccountsInv, NEW p \in Procs, PlanCounts(p) PROVE AccountsInv'
<1> USE DEF AccountsInv
<1>1. PICK n : Named(plans, n) = {} /\ Enter(p, [pc |-> "plan", name |-> n])
  BY DEF PlanCounts
<1>2. UNCHANGED <<users, roles, plans, given, confused, doubtful>> /\ Free(p) /\ ~Locked
  BY DEF PlanCounts, accountsHist
<1> DEFINE o == [pc |-> "plan", name |-> n]
<1>3. o.pc = "plan" /\ o.name = n
  OBVIOUS
<1> HIDE DEF o
<1>4. /\ ops' = [q \in Procs |-> ops'[q]]
      /\ ops'[p] = o /\ \A q \in Procs \ {p} : ops'[q] = ops[q]
  BY <1>1 DEF Enter, AccountsOK, o
<1>5. AccountsOK' /\ OneRowPerId'
  BY <1>2, <1>3, <1>4 DEF AccountsOK, Free, AddRequest, IsUser, PlanRequest, OneRowPerId
<1>6. \A q \in Procs, pc \in {"role", "add"} : (Stands(q, pc)' <=> Stands(q, pc))
        /\ (Stands(q, pc) => ops'[q] = ops[q])
  BY <1>2, <1>3, <1>4 DEF Stands, Free
<1>7. NamesHeld'
  BY <1>2, <1>6 DEF NamesHeld, Named
<1>8. PlansHeld'
  <2>1. \A q \in Procs : Stands(q, "plan")' => q = p
    BY <1>2, <1>4 DEF Locked, Stands, Free
  <2>2. QED BY <1>1, <1>2, <1>3, <1>4, <2>1 DEF PlansHeld, Named
<1>9. RolesHeld'
  <2>1. \A j \in AccountIds, q \in Procs :
          Stands(q, "role")' /\ ops'[q].id = j <=> Stands(q, "role") /\ ops[q].id = j
    BY <1>6
  <2>2. \A j \in AccountIds : Replacing(j)' <=> Replacing(j)
    BY <2>1 DEF Replacing
  <2>3. QED BY <1>2, <2>1, <2>2 DEF RolesHeld, RoleSettled, IdsOf, Holds
<1>10. QED BY <1>5, <1>7, <1>8, <1>9

LEMMA PlanCommitsInv == ASSUME AccountsInv, NEW p \in Procs, PlanCommits(p) PROVE AccountsInv'
<1> USE DEF AccountsInv
<1> DEFINE n == ops[p].name
           new == [id |-> Cardinality(plans) + 1, name |-> n]
<1>1. /\ Stands(p, "plan") /\ Leave(p) /\ plans' = plans \cup {new}
      /\ UNCHANGED <<users, roles, given, confused, doubtful>>
  BY DEF PlanCommits, accountsHist
<1>2. new.name = n
  OBVIOUS
<1>3. /\ ops' = [q \in Procs |-> ops'[q]]
      /\ \A q \in Procs : (Free(q) \/ ops[q] \in RoleRequest \/ AddRequest(ops[q]) \/ PlanRequest(ops[q]))'
      /\ \A q \in Procs : \A pc : Stands(q, pc)' <=> q # p /\ Stands(q, pc)
      /\ \A q \in Procs \ {p} : ops'[q] = ops[q]
  BY <1>1, RequestLeaves
<1>4. Named(plans, n) = {}
  BY <1>1 DEF PlansHeld
<1> HIDE DEF n, new
<1>5. AccountsOK' /\ OneRowPerId'
  BY <1>1, <1>3 DEF AccountsOK, IsUser, OneRowPerId
<1>6. NamesHeld'
  BY <1>1, <1>3 DEF NamesHeld, Named
<1>7. PlansHeld'
  <2>1. \A q \in Procs : ~Stands(q, "plan")'
    BY <1>1, <1>3 DEF PlansHeld
  <2>2. QED BY <1>1, <1>2, <1>4, <2>1 DEF PlansHeld, Named
<1>8. RolesHeld'
  <2>1. \A j \in AccountIds, q \in Procs :
          Stands(q, "role")' /\ ops'[q].id = j <=> Stands(q, "role") /\ ops[q].id = j
    BY <1>1, <1>3 DEF Stands
  <2>2. \A j \in AccountIds : Replacing(j)' <=> Replacing(j)
    BY <2>1 DEF Replacing
  <2>3. QED BY <1>1, <2>1, <2>2 DEF RolesHeld, RoleSettled, IdsOf, Holds
<1>9. QED BY <1>5, <1>6, <1>7, <1>8

LEMMA AccountsStepInv == AccountsInv /\ [AccountsNext]_accountsVars => AccountsInv'
<1> SUFFICES ASSUME AccountsInv, [AccountsNext]_accountsVars
             PROVE  AccountsInv'
  OBVIOUS
<1>1. CASE UNCHANGED accountsVars
  BY <1>1 DEF accountsVars, accountsHist, AccountsInv, AccountsOK, OneRowPerId, NamesHeld, PlansHeld, RolesHeld,
    RoleSettled, Free, Stands, IdsOf, Named, Replacing, Holds, IsUser, AddRequest, PlanRequest
<1>2. ASSUME NEW p \in Procs, Add(p) \/ Update(p) \/ Delete(p) \/ CreatePlan(p)
      PROVE  AccountsInv'
  BY <1>2, NameCountsInv, AddCommitsInv, RollsBackInv, UpdateNameInv, UpdDeletesRoleInv, UpdCreatesRoleInv, DeleteInv,
    PlanCountsInv, PlanCommitsInv DEF Add, Update, CreatePlan
<1>3. QED BY <1>1, <1>2 DEF AccountsNext

LEMMA RolesHeldKept == AccountsInv => RoleKept
<1> SUFFICES ASSUME AccountsInv, NEW u \in users, u.id \notin confused, ~Replacing(u.id)
             PROVE  roleOf(u.id) = given[u.id]
  BY DEF RoleKept
<1>1. u.id \in AccountIds /\ u.id \in IdsOf(users)
  BY DEF AccountsInv, AccountsOK, IsUser, IdsOf
<1>2. given[u.id] \in Roles /\ \A r \in Roles : Holds(u.id, r) <=> given[u.id] = r
  BY <1>1 DEF AccountsInv, RolesHeld, RoleSettled
<1>3. QED BY <1>2 DEF roleOf, Roles, Holds

(***************************************************************************)
(* What AccountsInv says holds throughout.                                 *)
(***************************************************************************)
THEOREM AccountsInvariant == AccountsSpec => []AccountsInv
<1>1. QED BY AccountsInitInv, AccountsStepInv, PTL DEF AccountsSpec

(***************************************************************************)
(* No two accounts have one id, however many are added and deleted at      *)
(* once (Add of admin/handler/user.go).                                    *)
(***************************************************************************)
THEOREM IdsAreOwn == AccountsSpec => []OneRowPerId
<1>1. AccountsInv => OneRowPerId
  BY DEF AccountsInv
<1>2. QED BY <1>1, AccountsInvariant, PTL

(***************************************************************************)
(* Names of accounts that are not doubtful, and names of plans, are given  *)
(* once (Add, and CreatePlan of service/plan.go).                          *)
(***************************************************************************)
THEOREM NamesAreUnique == AccountsSpec => []NamesUnique
<1>1. AccountsInv => NamesUnique
  BY DEF AccountsInv, NamesUnique, NamesHeld, PlansHeld
<1>2. QED BY <1>1, AccountsInvariant, PTL

(***************************************************************************)
(* An account that no two requests have worked on at once, and none works  *)
(* on now, has the role it was last given, unless a statement of one has   *)
(* failed or one named the id while nobody had it (Update of               *)
(* admin/handler/user.go).                                                 *)
(***************************************************************************)
THEOREM RolesAreKept == AccountsSpec => []RoleKept
<1>1. QED BY RolesHeldKept, AccountsInvariant, PTL

-----------------------------------------------------------------------------
(***************************************************************************)
(* Signing in: AdminSide for any number of tabs, accounts and requests,    *)
(* and tokens of any life.  Two things carry it: a token that says         *)
(* administrator is never younger than the last moment its account was     *)
(* one, and a tab that no other has changed the token under asks with the  *)
(* token it goes by.                                                       *)
(***************************************************************************)
Codes == {"SUPER_ADMIN", "USER"}

Token == [uid : Uids, role : Codes, born : Nat]

Ask == [tab : Tabs, what : {"detail", "work"}, token : Token \cup {None}, own : Token \cup {None}]

SignInTypeOK ==
  /\ clock \in Nat
  /\ account \in [Uids -> Codes \cup {None}]
  /\ lastAdmin \in [Uids -> Nat \cup {None}]
  /\ stored \in Token \cup {None}
  /\ tabs \in [Tabs -> [token : Token \cup {None}, side : Codes \cup {None}]]
  /\ asks \subseteq Ask
  /\ crossed \subseteq Tabs

\* An account that is an administrator was one just now.
AdminsNow == \A i \in Uids : account[i] # None /\ account[i] = "SUPER_ADMIN" => lastAdmin[i] = clock

Vouched(k) ==
  k # None =>
    /\ k.born <= clock
    /\ k.role = "SUPER_ADMIN" => lastAdmin[k.uid] \in Nat /\ k.born <= lastAdmin[k.uid]

TokensVouched ==
  /\ Vouched(stored)
  /\ \A t \in Tabs : Vouched(tabs[t].token)
  /\ \A q \in asks : Vouched(q.token)

\* A tab that is not crossed sends its own token.
OwnToken == \A t \in Tabs \ crossed : tabs[t].token # None => tabs[t].token = stored

AskedStraight == \A q \in asks : q.tab \notin crossed => q.token = q.own

ToldByToken ==
  \A t \in Tabs \ crossed : tabs[t].side # None =>
    tabs[t].token # None /\ tabs[t].side = tabs[t].token.role

SignInInv ==
  SignInTypeOK /\ AdminsNow /\ TokensVouched /\ OwnToken /\ AskedStraight /\ ToldByToken

LEMMA SignInInitInv == SignInInit => SignInInv
<1> SUFFICES ASSUME SignInInit PROVE SignInInv
  OBVIOUS
<1> USE DEF SignInInit, SignedOut
<1>1. SignInTypeOK
  BY DEF SignInTypeOK
<1>2. AdminsNow /\ TokensVouched /\ OwnToken /\ AskedStraight /\ ToldByToken
  BY DEF AdminsNow, TokensVouched, Vouched, OwnToken, AskedStraight, ToldByToken
<1>3. QED BY <1>1, <1>2 DEF SignInInv

(***************************************************************************)
(* Time passes and accounts change: tokens stay vouched for, since what    *)
(* is remembered of an account only moves on.                              *)
(***************************************************************************)
LEMMA VouchedLater ==
  ASSUME SignInTypeOK, NEW k \in Token \cup {None}, Vouched(k),
         clock' \in Nat, clock <= clock',
         \A i \in Uids : lastAdmin'[i] = lastAdmin[i] \/ lastAdmin'[i] = clock'
  PROVE  Vouched(k)'
<1> SUFFICES ASSUME k # None PROVE Vouched(k)'
  BY DEF Vouched
<1>1. /\ k \in Token /\ k.uid \in Uids /\ k.born \in Nat
      /\ k.born <= clock /\ clock \in Nat
      /\ k.role = "SUPER_ADMIN" => lastAdmin[k.uid] \in Nat /\ k.born <= lastAdmin[k.uid]
  BY DEF Vouched, Token, SignInTypeOK
<1>2. k.born <= clock'
  BY <1>1
<1>3. k.role = "SUPER_ADMIN" => lastAdmin'[k.uid] \in Nat /\ k.born <= lastAdmin'[k.uid]
  BY <1>1, <1>2
<1>4. QED BY <1>2, <1>3 DEF Vouched

LEMMA WorldInv ==
  ASSUME SignInInv,
         UNCHANGED <<stored, tabs, asks, crossed>>,
         account' \in [Uids -> Codes \cup {None}],
         lastAdmin' \in [Uids -> Nat \cup {None}],
         AdminsNow',
         clock' \in Nat, clock <= clock',
         \A i \in Uids : lastAdmin'[i] = lastAdmin[i] \/ lastAdmin'[i] = clock'
  PROVE  SignInInv'
<1>1. SignInTypeOK'
  BY DEF SignInInv, SignInTypeOK
<1>2. SignInTypeOK /\ TokensVouched
  BY DEF SignInInv
<1>3. /\ stored \in Token \cup {None}
      /\ \A t \in Tabs : tabs[t].token \in Token \cup {None}
      /\ \A q \in asks : q.token \in Token \cup {None}
  BY <1>2 DEF SignInTypeOK, Ask
<1>4. \A k \in Token \cup {None} : Vouched(k) => Vouched(k)'
  BY <1>2, VouchedLater
<1>5. TokensVouched'
  BY <1>2, <1>3, <1>4 DEF TokensVouched
<1>6. OwnToken' /\ AskedStraight' /\ ToldByToken'
  BY DEF SignInInv, OwnToken, AskedStraight, ToldByToken
<1>7. QED BY <1>1, <1>5, <1>6 DEF SignInInv

LEMMA BecomingInv ==
  ASSUME SignInInv, NEW new \in [Uids -> Codes \cup {None}], Becoming(new)
  PROVE  SignInInv'
<1>1. SignInTypeOK /\ AdminsNow
  BY DEF SignInInv
<1>2. /\ account' = new /\ clock' = clock
      /\ UNCHANGED <<stored, tabs, asks, crossed>>
      /\ lastAdmin' = [i \in Uids |-> IF "SUPER_ADMIN" \in {account[i], new[i]} THEN clock ELSE lastAdmin[i]]
  BY DEF Becoming
<1>3. clock \in Nat
  BY <1>1 DEF SignInTypeOK
<1>4. lastAdmin' \in [Uids -> Nat \cup {None}]
  BY <1>1, <1>2, <1>3 DEF SignInTypeOK
<1>5. \A i \in Uids : lastAdmin'[i] = lastAdmin[i] \/ lastAdmin'[i] = clock'
  BY <1>2
<1>6. AdminsNow'
  BY <1>2 DEF AdminsNow
<1>7. QED BY <1>2, <1>3, <1>4, <1>5, <1>6, WorldInv

LEMMA TimePassesInv ==
  ASSUME SignInInv, TimePasses
  PROVE  SignInInv'
<1>1. SignInTypeOK /\ AdminsNow
  BY DEF SignInInv
<1>2. /\ clock' = clock + 1 /\ account' = account
      /\ UNCHANGED <<stored, tabs, asks, crossed>>
      /\ lastAdmin' = [i \in Uids |-> IF account[i] = "SUPER_ADMIN" THEN clock + 1 ELSE lastAdmin[i]]
  BY DEF TimePasses
<1>3. clock \in Nat /\ clock' \in Nat /\ clock <= clock'
  BY <1>1, <1>2 DEF SignInTypeOK
<1>4. account' \in [Uids -> Codes \cup {None}] /\ lastAdmin' \in [Uids -> Nat \cup {None}]
  BY <1>1, <1>2, <1>3 DEF SignInTypeOK
<1>5. \A i \in Uids : lastAdmin'[i] = lastAdmin[i] \/ lastAdmin'[i] = clock'
  BY <1>2
<1>6. AdminsNow'
  BY <1>2 DEF AdminsNow
<1>7. QED BY <1>2, <1>3, <1>4, <1>5, <1>6, WorldInv

(***************************************************************************)
(* A tab puts a token into localStorage, or takes it away: the requests    *)
(* under way are those there were, or fewer.                               *)
(***************************************************************************)
LEMMA KeepsInv ==
  ASSUME SignInInv, NEW t \in Tabs, NEW k \in Token \cup {None}, Vouched(k), Keeps(t, k),
         UNCHANGED <<clock, account, lastAdmin>>,
         asks' \subseteq Ask,
         \A q \in asks' : \E r \in asks : r.tab = q.tab /\ r.token = q.token /\ r.own = q.own
  PROVE  SignInInv'
<1>1. /\ stored' = k
      /\ tabs' = [tabs EXCEPT ![t] = [token |-> k, side |-> None]]
      /\ crossed' = {o \in Tabs : IF o = t THEN Astray(t) ELSE o \in crossed \/ tabs[o].token # None}
  BY DEF Keeps
<1>2. SignInTypeOK /\ TokensVouched /\ AdminsNow
  BY DEF SignInInv
<1>3. tabs \in [Tabs -> [token : Token \cup {None}, side : Codes \cup {None}]]
  BY <1>2 DEF SignInTypeOK
<1>4. /\ tabs'[t].token = k /\ tabs'[t].side = None
      /\ \A o \in Tabs \ {t} : tabs'[o] = tabs[o]
  BY <1>1, <1>3
<1>5. SignInTypeOK'
  <2>1. [token |-> k, side |-> None] \in [token : Token \cup {None}, side : Codes \cup {None}]
    OBVIOUS
  <2>2. tabs' \in [Tabs -> [token : Token \cup {None}, side : Codes \cup {None}]]
    BY <1>1, <1>3, <2>1
  <2>3. crossed' \subseteq Tabs
    BY <1>1
  <2>4. QED BY <1>1, <1>2, <2>2, <2>3 DEF SignInTypeOK
<1>6. AdminsNow'
  BY <1>2 DEF AdminsNow
<1>7. TokensVouched'
  <2>1. \A j : Vouched(j) => Vouched(j)'
    BY DEF Vouched
  <2>2. \A o \in Tabs : Vouched(tabs'[o].token)
    BY <1>2, <1>4 DEF TokensVouched
  <2>3. \A q \in asks' : Vouched(q.token)
    BY <1>2 DEF TokensVouched
  <2>4. QED BY <1>1, <2>1, <2>2, <2>3 DEF TokensVouched
<1>8. OwnToken'
  BY <1>1, <1>4 DEF OwnToken
<1>9. AskedStraight'
  <2> SUFFICES ASSUME NEW q \in asks', q.tab \notin crossed'
               PROVE  q.token = q.own
    BY DEF AskedStraight
  <2>1. PICK r \in asks : r.tab = q.tab /\ r.token = q.token /\ r.own = q.own
    OBVIOUS
  <2>2. q.tab \in Tabs
    BY DEF Ask
  <2>3. CASE q.tab = t
    BY <1>1, <2>1, <2>2, <2>3 DEF Astray
  <2>4. CASE q.tab # t
    <3>1. q.tab \notin crossed
      BY <1>1, <2>2, <2>4
    <3>2. QED BY <2>1, <3>1 DEF SignInInv, AskedStraight
  <2>5. QED BY <2>3, <2>4
<1>10. ToldByToken'
  <2> SUFFICES ASSUME NEW o \in Tabs, o \notin crossed', tabs'[o].side # None
               PROVE  tabs'[o].token # None /\ tabs'[o].side = tabs'[o].token.role
    BY DEF ToldByToken
  <2>1. o # t
    BY <1>4
  <2>2. o \notin crossed /\ tabs'[o] = tabs[o]
    BY <1>1, <1>4, <2>1
  <2>3. QED BY <2>2 DEF SignInInv, ToldByToken
<1>11. QED BY <1>5, <1>6, <1>7, <1>8, <1>9, <1>10 DEF SignInInv

(***************************************************************************)
(* Login, a refused login, and Logout.                                     *)
(***************************************************************************)
LEMMA LoginInv ==
  ASSUME SignInInv, NEW t \in Tabs, Login(t)
  PROVE  SignInInv'
<1>1. PICK i \in Uids : account[i] # None /\ Keeps(t, GenerateToken(i))
  BY DEF Login
<1>2. UNCHANGED <<clock, account, lastAdmin, asks>>
  BY DEF Login
<1>3. SignInTypeOK /\ AdminsNow
  BY DEF SignInInv
<1>4. clock \in Nat /\ account[i] \in Codes
  BY <1>1, <1>3 DEF SignInTypeOK
<1> DEFINE k == GenerateToken(i)
<1>5. /\ k = [uid |-> i, role |-> account[i], born |-> clock]
      /\ k \in Token
  BY <1>4 DEF GenerateToken, NormalizeRole, Token, Codes
<1>6. account[i] = "SUPER_ADMIN" => lastAdmin[i] = clock
  BY <1>1, <1>3 DEF AdminsNow
<1>7. Vouched(k)
  <2>1. k.born = clock /\ k.uid = i /\ k.role = account[i]
    BY <1>5
  <2> HIDE DEF k
  <2>2. QED BY <1>4, <1>6, <2>1 DEF Vouched
<1>8. Keeps(t, k)
  BY <1>1
<1>9. asks' \subseteq Ask
  BY <1>2, <1>3 DEF SignInTypeOK
<1> HIDE DEF k
<1>10. QED BY <1>2, <1>5, <1>7, <1>8, <1>9, KeepsInv

LEMMA LeavesInv ==
  ASSUME SignInInv, NEW t \in Tabs, LoginRefused(t) \/ Logout(t)
  PROVE  SignInInv'
<1>1. Keeps(t, None) /\ UNCHANGED <<clock, account, lastAdmin>>
  BY DEF LoginRefused, Logout
<1>2. asks \subseteq Ask
  BY DEF SignInInv, SignInTypeOK
<1>3. /\ asks' \subseteq Ask
      /\ \A q \in asks' : \E r \in asks : r.tab = q.tab /\ r.token = q.token /\ r.own = q.own
  <2>1. CASE LoginRefused(t)
    BY <1>2, <2>1 DEF LoginRefused
  <2>2. CASE Logout(t)
    <3>1. asks' = {IF q.tab = t THEN [q EXCEPT !.what = "work"] ELSE q : q \in asks}
      BY <2>2 DEF Logout
    <3>2. \A q \in Ask :
            LET w == [q EXCEPT !.what = "work"] IN
            w \in Ask /\ w.tab = q.tab /\ w.token = q.token /\ w.own = q.own
      BY DEF Ask
    <3>3. ASSUME NEW q \in asks'
          PROVE  q \in Ask /\ \E r \in asks : r.tab = q.tab /\ r.token = q.token /\ r.own = q.own
      <4>1. PICK r \in asks : q = IF r.tab = t THEN [r EXCEPT !.what = "work"] ELSE r
        BY <3>1
      <4>2. r \in Ask
        BY <1>2
      <4>3. QED BY <3>2, <4>1, <4>2
    <3>4. QED BY <3>3
  <2>3. QED BY <2>1, <2>2
<1>4. Vouched(None)
  BY DEF Vouched
<1>5. QED BY <1>1, <1>3, <1>4, KeepsInv

(***************************************************************************)
(* A tab is opened or loaded again.                                        *)
(***************************************************************************)
LEMMA LoadsInv ==
  ASSUME SignInInv, NEW t \in Tabs, Loads(t)
  PROVE  SignInInv'
<1>1. /\ tabs' = [tabs EXCEPT ![t] = [token |-> stored, side |-> None]]
      /\ crossed' = crossed \ {t}
      /\ asks' = {q \in asks : q.tab # t}
      /\ UNCHANGED <<clock, account, lastAdmin, stored>>
  BY DEF Loads
<1>2. SignInTypeOK /\ TokensVouched /\ AdminsNow
  BY DEF SignInInv
<1>3. /\ tabs \in [Tabs -> [token : Token \cup {None}, side : Codes \cup {None}]]
      /\ stored \in Token \cup {None}
  BY <1>2 DEF SignInTypeOK
<1>4. /\ tabs'[t].token = stored /\ tabs'[t].side = None
      /\ \A o \in Tabs \ {t} : tabs'[o] = tabs[o]
  BY <1>1, <1>3
<1>5. SignInTypeOK'
  <2>1. [token |-> stored, side |-> None] \in [token : Token \cup {None}, side : Codes \cup {None}]
    BY <1>3
  <2>2. tabs' \in [Tabs -> [token : Token \cup {None}, side : Codes \cup {None}]]
    BY <1>1, <1>3, <2>1
  <2>3. QED BY <1>1, <1>2, <2>2 DEF SignInTypeOK
<1>6. AdminsNow'
  BY <1>1, <1>2 DEF AdminsNow
<1>7. TokensVouched'
  <2>1. \A j : Vouched(j) => Vouched(j)'
    BY <1>1 DEF Vouched
  <2>2. \A o \in Tabs : Vouched(tabs'[o].token)
    BY <1>2, <1>4 DEF TokensVouched
  <2>3. \A q \in asks' : Vouched(q.token)
    BY <1>1, <1>2 DEF TokensVouched
  <2>4. QED BY <1>1, <1>2, <2>1, <2>2, <2>3 DEF TokensVouched
<1>8. OwnToken'
  BY <1>1, <1>4 DEF SignInInv, OwnToken
<1>9. AskedStraight'
  BY <1>1 DEF SignInInv, AskedStraight
<1>10. ToldByToken'
  BY <1>1, <1>4 DEF SignInInv, ToldByToken
<1>11. QED BY <1>5, <1>6, <1>7, <1>8, <1>9, <1>10 DEF SignInInv

(***************************************************************************)
(* Requests, and the two ways they are answered.                           *)
(***************************************************************************)
LEMMA SendsInv ==
  ASSUME SignInInv, NEW t \in Tabs, NEW what \in {"detail", "work"}, Sends(t, what)
  PROVE  SignInInv'
<1> DEFINE q == [tab |-> t, what |-> what, token |-> stored, own |-> tabs[t].token]
<1>1. /\ asks' = asks \cup {q} /\ tabs[t].token # None
      /\ UNCHANGED <<clock, account, lastAdmin, stored, tabs, crossed>>
  BY DEF Sends
<1>2. SignInTypeOK /\ TokensVouched /\ AdminsNow /\ OwnToken /\ AskedStraight /\ ToldByToken
  BY DEF SignInInv
<1>3. q \in Ask
  BY <1>2 DEF Ask, SignInTypeOK
<1>4. q.tab = t /\ q.token = stored /\ q.own = tabs[t].token
  OBVIOUS
<1> HIDE DEF q
<1>5. SignInTypeOK'
  BY <1>1, <1>2, <1>3 DEF SignInTypeOK
<1>6. TokensVouched'
  BY <1>1, <1>2, <1>4 DEF TokensVouched, Vouched
<1>7. AskedStraight'
  BY <1>1, <1>2, <1>4 DEF AskedStraight, OwnToken
<1>8. AdminsNow' /\ OwnToken' /\ ToldByToken'
  BY <1>1, <1>2 DEF AdminsNow, OwnToken, ToldByToken
<1>9. QED BY <1>5, <1>6, <1>7, <1>8 DEF SignInInv

LEMMA UnauthorizedInv ==
  ASSUME SignInInv, NEW q \in asks, Unauthorized(q)
  PROVE  SignInInv'
<1>1. /\ Keeps(q.tab, None) /\ asks' = asks \ {q}
      /\ UNCHANGED <<clock, account, lastAdmin>>
  BY DEF Unauthorized
<1>2. asks \subseteq Ask
  BY DEF SignInInv, SignInTypeOK
<1>3. q.tab \in Tabs
  BY <1>2 DEF Ask
<1>4. /\ asks' \subseteq Ask
      /\ \A p \in asks' : \E r \in asks : r.tab = p.tab /\ r.token = p.token /\ r.own = p.own
  BY <1>1, <1>2
<1>5. Vouched(None)
  BY DEF Vouched
<1>6. QED BY <1>1, <1>3, <1>4, <1>5, KeepsInv

LEMMA AnsweredInv ==
  ASSUME SignInInv, NEW q \in asks, Answered(q)
  PROVE  SignInInv'
<1>1. /\ ParseToken(q.token) /\ asks' = asks \ {q}
      /\ UNCHANGED <<clock, account, lastAdmin, stored, crossed>>
      /\ tabs' = IF q.what = "detail" /\ tabs[q.tab].token = q.own
                 THEN [tabs EXCEPT ![q.tab].side = Detail(q.token)] ELSE tabs
  BY DEF Answered
<1>2. SignInTypeOK /\ TokensVouched /\ AdminsNow /\ OwnToken /\ AskedStraight /\ ToldByToken
  BY DEF SignInInv
<1>3. q \in Ask
  BY <1>2 DEF SignInTypeOK
<1>4. q.tab \in Tabs /\ q.token \in Token
  BY <1>1, <1>3 DEF Ask, ParseToken
<1>5. q.token.role \in Codes
  BY <1>4 DEF Token
<1>6. Detail(q.token) = q.token.role
  BY <1>5 DEF Detail, NormalizeRole, Codes
<1>7. tabs \in [Tabs -> [token : Token \cup {None}, side : Codes \cup {None}]]
  BY <1>2 DEF SignInTypeOK
<1> DEFINE Told(o) == o = q.tab /\ tabs[o].token = q.own /\ tabs'[o].side = q.token.role
<1>8. /\ tabs' \in [Tabs -> [token : Token \cup {None}, side : Codes \cup {None}]]
      /\ \A o \in Tabs : tabs'[o].token = tabs[o].token
      /\ \A o \in Tabs : tabs'[o].side = tabs[o].side \/ Told(o)
  <2>1. CASE q.what = "detail" /\ tabs[q.tab].token = q.own
    <3>1. tabs' = [tabs EXCEPT ![q.tab].side = q.token.role]
      BY <1>1, <1>6, <2>1
    <3>2. [tabs[q.tab] EXCEPT !.side = q.token.role] \in [token : Token \cup {None}, side : Codes \cup {None}]
      BY <1>4, <1>5, <1>7
    <3>3. tabs' \in [Tabs -> [token : Token \cup {None}, side : Codes \cup {None}]]
      BY <1>7, <3>1, <3>2
    <3>4. /\ tabs'[q.tab].token = tabs[q.tab].token /\ tabs'[q.tab].side = q.token.role
          /\ \A o \in Tabs : o # q.tab => tabs'[o] = tabs[o]
      BY <1>4, <1>7, <3>1
    <3>5. ASSUME NEW o \in Tabs
          PROVE  tabs'[o].token = tabs[o].token /\ (tabs'[o].side = tabs[o].side \/ Told(o))
      <4>1. CASE o = q.tab
        BY <2>1, <3>4, <4>1
      <4>2. CASE o # q.tab
        BY <3>4, <4>2
      <4>3. QED BY <4>1, <4>2
    <3> HIDE DEF Told
    <3>6. QED BY <3>3, <3>5
  <2>2. CASE ~(q.what = "detail" /\ tabs[q.tab].token = q.own)
    <3>1. tabs' = tabs
      BY <1>1, <2>2
    <3> HIDE DEF Told
    <3>2. QED BY <1>7, <3>1
  <2>3. QED BY <2>1, <2>2
<1>9. SignInTypeOK'
  BY <1>1, <1>2, <1>8 DEF SignInTypeOK
<1>10. TokensVouched'
  BY <1>1, <1>2, <1>8 DEF TokensVouched, Vouched
<1>11. OwnToken' /\ AskedStraight' /\ AdminsNow'
  BY <1>1, <1>2, <1>8 DEF OwnToken, AskedStraight, AdminsNow
<1>12. ToldByToken'
  <2> SUFFICES ASSUME NEW o \in Tabs, o \notin crossed, tabs'[o].side # None
               PROVE  tabs'[o].token # None /\ tabs'[o].side = tabs'[o].token.role
    BY <1>1 DEF ToldByToken
  <2>1. CASE tabs'[o].side = tabs[o].side
    BY <1>2, <1>8, <2>1 DEF ToldByToken
  <2>2. CASE o = q.tab /\ tabs[o].token = q.own /\ tabs'[o].side = q.token.role
    <3>1. q.token = q.own
      BY <1>2, <2>2 DEF AskedStraight
    <3>2. q.token # None
      BY <1>1 DEF ParseToken
    <3>3. QED BY <1>8, <2>2, <3>1, <3>2
  <2>3. QED BY <1>8, <2>1, <2>2
<1>13. QED BY <1>9, <1>10, <1>11, <1>12 DEF SignInInv

LEMMA SignInStepInv == SignInInv /\ [SignInNext]_signInVars => SignInInv'
<1> SUFFICES ASSUME SignInInv, [SignInNext]_signInVars
             PROVE  SignInInv'
  OBVIOUS
<1>1. SignInTypeOK
  BY DEF SignInInv
<1>2. CASE GivesRole
  <2>1. PICK i \in Uids, r \in {"SUPER_ADMIN", "USER"} : Becoming([account EXCEPT ![i] = r])
    BY <1>2 DEF GivesRole
  <2>2. [account EXCEPT ![i] = r] \in [Uids -> Codes \cup {None}]
    BY <1>1 DEF SignInTypeOK, Codes
  <2>3. QED BY <2>1, <2>2, BecomingInv
<1>3. CASE Removes
  <2>1. PICK i \in Uids : Becoming([account EXCEPT ![i] = None])
    BY <1>3 DEF Removes
  <2>2. [account EXCEPT ![i] = None] \in [Uids -> Codes \cup {None}]
    BY <1>1 DEF SignInTypeOK
  <2>3. QED BY <2>1, <2>2, BecomingInv
<1>4. CASE TimePasses
  BY <1>4, TimePassesInv
<1>5. CASE \E t \in Tabs : Login(t) \/ LoginRefused(t) \/ Logout(t) \/ Loads(t)
  BY <1>5, LoginInv, LeavesInv, LoadsInv
<1>6. CASE \E t \in Tabs : AsksWho(t) \/ AsksWork(t)
  BY <1>6, SendsInv DEF AsksWho, AsksWork
<1>7. CASE \E q \in asks : Unauthorized(q) \/ Answered(q)
  BY <1>7, UnauthorizedInv, AnsweredInv
<1>8. CASE UNCHANGED signInVars
  BY <1>8 DEF signInVars, SignInInv, SignInTypeOK, AdminsNow, TokensVouched, Vouched,
              OwnToken, AskedStraight, ToldByToken
<1>9. QED BY <1>2, <1>3, <1>4, <1>5, <1>6, <1>7, <1>8 DEF SignInNext

LEMMA AdminSideHolds == SignInInv => AdminSide
<1> SUFFICES ASSUME SignInInv, NEW t \in Tabs, t \notin crossed, tabs[t].side # None
             PROVE  LET k == tabs[t].token IN
                      /\ tabs[t].side = k.role
                      /\ k.role = "SUPER_ADMIN" /\ ParseToken(k) => clock < lastAdmin[k.uid] + Life
  BY DEF AdminSide
<1> DEFINE k == tabs[t].token
<1>1. tabs[t].side = k.role /\ k # None
  BY DEF SignInInv, ToldByToken
<1>2. Vouched(k) /\ k \in Token /\ clock \in Nat
  BY <1>1 DEF SignInInv, SignInTypeOK, TokensVouched
<1> HIDE DEF k
<1>3. ASSUME k.role = "SUPER_ADMIN", ParseToken(k)
      PROVE  clock < lastAdmin[k.uid] + Life
  <2>1. k.born \in Nat /\ lastAdmin[k.uid] \in Nat /\ k.born <= lastAdmin[k.uid]
    BY <1>1, <1>2, <1>3 DEF Vouched, Token
  <2>2. clock < k.born + Life /\ Life \in Nat
    BY <1>3, SignInAssumption DEF ParseToken
  <2>3. QED BY <1>2, <2>1, <2>2
<1>4. QED BY <1>1, <1>3 DEF k

(***************************************************************************)
(* A tab shows the side its token is good for, and a token that says       *)
(* administrator is at most Life older than the account's own word for it  *)
(* (Detail, Jwt, GenerateToken, AuthProvider), for any number of tabs.     *)
(***************************************************************************)
THEOREM TabsOnTheirSide == SignInSpec => []AdminSide
<1>1. SignInSpec => []SignInInv
  BY SignInInitInv, SignInStepInv, PTL DEF SignInSpec
<1>2. QED BY <1>1, AdminSideHolds, PTL

-----------------------------------------------------------------------------
(***************************************************************************)
(* gost.  On a port that nothing has torn at most one request is at work,  *)
(* and how far it has come says what gost has there.                       *)
(***************************************************************************)
Both(c) == [tcp |-> c, udp |-> c]

DelJob    == [op : {"del"}, port : GostPorts, conf : {None}, call : {"delTcp", "delUdp", "commit"}]
AddJob    == [op : {"add"}, port : GostPorts, conf : Confs, call : {"addTcp", "addUdp", "commit"}]
ModifyJob == [op : {"modify"}, port : GostPorts, conf : Confs,
              call : {"delTcp", "delUdp", "addTcp", "addUdp", "commit"}]

GostConf == Confs \cup {None}

GostTypes ==
  /\ services \in [GostPorts -> [tcp : GostConf, udp : GostConf]]
  /\ rows \in [GostPorts -> GostConf] /\ snapshot \in [GostPorts -> GostConf]
  /\ serving \in {"down", "starting", "up"}
  /\ jobs \in [Askers -> DelJob \cup AddJob \cup ModifyJob \cup {None}]
  /\ torn \subseteq GostPorts

\* An agent that is not up works on nothing.
QuietOff == serving # "up" => \A h \in Askers : ~Working(h)

On(h, p) == Working(h) /\ jobs[h].port = p

\* What gost has of a port, s, and its row, r, while q is at work on it.
Fits(q, s, r) ==
  /\ q.call = "delTcp" => s = Both(r)
  /\ q.call = "delUdp" => r # None /\ s = [tcp |-> None, udp |-> r]
  /\ q.call = "addTcp" => s = Both(r) \/ (q.op = "modify" /\ s = Nothing)
  /\ q.call = "addUdp" => s = [tcp |-> q.conf, udp |-> None]
  /\ q.call = "commit" => s = Both(q.conf)

GostPortFine(p) ==
  /\ \A h, k \in Askers : On(h, p) /\ On(k, p) => h = k
  /\ \A h \in Askers : On(h, p) => Fits(jobs[h], services[p], rows[p])
  /\ ~WorkedOn(p) => services[p] = Both(rows[p])

GostInv == GostTypes /\ QuietOff /\ \A p \in GostPorts \ torn : GostPortFine(p)

LEMMA JobIsJob == DelJob \cup AddJob \cup ModifyJob \subseteq GostJob /\ None \notin DelJob \cup AddJob \cup ModifyJob
BY GostAssumption DEF DelJob, AddJob, ModifyJob, GostJob

LEMMA GostInitInv == GostInit => GostInv
<1> SUFFICES ASSUME GostInit
             PROVE  GostInv
  OBVIOUS
<1>1. GostTypes
  BY DEF GostInit, GostTypes, Nothing, GostConf
<1>2. \A h \in Askers : ~Working(h)
  BY DEF GostInit, Working
<1>3. \A p \in GostPorts : GostPortFine(p)
  BY <1>2 DEF GostInit, GostPortFine, On, Both, Nothing
<1>4. QED BY <1>1, <1>2, <1>3 DEF GostInv, QuietOff

-----------------------------------------------------------------------------
\* One request takes a step on its port: the other ports are as they were.
LEMMA OtherPortsKeep ==
  ASSUME NEW h \in Askers, NEW p \in GostPorts, NEW o \in GostPorts \ {p}, GostPortFine(o),
         ~On(h, o), ~On(h, o)', \A k \in Askers \ {h} : jobs'[k] = jobs[k],
         services'[o] = services[o], rows'[o] = rows[o]
  PROVE  GostPortFine(o)'
<1>1. \A k \in Askers : On(k, o)' <=> On(k, o)
  BY DEF On, Working
<1>2. \A k \in Askers : On(k, o) => jobs'[k] = jobs[k]
  BY DEF On, Working
<1>3. WorkedOn(o)' <=> WorkedOn(o)
  BY <1>1 DEF WorkedOn, On
<1>4. QED BY <1>1, <1>2, <1>3 DEF GostPortFine

LEMMA RequestGoesOn ==
  ASSUME NEW h \in Askers, NEW p \in GostPorts, On(h, p)', \A k \in Askers \ {h} : ~On(k, p)',
         Fits(jobs[h], services[p], rows[p])'
  PROVE  GostPortFine(p)'
BY DEF GostPortFine, WorkedOn, On

LEMMA JobLeaves ==
  ASSUME NEW p \in GostPorts, \A k \in Askers : ~On(k, p)', services'[p] = Both(rows'[p])
  PROVE  GostPortFine(p)'
BY DEF GostPortFine, On

LEMMA AskedInv ==
  ASSUME GostInv, NEW h \in Askers, AskAdd(h) \/ AskDel(h) \/ AskModify(h)
  PROVE  GostInv'
<1> USE DEF GostInv
<1>1. PICK op \in {"add", "del", "modify"}, p \in GostPorts, c \in GostConf, call \in {"addTcp", "delTcp"} :
        /\ Asked(h, op, p, c, call)
        /\ [op |-> op, port |-> p, conf |-> c, call |-> call] \in DelJob \cup AddJob \cup ModifyJob
  <2>1. CASE AskAdd(h)
    BY <2>1 DEF AskAdd, AddJob, GostConf
  <2>2. CASE AskDel(h)
    BY <2>2 DEF AskDel, DelJob, GostConf
  <2>3. CASE AskModify(h)
    BY <2>3 DEF AskModify, ModifyJob, GostConf
  <2>4. QED BY <2>1, <2>2, <2>3
<1> DEFINE q == [op |-> op, port |-> p, conf |-> c, call |-> call]
<1>2. q # None /\ q.port = p /\ q.call \in {"addTcp", "delTcp"}
  BY <1>1, JobIsJob
<1>3. /\ ~Working(h) /\ serving = "up"
      /\ jobs' = [jobs EXCEPT ![h] = q]
      /\ IF WorkedOn(p) THEN torn' = torn \cup {p} ELSE torn' = torn
      /\ UNCHANGED <<services, rows, serving, snapshot>>
  BY <1>1 DEF Asked, Tear
<1>4. q \in DelJob \cup AddJob \cup ModifyJob
  BY <1>1
<1> HIDE DEF q
<1>5. GostTypes'
  BY <1>3, <1>4 DEF GostTypes
<1>6. QuietOff'
  BY <1>3 DEF QuietOff
<1>7. jobs'[h] = q /\ \A k \in Askers \ {h} : jobs'[k] = jobs[k]
  BY <1>3 DEF GostTypes
<1>8. ASSUME NEW o \in GostPorts \ torn'
      PROVE  GostPortFine(o)'
  <2>1. o \notin torn /\ GostPortFine(o)
    BY <1>3
  <2>2. CASE o # p
    <3>1. ~On(h, o) /\ ~On(h, o)'
      BY <1>2, <1>3, <1>7, <2>2 DEF On, Working
    <3>2. QED BY <1>3, <1>7, <2>1, <2>2, <3>1, OtherPortsKeep
  <2>3. CASE o = p
    <3>1. ~WorkedOn(p) /\ services[p] = Both(rows[p])
      BY <1>3, <2>1, <2>3 DEF GostPortFine
    <3>2. On(h, p)' /\ \A k \in Askers \ {h} : ~On(k, p)'
      BY <1>2, <1>7, <3>1 DEF On, Working, WorkedOn
    <3>3. Fits(jobs[h], services[p], rows[p])'
      BY <1>2, <1>3, <1>7, <3>1 DEF Fits
    <3>4. QED BY <2>3, <3>2, <3>3, RequestGoesOn
  <2>4. QED BY <2>2, <2>3
<1>9. QED BY <1>5, <1>6, <1>8

Job == DelJob \cup AddJob \cup ModifyJob

\* A request goes on or ends, and leaves its port as that calls for, or torn.
LEMMA JobStepInv ==
  ASSUME GostInv, NEW h \in Askers, NEW p \in GostPorts, On(h, p), NEW x,
         jobs' = [jobs EXCEPT ![h] = x], x = None \/ (x \in Job /\ x.port = p),
         services' \in [GostPorts -> [tcp : GostConf, udp : GostConf]], rows' \in [GostPorts -> GostConf],
         \A o \in GostPorts \ {p} : services'[o] = services[o] /\ rows'[o] = rows[o],
         UNCHANGED <<serving, snapshot>>,
         torn' = torn \/ torn' = torn \cup {p},
         p \in torn' \/ (x # None /\ Fits(x, services'[p], rows'[p])) \/ (x = None /\ services'[p] = Both(rows'[p]))
  PROVE  GostInv'
<1> USE DEF GostInv
<1>1. jobs'[h] = x /\ \A k \in Askers \ {h} : jobs'[k] = jobs[k]
  BY DEF GostTypes
<1>2. GostTypes'
  BY DEF GostTypes, Job
<1>3. serving = "up"
  BY DEF QuietOff, On
<1>4. QuietOff'
  BY <1>3 DEF QuietOff
<1>5. x # None => x.port = p
  OBVIOUS
<1>6. ASSUME NEW o \in GostPorts \ torn'
      PROVE  GostPortFine(o)'
  <2>1. GostPortFine(o)
    OBVIOUS
  <2>2. CASE o # p
    <3>1. ~On(h, o) /\ ~On(h, o)'
      BY <1>1, <1>5, <2>2 DEF On, Working
    <3>2. QED BY <1>1, <2>1, <2>2, <3>1, OtherPortsKeep
  <2>3. CASE o = p
    <3>1. \A k \in Askers \ {h} : ~On(k, p)'
      BY <1>1, <2>1, <2>3 DEF On, Working, GostPortFine
    <3>2. CASE x # None
      <4>1. On(h, p)' /\ Fits(jobs[h], services[p], rows[p])'
        BY <1>1, <1>5, <2>3, <3>2 DEF On, Working
      <4>2. QED BY <2>3, <3>1, <4>1, RequestGoesOn
    <3>3. CASE x = None
      <4>1. ~On(h, p)' /\ services'[p] = Both(rows'[p])
        BY <1>1, <2>3, <3>3 DEF On, Working
      <4>2. QED BY <2>3, <3>1, <4>1, JobLeaves
    <3>4. QED BY <3>2, <3>3
  <2>4. QED BY <2>2, <2>3
<1>7. QED BY <1>2, <1>4, <1>6

\* The port a request is at work on, and the next call of it.
LEMMA JobAt ==
  ASSUME GostInv, NEW h \in Askers, Working(h)
  PROVE  /\ jobs[h] \in Job /\ jobs[h].port \in GostPorts /\ On(h, jobs[h].port)
         /\ jobs[h].port \notin torn => Fits(jobs[h], services[jobs[h].port], rows[jobs[h].port])
         /\ jobs[h].op = "del" => jobs[h].conf = None
         /\ jobs[h].op = "modify" \/ jobs[h].op = "del" \/ jobs[h].op = "add"
         /\ jobs[h].call \in {"delTcp", "delUdp"} => jobs[h].op # "add"
         /\ jobs[h].call \in {"addTcp", "addUdp"} => jobs[h].op # "del"
         /\ jobs[h].conf \in GostConf
<1>1. jobs[h] \in Job
  BY DEF GostInv, GostTypes, Working, Job
<1>2. QED BY <1>1 DEF Job, DelJob, AddJob, ModifyJob, GostConf, GostInv, GostPortFine, On

\* What Proceed makes of a request.
LEMMA NextCall ==
  ASSUME NEW q \in Job, NEW call \in {"delTcp", "delUdp", "addTcp", "addUdp", "commit"},
         (q.op = "del" /\ call \in {"delTcp", "delUdp", "commit"})
         \/ (q.op = "add" /\ call \in {"addTcp", "addUdp", "commit"})
           \/ q.op = "modify"
  PROVE  /\ [q EXCEPT !.call = call] \in Job /\ [q EXCEPT !.call = call] # None
         /\ [q EXCEPT !.call = call].port = q.port /\ [q EXCEPT !.call = call].op = q.op
         /\ [q EXCEPT !.call = call].conf = q.conf /\ [q EXCEPT !.call = call].call = call
<1>1. [q EXCEPT !.call = call] \in Job
  BY DEF Job, DelJob, AddJob, ModifyJob
<1>2. [q EXCEPT !.call = call] # None
  BY <1>1, JobIsJob DEF Job
<1>3. QED BY <1>1, <1>2 DEF Job, DelJob, AddJob, ModifyJob

LEMMA SetHalf ==
  ASSUME GostTypes, NEW p \in GostPorts, NEW c \in GostConf, NEW half \in {"tcp", "udp"}, Set(p, half, c)
  PROVE  /\ services' \in [GostPorts -> [tcp : GostConf, udp : GostConf]]
         /\ services'[p] = [tcp |-> IF half = "tcp" THEN c ELSE services[p].tcp,
                            udp |-> IF half = "udp" THEN c ELSE services[p].udp]
         /\ \A o \in GostPorts \ {p} : services'[o] = services[o]
<1>1. services \in [GostPorts -> [tcp : GostConf, udp : GostConf]]
  BY DEF GostTypes
<1>2. CASE half = "tcp"
  <2>1. services' = [services EXCEPT ![p]["tcp"] = c]
    BY <1>2 DEF Set
  <2>2. services'[p] = [tcp |-> c, udp |-> services[p].udp]
    BY <1>1, <2>1
  <2>3. QED BY <1>1, <1>2, <2>1, <2>2
<1>3. CASE half = "udp"
  <2>1. services' = [services EXCEPT ![p]["udp"] = c]
    BY <1>3 DEF Set
  <2>2. services'[p] = [tcp |-> services[p].tcp, udp |-> c]
    BY <1>1, <2>1
  <2>3. QED BY <1>1, <1>3, <2>1, <2>2
<1>4. QED BY <1>2, <1>3

LEMMA DelTcpInv == ASSUME GostInv, NEW h \in Askers, DelTcp(h) PROVE GostInv'
<1> DEFINE q == jobs[h]
           p == q.port
<1>1. Working(h) /\ q.call = "delTcp"
  BY DEF DelTcp, DoesNext
<1>2. /\ q \in Job /\ p \in GostPorts /\ On(h, p)
      /\ p \notin torn => Fits(q, services[p], rows[p])
      /\ q.op = "modify" \/ q.op = "del"
  BY <1>1, JobAt
<1>3. UNCHANGED <<rows, serving, snapshot, torn>>
  BY DEF DelTcp
<1>4. GostTypes
  BY DEF GostInv
<1>5. rows \in [GostPorts -> GostConf] /\ services \in [GostPorts -> [tcp : GostConf, udp : GostConf]]
  BY <1>4 DEF GostTypes
<1>6. CASE services[p].tcp # None
  <2>1. Set(p, "tcp", None) /\ jobs' = [jobs EXCEPT ![h].call = "delUdp"]
    BY <1>6 DEF DelTcp, Proceed
  <2>2. PICK x : x = [q EXCEPT !.call = "delUdp"]
    OBVIOUS
  <2>3. jobs' = [jobs EXCEPT ![h] = x]
    BY <2>1, <2>2, <1>4 DEF GostTypes
  <2>4. x \in Job /\ x # None /\ x.port = p /\ x.call = "delUdp"
    BY <1>2, <2>2, NextCall
  <2>6. /\ services' \in [GostPorts -> [tcp : GostConf, udp : GostConf]]
        /\ services'[p] = [tcp |-> None, udp |-> services[p].udp]
        /\ \A o \in GostPorts \ {p} : services'[o] = services[o] /\ rows'[o] = rows[o]
    BY <1>2, <1>3, <1>4, <2>1, SetHalf DEF GostConf
  <2>7. p \notin torn' => Fits(x, services'[p], rows'[p])
    BY <1>1, <1>2, <1>3, <1>6, <2>4, <2>6 DEF Fits, Both
  <2>8. QED BY <1>2, <1>3, <1>5, <2>3, <2>4, <2>6, <2>7, JobStepInv
<1>7. CASE services[p].tcp = None
  <2>1. DelFailed(h) /\ UNCHANGED services
    BY <1>7 DEF DelTcp
  <2>2. CASE q.op = "modify"
    <3>1. PICK x : x = [q EXCEPT !.call = "addTcp"]
      OBVIOUS
    <3>2. jobs' = [jobs EXCEPT ![h] = x]
      BY <1>4, <2>1, <2>2, <3>1 DEF GostTypes, DelFailed, Proceed
    <3>3. x \in Job /\ x # None /\ x.port = p /\ x.call = "addTcp"
      BY <1>2, <2>2, <3>1, NextCall
    <3>4. p \notin torn' => Fits(x, services'[p], rows'[p])
      BY <1>1, <1>2, <1>3, <2>1, <3>3 DEF Fits
    <3>5. QED BY <1>2, <1>3, <1>5, <2>1, <3>2, <3>3, <3>4, JobStepInv
  <2>3. CASE q.op = "del"
    <3>1. jobs' = [jobs EXCEPT ![h] = None]
      BY <2>1, <2>3 DEF DelFailed, Done
    <3>2. p \notin torn' => services'[p] = Both(rows'[p])
      BY <1>1, <1>2, <1>3, <2>1 DEF Fits
    <3>3. QED BY <1>2, <1>3, <1>5, <2>1, <3>1, <3>2, JobStepInv
  <2>4. QED BY <1>2, <2>2, <2>3
<1>8. QED BY <1>6, <1>7

LEMMA Proceeding ==
  ASSUME GostInv, NEW h \in Askers, Working(h),
         NEW call \in {"delTcp", "delUdp", "addTcp", "addUdp", "commit"}, Proceed(h, call),
         (jobs[h].op = "del" /\ call \in {"delTcp", "delUdp", "commit"})
           \/ (jobs[h].op = "add" /\ call \in {"addTcp", "addUdp", "commit"}) \/ jobs[h].op = "modify"
  PROVE  \E x \in Job :
           /\ x # None /\ jobs' = [jobs EXCEPT ![h] = x]
           /\ x.port = jobs[h].port /\ x.op = jobs[h].op /\ x.conf = jobs[h].conf /\ x.call = call
<1>1. PICK x : x = [jobs[h] EXCEPT !.call = call]
  OBVIOUS
<1>2. jobs' = [jobs EXCEPT ![h] = x]
  BY <1>1 DEF Proceed, GostInv, GostTypes
<1>3. jobs[h] \in Job
  BY JobAt
<1>4. /\ x \in Job /\ x # None
      /\ x.port = jobs[h].port /\ x.op = jobs[h].op /\ x.conf = jobs[h].conf /\ x.call = call
  BY <1>1, <1>3, NextCall, ZenonT(30)
<1>5. QED BY <1>2, <1>4

LEMMA DelUdpInv == ASSUME GostInv, NEW h \in Askers, DelUdp(h) PROVE GostInv'
<1> DEFINE q == jobs[h]
           p == q.port
<1>1. Working(h) /\ q.call = "delUdp" /\ UNCHANGED <<rows, serving, snapshot>>
  BY DEF DelUdp, DoesNext
<1>2. /\ q \in Job /\ p \in GostPorts /\ On(h, p)
      /\ p \notin torn => Fits(q, services[p], rows[p])
      /\ q.op = "modify" \/ q.op = "del"
      /\ q.op = "del" => q.conf = None
  BY <1>1, JobAt
<1>3. GostTypes
  BY DEF GostInv
<1>4. rows \in [GostPorts -> GostConf] /\ services \in [GostPorts -> [tcp : GostConf, udp : GostConf]]
  BY <1>3 DEF GostTypes
<1>5. CASE services[p].udp # None
  <2>1. Set(p, "udp", None) /\ AfterDel(h) /\ UNCHANGED torn
    BY <1>5 DEF DelUdp
  <2>2. /\ services' \in [GostPorts -> [tcp : GostConf, udp : GostConf]]
        /\ services'[p] = [tcp |-> services[p].tcp, udp |-> None]
        /\ \A o \in GostPorts \ {p} : services'[o] = services[o] /\ rows'[o] = rows[o]
    BY <1>1, <1>2, <1>3, <2>1, SetHalf DEF GostConf
  <2>3. p \notin torn' => services'[p] = Nothing
    BY <1>1, <1>2, <2>1, <2>2 DEF Fits, Nothing
  <2>4. Proceed(h, IF q.op = "modify" THEN "addTcp" ELSE "commit")
    BY <2>1 DEF AfterDel
  <2>5. PICK x \in Job : /\ x # None /\ jobs' = [jobs EXCEPT ![h] = x]
                        /\ x.port = p /\ x.op = q.op /\ x.conf = q.conf
                        /\ x.call = IF q.op = "modify" THEN "addTcp" ELSE "commit"
    BY <1>1, <1>2, <2>4, Proceeding
  <2>6. p \notin torn' => Fits(x, services'[p], rows'[p])
    BY <1>2, <2>3, <2>5 DEF Fits, Nothing, Both
  <2>7. QED BY <1>1, <1>2, <1>4, <2>1, <2>2, <2>5, <2>6, JobStepInv
<1>6. CASE services[p].udp = None
  <2>1. DelFailed(h) /\ torn' = torn \cup {p} /\ UNCHANGED services
    BY <1>6 DEF DelUdp, Tear
  <2>2. CASE q.op = "modify"
    <3>1. PICK x \in Job : x # None /\ jobs' = [jobs EXCEPT ![h] = x] /\ x.port = p
      BY <1>1, <2>1, <2>2, Proceeding DEF DelFailed
    <3>2. QED BY <1>1, <1>2, <1>4, <2>1, <3>1, JobStepInv
  <2>3. CASE q.op = "del"
    <3>1. jobs' = [jobs EXCEPT ![h] = None]
      BY <2>1, <2>3 DEF DelFailed, Done
    <3>2. QED BY <1>1, <1>2, <1>4, <2>1, <3>1, JobStepInv
  <2>4. QED BY <1>2, <2>2, <2>3
<1>7. QED BY <1>5, <1>6

LEMMA AddTcpInv == ASSUME GostInv, NEW h \in Askers, AddTcp(h) PROVE GostInv'
<1> DEFINE q == jobs[h]
           p == q.port
<1>1. Working(h) /\ q.call = "addTcp" /\ UNCHANGED <<rows, serving, snapshot, torn>>
  BY DEF AddTcp, DoesNext
<1>2. /\ q \in Job /\ p \in GostPorts /\ On(h, p) /\ q.conf \in GostConf
      /\ p \notin torn => Fits(q, services[p], rows[p])
      /\ q.op = "modify" \/ q.op = "add"
  BY <1>1, JobAt
<1>3. GostTypes
  BY DEF GostInv
<1>4. rows \in [GostPorts -> GostConf] /\ services \in [GostPorts -> [tcp : GostConf, udp : GostConf]]
  BY <1>3 DEF GostTypes
<1>5. CASE services[p].tcp = None
  <2>1. Set(p, "tcp", q.conf) /\ Proceed(h, "addUdp")
    BY <1>5 DEF AddTcp
  <2>2. /\ services' \in [GostPorts -> [tcp : GostConf, udp : GostConf]]
        /\ services'[p] = [tcp |-> q.conf, udp |-> services[p].udp]
        /\ \A o \in GostPorts \ {p} : services'[o] = services[o] /\ rows'[o] = rows[o]
    BY <1>1, <1>2, <1>3, <2>1, SetHalf
  <2>3. p \notin torn => services[p].udp = None
    BY <1>1, <1>2, <1>5 DEF Fits, Nothing, Both
  <2>4. PICK x \in Job : /\ x # None /\ jobs' = [jobs EXCEPT ![h] = x]
                        /\ x.port = p /\ x.conf = q.conf /\ x.call = "addUdp"
    BY <1>1, <1>2, <2>1, Proceeding
  <2>5. p \notin torn' => Fits(x, services'[p], rows'[p])
    BY <1>1, <2>2, <2>3, <2>4 DEF Fits
  <2>6. QED BY <1>1, <1>2, <1>4, <2>2, <2>4, <2>5, JobStepInv
<1>6. CASE services[p].tcp # None
  <2>1. jobs' = [jobs EXCEPT ![h] = None] /\ UNCHANGED services
    BY <1>6 DEF AddTcp, Done
  <2>2. p \notin torn => services[p] = Both(rows[p])
    BY <1>1, <1>2, <1>6 DEF Fits, Nothing
  <2>3. QED BY <1>1, <1>2, <1>4, <2>1, <2>2, JobStepInv
<1>7. QED BY <1>5, <1>6

LEMMA AddUdpInv == ASSUME GostInv, NEW h \in Askers, AddUdp(h) PROVE GostInv'
<1> DEFINE q == jobs[h]
           p == q.port
<1>1. Working(h) /\ q.call = "addUdp" /\ UNCHANGED <<rows, serving, snapshot>>
  BY DEF AddUdp, DoesNext
<1>2. /\ q \in Job /\ p \in GostPorts /\ On(h, p) /\ q.conf \in GostConf
      /\ p \notin torn => Fits(q, services[p], rows[p])
      /\ q.op = "modify" \/ q.op = "add"
  BY <1>1, JobAt
<1>3. GostTypes
  BY DEF GostInv
<1>4. rows \in [GostPorts -> GostConf] /\ services \in [GostPorts -> [tcp : GostConf, udp : GostConf]]
  BY <1>3 DEF GostTypes
<1>5. CASE services[p].udp = None
  <2>1. Set(p, "udp", q.conf) /\ Proceed(h, "commit") /\ UNCHANGED torn
    BY <1>5 DEF AddUdp
  <2>2. /\ services' \in [GostPorts -> [tcp : GostConf, udp : GostConf]]
        /\ services'[p] = [tcp |-> services[p].tcp, udp |-> q.conf]
        /\ \A o \in GostPorts \ {p} : services'[o] = services[o] /\ rows'[o] = rows[o]
    BY <1>1, <1>2, <1>3, <2>1, SetHalf
  <2>3. p \notin torn => services[p].tcp = q.conf
    BY <1>1, <1>2 DEF Fits
  <2>4. PICK x \in Job : /\ x # None /\ jobs' = [jobs EXCEPT ![h] = x]
                        /\ x.port = p /\ x.conf = q.conf /\ x.call = "commit"
    BY <1>1, <1>2, <2>1, Proceeding
  <2>5. p \notin torn' => Fits(x, services'[p], rows'[p])
    BY <2>1, <2>2, <2>3, <2>4 DEF Fits, Both
  <2>6. QED BY <1>1, <1>2, <1>4, <2>1, <2>2, <2>4, <2>5, JobStepInv
<1>6. CASE services[p].udp # None
  <2>1. jobs' = [jobs EXCEPT ![h] = None] /\ UNCHANGED services /\ torn' = torn \cup {p}
    BY <1>6 DEF AddUdp, Done, Tear
  <2>2. QED BY <1>1, <1>2, <1>4, <2>1, JobStepInv
<1>7. QED BY <1>5, <1>6

LEMMA CallFailsInv == ASSUME GostInv, NEW h \in Askers, CallFails(h) PROVE GostInv'
<1> DEFINE q == jobs[h]
           p == q.port
<1>1. Working(h) /\ q.call # "commit" /\ UNCHANGED <<services, rows, serving, snapshot>>
  BY DEF CallFails
<1>2. /\ q \in Job /\ p \in GostPorts /\ On(h, p)
      /\ p \notin torn => Fits(q, services[p], rows[p])
      /\ q.op = "modify" \/ q.op = "del" \/ q.op = "add"
      /\ q.call \in {"delTcp", "delUdp"} => q.op # "add"
  BY <1>1, JobAt
<1>3. GostTypes
  BY DEF GostInv
<1>4. rows \in [GostPorts -> GostConf] /\ services \in [GostPorts -> [tcp : GostConf, udp : GostConf]]
  BY <1>3 DEF GostTypes
<1>5. IF q.call = "delTcp" \/ (q.call = "addTcp" /\ q.op = "add") THEN torn' = torn ELSE torn' = torn \cup {p}
  BY DEF CallFails, Tear
<1>6. p \notin torn' => p \notin torn /\ services'[p] = Both(rows'[p])
  BY <1>1, <1>2, <1>5 DEF Fits
<1>7. CASE q.call \in {"delTcp", "delUdp"} /\ q.op = "modify"
  <2>1. Proceed(h, "addTcp")
    BY <1>7 DEF CallFails, DelFailed
  <2>2. PICK x \in Job : x # None /\ jobs' = [jobs EXCEPT ![h] = x] /\ x.port = p /\ x.call = "addTcp"
    BY <1>1, <1>7, <2>1, Proceeding
  <2>3. p \notin torn' => Fits(x, services'[p], rows'[p])
    BY <1>6, <2>2 DEF Fits
  <2>4. QED BY <1>1, <1>2, <1>4, <1>5, <2>2, <2>3, JobStepInv
<1>8. CASE ~(q.call \in {"delTcp", "delUdp"} /\ q.op = "modify")
  <2>1. jobs' = [jobs EXCEPT ![h] = None]
    BY <1>8 DEF CallFails, DelFailed, Done
  <2>2. QED BY <1>1, <1>2, <1>4, <1>5, <1>6, <2>1, JobStepInv
<1>9. QED BY <1>7, <1>8

LEMMA CommitsInv == ASSUME GostInv, NEW h \in Askers, Commits(h) PROVE GostInv'
<1> DEFINE q == jobs[h]
           p == q.port
<1>1. Working(h) /\ q.call = "commit" /\ jobs' = [jobs EXCEPT ![h] = None] /\ UNCHANGED <<services, serving, snapshot>>
  BY DEF Commits, DoesNext, Done
<1>2. /\ q \in Job /\ p \in GostPorts /\ On(h, p) /\ q.conf \in GostConf
      /\ p \notin torn => Fits(q, services[p], rows[p])
  BY <1>1, JobAt
<1>3. GostTypes
  BY DEF GostInv
<1>4. rows \in [GostPorts -> GostConf] /\ services \in [GostPorts -> [tcp : GostConf, udp : GostConf]]
  BY <1>3 DEF GostTypes
<1>5. CASE rows' = [rows EXCEPT ![p] = q.conf] /\ UNCHANGED torn
  <2>1. rows' \in [GostPorts -> GostConf] /\ rows'[p] = q.conf /\ \A o \in GostPorts \ {p} : rows'[o] = rows[o]
    BY <1>2, <1>4, <1>5
  <2>2. p \notin torn' => services'[p] = Both(rows'[p])
    BY <1>1, <1>2, <1>5, <2>1 DEF Fits
  <2>3. QED BY <1>1, <1>2, <1>4, <1>5, <2>1, <2>2, JobStepInv
<1>6. CASE torn' = torn \cup {p} /\ UNCHANGED rows
  BY <1>1, <1>2, <1>4, <1>6, JobStepInv
<1>7. QED BY <1>5, <1>6 DEF Commits, Tear

LEMMA DelUnheardInv == ASSUME GostInv, NEW h \in Askers, DelUnheard(h) PROVE GostInv'
<1> USE DEF GostInv
<1>1. PICK p \in GostPorts : rows' = [rows EXCEPT ![p] = None] /\ torn' = torn \cup {p}
  BY DEF DelUnheard, Tear
<1>2. UNCHANGED <<services, serving, snapshot, jobs>>
  BY DEF DelUnheard
<1>3. GostTypes'
  BY <1>1, <1>2 DEF GostTypes, GostConf
<1>4. QuietOff'
  BY <1>2 DEF QuietOff, Working
<1>5. ASSUME NEW o \in GostPorts \ torn'
      PROVE  GostPortFine(o)'
  <2>1. GostPortFine(o) /\ rows'[o] = rows[o]
    BY <1>1 DEF GostTypes
  <2>2. QED BY <1>2, <2>1 DEF GostPortFine, On, Working, WorkedOn
<1>6. QED BY <1>3, <1>4, <1>5

\* While nothing is at work, a port is as its row says, or torn.
LEMMA QuietPorts ==
  ASSUME \A h \in Askers : ~Working(h)', NEW o \in GostPorts, services'[o] = Both(rows'[o])
  PROVE  GostPortFine(o)'
BY DEF GostPortFine, On

LEMMA QuietPort ==
  ASSUME \A h \in Askers : ~Working(h), NEW o \in GostPorts, GostPortFine(o)
  PROVE  services[o] = Both(rows[o])
BY DEF GostPortFine, WorkedOn

LEMMA ReopenedIs ==
  ASSUME NEW s \in [tcp : GostConf, udp : GostConf], NEW c \in GostConf
  PROVE  /\ Reopened(s, c) \in [tcp : GostConf, udp : GostConf]
         /\ s = Both(c) => Reopened(s, c) = s
         /\ s = Nothing => Reopened(s, c) = Both(c)
BY DEF Reopened, Both, Nothing

LEMMA AgentStartsInv == ASSUME GostInv, AgentStarts PROVE GostInv'
<1> USE DEF GostInv
<1>1. serving = "down" /\ serving' = "starting" /\ snapshot' = rows /\ UNCHANGED <<services, rows, jobs, torn>>
  BY DEF AgentStarts
<1>2. GostTypes'
  BY <1>1 DEF GostTypes
<1>3. QuietOff'
  BY <1>1 DEF QuietOff, Working
<1>4. QED BY <1>1, <1>2, <1>3 DEF GostPortFine, On, Working, WorkedOn

LEMMA InitAgentGostInv == ASSUME GostInv, InitAgentGost PROVE GostInv'
<1> USE DEF GostInv
<1>1. /\ serving = "starting" /\ serving' = "up"
      /\ services' = [p \in GostPorts |-> Reopened(services[p], snapshot[p])]
      /\ torn' = {p \in torn : services[p] # Nothing} \cup {p \in GostPorts : snapshot[p] # rows[p]}
      /\ UNCHANGED <<rows, snapshot, jobs>>
  BY DEF InitAgentGost
<1>2. \A p \in GostPorts : /\ services[p] \in [tcp : GostConf, udp : GostConf]
                           /\ snapshot[p] \in GostConf
                           /\ services'[p] = Reopened(services[p], snapshot[p])
  BY <1>1 DEF GostTypes
<1>3. services' \in [GostPorts -> [tcp : GostConf, udp : GostConf]]
  BY <1>1, <1>2, ReopenedIs
<1>4. GostTypes'
  BY <1>1, <1>3 DEF GostTypes
<1>5. QuietOff' /\ \A h \in Askers : ~Working(h) /\ ~Working(h)'
  BY <1>1 DEF QuietOff, Working
<1>6. ASSUME NEW o \in GostPorts \ torn'
      PROVE  GostPortFine(o)'
  <2>1. snapshot[o] = rows[o] /\ (o \notin torn \/ services[o] = Nothing)
    BY <1>1
  <2>2. CASE o \notin torn
    <3>1. services[o] = Both(snapshot[o])
      BY <1>5, <2>1, <2>2, QuietPort
    <3>2. services'[o] = Both(rows'[o])
      BY <1>1, <1>2, <2>1, <3>1, ReopenedIs
    <3>3. QED BY <1>5, <3>2, QuietPorts
  <2>3. CASE services[o] = Nothing
    <3>1. services'[o] = Both(rows'[o])
      BY <1>1, <1>2, <2>1, <2>3, ReopenedIs
    <3>2. QED BY <1>5, <3>1, QuietPorts
  <2>4. QED BY <2>1, <2>2, <2>3
<1>7. QED BY <1>4, <1>5, <1>6

LEMMA InitAgentPanicsInv == ASSUME GostInv, InitAgentPanics PROVE GostInv'
<1> USE DEF GostInv
<1>1. PICK p \in GostPorts, before \in SUBSET GostPorts, half \in {"none", "tcp"} :
        /\ services' = [o \in GostPorts |->
                         CASE o \in before -> Reopened(services[o], snapshot[o])
                           [] o = p /\ half = "tcp" -> [services[p] EXCEPT !.tcp = snapshot[p]]
                           [] OTHER -> services[o]]
        /\ p \notin before
        /\ torn' = torn \cup ({p} \cup {o \in before : snapshot[o] # rows[o]})
  BY DEF InitAgentPanics, Tear
<1>2. serving = "starting" /\ serving' = "down" /\ UNCHANGED <<rows, snapshot, jobs>>
  BY DEF InitAgentPanics
<1>3. \A o \in GostPorts : /\ services[o] \in [tcp : GostConf, udp : GostConf]
                           /\ snapshot[o] \in GostConf
                           /\ o \in before => services'[o] = Reopened(services[o], snapshot[o])
                           /\ o \notin before /\ o # p => services'[o] = services[o]
  BY <1>1 DEF GostTypes
<1>4. [services[p] EXCEPT !.tcp = snapshot[p]] \in [tcp : GostConf, udp : GostConf]
  BY <1>3
<1>5. \A o \in GostPorts : services'[o] \in [tcp : GostConf, udp : GostConf]
  <2>1. SUFFICES ASSUME NEW o \in GostPorts
                 PROVE  services'[o] \in [tcp : GostConf, udp : GostConf]
    OBVIOUS
  <2>2. CASE o \in before
    BY <1>3, <2>2, ReopenedIs
  <2>3. CASE o \notin before /\ o # p
    BY <1>3, <2>3
  <2>4. CASE o = p
    BY <1>1, <1>3, <1>4, <2>4
  <2>5. QED BY <2>2, <2>3, <2>4
<1>6. GostTypes'
  <2>1. services' = [o \in GostPorts |-> services'[o]]
    BY <1>1
  <2>2. services' \in [GostPorts -> [tcp : GostConf, udp : GostConf]]
    BY <1>5, <2>1
  <2>3. QED BY <1>1, <1>2, <2>2 DEF GostTypes
<1>7. QuietOff' /\ \A h \in Askers : ~Working(h) /\ ~Working(h)'
  BY <1>2 DEF QuietOff, Working
<1>8. ASSUME NEW o \in GostPorts \ torn'
      PROVE  GostPortFine(o)'
  <2>1. o # p /\ o \notin torn /\ (o \in before => snapshot[o] = rows[o])
    BY <1>1
  <2>2. services[o] = Both(rows[o])
    BY <1>7, <2>1, QuietPort
  <2>3. services'[o] = Both(rows'[o])
    BY <1>2, <1>3, <2>1, <2>2, ReopenedIs
  <2>4. QED BY <1>7, <2>3, QuietPorts
<1>9. QED BY <1>6, <1>7, <1>8

LEMMA AgentDiesInv == ASSUME GostInv, AgentDies PROVE GostInv'
<1> USE DEF GostInv
<1>1. /\ serving' = "down" /\ jobs' = [h \in Askers |-> None]
      /\ torn' = torn \cup {p \in GostPorts : WorkedOn(p)}
      /\ UNCHANGED <<services, rows, snapshot>>
  BY DEF AgentDies, Tear
<1>2. GostTypes'
  BY <1>1 DEF GostTypes
<1>3. QuietOff' /\ \A h \in Askers : ~Working(h)'
  BY <1>1 DEF QuietOff, Working
<1>4. ASSUME NEW o \in GostPorts \ torn'
      PROVE  GostPortFine(o)'
  <2>1. services[o] = Both(rows[o])
    BY <1>1 DEF GostPortFine
  <2>2. QED BY <1>1, <1>3, <2>1, QuietPorts
<1>5. QED BY <1>2, <1>3, <1>4

LEMMA GostRestartsInv == ASSUME GostInv, GostRestarts PROVE GostInv'
<1> USE DEF GostInv
<1>1. /\ services' = [p \in GostPorts |-> Nothing]
      /\ torn' = torn \cup {p \in GostPorts : rows[p] # None \/ WorkedOn(p)}
      /\ UNCHANGED <<rows, serving, snapshot, jobs>>
  BY DEF GostRestarts, Tear
<1>2. GostTypes'
  BY <1>1 DEF GostTypes, Nothing, GostConf
<1>3. QuietOff'
  BY <1>1 DEF QuietOff, Working
<1>4. ASSUME NEW o \in GostPorts \ torn'
      PROVE  GostPortFine(o)'
  <2>1. \A h \in Askers : ~On(h, o)'
    BY <1>1 DEF WorkedOn, On, Working
  <2>2. services'[o] = Both(rows'[o])
    BY <1>1 DEF Nothing, Both
  <2>3. QED BY <2>1, <2>2, JobLeaves
<1>5. QED BY <1>2, <1>3, <1>4

LEMMA GostStepInv == GostInv /\ [GostNext]_gostVars => GostInv'
<1> SUFFICES ASSUME GostInv, [GostNext]_gostVars
             PROVE  GostInv'
  OBVIOUS
<1>1. ASSUME UNCHANGED <<services, rows, serving, snapshot, jobs, torn>>
      PROVE  GostInv'
  BY <1>1 DEF GostInv, GostTypes, QuietOff, GostPortFine, On, Working, WorkedOn
<1>2. CASE UNCHANGED gostVars
  BY <1>1, <1>2 DEF gostVars
<1>3. ASSUME NEW h \in Askers,
             \/ AskAdd(h) \/ AskDel(h) \/ AskModify(h) \/ DelUnheard(h)
             \/ DelTcp(h) \/ DelUdp(h) \/ AddTcp(h) \/ AddUdp(h) \/ CallFails(h) \/ Commits(h)
      PROVE  GostInv'
  BY <1>3, AskedInv, DelUnheardInv, DelTcpInv, DelUdpInv, AddTcpInv, AddUdpInv, CallFailsInv, CommitsInv
<1>4. CASE AgentStarts \/ InitAgentGost \/ InitAgentPanics \/ AgentDies \/ GostRestarts
  BY <1>4, AgentStartsInv, InitAgentGostInv, InitAgentPanicsInv, AgentDiesInv, GostRestartsInv
<1>5. CASE (\E p \in GostPorts : Carries(p)) \/ Observes \/ SendsAgain \/ GivesUp \/ ObserverNetworkTraffic
  BY <1>1, <1>5 DEF Carries, Observes, SendsAgain, GivesUp, ObserverNetworkTraffic
<1>6. QED BY <1>2, <1>3, <1>4, <1>5 DEF GostNext

(***************************************************************************)
(* A port that nothing has torn and no request is at work on is forwarded  *)
(* by gost as its row says (rule.go with EnableGost, InitAgent).           *)
(***************************************************************************)
THEOREM GostServesRows == GostSpec => []GostServes
<1>1. GostInv => GostServes
  BY DEF GostInv, GostServes, GostPortFine, Both
<1>2. QED BY <1>1, GostInitInv, GostStepInv, PTL DEF GostSpec

-----------------------------------------------------------------------------
(* The units of a port, at each of the places where they are counted.      *)

TrafficTypes ==
  /\ carried \in [GostPorts -> Nat] /\ counter \in [GostPorts -> Nat] /\ charged \in [GostPorts -> Nat]
  /\ batch \in [GostPorts -> Nat \cup {None}] /\ unanswered \in [GostPorts -> Nat \cup {None}]
  /\ billed \subseteq GostPorts /\ again \in [GostPorts -> Nat]

\* The agent works on what gost has sent it, unless gost was restarted.
BatchWasSent ==
  \A p \in GostPorts : batch[p] # None => unanswered = NoEvents \/ unanswered[p] = batch[p]

TrafficInv == TrafficTypes /\ BatchWasSent /\ GostChargedOnce

LEMMA LedgerOfPort ==
  ASSUME TrafficInv, NEW p \in GostPorts
  PROVE  /\ charged[p] \in Nat /\ counter[p] \in Nat /\ carried[p] \in Nat /\ again[p] \in Nat
         /\ batch[p] \in Nat \cup {None} /\ unanswered[p] \in Nat \cup {None}
         /\ ToBeCharged(p) \in Nat
         /\ charged[p] + counter[p] + ToBeCharged(p) <= carried[p] + again[p]
  BY DEF TrafficInv, TrafficTypes, GostChargedOnce, ToBeCharged, Units

LEMMA TrafficInitInv == GostInit => TrafficInv
<1> SUFFICES ASSUME GostInit
             PROVE  TrafficInv
  OBVIOUS
<1>1. TrafficTypes /\ BatchWasSent
  BY DEF GostInit, TrafficTypes, BatchWasSent, NoEvents
<1>2. \A p \in GostPorts : carried[p] = 0 /\ counter[p] = 0 /\ charged[p] = 0 /\ again[p] = 0 /\ ToBeCharged(p) = 0
  BY DEF GostInit, NoEvents, ToBeCharged, Units
<1>3. GostChargedOnce
  BY <1>2 DEF GostChargedOnce
<1>4. QED BY <1>1, <1>3 DEF TrafficInv

LEMMA CarriesInv == ASSUME TrafficInv, NEW p \in GostPorts, Carries(p) PROVE TrafficInv'
<1>1. /\ carried' = [carried EXCEPT ![p] = @ + 1] /\ counter' = [counter EXCEPT ![p] = @ + 1]
      /\ UNCHANGED <<charged, unanswered, batch, billed, again>>
  BY DEF Carries
<1>2. TrafficTypes' /\ BatchWasSent'
  BY <1>1 DEF TrafficInv, TrafficTypes, BatchWasSent, NoEvents
<1>3. ASSUME NEW o \in GostPorts
      PROVE  charged'[o] + counter'[o] + ToBeCharged(o)' <= carried'[o] + again'[o]
  <2>1. /\ charged'[o] = charged[o] /\ again'[o] = again[o] /\ ToBeCharged(o)' = ToBeCharged(o)
        /\ (carried'[o] = carried[o] /\ counter'[o] = counter[o])
             \/ (carried'[o] = carried[o] + 1 /\ counter'[o] = counter[o] + 1)
    BY <1>1 DEF TrafficInv, TrafficTypes, ToBeCharged, Units
  <2>2. QED BY <2>1, LedgerOfPort
<1>4. QED BY <1>2, <1>3 DEF TrafficInv, GostChargedOnce

LEMMA ObservesInv == ASSUME TrafficInv, Observes PROVE TrafficInv'
<1>1. /\ batch = NoEvents /\ unanswered = NoEvents
      /\ batch' = [p \in GostPorts |-> IF services[p].tcp # None THEN counter[p] ELSE None]
      /\ unanswered' = batch' /\ billed' = {}
      /\ counter' = [p \in GostPorts |-> IF services[p].tcp # None THEN 0 ELSE counter[p]]
      /\ UNCHANGED <<carried, charged, again>>
  BY DEF Observes, AfterEvent
<1>2. TrafficTypes' /\ BatchWasSent'
  BY <1>1 DEF TrafficInv, TrafficTypes, BatchWasSent
<1>3. ASSUME NEW o \in GostPorts
      PROVE  charged'[o] + counter'[o] + ToBeCharged(o)' <= carried'[o] + again'[o]
  <2>1. /\ charged'[o] = charged[o] /\ carried'[o] = carried[o] /\ again'[o] = again[o]
    BY <1>1
  <2>2. ToBeCharged(o)' = Units(batch'[o])
    BY <1>1 DEF ToBeCharged
  <2>3. CASE services[o].tcp # None
    <3>1. counter'[o] = 0 /\ batch'[o] = counter[o]
      BY <1>1, <2>3
    <3>2. ToBeCharged(o)' \in {0, counter[o]}
      BY <2>2, <3>1 DEF Units
    <3>3. QED BY <2>1, <3>1, <3>2, LedgerOfPort
  <2>4. CASE services[o].tcp = None
    <3>1. counter'[o] = counter[o] /\ ToBeCharged(o)' = 0
      BY <1>1, <2>2, <2>4 DEF Units
    <3>2. QED BY <2>1, <3>1, LedgerOfPort
  <2>5. QED BY <2>3, <2>4
<1>4. QED BY <1>2, <1>3 DEF TrafficInv, GostChargedOnce

LEMMA ReportsInv == ASSUME TrafficInv, ObserverNetworkTraffic PROVE TrafficInv'
<1>1. PICK p \in GostPorts :
        /\ batch[p] # None
        /\ \/ /\ Charge(p) /\ batch' = [batch EXCEPT ![p] = None]
              /\ unanswered' = IF batch' = NoEvents THEN NoEvents ELSE unanswered
           \/ Charge(p) /\ batch' = NoEvents /\ UNCHANGED unanswered
           \/ batch' = NoEvents /\ UNCHANGED <<charged, again, billed, unanswered>>
        /\ UNCHANGED <<carried, counter>>
  BY DEF ObserverNetworkTraffic
<1>2. batch[p] \in Nat
  BY <1>1 DEF TrafficInv, TrafficTypes
<1>3. /\ \/ Charge(p) /\ batch'[p] = None
         \/ UNCHANGED <<charged, again, billed>> /\ batch'[p] = None
      /\ \A o \in GostPorts : batch'[o] \in {batch[o], None}
      /\ unanswered' \in {unanswered, NoEvents}
      /\ batch' \in [GostPorts -> Nat \cup {None}] /\ unanswered' \in [GostPorts -> Nat \cup {None}]
  BY <1>1 DEF NoEvents, TrafficInv, TrafficTypes
<1>4. TrafficTypes'
  <2>1. charged' \in [GostPorts -> Nat] /\ again' \in [GostPorts -> Nat] /\ billed' \subseteq GostPorts
    BY <1>2, <1>3 DEF TrafficInv, TrafficTypes, Charge
  <2>2. QED BY <1>1, <1>3, <2>1 DEF TrafficInv, TrafficTypes
<1>5. BatchWasSent'
  BY <1>3 DEF TrafficInv, BatchWasSent
<1>6. ASSUME NEW o \in GostPorts
      PROVE  charged'[o] + counter'[o] + ToBeCharged(o)' <= carried'[o] + again'[o]
  <2>1. carried'[o] = carried[o] /\ counter'[o] = counter[o]
    BY <1>1
  <2>2. o \in billed' <=> o \in billed \/ (Charge(p) /\ o = p)
    BY <1>3 DEF Charge
  <2>3. ToBeCharged(o)' \in Nat /\ ToBeCharged(o)' <= ToBeCharged(o)
    <3>1. CASE o \in billed'
      BY <3>1, LedgerOfPort DEF ToBeCharged
    <3>2. CASE o \notin billed' /\ batch'[o] = None /\ batch[o] # None
      BY <1>3, <2>2, <3>2, LedgerOfPort DEF ToBeCharged, Units, TrafficInv, BatchWasSent, NoEvents
    <3>3. CASE o \notin billed' /\ batch'[o] = batch[o]
      BY <1>3, <2>2, <3>3, LedgerOfPort DEF ToBeCharged, Units, NoEvents
    <3>4. QED BY <1>3, <3>1, <3>2, <3>3
  <2>4. CASE o = p /\ Charge(p) /\ p \in billed
    <3>1. charged'[o] = charged[o] + batch[p] /\ again'[o] = again[o] + batch[p]
      BY <2>4 DEF Charge, TrafficInv, TrafficTypes
    <3>2. QED BY <1>2, <2>1, <2>3, <3>1, LedgerOfPort
  <2>5. CASE o = p /\ Charge(p) /\ p \notin billed
    <3>1. charged'[o] = charged[o] + batch[p] /\ again'[o] = again[o]
      BY <2>5 DEF Charge, TrafficInv, TrafficTypes
    <3>2. ToBeCharged(o) = batch[p] /\ ToBeCharged(o)' = 0
      BY <1>1, <2>5 DEF ToBeCharged, Units, Charge
    <3>3. QED BY <1>2, <2>1, <3>1, <3>2, LedgerOfPort
  <2>6. CASE ~(o = p /\ Charge(p))
    <3>1. charged'[o] = charged[o] /\ again'[o] = again[o]
      BY <1>3, <2>6 DEF Charge, TrafficInv, TrafficTypes
    <3>2. QED BY <2>1, <2>3, <3>1, LedgerOfPort
  <2>7. QED BY <2>4, <2>5, <2>6
<1>7. QED BY <1>4, <1>5, <1>6 DEF TrafficInv, GostChargedOnce

\* What the other steps do to the events: nothing may be added to them.
LEMMA EventsInv ==
  ASSUME TrafficInv, UNCHANGED <<carried, charged, billed, again>>,
         batch' \in {batch, NoEvents, unanswered}, unanswered' \in {unanswered, NoEvents},
         batch' # NoEvents => batch' = batch \/ batch = NoEvents,
         counter' = counter \/ counter' = [p \in GostPorts |-> 0]
  PROVE  TrafficInv'
<1>1. \/ batch' = NoEvents
      \/ batch' = batch
      \/ batch = NoEvents /\ batch' = unanswered
  OBVIOUS
<1>2. TrafficTypes'
  BY DEF TrafficInv, TrafficTypes, NoEvents
<1>3. BatchWasSent'
  BY DEF TrafficInv, BatchWasSent, NoEvents
<1>4. ASSUME NEW o \in GostPorts
      PROVE  charged'[o] + counter'[o] + ToBeCharged(o)' <= carried'[o] + again'[o]
  <2>1. counter'[o] \in Nat /\ counter'[o] <= counter[o]
    BY LedgerOfPort
  <2>2. ToBeCharged(o)' \in Nat /\ ToBeCharged(o)' <= ToBeCharged(o)
    BY <1>1, LedgerOfPort DEF ToBeCharged, Units, NoEvents, TrafficInv, BatchWasSent
  <2>3. QED BY <2>1, <2>2, LedgerOfPort
<1>5. QED BY <1>2, <1>3, <1>4 DEF TrafficInv, GostChargedOnce

LEMMA TrafficStepInv == TrafficInv /\ [GostNext]_gostVars => TrafficInv'
<1> SUFFICES ASSUME TrafficInv, [GostNext]_gostVars
             PROVE  TrafficInv'
  OBVIOUS
<1>1. ASSUME UNCHANGED gostTraffic
      PROVE  TrafficInv'
  BY <1>1, EventsInv DEF gostTraffic
<1>2. CASE UNCHANGED gostVars
  BY <1>1, <1>2 DEF gostVars
<1>3. ASSUME NEW h \in Askers,
             \/ AskAdd(h) \/ AskDel(h) \/ AskModify(h) \/ DelUnheard(h)
             \/ DelTcp(h) \/ DelUdp(h) \/ AddTcp(h) \/ AddUdp(h) \/ CallFails(h) \/ Commits(h)
      PROVE  TrafficInv'
  BY <1>1, <1>3 DEF AskAdd, AskDel, AskModify, Asked, DelUnheard, DelTcp, DelUdp, AddTcp, AddUdp, CallFails, Commits
<1>4. CASE AgentStarts \/ InitAgentGost \/ InitAgentPanics
  BY <1>1, <1>4 DEF AgentStarts, InitAgentGost, InitAgentPanics
<1>5. CASE AgentDies
  BY <1>5, EventsInv DEF AgentDies
<1>6. CASE GostRestarts
  BY <1>6, EventsInv DEF GostRestarts
<1>7. CASE SendsAgain \/ GivesUp
  BY <1>7, EventsInv DEF SendsAgain, GivesUp
<1>8. QED BY <1>2, <1>3, <1>4, <1>5, <1>6, <1>7, CarriesInv, ObservesInv, ReportsInv DEF GostNext

(***************************************************************************)
(* What has been charged for a port, with what gost and the agent still    *)
(* have to report of it, is never more than what it has carried and what   *)
(* was charged of events that gost sent again after they had been charged, *)
(* whatever fails and restarts (ObserverNetworkTraffic, service/data.go).  *)
(***************************************************************************)
THEOREM GostChargesOnce == GostSpec => []GostChargedOnce
<1>1. TrafficInv => GostChargedOnce
  BY DEF TrafficInv
<1>2. QED BY <1>1, TrafficInitInv, TrafficStepInv, PTL DEF GostSpec

-----------------------------------------------------------------------------
(***************************************************************************)
(* Life cycle: CutOnlyLate for processes of every subcommand and any       *)
(* number of requests.  What carries it is that a drain which found the    *)
(* listener open leaves it closed: nothing arrives after that, so what was *)
(* drained stays drained, and a worker that has stopped does not start     *)
(* again.                                                                  *)
(***************************************************************************)
Phases == {"loading", "serving", "draining", "waiting", "closing", "exited"}

LifecycleTypeOK ==
  /\ phase \in Phases
  /\ listener \in {"off", "on", "failed", "closed"}
  /\ refused \in BOOLEAN
  /\ inflight \in Nat
  /\ job \in {"none", "relay", "idle", "pass", "stopped"}
  /\ window \in {"unset", "open", "over"}

\* The window opens with the drain.
WindowInv ==
  /\ phase \in {"loading", "serving"} => window = "unset"
  /\ phase \in {"draining", "waiting"} => window # "unset"

\* From a drain that was not refused on, nothing arrives.
ListenerInv == window # "unset" /\ ~refused => listener = "closed"

Still == refused \/ inflight = 0

\* Each phase that is left in time leaves something done.
DoneInv ==
  window = "open" =>
    /\ phase \in {"waiting", "closing", "exited"} => Still
    /\ phase \in {"closing", "exited"} => job \in {"none", "stopped"}

LifecycleInv == LifecycleTypeOK /\ WindowInv /\ ListenerInv /\ DoneInv

(***************************************************************************)
(* A process that is loading satisfies the invariant.                      *)
(***************************************************************************)
LEMMA LifecycleInitInv == LifecycleInit => LifecycleInv
<1> SUFFICES ASSUME LifecycleInit PROVE LifecycleInv
  OBVIOUS
<1>1. /\ phase = "loading" /\ listener = "off" /\ refused = FALSE
      /\ inflight = 0 /\ job = "none" /\ window = "unset"
  BY DEF LifecycleInit
<1>2. QED
  BY <1>1 DEF LifecycleInv, LifecycleTypeOK, WindowInv, ListenerInv, DoneInv, Phases

(***************************************************************************)
(* Steps of the handlers and of the worker.                                *)
(***************************************************************************)
LEMMA ServingInv ==
  ASSUME LifecycleInv, Listens \/ RequestArrives \/ RequestEnds
  PROVE  LifecycleInv'
<1> USE DEF LifecycleInv, LifecycleTypeOK, WindowInv, ListenerInv, DoneInv, Still, Phases, HandleKept
<1>1. CASE Listens
  BY <1>1 DEF Listens
<1>2. CASE RequestArrives
  <2>1. inflight' \in Nat
    BY <1>2 DEF RequestArrives
  <2>2. QED BY <1>2, <2>1 DEF RequestArrives
<1>3. CASE RequestEnds
  <2>1. inflight' \in Nat /\ inflight > 0
    BY <1>3 DEF RequestEnds
  <2>2. inflight # 0
    BY <2>1
  <2>3. QED BY <1>3, <2>1, <2>2 DEF RequestEnds
<1>4. QED BY <1>1, <1>2, <1>3

LEMMA JobInv ==
  ASSUME LifecycleInv, RelayDone \/ RelayFails \/ Ticks \/ PassEnds \/ JobStops
  PROVE  LifecycleInv'
  BY DEF RelayDone, RelayFails, Ticks, PassEnds, JobStops, JobMoves, HandleKept,
         LifecycleInv, LifecycleTypeOK, WindowInv, ListenerInv, DoneInv, Still, Phases

(***************************************************************************)
(* Steps of serve.                                                         *)
(***************************************************************************)
LEMMA ServeInv ==
  ASSUME LifecycleInv,
         StartFails \/ Starts \/ Signal \/ RunFailed \/ Drain \/ Drained \/ Waited
           \/ WindowEnds \/ Exits \/ Restarts
  PROVE  LifecycleInv'
<1> USE DEF LifecycleInv, LifecycleTypeOK, WindowInv, ListenerInv, DoneInv, Still, Phases
<1>1. CASE StartFails
  BY <1>1 DEF StartFails
<1>2. CASE Starts
  BY <1>2 DEF Starts, HasWorker
<1>3. CASE Signal
  BY <1>3 DEF Signal
<1>4. CASE RunFailed
  BY <1>4 DEF RunFailed
<1>5. CASE Drain
  BY <1>5 DEF Drain
<1>6. CASE Drained
  BY <1>6 DEF Drained, NoTimeLeft
<1>7. CASE Waited
  BY <1>7 DEF Waited, waitTimeout, NoTimeLeft
<1>8. CASE WindowEnds
  BY <1>8 DEF WindowEnds
<1>9. CASE Exits
  BY <1>9 DEF Exits
<1>10. CASE Restarts
  BY <1>10 DEF Restarts
<1>11. QED BY <1>1, <1>2, <1>3, <1>4, <1>5, <1>6, <1>7, <1>8, <1>9, <1>10

LEMMA LifecycleStepInv == LifecycleInv /\ [LifecycleNext]_lifecycleVars => LifecycleInv'
<1> SUFFICES ASSUME LifecycleInv, [LifecycleNext]_lifecycleVars
             PROVE  LifecycleInv'
  OBVIOUS
<1>1. CASE LifecycleNext
  BY <1>1, ServingInv, JobInv, ServeInv DEF LifecycleNext
<1>2. CASE UNCHANGED lifecycleVars
  BY <1>2 DEF lifecycleVars, LifecycleInv, LifecycleTypeOK, WindowInv, ListenerInv, DoneInv, Still, Phases
<1>3. QED BY <1>1, <1>2

LEMMA CutOnlyLateHolds == LifecycleInv => CutOnlyLate
  BY DEF LifecycleInv, LifecycleTypeOK, DoneInv, Still, CutOnlyLate, NoTimeLeft

(***************************************************************************)
(* A process that has served leaves nothing half done unless its window    *)
(* ran out, whichever subcommand it is and however many requests arrive    *)
(* (RunServer, RunWorker, RunAgent and serve).                             *)
(***************************************************************************)
THEOREM ShutdownOrderly == LifecycleSpec => []CutOnlyLate
<1>1. LifecycleSpec => []LifecycleInv
  BY LifecycleInitInv, LifecycleStepInv, PTL DEF LifecycleSpec
<1>2. QED BY <1>1, CutOnlyLateHolds, PTL

-----------------------------------------------------------------------------
(***************************************************************************)
(* Dispatch.  Every hop asks for an action its table has; a failure is     *)
(* carried by the innermost hop until whoever asked first reads it.        *)
(***************************************************************************)
Groups == {"account", "rule", "chain", "chain-group", "node", "data", "user", "plan"}

Actions ==
  ownAccount \cup adminAccounts \cup ruleSrv \cup chainSrv \cup chainGroupSrv \cup nodeSrv
    \cup dataSrv \cup userSrv \cup planSrv \cup {"GetAgentInstallInfo", "CreatePlan"}

Askings == {"user", "admin", "badToken", "key", "oldKey", "gost"}

Results == Refusals \cup {"none", "ok", "panic", "forbidden", "Unauthenticated"}

HopRecord ==
  [api : {"console", "controller", "agent"}, group : Groups, action : Actions, who : Askings,
   principal : {"nobody"} \cup Askings,
   pc : {"sent", "identified", "routed", "admitted", "bound", "waiting", "answered", "over"},
   outcome : Results, calls : Nat]

HopFine(h) ==
  /\ h \in HopRecord
  /\ <<h.group, h.action>> \in Table(h.api)
  /\ h.api = "console" => h.outcome # "forbidden" /\ (h.outcome = "Unauthenticated" => h.who = "badToken")

AtWork(h) == h.pc \notin {"answered", "over"}

DispatchInv ==
  /\ hops \in Seq(HopRecord)
  /\ \A i \in 1..Len(hops) : HopFine(hops[i])
  /\ failures # {} => hops # <<>> /\ ~AtWork(Top) /\ Top.outcome # "ok"
  /\ answer # "none" => Len(hops) = 1 /\ hops[1].pc = "over"
  /\ NothingMisread
  /\ NoUnknownAction

-----------------------------------------------------------------------------
(* The tables. *)

LEMMA OfIs ==
  ASSUME NEW group, NEW actions
  PROVE  /\ \A g, a : <<g, a>> \in Of(group, actions) <=> g = group /\ a \in actions
         /\ \A c \in Of(group, actions) : c = <<c[1], c[2]>> /\ c[1] = group /\ c[2] \in actions
BY DEF Of

LEMMA InController ==
  ASSUME NEW g, NEW a
  PROVE  <<g, a>> \in RegisterController <=>
           \/ g = "rule" /\ a \in ruleSrv
           \/ g = "chain" /\ a \in chainSrv
           \/ g = "chain-group" /\ a \in chainGroupSrv
           \/ g = "node" /\ a \in nodeSrv
           \/ g = "data" /\ a \in dataSrv
           \/ g = "user" /\ a \in userSrv
           \/ g = "plan" /\ a \in planSrv
BY DEF Of, RegisterController

LEMMA InAgent ==
  ASSUME NEW g, NEW a
  PROVE  <<g, a>> \in RegisterAgent <=>
           \/ g = "rule" /\ a \in ruleSrv
           \/ g = "chain" /\ a \in chainSrv
           \/ g = "node" /\ a \in nodeSrv
           \/ g = "data" /\ a \in dataSrv
BY DEF Of, RegisterAgent

LEMMA InConsole ==
  ASSUME NEW g, NEW a
  PROVE  <<g, a>> \in RegisterAdmin <=>
           \/ g = "account" /\ a \in ownAccount \cup adminAccounts
           \/ g = "rule" /\ a \in RuleHandle
           \/ g = "chain" /\ a \in ChainHandle
           \/ g = "chain-group" /\ a \in ChainGroupHandle
           \/ g = "node" /\ a \in NodeHandle
           \/ g = "user" /\ a \in StanderUserHandle
           \/ g = "plan" /\ a \in PlanHandle
BY DEF Of, RegisterAdmin

\* What the pages ask for is in the console's table, and is not for agents.
LEMMA PagesServed ==
  ASSUME NEW c \in WebCalls
  PROVE  c = <<c[1], c[2]>> /\ c[1] \in Groups /\ c[2] \in Actions /\ <<c[1], c[2]>> \in RegisterAdmin
<1>1. ASSUME NEW group \in Groups, NEW actions, c \in Of(group, actions),
             \A a \in actions : a \in Actions /\ <<group, a>> \in RegisterAdmin
      PROVE  c = <<c[1], c[2]>> /\ c[1] \in Groups /\ c[2] \in Actions /\ <<c[1], c[2]>> \in RegisterAdmin
  <2>1. c = <<c[1], c[2]>> /\ c[1] = group /\ c[2] \in actions
    BY <1>1, OfIs
  <2>2. QED BY <1>1, <2>1 DEF Groups
<1>2. CASE c \in Of("account", ownAccount \cup adminAccounts)
  <2>1. \A a \in ownAccount \cup adminAccounts : a \in Actions /\ <<"account", a>> \in RegisterAdmin
    BY InConsole DEF ownAccount, adminAccounts, Actions
  <2>2. QED BY <1>1, <1>2, <2>1 DEF Groups
<1>3. CASE c \in Of("chain", chainSrv)
  <2>1. \A a \in chainSrv : a \in Actions /\ <<"chain", a>> \in RegisterAdmin
    BY InConsole DEF ChainHandle, chainSrv, Actions
  <2>2. QED BY <1>1, <1>3, <2>1 DEF Groups
<1>4. CASE c \in Of("user", userSrv)
  <2>1. \A a \in userSrv : a \in Actions /\ <<"user", a>> \in RegisterAdmin
    BY InConsole DEF StanderUserHandle, userSrv, Actions
  <2>2. QED BY <1>1, <1>4, <2>1 DEF Groups
<1>5. CASE c \in Of("rule", {"ListRules", "AddRule", "ModifyRule", "DeleteRule", "TestRule"})
  <2>1. \A a \in {"ListRules", "AddRule", "ModifyRule", "DeleteRule", "TestRule"} :
          a \in Actions /\ <<"rule", a>> \in RegisterAdmin
    BY InConsole DEF RuleHandle, ruleSrv, Actions
  <2>2. QED BY <1>1, <1>5, <2>1 DEF Groups
<1>6. CASE c \in Of("chain-group", {"ListChainGroups", "AddChainGroup", "DeleteChainGroup"})
  <2>1. \A a \in {"ListChainGroups", "AddChainGroup", "DeleteChainGroup"} :
          a \in Actions /\ <<"chain-group", a>> \in RegisterAdmin
    BY InConsole DEF ChainGroupHandle, chainGroupSrv, Actions
  <2>2. QED BY <1>1, <1>6, <2>1 DEF Groups
<1>7. CASE c \in Of("node", {"ListNodes", "AddNode", "EditNode", "DeleteNode", "GetNodePermissions",
                     "ListNodeChainRelationShips", "GetAgentInstallInfo"})
  <2>1. \A a \in {"ListNodes", "AddNode", "EditNode", "DeleteNode", "GetNodePermissions",
               "ListNodeChainRelationShips", "GetAgentInstallInfo"} : a \in Actions /\ <<"node", a>> \in RegisterAdmin
    BY InConsole DEF NodeHandle, nodeSrv, Actions
  <2>2. QED BY <1>1, <1>7, <2>1 DEF Groups
<1>8. CASE c \in Of("plan", {"ListPlans", "AssociatePlan", "CreatePlan"})
  <2>1. \A a \in {"ListPlans", "AssociatePlan", "CreatePlan"} : a \in Actions /\ <<"plan", a>> \in RegisterAdmin
    BY InConsole DEF PlanHandle, planSrv, Actions
  <2>2. QED BY <1>1, <1>8, <2>1 DEF Groups
<1>9. QED BY <1>2, <1>3, <1>4, <1>5, <1>6, <1>7, <1>8 DEF WebCalls

LEMMA ScriptsServed ==
  ASSUME NEW c \in RegisterController
  PROVE  c = <<c[1], c[2]>> /\ c[1] \in Groups /\ c[2] \in Actions
<1>1. c = <<c[1], c[2]>> /\ c[1] \in Groups
  BY OfIs DEF RegisterController, Groups
<1>2. c[2] \in Actions
  BY <1>1, InController DEF Actions
<1>3. QED BY <1>1, <1>2

\* What a service asks an agent for on behalf of a request, the agent serves.
LEMMA OnwardServed ==
  ASSUME NEW g, NEW a \in {"AddRule", "DeleteRule", "ModifyRule", "TestRule", "AddChain", "DeleteChain"},
         <<g, a>> \in RegisterController \/ <<g, a>> \in RegisterAdmin
  PROVE  <<g, a>> \in RegisterAgent
<1>1. CASE <<g, a>> \in RegisterController
  BY <1>1, InController, InAgent DEF chainGroupSrv, nodeSrv, dataSrv, userSrv, planSrv
<1>2. CASE <<g, a>> \in RegisterAdmin
  BY <1>2, InConsole, InAgent DEF ownAccount, adminAccounts, RuleHandle, ChainHandle, ChainGroupHandle, chainGroupSrv,
    NodeHandle, nodeSrv, StanderUserHandle, userSrv, PlanHandle, planSrv
<1>3. QED BY <1>1, <1>2

LEMMA HopMade ==
  ASSUME NEW api \in {"console", "controller", "agent"}, NEW g \in Groups, NEW a \in Actions, NEW w \in Askings,
         <<g, a>> \in Table(api)
  PROVE  HopFine(Hop(api, g, a, w)) /\ Hop(api, g, a, w).pc = "sent"
<1>1. Hop(api, g, a, w) \in HopRecord
  BY DEF Hop, HopRecord, Results
<1>2. /\ Hop(api, g, a, w).api = api /\ Hop(api, g, a, w).group = g /\ Hop(api, g, a, w).action = a
      /\ Hop(api, g, a, w).outcome = "none" /\ Hop(api, g, a, w).pc = "sent"
  BY DEF Hop
<1>3. QED BY <1>1, <1>2 DEF HopFine

LEMMA FirstHopFine ==
  ASSUME NEW r \in Pages \cup Scripts \cup Agents \cup Gosts
  PROVE  HopFine(r)
<1>1. CASE r \in Pages
  <2>1. PICK c \in WebCalls, w \in {"user", "admin", "badToken"} : r = Hop("console", c[1], c[2], w)
    BY <1>1 DEF Pages
  <2>2. <<c[1], c[2]>> \in Table("console") /\ c[1] \in Groups /\ c[2] \in Actions
    BY PagesServed DEF Table
  <2>3. QED BY <2>1, <2>2, HopMade DEF Askings, Groups, Actions
<1>2. CASE r \in Scripts
  <2>1. PICK c \in RegisterController, w \in {"user", "admin"} : r = Hop("controller", c[1], c[2], w)
    BY <1>2 DEF Scripts
  <2>2. <<c[1], c[2]>> \in Table("controller") /\ c[1] \in Groups /\ c[2] \in Actions
    BY ScriptsServed DEF Table
  <2>3. QED BY <2>1, <2>2, HopMade DEF Askings, Groups, Actions
<1>3. CASE r \in Agents
  <2>1. PICK c \in {<<"node", "RegisterNode">>, <<"data", "ReportNetworkTraffic">>}, w \in {"key", "oldKey"} :
          r = Hop("controller", c[1], c[2], w)
    BY <1>3 DEF Agents
  <2>2. <<c[1], c[2]>> \in Table("controller") /\ c[1] \in Groups /\ c[2] \in Actions
    BY InController DEF Table, nodeSrv, dataSrv, Groups, Actions
  <2>3. QED BY <2>1, <2>2, HopMade DEF Askings, Groups, Actions
<1>4. CASE r \in Gosts
  <2>1. <<"data", "ObserverNetworkTraffic">> \in Table("agent")
    BY InAgent DEF Table, dataSrv
  <2>2. QED BY <1>4, <2>1, HopMade DEF Gosts, Askings, Groups, Actions, dataSrv
<1>5. QED BY <1>1, <1>2, <1>3, <1>4

LEMMA OnwardFine ==
  ASSUME NEW h, HopFine(h), NEW r \in Onward(h)
  PROVE  HopFine(r)
<1>1. CASE h.api = "agent" /\ h.action = "ObserverNetworkTraffic"
  <2>1. PICK w \in {"key", "oldKey"} : r = Hop("controller", "data", "ReportNetworkTraffic", w)
    BY <1>1 DEF Onward
  <2>2. <<"data", "ReportNetworkTraffic">> \in Table("controller")
    BY InController DEF Table, dataSrv
  <2>3. QED BY <2>1, <2>2, HopMade DEF Askings, Groups, Actions, dataSrv
<1>2. CASE h.api # "agent" /\ h.action \in
                      {"AddRule", "DeleteRule", "ModifyRule", "TestRule", "AddChain", "DeleteChain"}
  <2>1. PICK w \in {"key", "oldKey"} : r = Hop("agent", h.group, h.action, w)
    BY <1>2 DEF Onward
  <2>2. <<h.group, h.action>> \in Table("agent") /\ h.group \in Groups /\ h.action \in Actions
    <3>1. <<h.group, h.action>> \in RegisterController \/ <<h.group, h.action>> \in RegisterAdmin
      BY <1>2 DEF HopFine, HopRecord, Table
    <3>2. <<h.group, h.action>> \in RegisterAgent
      BY <1>2, <3>1, OnwardServed
    <3>3. QED BY <3>2 DEF Table, HopFine, HopRecord
  <2>3. QED BY <1>2, <2>1, <2>2, HopMade DEF Askings
<1>3. CASE h.api # "agent" /\ h.action = "ModifyRules"
  <2>1. PICK w \in {"key", "oldKey"} : r = Hop("agent", "rule", "ModifyRule", w)
    BY <1>3 DEF Onward
  <2>2. <<"rule", "ModifyRule">> \in Table("agent")
    BY InAgent DEF Table, ruleSrv
  <2>3. QED BY <2>1, <2>2, HopMade DEF Askings, Groups, Actions, ruleSrv
<1>4. QED BY <1>1, <1>2, <1>3 DEF Onward

-----------------------------------------------------------------------------
(* The innermost hop takes a step.                                         *)

LEMMA TopIs ==
  ASSUME DispatchInv, hops # <<>>
  PROVE  Len(hops) \in Nat \ {0} /\ Top = hops[Len(hops)] /\ HopFine(Top)
<1>1. Len(hops) \in Nat \ {0}
  BY EmptySeq DEF DispatchInv
<1>2. QED BY <1>1 DEF DispatchInv, Top

LEMMA BecomesIs ==
  ASSUME DispatchInv, hops # <<>>, NEW h, HopFine(h), Becomes(h)
  PROVE  /\ hops' \in Seq(HopRecord) /\ Len(hops') = Len(hops) /\ hops' # <<>>
         /\ \A i \in 1..Len(hops') : HopFine(hops'[i])
         /\ Top' = h /\ hops'[Len(hops)] = h
         /\ Len(hops) = 1 => hops'[1] = h
<1>1. Len(hops) \in Nat \ {0} /\ h \in HopRecord
  BY TopIs DEF HopFine
<1>2. hops' = [hops EXCEPT ![Len(hops)] = h]
  BY DEF Becomes
<1>3. /\ hops' \in Seq(HopRecord) /\ Len(hops') = Len(hops)
      /\ \A j \in 1..Len(hops) : hops'[j] = IF j = Len(hops) THEN h ELSE hops[j]
  BY <1>1, <1>2, ExceptSeq DEF DispatchInv
<1>4. hops' # <<>>
  BY <1>1, <1>3, EmptySeq
<1>5. QED BY <1>1, <1>3, <1>4 DEF DispatchInv, Top

\* Nothing has failed, and nobody has read an answer, while the innermost hop works.
LEMMA WorkingIsClean ==
  ASSUME DispatchInv, hops # <<>>, AtWork(Top)
  PROVE  failures = {} /\ answer = "none"
BY TopIs DEF DispatchInv, AtWork

LEMMA GoesOnInv ==
  ASSUME DispatchInv, hops # <<>>, AtWork(Top), NEW h, HopFine(h), Becomes(h), UNCHANGED <<answer, failures>>
  PROVE  DispatchInv'
BY WorkingIsClean, BecomesIs DEF DispatchInv, NothingMisread, NoUnknownAction

LEMMA AnswersInv ==
  ASSUME DispatchInv, hops # <<>>, AtWork(Top), NEW outcome \in Results, Answers(outcome),
         Top.api = "console" => outcome # "forbidden" /\ (outcome = "Unauthenticated" => Top.who = "badToken")
  PROVE  DispatchInv'
<1>1. HopFine(Top)
  BY TopIs
<1>2. PICK h : h = [Top EXCEPT !.pc = "answered", !.outcome = outcome]
  OBVIOUS
<1>3. /\ h \in HopRecord /\ h.api = Top.api /\ h.group = Top.group /\ h.action = Top.action /\ h.who = Top.who
      /\ h.pc = "answered" /\ h.outcome = outcome
  BY <1>1, <1>2 DEF HopFine, HopRecord
<1>4. HopFine(h)
  BY <1>1, <1>3 DEF HopFine
<1>5. Becomes(h) /\ UNCHANGED answer
  BY <1>2 DEF Answers
<1>6. failures' = IF outcome = "ok" THEN {} ELSE {<<Top.action, outcome>>}
  BY WorkingIsClean DEF Answers, Failed
<1>7. outcome # "unknownAction"
  BY DEF Results, Refusals
<1>8. \A f \in failures' : f[2] # "unknownAction"
  BY <1>6, <1>7
<1>9. QED BY <1>3, <1>4, <1>5, <1>6, <1>8, WorkingIsClean, BecomesIs
              DEF DispatchInv, NothingMisread, NoUnknownAction, AtWork

LEMMA ChangedPc ==
  ASSUME DispatchInv, hops # <<>>, NEW pc \in {"routed", "admitted", "bound", "over"}
  PROVE  /\ HopFine([Top EXCEPT !.pc = pc])
         /\ [Top EXCEPT !.pc = pc].pc = pc /\ [Top EXCEPT !.pc = pc].who = Top.who
         /\ [Top EXCEPT !.pc = pc].outcome = Top.outcome
<1>1. HopFine(Top)
  BY TopIs
<1>2. PICK h : h = [Top EXCEPT !.pc = pc]
  OBVIOUS
<1>3. /\ h \in HopRecord /\ h.api = Top.api /\ h.group = Top.group /\ h.action = Top.action /\ h.who = Top.who
      /\ h.pc = pc /\ h.outcome = Top.outcome
  BY <1>1, <1>2 DEF HopFine, HopRecord
<1>4. HopFine(h)
  BY <1>1, <1>3 DEF HopFine
<1>5. QED BY <1>2, <1>3, <1>4

LEMMA IdentifiedInv ==
  ASSUME DispatchInv, hops # <<>>, AtWork(Top), NEW w \in {"nobody"} \cup Askings, Identified(w)
  PROVE  DispatchInv'
<1>1. HopFine(Top)
  BY TopIs
<1>2. PICK h : h = [Top EXCEPT !.pc = "identified", !.principal = w]
  OBVIOUS
<1>3. /\ h \in HopRecord /\ h.api = Top.api /\ h.group = Top.group /\ h.action = Top.action /\ h.who = Top.who
      /\ h.outcome = Top.outcome
  BY <1>1, <1>2 DEF HopFine, HopRecord
<1>4. HopFine(h)
  BY <1>1, <1>3 DEF HopFine
<1>5. QED BY <1>2, <1>4, GoesOnInv DEF Identified

-----------------------------------------------------------------------------
(* The steps.                                                              *)

LEMMA AuthInv ==
  ASSUME DispatchInv, Jwt \/ ControllerIdentity \/ AgentAuth
  PROVE  DispatchInv'
<1>1. hops # <<>> /\ Top.pc = "sent" /\ AtWork(Top)
  BY DEF Jwt, ControllerIdentity, AgentAuth, HopAt, AtWork
<1>2. Top \in HopRecord
  BY <1>1, TopIs DEF HopFine
<1>3. CASE Jwt
  <2>1. CASE Top.who = "badToken"
    BY <1>1, <1>3, <2>1, AnswersInv DEF Jwt, Results
  <2>2. CASE Top.who # "badToken"
    BY <1>1, <1>2, <1>3, <2>2, IdentifiedInv DEF Jwt, HopRecord
  <2>3. QED BY <2>1, <2>2
<1>4. CASE ControllerIdentity
  BY <1>1, <1>4, IdentifiedInv DEF ControllerIdentity, Askings
<1>5. CASE AgentAuth
  <2>1. CASE Top.group = "data" \/ Top.who = "key"
    BY <1>1, <1>5, <2>1, IdentifiedInv DEF AgentAuth, Askings
  <2>2. CASE ~(Top.group = "data" \/ Top.who = "key")
    BY <1>1, <1>5, <2>2, AnswersInv DEF AgentAuth, Results
  <2>3. QED BY <2>1, <2>2
<1>6. QED BY <1>3, <1>4, <1>5

LEMMA HandlersInv ==
  ASSUME DispatchInv, Routes \/ SuperAdmin \/ Binds
  PROVE  DispatchInv'
<1>1. hops # <<>> /\ AtWork(Top)
  BY DEF Routes, SuperAdmin, Binds, HopAt, AtWork
<1>2. HopFine(Top)
  BY <1>1, TopIs
<1>3. ASSUME NEW pc \in {"routed", "admitted", "bound"}, GoesOn(pc)
      PROVE  DispatchInv'
  BY <1>1, <1>3, ChangedPc, GoesOnInv DEF GoesOn
<1>4. CASE Routes
  BY <1>2, <1>3, <1>4 DEF Routes, HopFine
<1>5. CASE SuperAdmin
  BY <1>1, <1>3, <1>5, AnswersInv DEF SuperAdmin, Results, Refusals
<1>6. CASE Binds
  BY <1>1, <1>3, <1>6, AnswersInv DEF Binds, Results, Refusals
<1>7. QED BY <1>4, <1>5, <1>6

LEMMA OutcomesAre == Outcomes \subseteq Refusals \cup {"panic", "ok"}
BY DEF Outcomes, accountAnswers, chainGroupAnswers, EditChain, ListAnswers, ProfileAnswers,
       PasswordAnswers, AddAnswers, Refusals

\* The console has no action that a node's key is needed for.
LEMMA ConsoleIsKeyed ==
  ASSUME NEW g, NEW a \in {"RegisterNode", "ReportNetworkTraffic"}
  PROVE  <<g, a>> \notin RegisterAdmin
BY InConsole DEF ownAccount, adminAccounts, RuleHandle, ruleSrv, ChainHandle, chainSrv, ChainGroupHandle, chainGroupSrv,
  NodeHandle, nodeSrv, StanderUserHandle, userSrv, PlanHandle, planSrv

LEMMA ServesInv == ASSUME DispatchInv, Serves PROVE DispatchInv'
<1>1. hops # <<>> /\ AtWork(Top)
  BY DEF Serves, HopAt, AtWork
<1>2. HopFine(Top)
  BY <1>1, TopIs
<1>3. CASE Keyless
  <2>1. Top.api # "console"
    BY <1>2, <1>3, ConsoleIsKeyed DEF HopFine, Keyless, Table
  <2>2. PICK o \in {"NotFound", "Unauthenticated"} : Answers(o)
    BY <1>3 DEF Serves
  <2>3. QED BY <1>1, <2>1, <2>2, AnswersInv DEF Results, Refusals
<1>4. CASE ~Keyless
  <2>1. PICK o \in Refusals \cup {"panic", "ok"} : Answers(o)
    BY <1>4, OutcomesAre DEF Serves, Refusals
  <2>2. o \in Results /\ o # "forbidden" /\ o # "Unauthenticated"
    BY DEF Results, Refusals
  <2>3. QED BY <1>1, <2>1, <2>2, AnswersInv
<1>5. QED BY <1>3, <1>4

LEMMA CallsInv == ASSUME DispatchInv, Calls PROVE DispatchInv'
<1> DEFINE n == Len(hops)
<1>1. hops # <<>> /\ AtWork(Top) /\ UNCHANGED <<answer, failures>>
  BY DEF Calls, HopAt, AtWork
<1>2. n \in Nat \ {0} /\ Top = hops[n] /\ HopFine(Top)
  BY <1>1, TopIs
<1>3. PICK r \in Onward(Top) :
        hops' = Append([hops EXCEPT ![n].pc = "waiting", ![n].calls = @ + 1], r)
  BY DEF Calls
<1>4. HopFine(r) /\ r \in HopRecord
  BY <1>2, OnwardFine DEF HopFine
<1>5. PICK h : h = [Top EXCEPT !.pc = "waiting", !.calls = @ + 1]
  OBVIOUS
<1>6. /\ h \in HopRecord /\ h.api = Top.api /\ h.group = Top.group /\ h.action = Top.action /\ h.who = Top.who
      /\ h.outcome = Top.outcome
  <2>1. Top \in HopRecord
    BY <1>2 DEF HopFine
  <2>2. PICK k : k = Top.calls + 1
    OBVIOUS
  <2>3. k \in Nat
    BY <2>1, <2>2 DEF HopRecord
  <2>4. h = [Top EXCEPT !.pc = "waiting", !.calls = k]
    BY <1>5, <2>2
  <2>5. QED BY <2>1, <2>3, <2>4 DEF HopRecord
<1>7. HopFine(h)
  BY <1>2, <1>6 DEF HopFine
<1>8. PICK s : s = [hops EXCEPT ![n] = h]
  OBVIOUS
<1>9. s \in Seq(HopRecord) /\ Len(s) = n /\ \A i \in 1..n : s[i] = IF i = n THEN h ELSE hops[i]
  BY <1>2, <1>6, <1>8, ExceptSeq DEF DispatchInv
<1>10. hops' = Append(s, r)
  BY <1>2, <1>3, <1>5, <1>8 DEF DispatchInv
<1>11. /\ hops' \in Seq(HopRecord) /\ Len(hops') = n + 1
       /\ \A i \in 1..n : hops'[i] = s[i] /\ hops'[n + 1] = r
  BY <1>4, <1>9, <1>10, AppendProperties
<1>12. \A i \in 1..Len(hops') : HopFine(hops'[i])
  BY <1>2, <1>4, <1>7, <1>9, <1>11 DEF DispatchInv
<1>13. QED BY <1>1, <1>11, <1>12, WorkingIsClean DEF DispatchInv, NothingMisread, NoUnknownAction

LEMMA CodeIs ==
  ASSUME NEW k
  PROVE  /\ Code(k) # 0 /\ Code(k) # 200
         /\ Code(k) = 401 => k = "Unauthenticated"
BY DEF Code

\* What the reader of an answer makes of it.
LEMMA ReadsIs ==
  ASSUME NEW h, HopFine(h)
  PROVE  /\ Reads(h) = "ok" => h.outcome = "ok"
         /\ h.outcome = "ok" => Reads(h) = "ok"
         /\ Reads(h) = "signedOut" => h.who = "badToken"
         /\ Reads(h) # "none"
<1>1. CASE h.outcome = "ok"
  <2>1. Wire(h) = [status |-> 200, code |-> 0]
    BY <1>1 DEF Wire
  <2>2. QED BY <1>1, <2>1 DEF Reads, request, DoRequest
<1>2. CASE h.outcome \in {"panic", "forbidden"}
  <2>1. PICK w : w = Wire(h)
    OBVIOUS
  <2>2. w.status = (IF h.outcome = "panic" THEN 500 ELSE 403)
    BY <1>2, <2>1 DEF Wire
  <2>3. DoRequest(w) = "error" /\ (h.api = "console" => request(w) = "error")
    BY <1>2, <2>2 DEF DoRequest, request, HopFine
  <2>4. QED BY <1>2, <2>1, <2>3 DEF Reads
<1>3. CASE h.outcome \notin {"ok", "panic", "forbidden"} /\ h.api = "console"
  <2>1. PICK c : c = IF h.outcome = "unknownAction" THEN 400 ELSE Code(h.outcome)
    OBVIOUS
  <2>2. Wire(h) = [status |-> 200, code |-> c]
    BY <1>3, <2>1 DEF Wire
  <2>3. c # 0 /\ (c = 401 => h.outcome = "Unauthenticated")
    BY <2>1, CodeIs
  <2>4. QED BY <1>3, <2>2, <2>3 DEF Reads, request, HopFine
<1>4. CASE h.outcome \notin {"ok", "panic", "forbidden"} /\ h.api # "console"
  <2>1. Wire(h) = [status |-> Code(h.outcome), code |-> Code(h.outcome)]
    BY <1>4 DEF Wire, httpStatusFor
  <2>2. QED BY <1>4, <2>1, CodeIs DEF Reads, DoRequest
<1>5. QED BY <1>1, <1>2, <1>3, <1>4

LEMMA DeliveredInv == ASSUME DispatchInv, Delivered PROVE DispatchInv'
<1>1. /\ hops # <<>> /\ Top.pc = "answered" /\ Len(hops) = 1
      /\ answer' = Reads(Top) /\ UNCHANGED failures
  BY DEF Delivered, HopAt, Outermost
<1>2. HopFine(Top)
  BY <1>1, TopIs
<1>3. PICK h : h = [Top EXCEPT !.pc = "over"]
  OBVIOUS
<1>4. HopFine(h) /\ h.pc = "over" /\ h.who = Top.who /\ h.outcome = Top.outcome /\ Becomes(h)
  BY <1>1, <1>3, ChangedPc DEF Delivered
<1>5. /\ hops' \in Seq(HopRecord) /\ Len(hops') = 1 /\ hops' # <<>>
      /\ \A i \in 1..Len(hops') : HopFine(hops'[i])
      /\ Top' = h /\ hops'[1] = h
  BY <1>1, <1>4, BecomesIs
<1>6. failures' # {} => Top.outcome # "ok"
  BY <1>1 DEF DispatchInv
<1>7. NothingMisread'
  BY <1>1, <1>2, <1>4, <1>5, <1>6, ReadsIs DEF NothingMisread
<1>8. QED BY <1>1, <1>4, <1>5, <1>6, <1>7 DEF DispatchInv, NoUnknownAction, AtWork

\* The hop below resumes: with an error if something has failed.
LEMMA ResumesInv ==
  ASSUME DispatchInv, hops # <<>>, ~Outermost, NEW result, ResumesWith(result), UNCHANGED answer,
         failures' # {} => result # "ok", \A f \in failures' : f[2] # "unknownAction"
  PROVE  DispatchInv'
<1> DEFINE n == Len(hops)
           m == Len(hops) - 1
           b == hops[m]
<1>1. n \in Nat /\ n >= 2
  BY TopIs DEF Outermost
<1>2. m \in 1..n /\ m - 1 \in Nat /\ m - 1 = n - 2 /\ n = m + 1
  BY <1>1
<1>3. HopFine(b) /\ b \in HopRecord
  BY <1>2 DEF DispatchInv, HopFine
<1>4. PICK h : h = IF result = "ok" THEN [b EXCEPT !.pc = "bound"]
                                   ELSE [b EXCEPT !.pc = "answered", !.outcome = "Internal"]
  OBVIOUS
<1>5. /\ h \in HopRecord /\ h.api = b.api /\ h.group = b.group /\ h.action = b.action /\ h.who = b.who
      /\ result = "ok" => h.outcome = b.outcome
      /\ result # "ok" => h.pc = "answered" /\ h.outcome = "Internal"
  BY <1>3, <1>4 DEF HopRecord, Results, Refusals
<1>6. HopFine(h)
  BY <1>3, <1>5 DEF HopFine
<1>7. hops' = Append(SubSeq(hops, 1, n - 2), h)
  BY <1>4 DEF ResumesWith
<1>8. PICK s : s = SubSeq(hops, 1, n - 2)
  OBVIOUS
<1>9. s \in Seq(HopRecord) /\ Len(s) = m - 1 /\ \A i \in 1..m - 1 : s[i] = hops[i]
  <2>1. PICK e : e = n - 2
    OBVIOUS
  <2>2. e \in Nat /\ m - 1 = e /\ (e - 1) + 1 = e /\ (1 =< e \/ e = 0)
    BY <1>1, <2>1
  <2>3. s = SubSeq(hops, 1, e) /\ \A i \in 1..e : hops[i] \in HopRecord
    BY <1>1, <1>8, <2>1 DEF DispatchInv, HopFine
  <2>4. /\ s \in Seq(HopRecord)
        /\ Len(s) = IF 1 =< e THEN e - 1 + 1 ELSE 0
        /\ \A i \in 1..e - 1 + 1 : s[i] = hops[1 + i - 1]
    BY <2>2, <2>3, SubSeqProperties
  <2>5. Len(s) = e /\ \A i \in 1..e : s[i] = hops[1 + i - 1]
    BY <2>2, <2>4
  <2>6. \A i \in 1..e : 1 + i - 1 = i
    OBVIOUS
  <2>7. \A i \in 1..e : s[i] = hops[i]
    BY <2>5, <2>6
  <2>8. QED BY <2>2, <2>4, <2>5, <2>7
<1>10. hops' = Append(s, h)
  BY <1>7, <1>8
<1> HIDE DEF n, m, b
<1>11. /\ hops' \in Seq(HopRecord) /\ hops' # <<>> /\ Len(hops') = m
       /\ \A i \in 1..m - 1 : hops'[i] = s[i]
       /\ hops'[m] = h
  <2>1. /\ Append(s, h) \in Seq(HopRecord) /\ Append(s, h) # <<>> /\ Len(Append(s, h)) = Len(s) + 1
        /\ \A i \in 1..Len(s) : Append(s, h)[i] = s[i]
        /\ Append(s, h)[Len(s) + 1] = h
    BY <1>5, <1>9, AppendProperties
  <2>2. Len(s) + 1 = m /\ Len(s) = m - 1
    BY <1>2, <1>9
  <2>3. QED BY <1>10, <2>1, <2>2
<1>12. \A i \in 1..m : HopFine(hops'[i])
  <2>1. SUFFICES ASSUME NEW i \in 1..m
                 PROVE  HopFine(hops'[i])
    OBVIOUS
  <2>2. CASE i = m
    BY <1>6, <1>11, <2>2
  <2>3. CASE i # m
    <3>1. i \in 1..m - 1 /\ i \in 1..n
      BY <1>1, <1>2, <2>3
    <3>2. QED BY <1>9, <1>11, <3>1 DEF DispatchInv, n
  <2>4. QED BY <2>2, <2>3
<1>13. Top' = h
  BY <1>11 DEF Top
<1>14. answer' = "none"
  BY <1>1 DEF DispatchInv, n
<1>15. QED BY <1>5, <1>11, <1>12, <1>13, <1>14 DEF DispatchInv, NothingMisread, NoUnknownAction, AtWork

LEMMA ReturnsInv ==
  ASSUME DispatchInv, Returned \/ ConnectionRefused \/ ConnectionLost
  PROVE  DispatchInv'
<1>1. hops # <<>> /\ ~Outermost /\ UNCHANGED answer
  BY DEF Returned, ConnectionRefused, ConnectionLost, HopAt
<1>2. HopFine(Top) /\ \A f \in failures : f[2] # "unknownAction"
  BY <1>1, TopIs DEF DispatchInv, NoUnknownAction
<1>3. CASE Returned
  <2>1. failures # {} => Reads(Top) # "ok"
    BY <1>2, ReadsIs DEF DispatchInv
  <2>2. QED BY <1>1, <1>2, <1>3, <2>1, ResumesInv DEF Returned
<1>4. CASE ConnectionRefused
  <2>1. AtWork(Top)
    BY <1>4 DEF ConnectionRefused, HopAt, AtWork
  <2>2. failures = {}
    BY <1>1, <2>1, WorkingIsClean
  <2>3. CASE Top.action = "DeleteRule"
    BY <1>1, <1>4, <2>2, <2>3, ResumesInv DEF ConnectionRefused
  <2>4. CASE Top.action # "DeleteRule"
    <3>1. ResumesWith("error") /\ failures' = {<<Top.action, "refused">>}
      BY <1>4, <2>2, <2>4 DEF ConnectionRefused, Failed
    <3>2. QED BY <1>1, <3>1, ResumesInv
  <2>5. QED BY <2>3, <2>4
<1>5. CASE ConnectionLost
  <2>1. ResumesWith("error") /\ failures' = failures \cup {<<Top.action, "lost">>}
    BY <1>5 DEF ConnectionLost, Failed
  <2>2. QED BY <1>1, <1>2, <2>1, ResumesInv
<1>6. QED BY <1>3, <1>4, <1>5

LEMMA AsksInv == ASSUME DispatchInv, Asks \/ Over PROVE DispatchInv'
<1>1. CASE Asks
  <2>1. PICK r \in Pages \cup Scripts \cup Agents \cup Gosts : hops' = <<r>>
    BY <1>1 DEF Asks
  <2>2. HopFine(r) /\ r \in HopRecord
    BY FirstHopFine DEF HopFine
  <2>3. hops' \in Seq(HopRecord) /\ Len(hops') = 1 /\ hops'[1] = r
    BY <2>1, <2>2
  <2>4. QED BY <1>1, <2>2, <2>3 DEF Asks, DispatchInv, NothingMisread, NoUnknownAction
<1>2. CASE Over
  BY <1>2, EmptySeq DEF Over, DispatchInv, NothingMisread, NoUnknownAction
<1>3. QED BY <1>1, <1>2

LEMMA DispatchInitInv == DispatchInit => DispatchInv
BY EmptySeq DEF DispatchInit, DispatchInv, NothingMisread, NoUnknownAction

LEMMA DispatchStepInv == DispatchInv /\ [DispatchNext]_dispatchVars => DispatchInv'
<1> SUFFICES ASSUME DispatchInv, [DispatchNext]_dispatchVars
             PROVE  DispatchInv'
  OBVIOUS
<1>1. CASE UNCHANGED dispatchVars
  BY <1>1 DEF dispatchVars, DispatchInv, NothingMisread, NoUnknownAction, Top
<1>2. CASE DispatchNext
  BY <1>2, AsksInv, AuthInv, HandlersInv, ServesInv, CallsInv, DeliveredInv, ReturnsInv DEF DispatchNext
<1>3. QED BY <1>1, <1>2

(***************************************************************************)
(* Whoever reads a success can rely on everything it went through, and the *)
(* console ends a session only for its own token (Fail of                  *)
(* adaptor/handler, client.DoRequest, web/src/api).                        *)
(***************************************************************************)
THEOREM AnswersAreRead == DispatchSpec => []NothingMisread
<1>1. DispatchInv => NothingMisread
  BY DEF DispatchInv
<1>2. QED BY <1>1, DispatchInitInv, DispatchStepInv, PTL DEF DispatchSpec

(***************************************************************************)
(* Every action that a page, a script, an agent or a service asks for is   *)
(* in the table of whom it asks (the handlers' switches on Action).        *)
(***************************************************************************)
THEOREM ActionsAreKnown == DispatchSpec => []NoUnknownAction
<1>1. DispatchInv => NoUnknownAction
  BY DEF DispatchInv
<1>2. QED BY <1>1, DispatchInitInv, DispatchStepInv, PTL DEF DispatchSpec
=============================================================================
