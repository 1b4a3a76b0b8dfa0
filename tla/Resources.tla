------------------------------ MODULE Resources ------------------------------
(***************************************************************************)
(* Nodes and chains as the console hands them out: an administrator        *)
(* creates and deletes them and grants them to users, users build rules on *)
(* what they hold, and rules keep the id of their chain whatever becomes   *)
(* of it.  The tables are tied together by ids only; none has a foreign    *)
(* key.  What an agent does between the steps of one rule is RuleSync's,   *)
(* of one chain Chains'.                                                   *)
(***************************************************************************)
EXTENDS Absent, Naturals, FiniteSets

CONSTANTS
  Nodes, ChainRows,   \* ids: each is created at most once, a chain's in order
  RoleHeld,           \* nodes and chains that old rows grant to the role USER
  RuleIds,
  Root, Clients,      \* the super admin and the other accounts
  Direct              \* what a rule without a chain forwards through

ASSUME ResourcesAssumption ==
  /\ Root \notin Clients /\ Nodes \cap ChainRows = {}
  /\ RoleHeld \subseteq Nodes \cup ChainRows
  /\ Direct \notin Nodes \cup ChainRows /\ None \notin ChainRows /\ None # Direct
  /\ ChainRows \subseteq Nat

VARIABLES
  exists,    \* ids in the nodes and chains tables
  spent,     \* ids created so far
  rate,      \* the traffic multiplier of each node's row, 1 where there is none
  grants,    \* user_role_*_mappings: pairs of an account and an id
  rules,     \* rules table
  via,       \* the chain the agent of each rule forwards through
  calls,     \* running requests
  raced,     \* history: ids whose deletion met a grant half way, or failed half way
  astray     \* history: rules of crossed requests, of requests the agent accepted and
             \* that were not written, and those that ModifyRules rewrote

resourceVars == <<exists, spent, rate, grants, rules, via, calls, raced, astray>>

Callers == Clients \cup {Root}

Grantable == Nodes \cup ChainRows

\* What a caller without a running request is at.
Rest == [pc |-> "rest"]

ResourcesInit ==
  /\ exists = {} /\ spent = {} /\ grants = {}
  /\ rate = [n \in Nodes |-> 1]
  /\ rules = [r \in RuleIds |-> None] /\ via = [r \in RuleIds |-> None]
  /\ calls = [u \in Callers |-> Rest]
  /\ raced = {} /\ astray = {}

-----------------------------------------------------------------------------
Quiet(u) == calls[u] = Rest

Within(u, pc) == calls[u].pc = pc

Begins(u, call) == Quiet(u) /\ calls' = [calls EXCEPT ![u] = call]

Ends(u) == calls' = [calls EXCEPT ![u] = Rest]

IsSuperAdmin(u) == u = Root

HeldBy(u) == {i \in Grantable : <<u, i>> \in grants}

checkUserPermission(u, i) == IsSuperAdmin(u) \/ i \in HeldBy(u)

checkRuleOwnership(u, r) == rules[r] # None /\ (IsSuperAdmin(u) \/ rules[r].owner = u)

\* What the lists show, and the forms offer: rows of a role count here and not above.
ListNode(u)  == {n \in Nodes \cap exists : IsSuperAdmin(u) \/ n \in HeldBy(u) \cup RoleHeld}
ListChain(u) == {c \in ChainRows \cap exists : IsSuperAdmin(u) \/ c \in HeldBy(u) \cup RoleHeld}
ListRule(u)  == {r \in RuleIds : checkRuleOwnership(u, r)}

\* What requests are about to grant: ids they have checked, or created.
Promised == UNION {calls[u].granted : u \in {v \in Callers : Within(v, "grant")}}

-----------------------------------------------------------------------------
(* Nodes and chains.                                                       *)

Rates == {0, 1}

validateAddNode(k) == k > 0

\* Creating a node grants nobody anything.
AddNode ==
  /\ Quiet(Root)
  /\ \E n \in Nodes \ spent, k \in Rates :
       /\ validateAddNode(k)
       /\ exists' = exists \cup {n} /\ spent' = spent \cup {n}
       /\ rate' = [rate EXCEPT ![n] = k]
  /\ UNCHANGED <<grants, rules, via, calls, raced, astray>>

\* AddChain: the row, and then the mapping that makes its creator hold it.
InsertsChain(u) ==
  /\ \E n \in ListNode(u) : checkUserPermission(u, n)
  /\ \E c \in ChainRows \ spent :
       /\ \A d \in ChainRows \ spent : c <= d
       /\ Begins(u, [pc |-> "grant", user |-> u, granted |-> {c}, replaces |-> {}])
       /\ exists' = exists \cup {c} /\ spent' = spent \cup {c}
  /\ UNCHANGED <<rate, grants, rules, via, raced, astray>>

\* A request without a rate sets it to zero, which AddNode would refuse.
EditNode(u) ==
  /\ Quiet(u)
  /\ \E n \in ListNode(u), k \in Rates :
       checkUserPermission(u, n) /\ rate' = [rate EXCEPT ![n] = k]
  /\ UNCHANGED <<exists, spent, grants, rules, via, calls, raced, astray>>

\* DelNode and DelChain: the row goes first, what points at it afterwards or not at all.
Deletes(u) ==
  /\ \E i \in exists :
       /\ checkUserPermission(u, i)
       /\ Begins(u, [pc |-> "unmap", id |-> i])
       /\ exists' = exists \ {i}
       /\ rate' = [n \in Nodes |-> IF n = i THEN 1 ELSE rate[n]]
       /\ raced' = IF i \in Promised THEN raced \cup {i} ELSE raced
  /\ UNCHANGED <<spent, grants, rules, via, astray>>

\* Mutant: the mappings of what is deleted stay.
Unmaps_Nothing(u) ==
  /\ Within(u, "unmap") /\ Ends(u)
  /\ UNCHANGED <<exists, spent, rate, grants, rules, via, raced, astray>>

\* Of a node everybody's mapping; of a chain everybody's if an administrator deletes it.
Unmaps(u) ==
  LET i == calls[u].id IN
  /\ Within(u, "unmap") /\ Ends(u)
  /\ grants' = {g \in grants : ~(g[2] = i /\ (i \in Nodes \/ IsSuperAdmin(u) \/ g[1] = u))}
  /\ raced' = IF \E g \in grants' : g[2] = i THEN raced \cup {i} ELSE raced
  /\ UNCHANGED <<exists, spent, rate, rules, via, astray>>

UnmapFails(u) ==
  /\ Within(u, "unmap") /\ Ends(u)
  /\ raced' = raced \cup {calls[u].id}
  /\ UNCHANGED <<exists, spent, rate, grants, rules, via, astray>>

-----------------------------------------------------------------------------
(* SetUserResources.                                                       *)

\* Mutant: ids are taken as they come.
allExist_Any(G) == G \subseteq spent

allExist(G) == G \subseteq exists

GrantChecks(u) ==
  /\ IsSuperAdmin(u)
  /\ \E v \in Clients : \E G \in SUBSET spent :
       allExist(G) /\ Begins(u, [pc |-> "grant", user |-> v, granted |-> G, replaces |-> Grantable])
  /\ UNCHANGED <<exists, spent, rate, grants, rules, via, raced, astray>>

\* SetUserResources replaces the account's own rows in one transaction;
\* AddChain adds one for the row it finds, were it deleted the moment after.
GrantStores(u) ==
  LET q == calls[u] IN
  /\ Within(u, "grant") /\ Ends(u)
  /\ grants' = {g \in grants : g[1] # q.user \/ g[2] \notin q.replaces} \cup {<<q.user, i>> : i \in q.granted}
  /\ UNCHANGED <<exists, spent, rate, rules, via, raced, astray>>

\* A statement fails, or AddChain does not find its row any more.
GrantFails(u) ==
  /\ Within(u, "grant") /\ Ends(u)
  /\ UNCHANGED <<exists, spent, rate, grants, rules, via, raced, astray>>

SetUserResources(u) == GrantChecks(u) \/ GrantStores(u) \/ GrantFails(u)

-----------------------------------------------------------------------------
(* Rules.                                                                  *)

\* The address of a chain that is gone is empty: the forward is a direct one.
Address(c) == IF c \in exists THEN c ELSE Direct

Touched(r) == \E u \in Callers : (Within(u, "tell") \/ Within(u, "write")) /\ calls[u].rule = r

Tangles(r) == astray' = IF Touched(r) THEN astray \cup {r} ELSE astray

\* No chain, or one the caller holds; an administrator may name one that is gone.
BeginAddRule(u) ==
  /\ \E n \in ListNode(u), c \in ListChain(u) \cup (IF IsSuperAdmin(u) THEN ChainRows \cap spent ELSE {}) \cup {Direct},
        r \in {s \in RuleIds : rules[s] = None /\ ~Touched(s)} :
       /\ checkUserPermission(u, n)
       /\ c = Direct \/ checkUserPermission(u, c)
       /\ Begins(u, [pc |-> "tell", new |-> TRUE, rule |-> r, chain |-> c, route |-> Address(c)])
  /\ UNCHANGED <<exists, spent, rate, grants, rules, via, raced, astray>>

\* ModifyRule: to another chain, which must be there, or with the one it has,
\* and then the row's chain is not written.
BeginModifyRule(u) ==
  /\ \E r \in ListRule(u), c \in ChainRows \cup {Direct} :
       /\ c = rules[r].chain \/ (c \in ListChain(u) /\ checkUserPermission(u, c))
       /\ Begins(u, [pc |-> "tell", new |-> FALSE, rule |-> r,
                     chain |-> IF c = rules[r].chain THEN None ELSE c, route |-> Address(c)])
       /\ Tangles(r)
  /\ UNCHANGED <<exists, spent, rate, grants, rules, via, raced>>

\* The agent forwards along the route now.
RuleTells(u) ==
  /\ Within(u, "tell")
  /\ calls' = [calls EXCEPT ![u] = [pc |-> "write", new |-> @.new, rule |-> @.rule, chain |-> @.chain]]
  /\ via' = [via EXCEPT ![calls[u].rule] = calls[u].route]
  /\ UNCHANGED <<exists, spent, rate, grants, rules, raced, astray>>

\* The agent cannot be reached, or refuses: what ModifyRule has closed by then
\* stays closed.
RuleRefused(u) ==
  LET q == calls[u] IN
  /\ Within(u, "tell") /\ Ends(u)
  /\ via' = via \/ (~q.new /\ via' = [via EXCEPT ![q.rule] = None])
  /\ UNCHANGED <<exists, spent, rate, grants, rules, raced, astray>>

\* A rule that is gone stays so.
RuleWrites(u) ==
  LET q == calls[u]
      r == q.rule
  IN
  /\ Within(u, "write") /\ Ends(u)
  /\ rules' = CASE q.new -> [rules EXCEPT ![r] = [chain |-> q.chain, owner |-> u]]
                [] ~q.new /\ rules[r] # None /\ q.chain # None -> [rules EXCEPT ![r].chain = q.chain]
                [] OTHER -> rules
  /\ UNCHANGED <<exists, spent, rate, grants, via, raced, astray>>

\* The agent's reply is lost or the statement fails.
RuleUnwritten(u) ==
  /\ Within(u, "write") /\ Ends(u)
  /\ astray' = astray \cup {calls[u].rule}
  /\ UNCHANGED <<exists, spent, rate, grants, rules, via, raced>>

\* The row is deleted though the agent cannot be reached, but not if its
\* answer is lost.
DelRule(u) ==
  /\ Quiet(u)
  /\ \E r \in ListRule(u) :
       /\ \/ rules' = [rules EXCEPT ![r] = None] /\ via' \in {via, [via EXCEPT ![r] = None]}
          \/ via' = [via EXCEPT ![r] = None] /\ UNCHANGED rules
       /\ Tangles(r)
  /\ UNCHANGED <<exists, spent, rate, grants, calls, raced>>

\* It sends no chain address, whatever the row says.
ModifyRules(u) ==
  /\ Quiet(u)
  /\ \E R \in SUBSET ListRule(u) \ {{}} :
       /\ via' = [r \in RuleIds |-> IF r \in R THEN Direct ELSE via[r]]
       /\ astray' = astray \cup R
  /\ UNCHANGED <<exists, spent, rate, grants, rules, calls, raced>>

\* Mutant: the rows are read without their chains.
Reregisters_Direct ==
  /\ via' = [r \in RuleIds |-> IF rules[r] = None THEN None ELSE Direct]
  /\ astray' = {r \in RuleIds : Touched(r)}
  /\ UNCHANGED <<exists, spent, rate, grants, rules, calls, raced>>

\* The rules' agents start again with the table's routes.
Reregisters ==
  /\ via' = [r \in RuleIds |-> IF rules[r] = None THEN None ELSE Address(rules[r].chain)]
  /\ astray' = {r \in RuleIds : Touched(r)}
  /\ UNCHANGED <<exists, spent, rate, grants, rules, calls, raced>>

ResourcesNext ==
  \/ AddNode \/ Reregisters
  \/ \E u \in Callers :
       \/ InsertsChain(u) \/ EditNode(u)
       \/ Deletes(u) \/ Unmaps(u) \/ UnmapFails(u)
       \/ SetUserResources(u)
       \/ BeginAddRule(u) \/ BeginModifyRule(u)
       \/ RuleTells(u) \/ RuleRefused(u) \/ RuleWrites(u) \/ RuleUnwritten(u)
       \/ DelRule(u) \/ ModifyRules(u)

ResourcesSpec == ResourcesInit /\ [][ResourcesNext]_resourceVars

-----------------------------------------------------------------------------
(***************************************************************************)
(* What the comment in SetUserResources asks for: no grant of a node or    *)
(* chain that does not exist.  It holds but for one deleted between the    *)
(* check and the transaction, one deleted before AddChain has mapped it to *)
(* its creator, and one whose deletion did not get to its mappings (a      *)
(* user's DelChain takes its own only).                                    *)
(***************************************************************************)
GrantsExist ==
  \A g \in grants :
    \/ g[2] \in exists \cup raced
    \/ \E u \in Callers : Within(u, "unmap") /\ calls[u].id = g[2]

\* TestRule follows the row: through its chain if that is there, else straight.
TestRule(r) == Address(rules[r].chain)

(***************************************************************************)
(* The route TestRule measures is the one the rule's traffic takes, if its *)
(* agent forwards it at all, as long as the rule's chain has not been      *)
(* deleted since its agent was told; whoever creates, grants and deletes   *)
(* chains meanwhile.  Not while a request is between the agent and the     *)
(* row; nor where one stopped there (the reply was lost, or the write      *)
(* failed), where requests crossed on one rule, or after ModifyRules.      *)
(***************************************************************************)
BeingWritten(r) == \E u \in Callers : Within(u, "write") /\ calls[u].rule = r

RuleRouted ==
  \A r \in RuleIds \ astray :
    rules[r] # None /\ rules[r].chain \in exists \cup {Direct} /\ via[r] # None /\ ~BeingWritten(r)
      => via[r] = TestRule(r)
=============================================================================
