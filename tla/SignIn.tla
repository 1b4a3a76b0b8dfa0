-------------------------------- MODULE SignIn --------------------------------
(***************************************************************************)
(* Sessions of the console.  Signing in yields a token that carries the    *)
(* role its account had then and is good for Life; nothing the controller  *)
(* keeps can end it sooner.  A browser holds one token for all its tabs,   *)
(* in localStorage; each tab remembers the token it was opened with and,   *)
(* for that token, the side of the console the controller told it.         *)
(***************************************************************************)
EXTENDS Absent, Naturals, FiniteSets

CONSTANTS
  Tabs,       \* of one browser
  Uids,       \* accounts
  Life,       \* of a token: 30 days
  MaxAsks,    \* bounds the requests under way
  MaxClock    \* bounds time, in units of which Life is a number

ASSUME SignInAssumption == {Life, MaxAsks} \subseteq Nat \ {0} /\ MaxClock \in Nat /\ None \notin Uids

VARIABLES
  clock,
  account,    \* the role of each account, None if it is not there
  lastAdmin,  \* history: when an account was last an administrator's, or None
  stored,     \* localStorage: a token, or None
  tabs,       \* the token and the side each tab goes by
  asks,       \* requests under way
  crossed       \* history: tabs that another has changed the token under

signInVars == <<clock, account, lastAdmin, stored, tabs, asks, crossed>>

SignedOut == [token |-> None, side |-> None]

SignInInit ==
  /\ clock = 0
  /\ account = [i \in Uids |-> None] /\ lastAdmin = [i \in Uids |-> None]
  /\ stored = None /\ tabs = [t \in Tabs |-> SignedOut]
  /\ asks = {} /\ crossed = {}

-----------------------------------------------------------------------------
(* Tokens.                                                                 *)

NormalizeRole(r) == IF r = "SUPER_ADMIN" THEN "SUPER_ADMIN" ELSE "USER"

\* Mutant: a token keeps its role but says nothing of its age.
ParseToken_Ageless(k) == k # None

\* Signed by us and not expired.
ParseToken(k) == k # None /\ clock < k.born + Life

GenerateToken(i) == [uid |-> i, role |-> NormalizeRole(account[i]), born |-> clock]

-----------------------------------------------------------------------------
(* Accounts, as administrators elsewhere change them: Accounts has how.    *)

Becoming(new) ==
  /\ account' = new
  /\ lastAdmin' = [i \in Uids |-> IF "SUPER_ADMIN" \in {account[i], new[i]} THEN clock ELSE lastAdmin[i]]
  /\ UNCHANGED <<clock, stored, tabs, asks, crossed>>

GivesRole == \E i \in Uids, r \in {"SUPER_ADMIN", "USER"} : Becoming([account EXCEPT ![i] = r])

Removes == \E i \in Uids : Becoming([account EXCEPT ![i] = None])

TimePasses ==
  /\ clock < MaxClock /\ clock' = clock + 1
  /\ lastAdmin' = [i \in Uids |-> IF account[i] = "SUPER_ADMIN" THEN clock + 1 ELSE lastAdmin[i]]
  /\ UNCHANGED <<account, stored, tabs, asks, crossed>>

-----------------------------------------------------------------------------
(* The browser.                                                            *)

\* Tab t waits for an answer to a token that is not its own.
Astray(t) == \E q \in asks : q.tab = t /\ q.token # q.own

\* Tab t puts k into localStorage, or takes what is there away, and goes by it.
Keeps(t, k) ==
  /\ stored' = k
  /\ tabs' = [tabs EXCEPT ![t] = [token |-> k, side |-> None]]
  /\ crossed' = {o \in Tabs : IF o = t THEN Astray(t) ELSE o \in crossed \/ tabs[o].token # None}

\* Whether the account is enabled is not asked.
Login(t) ==
  /\ tabs[t].token = None
  /\ \E i \in Uids : account[i] # None /\ Keeps(t, GenerateToken(i))
  /\ UNCHANGED <<clock, account, lastAdmin, asks>>

\* A wrong password is answered with the code that means the session is gone.
LoginRefused(t) ==
  /\ tabs[t].token = None
  /\ Keeps(t, None)
  /\ UNCHANGED <<clock, account, lastAdmin, asks>>

\* The server keeps nothing that could be ended; answers still to come are dropped.
Logout(t) ==
  /\ tabs[t].token # None
  /\ Keeps(t, None)
  /\ asks' = {IF q.tab = t THEN [q EXCEPT !.what = "work"] ELSE q : q \in asks}
  /\ UNCHANGED <<clock, account, lastAdmin>>

\* A tab is opened, or loaded again, with the token it finds.
Loads(t) ==
  /\ tabs' = [tabs EXCEPT ![t] = [token |-> stored, side |-> None]]
  /\ crossed' = crossed \ {t}
  /\ asks' = {q \in asks : q.tab # t}
  /\ UNCHANGED <<clock, account, lastAdmin, stored>>

\* With the token that is stored, which may not be the tab's own.
Sends(t, what) ==
  /\ tabs[t].token # None /\ Cardinality(asks) < MaxAsks
  /\ asks' = asks \cup {[tab |-> t, what |-> what, token |-> stored, own |-> tabs[t].token]}
  /\ UNCHANGED <<clock, account, lastAdmin, stored, tabs, crossed>>

AsksWho(t)  == tabs[t].side = None /\ Sends(t, "detail")
AsksWork(t) == Sends(t, "work")

\* Mutant: the role the account has now.
Detail_Stored(k) == NormalizeRole(account[k.uid])

\* The token's role, not the account's: what SuperAdmin and the services go by.
Detail(k) == NormalizeRole(k.role)

\* Jwt: a token that is missing or has expired ends the session.
Unauthorized(q) ==
  /\ ~ParseToken(q.token)
  /\ Keeps(q.tab, None)
  /\ asks' = asks \ {q}
  /\ UNCHANGED <<clock, account, lastAdmin>>

\* An answer is kept for the token the tab asked on behalf of.
Answered(q) ==
  /\ ParseToken(q.token)
  /\ tabs' = IF q.what = "detail" /\ tabs[q.tab].token = q.own
             THEN [tabs EXCEPT ![q.tab].side = Detail(q.token)] ELSE tabs
  /\ asks' = asks \ {q}
  /\ UNCHANGED <<clock, account, lastAdmin, stored, crossed>>

SignInNext ==
  \/ GivesRole \/ Removes \/ TimePasses
  \/ \E t \in Tabs : Login(t) \/ LoginRefused(t) \/ Logout(t) \/ Loads(t) \/ AsksWho(t) \/ AsksWork(t)
  \/ \E q \in asks : Unauthorized(q) \/ Answered(q)

SignInSpec == SignInInit /\ [][SignInNext]_signInVars

-----------------------------------------------------------------------------
(***************************************************************************)
(* What the comment on Detail asks for: a tab is on the administrators'    *)
(* side just when the controller takes its token for an administrator's,   *)
(* however the account's role has changed meanwhile; and as long as the    *)
(* token is taken at all, its account was an administrator's less than     *)
(* Life ago.  Unless another tab has replaced the token under it.          *)
(***************************************************************************)
AdminSide ==
  \A t \in Tabs \ crossed :
    LET k == tabs[t].token IN
    tabs[t].side # None =>
      /\ tabs[t].side = k.role
      /\ k.role = "SUPER_ADMIN" /\ ParseToken(k) => clock < lastAdmin[k.uid] + Life
=============================================================================
