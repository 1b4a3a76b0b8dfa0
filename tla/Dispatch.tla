------------------------------- MODULE Dispatch -------------------------------
(***************************************************************************)
(* A request on its way: the console's API, the controller's and the       *)
(* agent's, each a table of actions behind an authentication of its own,   *)
(* and the calls they make to one another with client.DoRequest.  What a   *)
(* service does is abstracted to the Kind it answers with; what becomes of *)
(* that answer on the wire and in the hands of who reads it is the model.  *)
(***************************************************************************)
EXTENDS Naturals, Sequences

VARIABLES
  hops,     \* the request and the calls it is waiting for, the innermost last
  answer,   \* what the caller of the first hop has read, or "none"
  failures  \* history: what went wrong at any hop, as <<action, outcome>>

dispatchVars == <<hops, answer, failures>>

-----------------------------------------------------------------------------
(* The tables.                                                             *)

chainSrv == {"ListChains", "AddChain", "DeleteChain", "GetChainPermissions", "EditChain"}
chainGroupSrv == {"ListChainGroups", "AddChainGroup", "DeleteChainGroup", "EditChainGroup"}
ruleSrv == {"AddRule", "DeleteRule", "ListRules", "ModifyRule", "ModifyRules", "TestRule"}
userSrv == {"GetUserPlanInfo", "ListUsers", "EditUser", "GetUserResources", "SetUserResources"}
planSrv == {"ListPlans", "AssociatePlan"}
dataSrv == {"ReportNetworkTraffic", "ObserverNetworkTraffic"}
nodeSrv == {"AddNode", "RegisterNode", "ListNodes", "GetNodePermissions",
            "ListNodeChainRelationShips", "DeleteNode", "EditNode"}

Of(group, actions) == {<<group, a>> : a \in actions}

RegisterController ==
  UNION {Of("rule", ruleSrv), Of("chain", chainSrv), Of("chain-group", chainGroupSrv),
         Of("node", nodeSrv), Of("data", dataSrv), Of("user", userSrv), Of("plan", planSrv)}

\* Mutant: the agent serves no chains.
RegisterAgent_NoChains == Of("data", dataSrv) \cup Of("rule", ruleSrv) \cup Of("node", nodeSrv)

RegisterAgent ==
  UNION {Of("data", dataSrv), Of("rule", ruleSrv), Of("chain", chainSrv), Of("node", nodeSrv)}

\* The console's own handlers: no bulk change, and three actions more.
NodeHandle        == (nodeSrv \ {"RegisterNode"}) \cup {"GetAgentInstallInfo"}
ChainHandle       == chainSrv
ChainGroupHandle  == chainGroupSrv \cup {"EditChain"}
RuleHandle        == ruleSrv \ {"ModifyRules"}
StanderUserHandle == userSrv
PlanHandle        == planSrv \cup {"CreatePlan"}

\* The console's accounts: routes of their own, and the handler of each for an action.
ownAccount    == {"Logout", "Password", "Detail", "Profile"}
adminAccounts == {"List", "Add", "Delete", "Update"}

RegisterAdmin ==
  UNION {Of("account", ownAccount \cup adminAccounts),
         Of("rule", RuleHandle), Of("chain", ChainHandle), Of("chain-group", ChainGroupHandle),
         Of("node", NodeHandle), Of("user", StanderUserHandle), Of("plan", PlanHandle)}

Table(api) == CASE api = "console" -> RegisterAdmin
                [] api = "controller" -> RegisterController
                [] api = "agent" -> RegisterAgent

\* What the pages of the console ask for: web/src/api.
WebCalls ==
  UNION {Of("account", ownAccount \cup adminAccounts),
         Of("rule", {"ListRules", "AddRule", "ModifyRule", "DeleteRule", "TestRule"}),
         Of("chain", chainSrv),
         Of("chain-group", {"ListChainGroups", "AddChainGroup", "DeleteChainGroup"}),
         Of("node", {"ListNodes", "AddNode", "EditNode", "DeleteNode", "GetNodePermissions",
                     "ListNodeChainRelationShips", "GetAgentInstallInfo"}),
         Of("user", userSrv), Of("plan", {"ListPlans", "AssociatePlan", "CreatePlan"})}

-----------------------------------------------------------------------------
(* Who asks what of whom.  "key": the key of a node there is.  Of the      *)
(* console "user" and "admin" have a token, of the controller headers.     *)

Hop(api, group, action, who) ==
  [api |-> api, group |-> group, action |-> action, who |-> who,
   principal |-> "nobody", pc |-> "sent", outcome |-> "none", calls |-> 0]

Pages   == {Hop("console", c[1], c[2], w) : c \in WebCalls, w \in {"user", "admin", "badToken"}}
Scripts == {Hop("controller", c[1], c[2], w) : c \in RegisterController, w \in {"user", "admin"}}
Agents  == {Hop("controller", c[1], c[2], w) :
              c \in {<<"node", "RegisterNode">>, <<"data", "ReportNetworkTraffic">>}, w \in {"key", "oldKey"}}
Gosts   == {Hop("agent", "data", "ObserverNetworkTraffic", "gost")}

\* The calls a service of one side makes to the other: DoRequest.
Onward(h) ==
  CASE h.api = "agent" /\ h.action = "ObserverNetworkTraffic" ->
         {Hop("controller", "data", "ReportNetworkTraffic", w) : w \in {"key", "oldKey"}}
    [] h.api # "agent" /\ h.action \in {"AddRule", "DeleteRule", "ModifyRule", "TestRule", "AddChain", "DeleteChain"} ->
         {Hop("agent", h.group, h.action, w) : w \in {"key", "oldKey"}}
    [] h.api # "agent" /\ h.action = "ModifyRules" ->
         {Hop("agent", "rule", "ModifyRule", w) : w \in {"key", "oldKey"}}
    [] OTHER -> {}

-----------------------------------------------------------------------------
Top == hops[Len(hops)]

HopAt(pc) == hops # <<>> /\ Top.pc = pc

Becomes(h) == hops' = [hops EXCEPT ![Len(hops)] = h]

Failed(h, outcome) == failures' = failures \cup {<<h.action, outcome>>}

\* A middleware or the handler has its answer.
Answers(outcome) ==
  /\ Becomes([Top EXCEPT !.pc = "answered", !.outcome = outcome])
  /\ IF outcome = "ok" THEN UNCHANGED failures ELSE Failed(Top, outcome)
  /\ UNCHANGED answer

GoesOn(pc) == Becomes([Top EXCEPT !.pc = pc]) /\ UNCHANGED <<answer, failures>>

DispatchInit == hops = <<>> /\ answer = "none" /\ failures = {}

Asks ==
  /\ hops = <<>>
  /\ \E r \in Pages \cup Scripts \cup Agents \cup Gosts : hops' = <<r>>
  /\ answer' = "none" /\ failures' = {}

Identified(principal) ==
  /\ Becomes([Top EXCEPT !.pc = "identified", !.principal = principal])
  /\ UNCHANGED <<answer, failures>>

\* Console: a token that is absent, expired or not ours.
Jwt ==
  /\ HopAt("sent") /\ Top.api = "console"
  /\ IF Top.who = "badToken" THEN Answers("Unauthenticated") ELSE Identified(Top.who)

\* Controller: the headers, whoever calls; a node key is not looked at.
ControllerIdentity ==
  /\ HopAt("sent") /\ Top.api = "controller"
  /\ Identified(IF Top.who \in {"user", "admin"} THEN Top.who ELSE "nobody")

\* Agent: its own key, except for the traffic that gost reports.
AgentAuth ==
  /\ HopAt("sent") /\ Top.api = "agent"
  /\ IF Top.group = "data" THEN Identified("nobody")
     ELSE IF Top.who = "key" THEN Identified("key") ELSE Answers("forbidden")

\* The switch on Action.  The controller's error has no Kind, the console's has.
Routes ==
  /\ HopAt("identified")
  /\ IF <<Top.group, Top.action>> \in Table(Top.api) THEN GoesOn("routed") ELSE Answers("unknownAction")

Gated == Top.group = "account" /\ Top.action \in adminAccounts

\* The one table of routes with a gate in it; elsewhere each service asks for itself.
SuperAdmin ==
  /\ HopAt("routed") /\ Gated
  /\ IF Top.principal = "admin" THEN GoesOn("admitted") ELSE Answers("PermissionDenied")

\* call: an error of the binder has no Kind.  Some handlers of accounts bind nothing.
Binds ==
  /\ \/ HopAt("routed") /\ ~Gated
     \/ HopAt("admitted")
  /\ \/ GoesOn("bound")
     \/ Top.action \notin {"Detail", "List", "Logout", "Delete"} /\ Answers("Internal")

-----------------------------------------------------------------------------
(* The service.                                                            *)

\* Kinds the services make themselves, or leave to apperr.From.
Refusals == {"InvalidArgument", "PermissionDenied", "NotFound", "Conflict", "FailedPrecondition", "Internal"}

\* Those that need a node's key have none: no such node, or not allowed.
Keyless == Top.api # "agent" /\ Top.principal # "key" /\ Top.action \in {"RegisterNode", "ReportNetworkTraffic"}

\* What a service asks first where only an administrator may act.
requireSuperAdmin ==
  Top.action \in {"AddNode", "AddChainGroup", "DeleteChainGroup", "CreatePlan", "AssociatePlan", "ListPlans",
                  "ListUsers", "EditUser", "GetUserResources", "SetUserResources"}
    => Top.principal = "admin"

(***************************************************************************)
(* Of chain groups nothing is ever stored: the batch AddChainGroup writes  *)
(* begins with an empty row for each chain, and fails unless there is none.*)
(* So the list is empty, and it is empty at once for users; editing a      *)
(* group does nothing.                                                     *)
(***************************************************************************)
chainGroupAnswers ==
  IF Top.action = "EditChainGroup" \/ (Top.action = "ListChainGroups" /\ Top.principal # "admin")
  THEN {"ok"} ELSE {"ok", "Internal"}

\* A new name, of a chain the caller holds.
EditChain == {"ok", "PermissionDenied", "Internal"}

(***************************************************************************)
(* Handlers of accounts.  Listing, signing out and the caller's own page   *)
(* succeed whatever the database says.                                     *)
(***************************************************************************)
ListAnswers     == {"ok"}
ProfileAnswers  == {"ok", "Internal"} \cup (IF Top.principal = "admin" THEN {} ELSE {"PermissionDenied"})
PasswordAnswers == {"ok", "InvalidArgument", "Internal"}
AddAnswers      == {"ok", "Conflict", "Internal"}

accountAnswers ==
  CASE Top.action \in {"List", "Logout", "Detail"} -> ListAnswers
    [] Top.action = "Profile"                      -> ProfileAnswers
    [] Top.action = "Password"                     -> PasswordAnswers
    [] Top.action = "Add"                          -> AddAnswers
    [] OTHER                                       -> {"ok", "Internal"}

\* Any Kind; a nil pointer, from which hertz recovers; or nothing more to be asked.
Outcomes ==
  CASE Top.group = "account"        -> accountAnswers
    [] Top.action \in chainGroupSrv -> chainGroupAnswers
    [] Top.action = "EditChain"     -> EditChain
    [] OTHER                        -> Refusals \cup {"panic", "ok"}

Serves ==
  /\ HopAt("bound")
  /\ CASE Keyless -> Answers(IF Top.action = "RegisterNode" THEN "NotFound" ELSE "Unauthenticated")
       [] ~Keyless /\ ~requireSuperAdmin -> Answers("PermissionDenied")
       [] OTHER -> \E o \in Outcomes : Answers(o)

\* TestRule asks at both ends of a chain, ModifyRules for every rule.
Calls ==
  /\ HopAt("bound") /\ ~Keyless
  /\ Top.calls < (IF Top.action \in {"TestRule", "ModifyRules", "ObserverNetworkTraffic"} THEN 2 ELSE 1)
  /\ \E r \in Onward(Top) :
       hops' = Append([hops EXCEPT ![Len(hops)].pc = "waiting", ![Len(hops)].calls = @ + 1], r)
  /\ UNCHANGED <<answer, failures>>

-----------------------------------------------------------------------------
(* The answer on the wire, and who reads it.                               *)

Code(k) == CASE k = "InvalidArgument" -> 400 [] k = "Unauthenticated" -> 401
             [] k = "PermissionDenied" -> 403 [] k = "NotFound" -> 404
             [] k = "Conflict" -> 409 [] k = "FailedPrecondition" -> 422
             [] k = "Unavailable" -> 503 [] OTHER -> 500

\* Mutant: a conflict is taken for a repetition of what succeeded.
httpStatusFor_Repeated(k) == IF k = "Conflict" THEN 200 ELSE Code(k)

httpStatusFor(k) == Code(k)

\* The status line and the code in the envelope, 0 where there is none.
Wire(h) ==
  CASE h.outcome = "panic"     -> [status |-> 500, code |-> 0]
    [] h.outcome = "forbidden" -> [status |-> 403, code |-> 0]
    [] h.outcome = "ok"        -> [status |-> 200, code |-> 0]
    [] OTHER ->
         IF h.api = "console"  \* Fail: the console's status line says nothing.
         THEN [status |-> 200, code |-> IF h.outcome = "unknownAction" THEN 400 ELSE Code(h.outcome)]
         ELSE [status |-> httpStatusFor(h.outcome), code |-> Code(h.outcome)]

\* DoRequest looks at the status line alone.
DoRequest(w) == IF w.status = 200 THEN "ok" ELSE "error"

\* The console's client: a 401, wherever it stands, ends the session.
request(w) ==
  CASE w.status \in {401, 403}             -> "signedOut"
    [] w.status = 200 /\ w.code = 0        -> "ok"
    [] w.status = 200 /\ w.code = 401      -> "signedOut"
    [] OTHER                               -> "error"

Reads(h) == IF h.api = "console" THEN request(Wire(h)) ELSE DoRequest(Wire(h))

Outermost == Len(hops) = 1

\* The one that asked first reads the answer, and the request is over.
Delivered ==
  /\ HopAt("answered") /\ Outermost
  /\ answer' = Reads(Top)
  /\ Becomes([Top EXCEPT !.pc = "over"])
  /\ UNCHANGED failures

\* The service under it goes on, or fails with an error that has no Kind.
ResumesWith(result) ==
  LET below == hops[Len(hops) - 1] IN
  /\ hops' = Append(SubSeq(hops, 1, Len(hops) - 2),
                    IF result = "ok" THEN [below EXCEPT !.pc = "bound"]
                                     ELSE [below EXCEPT !.pc = "answered", !.outcome = "Internal"])

Returned ==
  /\ HopAt("answered") /\ ~Outermost
  /\ ResumesWith(Reads(Top))
  /\ UNCHANGED <<answer, failures>>

\* Nobody listens at the other end.  DelRule then goes on without the agent.
ConnectionRefused ==
  /\ HopAt("sent") /\ ~Outermost
  /\ IF Top.action = "DeleteRule" THEN ResumesWith("ok") /\ UNCHANGED failures
                                 ELSE ResumesWith("error") /\ Failed(Top, "refused")
  /\ UNCHANGED answer

\* The connection breaks while the other end is at work.
ConnectionLost ==
  /\ hops # <<>> /\ ~Outermost
  /\ ResumesWith("error")
  /\ Failed(Top, "lost")
  /\ UNCHANGED answer

Over ==
  /\ HopAt("over")
  /\ hops' = <<>> /\ answer' = "none" /\ failures' = {}

DispatchNext ==
  \/ Asks \/ Jwt \/ ControllerIdentity \/ AgentAuth \/ Routes \/ SuperAdmin \/ Binds \/ Serves \/ Calls
  \/ Delivered \/ Returned \/ ConnectionRefused \/ ConnectionLost \/ Over

DispatchSpec == DispatchInit /\ [][DispatchNext]_dispatchVars

-----------------------------------------------------------------------------
(***************************************************************************)
(* An answer is never misread.  Whoever reads a success can rely on every  *)
(* process the request went through having succeeded, though each tells    *)
(* the next in another way; and the console ends a session only when its   *)
(* own token was refused, whatever 401 or 403 the processes behind it say. *)
(***************************************************************************)
NothingMisread ==
  /\ answer = "ok" => failures = {}
  /\ answer = "signedOut" => hops[1].who = "badToken"

(***************************************************************************)
(* No part of stander asks another for an action it does not have: the     *)
(* pages of the console, the agents and gost, and every service that asks  *)
(* on their behalf.  The comment on chainGroup.Handle tells of a table     *)
(* that once sent requests where nobody served them.                       *)
(***************************************************************************)
NoUnknownAction == \A f \in failures : f[2] # "unknownAction"

(***************************************************************************)
(* What identity.Principal and AddNode say of an agent that calls home: it *)
(* is known by its key, so a node's own key is not answered as if it had   *)
(* come without one.                                                       *)
(***************************************************************************)
KnownAgentServed ==
  \A i \in DOMAIN hops :
    hops[i].who = "key" /\ hops[i].api = "controller" =>
      hops[i].outcome # "Unauthenticated"
=============================================================================
