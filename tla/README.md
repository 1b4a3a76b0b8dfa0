# Stander in TLA+

Stander is a port-forwarding controller. A **controller** process keeps nodes, rules, relay chains, plans and
accounts in a MySQL database and serves a console; an **agent** process on every node holds the listeners and
carries the traffic. The two talk HTTP, in both directions, without a queue and without a lock that outlives a
handler. What is hard in it is what happens *between* the steps of its handlers, and this project is about that.

Contents: the system, its parts and their hazards; the modules and how they correspond to the code; the runs;
what they found; the proofs; what is left out; what could come next.

## 1. The system

| part | state | operations | talks to | what must hold |
|---|---|---|---|---|
| Forwarding rules (`service/rule.go`, `service/node.go`, `forward/manager/mgr.go`) | `rules`, `nodes` tables; per agent its listeners | AddRule, DelRule, ModifyRule, ModifyRules, RegisterNode, InitAgent, DelNode | controller calls agent in the middle of a handler; agent calls RegisterNode when it starts | no forward outlives its rule; every rule is served as its row says; one rule per port |
| Agent port table (`mgr.go`, `forward/connector/*.go`) | `srcConnMap` (a `sync.Map`), sockets, UDP forwarders | DelPort, AddRule, Listen, StoreConn, UDPForwarder.Start/Close | the agent's HTTP handlers and the goroutines they leave behind | the map names live listeners and all of them; every request is answered |
| Relay chains (`service/chain.go`, `mgr.go`) | `chains`, their mappings; chain ports of an agent | AddChain, DelChain, registration, EnableRelay | as rules; and a worker's goroutines | a chain is served, and nothing else is; every chain has an owner |
| Nodes, grants and ownership (`service/node.go`, `service/user.go`, `service/authz.go`) | `nodes`, the mapping tables | AddNode, EditNode, DelNode, SetUserResources, the permission checks | console; rules and chains | grants name what exists; traffic takes the route the row says |
| Traffic accounting (`*_connector.go`, `service/data.go`) | `curTraffic` per connector; `rules.traffic`; `user_daily_traffic` | copyConn, reportCurTraffic, ReportNetworkTraffic | agent reports to controller every 30 or 60 s | bytes are charged once, to whoever caused them |
| Plans and the traffic worker (`worker/*.go`, `service/traffic.go`, `service/plan.go`) | `expiration_time`, `reset_traffic_time`, `plan_id` of a user | AssociatePlan, EditUser, CreatePlan, ReconcileTrafficPlans | the worker reads `user_daily_traffic`, administrators write the same rows | a cycle is billed whole, nobody gets allowance past the subscription, paid cycles are rolled |
| Console accounts (`admin/handler/*.go`, `admin/middleware/jwt.go`) | `user`, `user_roles_role`, tokens | Add, Update, Delete, Login, Detail | console | names, ids and roles stay apart; the console shows the side the token is good for |
| TCP and TLS sessions (`tcp_connector.go`, `tls_connector.go`, `connector.go`) | connections and copy goroutines of a session | handleConn, copyConn, onClose | users, chains, destinations | bytes arrive whole and in order; a session ends on both sides |
| UDP data plane (`udp_connector.go`, `udp_chain_connector.go`) | the client table of a port | handlePacket, handleTargetReturn, cleanup, Close | peers and targets | every client is in the table or closed; Close returns |
| gost client (`gost/*.go`, `mgr.go`) | gost's services, its counters | AddService, DelService, ObserverNetworkTraffic | another process | both halves of a forward, or none |
| Identity and dispatch (`api/*.go`, `admin/*.go`, `identity`, `apperr`) | the identity of a request, the answer | the three tables of actions, DoRequest | every handler | an answer is read for what it says |
| Process life cycle (`server/app.go`) | HTTP server, worker, database handle | serve, startWorker, RunAgent | signals | nothing is cut off while the window lasts |
| Configuration, logs, metrics, generated queries | none that evolves with the rest | | | |

Handlers of the controller interleave at their database statements and agent calls; handlers of one agent at
every operation on `srcConnMap` and the sockets; reporters, sweeps and workers run on timers. Failures are
those the code has a branch for: a call that does not arrive, a reply that does not come back, a write that
fails, a process that stops, a gost that restarts. `PROJECT.json` lists 40 places where this goes, or could go,
wrong; each names the properties that watch it, or says why none does.

## 2. The modules

| module | models | abstraction |
|---|---|---|
| `RuleSync` | rules table against the agents' listeners | an agent's request is one step (justified by `AgentPorts`) |
| `PortTable` | what an agent promises of its ports: a request takes effect as one step | abstract specification |
| `AgentPorts` | the map, the sockets and the goroutines inside one agent | refines `PortTable` when requests on a port do not cross |
| `Chains` | chains of one node, their owners, its agent's listeners, the relay | the agent's half of a request is one step |
| `Resources` | nodes, chains, grants, and the routes of rules | an agent keeps the route it was told |
| `Metering` | counters, reports, columns, daily totals | rule handlers are an environment that opens, closes, writes rows in any order `RuleSync` allows |
| `Calendar` | `time.AddDate` on hours, without leap days | external (Go's library) |
| `TrafficPeriod` | expiry and reset marks, the worker, daily totals | daily totals are 0 or one volume |
| `Session` | one connection through one or two hops | chunks for bytes, a number for each |
| `UdpForwarder`, `UdpProxy` | the client tables of a rule's and of a chain's UDP port, and the wire format | one datagram at a time |
| `UdpPort` | either of the two | composition |
| `Gost` | services and counters of gost under an agent's requests | events are counts |
| `Accounts` | accounts, roles, plans under several administrators | profile columns left out |
| `SignIn` | tokens, tabs and accounts | clock in units of a token's life |
| `Dispatch` | a request through the three APIs and back | a service is the `Kind` of its answer |
| `Lifecycle` | one process from start to exit | the window is open or over |
| `Absent` | the constant `None` shared by modules that run together | – |
| `MC*` | values of the constants for TLC, symmetry, one constraint | – |
| `*_proofs` | the theorems | – |

Mutants, named `<definition>_<what is wrong>`, stand before the definition they change; each property of a run
is known to fail for at least one of them.

### RuleSync

`rows`, `nodes`, `registered` are the database, `listeners` the agents' `srcConnMap`, `agent` and `snap` the
process and the rules RegisterNode handed it, `reqs` the controller's running handlers. A handler is cut where
the code can be interrupted: it *begins* (reads; `BeginAdd`, `BeginDel`, `BeginMove`, `BeginBulk`), *calls* the
agent (`CallAccepted`, `CallRejected`, `CallReplyLost`, `CallFails`, `CallRefused`) and *commits* (`CommitAdd`,
`CommitDel`, `CommitMove`, `CommitFails`). `Effect` is the agent's half, DelPort of the old port then AddRule,
including its effect when the second half is refused. `RegisterNode`, `InitAgent`, `InitAgentPanics` are the
agent's start, which is not atomic with anything. `RelayStarts`, `RelayAdds` and `RelayStops` are a worker with
EnableRelay: it reads all rules when it starts and asks the agent for each of them until it is told that the port is
open, every three seconds, whatever has become of the rule (`mgr.go:78-127`).

The two tables can part in many ways, so a bare "they agree" is false and a weak property says nothing. The
history variable `causes` records, for each node, the *named* events since its agent last started undisturbed
(`overlap`, `lost_reply`, `uncommitted`, `raced`, `failed_move`, `diverged`, `relayed`, `node_deleted`), and the
properties say which of them can do what: **NoOrphan** (no listener without a rule, unless one of six events),
**Served** (every rule is served exactly as its row says, unless any), **NoClash** (no two staying rules on a
port, unless any). A rejected move, for one, leaves a rule unserved and never an orphan; and the worker is only a
cause (`relayed`) when it reopens the port of a rule that has been changed or deleted since it was read. ModifyRules is
`diverged` for chained rules: the request it builds (`rule.go:370-375`) has no chain address.

### AgentPorts and PortTable

One action for each operation on the map or a socket: `Load`, `Remove`, `Close` and their UDP counterparts are
DelPort; `Probe` is InitConfig's trial listen, `Listen` the goroutine, `StoreConn` the wait for it, `UdpStore` and
`UdpStart` the forwarder that is stored before it is bound. `pc = "spin"` is StoreConn waiting for a listener that its
goroutine failed to open; `"panic"` a handler that closed a nil connection or a closed channel. `crossed` remembers
the ports on which two requests were ever at work at one time. Crossing deletions can drop the entry of a newer
listener, which then answers "port conn not found" (`mgr.go:511`) while it serves. NewUDPForwarder fails for a
destination that does not resolve; that error is only logged and the nil forwarder is started in a goroutine
(`mgr.go:263-272`), whose panic ends the process: `Dies` closes every socket and leaves all requests at work without
an answer (`"cut"`), the request for that rule answered or not. What then starts is another agent, whose map is empty
again. **Answered** is therefore "answered, or the process died under it".

`PortTable` has atomic requests. The refinement counts a ModifyRule as one step, taken when its new port is
settled: until then its old listener, already closed, still counts as there (`Table`). **KeepsPromise** is
`PortTable`'s specification under that mapping; its `Dies` is the end of the process, which `RuleSync` has as
`AgentStops` with lost replies.

### Chains

Two chains of a node may share a port, one for each of its addresses, over one listener of the agent. AddChain
therefore counts the rows on the port (`AddCounts`), asks the agent for the first only (`AddCalls`), inserts
(`AddInserts`) and maps the row to its creator (`AddMaps`); DelChain counts (`DelCounts`), asks for the last only
(`DelCalls`), deletes (`DelDeletes`) and unmaps (`DelUnmaps`). Nothing holds a count still until the write it is
for. `RegisterNode` and `InitAgent` restart the agent with what the table says; `RelayStarts` and `RelayAdds` are
the goroutines a worker with EnableRelay starts for every row it has read: they never close a taken port
first, because the agent's words for that error are not the ones they look for (`mgr.go:60`).

`DelNode` deletes the node under its chains (`node.go:162`): rows, agent and listeners stay. An administrator's
DelChain that finds no node has no key to call with and deletes the last row of a port without closing it
(`chain.go:176`); another account's panics on the missing node.

`disturbed` is the ports something has come between since a clean registration: a deletion that crossed another
request or the relay, one an administrator made after the node had been deleted, a lost answer, a failed write, a
registration in the middle of a request. **NoStray** and
**ChainServed** hold on the others, and there creations may cross each other freely. **Owned**: every chain is
held by somebody, except one whose mapping failed or that is the second row of its address.

### Resources

`exists` is the nodes and chains, `grants` who holds which, `rules` the rows of the rules, `via` what their agents
were told. The check of SetUserResources and its transaction are two steps (`GrantChecks`, `GrantStores`), as are
AddChain's row and the mapping to its creator (`InsertsChain`, `GrantStores`; `chain.go:100, 112-119`), a deletion and
its mappings (`Deletes`, `Unmaps`), and the three parts of a rule's request: it reads (`BeginAddRule`,
`BeginModifyRule`), the agent is told (`RuleTells`, or `RuleRefused`), and the row is written (`RuleWrites`), or is
not because the reply was lost or the statement failed (`RuleUnwritten`). **GrantsExist** is the comment in
SetUserResources, with the races it does not close (`raced`); **RuleRouted** relates three things: the row, the chain
it names, which may have been deleted since, and the address the agent keeps. It is silent about a rule a request is
writing, and about the `astray` ones: not written after the agent had been told, worked on by two requests, or
rewritten by ModifyRules. `ListRule` and the permission checks decide who may do what, so an action is possible only
for a caller the code lets through.

### Metering

A connector (`conn`) is one opening of a port by an agent; it can be open, closed with sessions going on
(`draining`), closed, or dead with its process. `cur` is `curTraffic`; `rep` is its report: `Report` reads the
count, `Lookup`, `Charge` and `Upsert` are the three database steps of ReportNetworkTraffic, `Accepted` the
`Store(0)` on the reply. `Carry` adds bytes at any of these moments. `Unreached`, `ReplyLost`, `UpsertFails`
and the empty branch of `Lookup` are the ways a report fails; all lead to another report.

`tally` keeps, for each connector, the bytes carried, the bytes charged (`paid`), those whose reply was lost
(`again`), those that came during a report or died with the process (`missed`), and who paid. **ChargedOnce** is
`paid <= carried + again`, **NothingForgotten** `carried <= paid + cur + missed`. `relet` is the ports where
the traffic of two users has met: there a report can go to the wrong one (`data.go:68` finds the rule by port),
elsewhere **OwnTraffic** holds. `torn` is the users whose column and day were written apart (a failed upsert,
rules that changed between lookup and update, the unrated first row of a day); for the others **DayIsColumns**.
Columns include those of deleted rules. What a report adds is `int64(float32(traffic) * rate)` (`data.go:82`):
`AddTraffic` is some number within one part in `Exact` of the product once either is beyond `Exact`, which for float32
stands for 2^23, and the product below it. So the first row of a day, which holds the bytes themselves (`data.go:98`),
differs from the column at any rate but one, and at a rate of one for a report large enough to be rounded; both make
the user `torn`. Rates are natural numbers here. Bytes come one at a time: a buffer's length changes nothing in the
order of the steps.

### TrafficPeriod and Calendar

Instants are hours. `StartPass` reads all users with a plan, `Decide` totals and decides one of them on the row
*read then*, `rollTrafficPeriod` writes one column of the row *as it is by then*. `AssociatePlan` and `EditUser`
write meanwhile. `began` remembers when the cycle behind a reset mark began; `causes` whether the plan or the
expiry changed behind the worker's back. **CycleBilled** relates the mark, through `billingPeriod`'s way back,
to the days of the cycle; **PaidUp** bounds the mark by the expiry; **OverdueRolled** is liveness. CycleBilled exempts
a cycle that began after the 28th of a month: from 31 January the mark is 3 March, `AddDate(0, -1, -1)` from there is
2 February (`service/traffic.go:57`), and the first days of such a cycle are not totalled.

### Session

Leg `h` is the connection hop `h` accepted, leg `h + 1` the one it dialled; `end` is both ends of each, `data` what
is on its way. `Dials`, `copyConn` and `Release` are a hop; which copy's end makes a handler close both
connections is what tells the four handlers apart, and what the six properties are about. Two are exempted by name:
**UserGoneReachesDest** does not hold behind a TLS chain, nor **DestGoneReachesUser** behind a TCP chain,
whose outbound handler reads the user's stream itself and takes turns with its own copy goroutine at it (so
**InOrder** promises less there).

No read or write of a copy has a deadline. A connection holds `Lane` chunks in a direction; a write to a full one waits
until the other end reads or either end closes (`Full`, `CopyWrites`; `connector.go:47`), and meanwhile the copy does
not see what becomes of the end it reads from. The other copy does not help, since it waits for bytes from an end that
sends none. **UserGoneReachesDest** and **DestGoneReachesUser** therefore say "is noticed, or the other end leaves a
full connection unread"; only behind a TLS chain does the user's side not depend on that, because of the ten minutes.
**AllReleased** needs no such exception: with both ends gone every write fails.

### UdpForwarder, UdpProxy, UdpPort

`table` is the `sync.Map` from a peer to its client. `Pump*` reads the port, `Return*` is one goroutine for each
client, `Sweep*` the collection of idle ones, `Close*` the end. All drop a client through `closeClient`, which
deletes the peer's key whoever it maps to by then (`udp_connector.go:713`): `orphaned` are the clients that lost
their key to another's end. **OpenIsListed** says that this is the only way to lose a client, **CloseReleases** what
Close leaves open, **IdleExpires** and **CloseReturns** are liveness. `UdpProxy` is the same table written out a
second time in `udp_chain_connector.go`, with its packets (`packAddress`, `unpackAddress`) and its other order of
Close. `UdpPort` is whichever of them EnableUdp puts beside a listener.

### Gost

`services` has two halves for each port. `AskAdd`, `AskDel`, `AskModify` start a request, `DelTcp`, `DelUdp`, `AddTcp`,
`AddUdp` are its calls, one at a time, `Commits` the controller's write. `AgentStarts`, `InitAgentGost` and
`GostRestarts` are the two processes' restarts, which are independent: services outlive the agent, and "already
exists" counts as done. `torn` is the ports on which half a request was done, for **GostServes**.

The events of a batch are reported by a loop that stops at the first error and makes it the answer to all of them
(`data.go:46-47`). What gost does with that answer is not in this repository: `SendsAgain` and `GivesUp` are both
possible. `again` counts what was charged before and is charged once more; **GostChargedOnce** says that this is the
only surplus: an event whose own report did not get through is charged once however often it comes.

### Accounts and SignIn

`Accounts` cuts Add, Update and Delete at their statements and locks. There is no unique key on names and no
auto-increment on accounts, so **OneRowPerId** rests on one locking read, while **NamesUnique** has exceptions
(`doubtful`: names counted by two creations at once, and renames). Update replaces the role rows of an id without
asking whether there is an account with it (`user.go:155-169`, `UpdDeletesRole`), and ids are used again: such a row
waits for the next account. **RoleKept**: nobody acts with a role it was not last given, but for the `confused` ids:
worked on by two requests at once, left by a failed statement, or updated while nobody had them. `CreatePlan`, whose
count is a locking read, has no exception.

`SignIn`: a token carries the role its account had when it was issued, and the tabs of a browser share one
stored token. **AdminSide**: a tab shows the side its own token is good for, and a token that says administrator
is at most its life older than the account's own word for it.

### Dispatch and Lifecycle

`Dispatch` has the three tables of actions, the identity each API derives, the calls services make (`Calls`), and the
three ways an error travels: a status line, a code in an envelope of status 200, a status line with no envelope.
**NothingMisread**: a success is a success all the way down, and a 401 of the agent's does not sign the
console out. **NoUnknownAction**: nobody asks for what is not served. **KnownAgentServed** is the violation of
section 4.

`Lifecycle` is `serve`: listen, signal, drain, wait for the worker in what the drain has left of the window,
close, exit. **CutOnlyLate** names the two ways around it: a listener that failed, and a signal that came
before `h.Run` was there to be shut down.

## 3. The runs

| run | instance | shows |
|---|---|---|
| `rule_sync` | 1 node, 2 ports, 1 chain, 2 rules, 2 handlers, all failures; at most one kind of cause, a worker that has read at most one rule (`OneCause`) | `NoOrphan`, `Served`, `NoClash` |
| `rule_config` | 1 rule, 1 handler, 2 chains, 2 protocols, 2 destinations, `OneCause` | `Served`: what is served is what the row says |
| `one_rule_per_port` | 3 rules, 1 handler, no failures | *violation* of `OneRulePerPort` |
| `port_crossed` | 4 requests on 1 port, with UDP | `EntryIsLive`, `NoLeak`, `NoUdpLeak` |
| `port_serial` | 3 requests on 2 ports, with UDP, one at a time on a port | `KeepsPromise`, `Answered` |
| `period_marks` | 1 user, 2 workers, 3 instants over two months | `CycleBilled`, `PaidUp` |
| `period_rolls` | 1 user, 1 worker, monthly and quarterly plan, fair | `OverdueRolled` |
| `metering` | 2 connectors, 2 rules of 2 users, 2 ports, rates 0 and 1, `Exact` 1, 2 bytes, 1 repeated report | `ChargedOnce`, `NothingForgotten`, `OwnTraffic`, `DayIsColumns` |
| `session` | all four kinds of rule, 2 chunks each way, connections that hold 1, fair | `InOrder`, `AllArrives`, `CountedOnce`, `UserGoneReachesDest`, `DestGoneReachesUser`, `AllReleased` |
| `udp_port` | 1 peer, 2 clients, forwarder, server and client mode, 3 datagrams, fair | `OpenIsListed`, `CloseReleases`, `IdleExpires`, `CloseReturns` |
| `console` | seven components, see below | fourteen invariants |
| `agent_key` | one request through the APIs | *violation* of `KnownAgentServed` |

**`console`** holds the components that share no state and whose properties are invariants: `Accounts`, `SignIn`,
`Resources`, `Chains`, `Gost`, `Lifecycle`, `Dispatch`. A behaviour has one of them in `focus` and the others keep
still, so the reachable states are the sum and not the product of theirs (1.2 million; `Chains`, `Gost` and `Resources`
have most), and every property is about its own component's behaviour. The constraint `OneReason` goes no further from a
state that is exempt for one reason and about to become so for a second: a second raced grant, anything after the one
rule is astray, a disturbed port with a deleted node, an unowned chain or a relay goroutine still waiting, events under
way with a torn service or with both requests at work. It also keeps the rates of `Resources` at one, on which nothing
there depends. There is no symmetry.

**Bounds.** `RuleIds`, `Handlers`, `Reqs`, `Conns`, `Ids`, `MaxChain`, `MaxId`, `Procs`, `MaxAsks`, `MaxInflight`
bound creations and concurrency; `Bytes`, `Faults`, `MaxCarried`, `Request`, `Reply` and `Lane` bound counts;
`Instants`, `Volume`, `Life` and `MaxClock` time. Two handlers are the least that overlap; with two ports a move has
somewhere to go and a port to be refused on; with two rules one can take what the other left. Four requests on a port
are what it takes for a deletion to hit the wrong entry (two deletions of one listener, an opening between them, and a
fourth to find out). Two chains are what a port can hold, and ids are not reused, so the third row would be as the
second. One peer and two clients are the least with a successor whose key can be deleted by its predecessor.
`OneCause` stops a run's history at the second kind of disturbance; an exempted state tells nothing new once it is
exempt for another reason too. Three instants are enough for a cycle to end, be rolled, and end again; one of them
lies within the five hours of slack. Two connectors are the least on which a port changes hands under a report; two
bytes, or chunks, the least of which one is on its way while the other is behind it, in a connection that holds one of
them the other is in a blocked write. With `Exact` at 1 a report of two bytes is one that float32 rounds. A worker
that has read one rule is enough for it to reopen that rule while the handlers work on both. On gost's one port a
batch is one event, and "charged and answered with an error all the same" is what an earlier event of a longer batch
would see. The theorems of section 5 have none of these bounds.

The cfgs of `RuleSync` with node deletion, of `AgentPorts`, `UdpPort` and `Session` do not check deadlock: with every
node deleted, all requests of a life of the agent done, the port closed or the session over, the system really stops.

**Fairness.** `SerialSpec` has weak fairness of each request's own goroutines (`Work`), which the Go scheduler gives;
the poll in StoreConn is fair for the same reason. It is not fair to new requests. `FairSpec` has weak fairness of the
ticker (`StartPass`) and of the end of a pass, and strong fairness of a user's turn and of the write: a query tried at
every tick succeeds at some of them. `Session` and `UdpPort` have weak fairness of every goroutine (a write is one
step of it, once it can go on), of UDP read deadlines, tickers and timers, of dials ending one way or another, and of
the garbage collector for `Collected` (a connection that only it closes). Nothing is assumed about when an
administrator, a user, a peer, a destination or the traffic does anything.

## 4. What the runs found

* **Two rules on one port** (`one_rule_per_port`). AddRule has a reply for a duplicate port, `rule.go:166-168`,
  that no unique key of `sql/init.sql` can cause, and the agent's half of ModifyRule closes the old port before it
  knows that the new one is free (`rule.go:272-277`). A refused move leaves the old port open to another rule.
* **An agent's node key never arrives** (`agent_key`). `identity.go:43-44` says a request carries "either a user
  identity … or a node key", and AddNode that it returns the key an agent authenticates with (`node.go:97`);
  `ControllerIdentity` (`api/route.go:50`) reads the user's headers only. The run sends ReportNetworkTraffic with
  the key of a node there is and reads Unauthenticated. `RuleSync` and `Metering` model RegisterNode and
  ReportNetworkTraffic with the key reaching them, as the handlers are written and their tests call them.

Read on the way, modelled where the module says so, and without a run of their own:

* ModifyRules drops the chain address of a chained rule (`rule.go:370`): `RuleSync`'s `diverged`, `Resources`' `ModifyRules`.
* "port conn not found" for a port that is served (`mgr.go:511`): `AgentPorts`, crossing deletions.
* The billing window misses the first days of a cycle that began on 31 January (`service/traffic.go:57`).
* The traffic of a deleted rule is charged to the next owner of its port (`data.go:68`): `Metering`'s `relet`.
* The relay reopens a chain or a rule deleted since the worker started, and never reclaims a taken port, its test for
  "address already in use" meeting an Internal error (`mgr.go:60`), although `apperr.go:31` counts a taken port among
  the invalid arguments: `RelayAdds` of `Chains` and `RuleSync`.
* A gost service whose sibling failed is left, and the next start takes it for done: `Gost`'s `torn`. With gost, the
  native connector of a TCP chain cannot be deleted (`mgr.go:492`).
* AddChainGroup inserts a slice that begins with nil rows (`chain_group.go:35`): it never stores anything.
* A rule over TCP with UDP forwarding on whose destination does not resolve ends the agent's process (`mgr.go:263`):
  `AgentPorts`' `Dies`.
* Update(role) of an id nobody has leaves a role for the next account that gets it (`user.go:164`): `Accounts`' `confused`.
* A batch of gost's is answered with an error after some of it has been charged (`data.go:46`): `Gost`'s `again`.
* A peer that does not read keeps a session from ending, for ever on a direct rule (`connector.go:47`): `Session`'s `Full`.
* Login does not look at `enable`, though `defaultpassword.go:52` says that disabled accounts cannot be logged into.
* A mistyped password clears the stored token under the browser's other tabs: `SignIn`'s `LoginRefused`.
* Account ids are reused after a deletion: `Accounts`' `NewId`.
* Password reads and writes in two statements: a reset in between is overwritten.
* user.List and user.Detail answer success whatever the database says.
* The agent's readiness check has no dependency registered and always answers "not ready".

## 5. The proofs

Every invariant and the refinement that a passing run checks is also a theorem; what the runs alone show is liveness.
All theorems are for any values of the constants that satisfy the named assumptions of their module
(`ConstantAssumption`, `PortsAssumption`, `MeteringAssumption` and `FinitelyMany`, `PlanAssumption`,
`SessionAssumption`, `ChainsAssumption`, `ResourcesAssumption`, `UdpAssumption`, `ProxyAssumption`,
`AccountsAssumption`, `SignInAssumption`, `GostAssumption`, `LifecycleAssumption`): None is none of the other values,
the given functions have the domains they should, numbers are natural. Three say more. `PlanAssumption`: a plan's
period is one, three, six or twelve months, the kinds of `entity/interface.go:5-10`. `AccountsAssumption`: there is
room for the first administrator. `FinitelyMany`: there are finitely many rules and connectors, however many.

| module | theorem | says |
|---|---|---|
| `RuleSync_proofs` | `TypeCorrect` | `[]TypeOK` |
| | `OrphanInvariant` | `[]OrphanInv`, inductive |
| | `OrphanFree` | `[]NoOrphan` |
| | `SyncInvariant` | `[]SyncInv`, inductive beside `OrphanInv` |
| | `RulesAreServed` | `[]Served` |
| | `RulesDoNotClash` | `[]NoClash` |
| `AgentPorts_proofs` | `TypeCorrect` | `[]TypeOK` |
| | `PortInvariant` | `[]PortInv`, inductive |
| | `EntriesAreLive` | `[]EntryIsLive` |
| | `NoListenerLost` | `[]NoLeak` |
| | `NoSocketLost` | `[]NoUdpLeak` |
| | `RequestsAreAtomic` | `SerialSpec => KeepsPromise`: the refinement of `PortTable` |
| `Metering_proofs` | `MeterInvariant` | `[](TypeOK /\ MeterInv)`, inductive |
| | `TypeCorrect` | `[]TypeOK` |
| | `ChargedAtMostOnce` | `[]ChargedOnce` |
| | `NoByteForgotten` | `[]NothingForgotten` |
| | `UsersPayForTheirOwn` | `[]OwnTraffic` |
| | `DaysAddUp` | `[]DayIsColumns` |
| `TrafficPeriod_proofs` | `PeriodInvariant` | `[]PeriodInv`, inductive |
| | `TypeCorrect` | `[]TypeOK` |
| | `AllowanceIsPaid` | `[]PaidUp` |
| | `CyclesAreBilled` | `[]CycleBilled` |
| `Session_proofs` | `SessionInvariant` | `[]SessionInv`, inductive |
| | `TypeCorrect` | `[]TypeOK` |
| | `StreamsAreInOrder` | `[]InOrder` |
| | `EverythingArrives` | `[]AllArrives` |
| | `ChunksAreCountedOnce` | `[]CountedOnce` |
| `Chains_proofs` | `ChainInvariant` | `[]ChainInv`, inductive |
| | `NoListenerIsStray` | `[]NoStray` |
| | `ChainsAreServed` | `[]ChainServed` |
| | `ChainsHaveOwners` | `[]Owned` |
| | `GrantsNameWhatExists` | `[]GrantsExist` (`Resources`) |
| | `RulesAreRouted` | `[]RuleRouted` (`Resources`) |
| `UdpPort_proofs` | `UdpTypeCorrect` | `[]TypeOK` |
| | `ClientsAreListed` | `[]OpenIsListed` |
| | `CloseReleasesSockets` | `[]CloseReleases` |
| `Console_proofs` | `AccountsInvariant` | `[]AccountsInv`, inductive |
| | `IdsAreOwn` | `[]OneRowPerId` |
| | `NamesAreUnique` | `[]NamesUnique` |
| | `RolesAreKept` | `[]RoleKept` |
| | `TabsOnTheirSide` | `[]AdminSide` (`SignIn`) |
| | `GostServesRows` | `[]GostServes` |
| | `GostChargesOnce` | `[]GostChargedOnce` |
| | `ShutdownOrderly` | `[]CutOnlyLate` (`Lifecycle`) |
| | `AnswersAreRead` | `[]NothingMisread` (`Dispatch`) |
| | `ActionsAreKnown` | `[]NoUnknownAction` (`Dispatch`) |

`Chains_proofs` has a part about `Resources`, and `Console_proofs` one for each of the five small components; the
parts share no lemma.

**RuleSync.** NoOrphan alone is not inductive: a handler that is about to commit must be working on the row as it is
now. `StillFresh` says that what a handler has read is still so on a node without orphan causes; to keep it, two
handlers on one rule must be an overlap (`OverlapBlamed`), a rule must never change node (`NodeStable`), ids must not
be reused (`LiveIsBorn`), and a request's fields must hang together (`RequestsWellFormed`). The proof goes action by
action; the committing actions are where `StillFresh` is spent. For Served and NoClash what counts is not the table
but the table as it will be: the rules no handler is about to rewrite (`Stays`) and what the others' handlers are
about to save (`Saves`). On an undisturbed running node each of these is served (`ServedAt`) and no two share a port
(`ApartAt`). Either needs the other: an agent refuses a port that is served, so no second one can be accepted there;
and it frees only the caller's port because nobody else is on it. Commits hand over from one side to the other
(`HandedOver`), InitAgent establishes both, and all other steps keep them by leaving what counts alone (`StillSo`).
The relay's step is short (`RelayOrphan`, `RelaySync`): it opens free ports only, and on an undisturbed node, where
every rule that stays is served, none of its rules has a free port; if one has, the rule is about to leave the port or
has left it, and that is a cause.

**AgentPorts.** EntryIsLive needs that an entry was stored by a request that has got that far and that a loaded entry
is gone from the map by the time it is closed (`EntryIsStored`, `LoadedWasStored`). NoLeak needs, on ports nobody
crossed on, that whoever removes an entry removes the one it loaded (`RemovesLoaded`) and that a bound listener is in
the map, about to be stored, or about to be closed (`BoundIsReachable`). Requests that do not touch the TCP half share
one lemma (`TcpUntouched`). The UDP half has an invariant of its own (`UdpInv`): it never looks whether a socket is
there already, and that none is lost rests on the TCP half, whose listener is opened before the socket and whose
deletion goes on to close it, so that whoever has found the port free has no socket to lose (`UdpBehindTcp`,
`NoSocketYet`); and a forwarder that starts after its request has been answered counts as at work (`StartsKnown`). The
end of the process leaves no socket, no entry and nobody at work, so it keeps whatever is said of these (`DiesParts`).

That requests are atomic when they do not cross is proved step by step. What makes it go through is that whatever a
request has found out stays so until it acts on it (`SerialInv`: `Knows`, `ForwardersInOrder`): the loaded listener is
still the bound one, the probed port still free, the forwarder there to be closed has its socket. Then Listen, the
refusal and the Close of a DelRule are the steps of `PortTable` (`ListenIsAnswer`, `RefusalIsAnswer`,
`DelPortAnswers`) and all others stutter (`GotoStutters`, `CloseStutters`); that the table means one thing at each
port, whoever is between two ports there, is `HoldsOnce`.

**Metering.** Two linear inequalities for each connector (`NotChargedYet`, `MissedIsMore`) that also say where the
bytes of a report under way stand, put together as the connector's `Ledger` in the proof; and, for OwnTraffic, that
whoever meets on a port is noted (`CrowdsAreNoted`) and that a rule found by a report is its own user's
(`FindsOwnRule`), which follows because a connector with a report in hand is itself one of the parties on its port.
`ConnectorKeeps`, `ReporterKeeps` and `ServiceKeeps` say once what each kind of step has to show.

DayIsColumns is about sums, of which the prover knows nothing: `MapThenSumSet` folds through a recursive function.
`SumExists` builds that function level by level of the subsets' sizes, and `SumChanges` follows two sums that differ
in one term through the subsets they pass (both by `AllNumbers` and `AllSubsets`, induction for a *set* of numbers or
subsets, which needs no operator as a parameter and follows from `WFMin`). The invariant itself is short then
(`DayInv`): what the rules have been charged and the day has not is the sum of the reports that stand between the two
writes. With no such report it is a sum of zeros, which is DayIsColumns. What float32 makes of a product does not
matter for that, only that column and day are given the same number (`rep.add`, of which `SumsAreNat` is all that is
used); the first row of a day is given another one, and unless the two agree its user is `torn`.

**TrafficPeriod.** The facts of the calendar come first: the months begin in order and one of them holds each day, so
that from one of the first 28 days of a month `AddDate` comes back to the day it started from, whatever the months
between are long (`ThereAndBack`). CycleBilled is that fact and `MarksOK`, that a mark is `AddDate` of the beginning
it remembers. PaidUp needs what a worker carries from its read to its write: the row it has read is as good as one and
the mark it is about to write pays by that row (`PassesOK`); if the row has changed meanwhile, that has been noted.

**Session.** `Shape` says which connections a hop has at each point of its handler. `Flow` is a ledger: the chunks of
each lane, of each copy's buffer and of each receiver, before the counter and behind it, against what was sent and
what was counted; it gives CountedOnce, and nothing is missing while no write has broken. `Arrival` says that a
handler closes behind the last chunk only: whatever end has been seen had been seen behind an empty lane (`EndsSeen`),
and all lanes before it were empty by then (`Drained`). For InOrder every lane is a run of consecutive chunks (`Run`),
and two lanes joined by a copy follow on each other as long as the copy can still write (`Joins`); a chunk lost after
that is behind all the others. Behind a TCP chain's two readers the chunks are no run, and what is kept is that they
are apart (`Apart`). `Sized` adds the bounds of TypeOK.

**Chains.** The two properties are of what a port looks like at rest; what keeps them is what the handlers at work on
it know. On an undisturbed port of a running agent (`PortFine`) a deletion is alone (`Alone`) and what it has counted
is still so (`DelFine`); a creation about to insert has a row beside it or holds the listener it has opened
(`AddFine`); a relay goroutine's row is still there (`RelayFine`). `QuietStep` disposes of the steps that move no row
and no listener, `RequestStep` of the other ports in those that do. That a creation which finds the port closed finds
it without rows, and that the relay finds no undisturbed port to open, are consequences. A deletion on such a port has
had a key to call the agent with (`q.key`), so the node's deletion in the middle of it takes nothing from it. Owned is
about accounts rather than ports and has an invariant of its own (`OwnInv`): ids are handed out in order, so the first
row of its own address that a creation finds is the one it inserted, unless an older row has the address
(`FirstOfAddress`), and a creation that is about to map has that id in hand (`MapsOwn`).

**Resources.** Both properties are about ids that are read in one step and used in a later one. For GrantsExist the
step between is a deletion: what a request is about to grant, or has created and is about to map, exists or its
deletion has been noted (`GrantInv`). For RuleRouted there are three: the chain's deletion, which the property allows;
its creation, which cannot happen because an id that a rule names has been spent; and another request about the rule,
which `astray` notes, so that on other rules one request at most is at work (`OneRequest`). What that request carries,
and the agent then has, is the route of the chain the row will have (`Carried`); at rest it is that of the row
(`Routed`).

**UdpPort.** One invariant (`PortInv`) for the table, the clients and the goroutines over them, proved once for the
actions `UdpForwarder` shares with `UdpProxy` and separately for the two orders of Close. `RangedInv` says that what
Close has been past is closed or somebody else's to close; there is a lemma for each way a step can change the table
and the clients: one is made, a key is deleted by whoever is going to close its client, sockets are closed.

**Accounts.** Between its count and its commit a creation holds its name: nobody has it, or it is doubtful
(`NamesHeld`, `PlansHeld`); between its two statements a change of role has the account without any role, and alone or
confused, and an id that is not confused and that nobody has, has no role row (`RolesHeld`). That a new id is nobody's
is `GreatestAccount`, a fact about the greatest of some ids.

**SignIn.** A token that says administrator is never younger than the last moment its account was one (`Vouched`), and
a tab that no other has changed the token under asks with the token it goes by (`OwnToken`, `AskedStraight`).

**Gost.** On a port that is not torn at most one request is at work, and gost has of the port what suits that
request's next call (`Fits`); with none at work it has what the row says. Charging once is inductive once it is known
that what the agent has still to report is part of what gost has sent and had no good answer to (`BatchWasSent`).

**Lifecycle.** A drain that found the listener open leaves it closed (`ListenerInv`), so what was drained stays
drained, and a worker that has stopped does not start again; each phase that is left in time leaves something done
(`DoneInv`).

**Dispatch.** A hop of a request is an entry of the table of its API (`HopFine`), the tables are closed under the
calls services make, and a failure deeper down is noted only when the hop above has answered with one (`DispatchInv`).
The rest is a case analysis of how each API's answer is read.

The inductive invariants are proved and not run: what TLC would say of them on a small instance, the proofs say for
every one.

**Only model-checked:** the liveness properties `Answered`, `OverdueRolled`, `IdleExpires`, `CloseReturns`,
`UserGoneReachesDest`, `DestGoneReachesUser` and `AllReleased`: fairness speaks of what is enabled, and ENABLED is
beyond the prover. They hold on the instances of section 3. The two violations are counterexamples and need no proof.

## 6. What is not modelled

* **Generated database access** (`internal/model/dal`, some 5000 lines written by gorm/gen): its queries appear
  in the handlers that make them.
* **Code without a caller**: `UDPConnector` and `UDPConnectorV2` in `udp_connector.go`, `updateCa`, gost's
  `UpdateService`, `RefreshToken`, the node selector.
* **Permissions** are taken as passed in `RuleSync` and `Chains`: they are read at the start of a handler and change
  nothing; `Resources` has them, and `Dispatch` who a request runs as.
* **Passwords, profiles, read-only lists** (GetUserPlanInfo, ListUsers, ListPlans, the relationship trees): columns
  and answers nothing else depends on.
* **Fractional rates** (float32 of a rate that is not a whole number), **leap days**, **time zones**.
* **Configuration, logs, metrics, request ids, the pages of the web console**: no state that evolves with the rest.
* **A rule's agent in `Chains` and `RuleSync` at once**: rules and chains of one node share the agent's port space, so
  a chain can be refused because a rule has its port. Each module has the refusal; neither has the other's rows.

## 7. What could come next

Every safety property of the runs is proved. What is left to prove of liveness is the steps it rests on: that no step
but the awaited one makes a waiting handler, copy or sweep wait for something else. Of the code, `Chains` and
`RuleSync` could be composed on one agent, whose ports both fill.
