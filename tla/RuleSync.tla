------------------------------ MODULE RuleSync ------------------------------
(***************************************************************************)
(* Forwarding rules: the controller's `rules` table and the listeners that *)
(* the agents hold for them.                                               *)
(*                                                                         *)
(* A console request runs in a controller goroutine (a handler).  It reads *)
(* the database, calls the agent of the rule's node over HTTP, and writes  *)
(* the database only when the call succeeded.  Nothing locks a rule or a   *)
(* port for the duration, so other handlers, the agent's own start-up      *)
(* (RegisterNode then InitAgent) and failures fall between those steps.    *)
(* Besides, a worker with EnableRelay asks the agents for every rule it    *)
(* has read when it started, again and again until the port is free.       *)
(*                                                                         *)
(* The history variable `causes` names, for each node, the events that     *)
(* have hit it since its agent last registered undisturbed.  The           *)
(* properties say which of them can part the two tables, and that nothing  *)
(* else can.                                                               *)
(***************************************************************************)
EXTENDS Naturals, FiniteSets

CONSTANTS
  Nodes,      \* agents the controller knows
  Ports,      \* listen ports on a node
  Hosts,      \* destinations (RemoteAddr)
  Chains,     \* relay chains, each standing for its address
  Protos,     \* connector types: TCP, TLS
  ProtoOf,    \* the protocol column of each chain
  RuleIds,    \* auto-increment ids the runs may use: bounds the creations
  Handlers,   \* controller requests that may run at the same time
  Direct,     \* ChainId 0: forward without a chain
  None        \* absent row, absent listener

Routes == Chains \cup {Direct}

\* What an agent needs to serve a port.
Conf == [host : Hosts, chain : Routes, proto : Protos]

\* A live row of `rules`.  Deletion is soft and ids are never reused.
Row == [node : Nodes, port : Ports, host : Hosts, chain : Routes, proto : Protos]

ConfOf(row) == [host |-> row.host, chain |-> row.chain, proto |-> row.proto]

\* A row as some handler or some registration read it.
Seen == RuleIds \X Row

(***************************************************************************)
(* A handler between two of its steps: what it read (row), what it will    *)
(* save (target), what it tells the agent (sent), and, for ModifyRules,    *)
(* the rows it read and has not reached yet.                               *)
(***************************************************************************)
Request ==
  [ op     : {"add", "del", "move", "bulk"},
    stage  : {"call", "commit"},
    rule   : RuleIds \cup {None},
    row    : Row,
    target : Row,
    sent   : Conf,
    todo   : SUBSET Seen ]

Causes == { "overlap",          \* two handlers ran on one rule
            "lost_reply",       \* the agent acted, the controller saw an error
            "uncommitted",      \* the agent acted, the database write never came
            "raced",            \* the agent registered while requests ran
            "failed_move",      \* the agent closed the old port, not opened the new
            "diverged",         \* the agent was told something the row does not say
            "relayed",          \* the worker reopened the port of a rule that has left it
            "node_deleted" }    \* the node's row is gone, its agent is not told

ASSUME ConstantAssumption ==
  /\ ProtoOf \in [Chains -> Protos]
  /\ None \notin Conf \cup Row \cup Request \cup RuleIds

VARIABLES
  rows,        \* rules table
  born,        \* ids already handed out
  nodes,       \* nodes table
  registered,  \* nodes whose port column is set
  agent,       \* agent processes
  snap,        \* the rules a registering agent was given
  listeners,   \* srcConnMap of each agent
  reqs,        \* running handlers
  relay,       \* the rules a worker's goroutines ask for, as it has read them
  causes       \* history

db   == <<rows, born, nodes, registered>>
vars == <<rows, born, nodes, registered, agent, snap, listeners, reqs, relay, causes>>

Empty == [p \in Ports |-> None]

Init ==
  /\ rows = [r \in RuleIds |-> None]
  /\ born = {}
  /\ nodes = Nodes
  /\ registered = {}
  /\ agent = [n \in Nodes |-> "down"]
  /\ snap = [n \in Nodes |-> {}]
  /\ listeners = [n \in Nodes |-> Empty]
  /\ reqs = [h \in Handlers |-> None]
  /\ relay = {}
  /\ causes = [n \in Nodes |-> {}]

-----------------------------------------------------------------------------
Busy(h) == reqs[h] # None

Committing(h) == Busy(h) /\ reqs[h].stage = "commit"

Touches(q) == {q.rule} \cup {e[1] : e \in q.todo}

NodesOf(q) == {q.row.node} \cup {e[2].node : e \in q.todo}

\* The node has no request running on it.
Quiet(n) == \A h \in Handlers : Busy(h) => n \notin NodesOf(reqs[h])

RowsOf(n) == {e \in Seen : rows[e[1]] = e[2] /\ e[2].node = n}

Accuse(ns, c) ==
  causes' = [n \in Nodes |-> IF n \in ns THEN causes[n] \cup {c} ELSE causes[n]]

\* A handler starts on the rules of S: it overlaps the ones that already run on them.
Start(h, q, S) ==
  /\ reqs' = [reqs EXCEPT ![h] = q]
  /\ LET taken == {r \in S : \E g \in Handlers : Busy(g) /\ r \in Touches(reqs[g])}
     IN  Accuse({rows[r].node : r \in taken}, "overlap")
  /\ UNCHANGED <<db, agent, snap, listeners>>

Finish(h) == reqs' = [reqs EXCEPT ![h] = None]

-----------------------------------------------------------------------------
(* Reading phase of each handler.  Permission checks are taken as passed.  *)

BeginAdd(h) ==
  /\ ~Busy(h)
  /\ \E new \in Row :
       /\ new.node \in nodes \cap registered
       /\ Start(h, [op |-> "add", stage |-> "call", rule |-> None, row |-> new,
                    target |-> new, sent |-> ConfOf(new), todo |-> {}], {})

BeginDel(h, r) ==
  /\ ~Busy(h) /\ rows[r] # None
  /\ rows[r].node \in nodes
  /\ Start(h, [op |-> "del", stage |-> "call", rule |-> r, row |-> rows[r],
               target |-> rows[r], sent |-> ConfOf(rows[r]), todo |-> {}], {r})

\* The node is gone: only the row is deleted, nobody is called.
DelDangling(r) ==
  /\ rows[r] # None
  /\ rows[r].node \notin nodes
  /\ rows' = [rows EXCEPT ![r] = None]
  /\ UNCHANGED <<born, nodes, registered, agent, snap, listeners, reqs, causes>>

\* ModifyRule tells the agent the protocol of a newly chosen chain but never saves it.
Moved(row, p, t, c) == [row EXCEPT !.port = p, !.host = t, !.chain = c]

MoveSent(row, p, t, c) ==
  [host |-> t, chain |-> c, proto |-> IF c = row.chain THEN row.proto ELSE ProtoOf[c]]

BeginMove(h, r) ==
  /\ ~Busy(h) /\ rows[r] # None
  /\ rows[r].node \in nodes
  /\ \E p \in Ports, t \in Hosts, c \in Chains \cup {rows[r].chain} :
       /\ Moved(rows[r], p, t, c) # rows[r]
       /\ Start(h, [op |-> "move", stage |-> "call", rule |-> r, row |-> rows[r],
                    target |-> Moved(rows[r], p, t, c),
                    sent |-> MoveSent(rows[r], p, t, c), todo |-> {}], {r})

\* ModifyRules gives the new host of one rule; its request carries no ChainAddr.
BulkSent(row, t) == [host |-> t, chain |-> Direct, proto |-> row.proto]

BulkItem(e, t, rest) ==
  [op |-> "bulk", stage |-> "call", rule |-> e[1], row |-> e[2],
   target |-> [e[2] EXCEPT !.host = t], sent |-> BulkSent(e[2], t), todo |-> rest]

BeginBulk(h) ==
  /\ ~Busy(h)
  /\ \E S \in SUBSET {r \in RuleIds : rows[r] # None /\ rows[r].node \in nodes},
        first \in RuleIds, t \in Hosts :
       /\ first \in S
       /\ Start(h, BulkItem(<<first, rows[first]>>, t,
                            {<<r, rows[r]>> : r \in S \ {first}}), S)

-----------------------------------------------------------------------------
(* The call.  An agent's handler runs to its end before it answers.        *)

Modifies(q) == q.op \in {"move", "bulk"}

Freed(q, table) == IF q.op = "add" THEN table ELSE [table EXCEPT ![q.row.port] = None]

\* Mutant: a bound port is taken over instead of refused.
Accepted_TakesOver(q, table) == TRUE

\* Listening on a port that is already bound is an error.
Accepted(q, table) == q.op = "del" \/ Freed(q, table)[q.target.port] = None

\* The agent's port table after the request: DelPort of the old port, then AddRule.
Effect(q, table) ==
  IF q.op # "del" /\ Accepted(q, table)
  THEN [Freed(q, table) EXCEPT ![q.target.port] = q.sent]
  ELSE Freed(q, table)

Called(h) ==
  LET q == reqs[h] IN
  /\ Busy(h) /\ q.stage = "call"
  /\ agent[q.row.node] = "up"
  /\ listeners' = [listeners EXCEPT ![q.row.node] = Effect(q, listeners[q.row.node])]
  /\ UNCHANGED <<db, agent, snap>>

CallAccepted(h) ==
  LET q == reqs[h] IN
  /\ Called(h)
  /\ Accepted(q, listeners[q.row.node])
  /\ reqs' = [reqs EXCEPT ![h].stage = "commit"]
  /\ Accuse(IF q.sent # ConfOf(q.target) THEN {q.row.node} ELSE {}, "diverged")

CallRejected(h) ==
  LET q == reqs[h] IN
  /\ Called(h)
  /\ ~Accepted(q, listeners[q.row.node])
  /\ Finish(h)
  /\ Accuse(IF Modifies(q) THEN {q.row.node} ELSE {}, "failed_move")

\* The agent acted, then the connection broke: the handler returns the error.
CallReplyLost(h) ==
  LET q == reqs[h] IN
  /\ Called(h)
  /\ Accepted(q, listeners[q.row.node])
  /\ Finish(h)
  /\ Accuse({q.row.node}, "lost_reply")

\* The call never reached an agent.
CallFails(h) ==
  /\ Busy(h) /\ reqs[h].stage = "call"
  /\ Finish(h)
  /\ UNCHANGED <<db, agent, snap, listeners, causes>>

\* Mutant: DelRule goes on to the delete whatever the error was.
CallRefused_AnyError(h) ==
  /\ Busy(h) /\ reqs[h].stage = "call"
  /\ reqs[h].op = "del"
  /\ reqs' = [reqs EXCEPT ![h].stage = "commit"]
  /\ UNCHANGED <<db, agent, snap, listeners, causes>>

\* DelRule alone takes "connection refused" for an answer and goes on to the delete.
CallRefused(h) ==
  /\ Busy(h) /\ reqs[h].stage = "call"
  /\ reqs[h].op = "del"
  /\ agent[reqs[h].row.node] # "up"
  /\ reqs' = [reqs EXCEPT ![h].stage = "commit"]
  /\ UNCHANGED <<db, agent, snap, listeners, causes>>

-----------------------------------------------------------------------------
(* The database write.                                                     *)

CommitAdd(h) ==
  /\ Committing(h) /\ reqs[h].op = "add"
  /\ \E r \in RuleIds \ born :
       /\ rows' = [rows EXCEPT ![r] = reqs[h].target]
       /\ born' = born \cup {r}
  /\ Finish(h)
  /\ UNCHANGED <<nodes, registered, agent, snap, listeners, causes>>

CommitDel(h) ==
  /\ Committing(h) /\ reqs[h].op = "del"
  /\ rows' = [rows EXCEPT ![reqs[h].rule] = None]
  /\ Finish(h)
  /\ UNCHANGED <<born, nodes, registered, agent, snap, listeners, causes>>

\* Mutant: the new listen port is not among the saved columns.
Saved_WithoutPort(now, q) ==
  [now EXCEPT !.host = q.target.host, !.chain = q.target.chain]

\* UPDATE of the changed columns only; it matches nothing once the row is deleted.
Saved(now, q) ==
  [now EXCEPT
     !.port  = IF q.target.port  # q.row.port  THEN q.target.port  ELSE now.port,
     !.host  = IF q.op = "bulk" \/ q.target.host # q.row.host THEN q.target.host ELSE now.host,
     !.chain = IF q.target.chain # q.row.chain THEN q.target.chain ELSE now.chain]

CommitMove(h) ==
  LET q == reqs[h] IN
  /\ Committing(h) /\ Modifies(q)
  /\ rows' = IF rows[q.rule] = None THEN rows
             ELSE [rows EXCEPT ![q.rule] = Saved(rows[q.rule], q)]
  /\ \/ /\ q.todo = {}
        /\ Finish(h)
     \/ \E e \in q.todo :
          reqs' = [reqs EXCEPT ![h] = BulkItem(e, q.target.host, q.todo \ {e})]
  /\ UNCHANGED <<born, nodes, registered, agent, snap, listeners, causes>>

\* The write fails, or the controller dies before it.
CommitFails(h) ==
  /\ Committing(h)
  /\ Finish(h)
  /\ Accuse({reqs[h].row.node}, "uncommitted")
  /\ UNCHANGED <<db, agent, snap, listeners>>

-----------------------------------------------------------------------------
(* Agents.                                                                 *)

\* RegisterNode: the agent is handed the rules its node has now.
RegisterNode(n) ==
  /\ n \in nodes
  /\ agent[n] = "down"
  /\ agent' = [agent EXCEPT ![n] = "registering"]
  /\ snap' = [snap EXCEPT ![n] = RowsOf(n)]
  /\ registered' = registered \cup {n}
  /\ UNCHANGED <<rows, born, nodes, listeners, reqs, causes>>

Clash(s) == \E e, f \in s : e # f /\ e[2].port = f[2].port

Opened(s) ==
  [p \in Ports |->
     IF \E e \in s : e[2].port = p
     THEN ConfOf((CHOOSE e \in s : e[2].port = p)[2])
     ELSE None]

\* InitAgent opens every rule it was given before the agent's API is served.
InitAgent(n) ==
  /\ agent[n] = "registering"
  /\ ~Clash(snap[n])
  /\ agent' = [agent EXCEPT ![n] = "up"]
  /\ listeners' = [listeners EXCEPT ![n] = Opened(snap[n])]
  /\ snap' = [snap EXCEPT ![n] = {}]
  /\ causes' = [causes EXCEPT ![n] =
                  IF n \notin nodes THEN @
                  ELSE IF Quiet(n) /\ snap[n] = RowsOf(n) THEN {}
                  ELSE @ \cup {"raced"}]
  /\ UNCHANGED <<db, reqs>>

\* Two of the rules want one port: AddRule fails and InitAgent panics.
InitAgentPanics(n) ==
  /\ agent[n] = "registering"
  /\ Clash(snap[n])
  /\ agent' = [agent EXCEPT ![n] = "down"]
  /\ snap' = [snap EXCEPT ![n] = {}]
  /\ UNCHANGED <<db, listeners, reqs, causes>>

AgentStops(n) ==
  /\ agent[n] # "down"
  /\ agent' = [agent EXCEPT ![n] = "down"]
  /\ snap' = [snap EXCEPT ![n] = {}]
  /\ listeners' = [listeners EXCEPT ![n] = Empty]
  /\ UNCHANGED <<db, reqs, causes>>

\* DelNode deletes the row; rules stay and the agent is not told.
DelNode(n) ==
  /\ n \in nodes
  /\ nodes' = nodes \ {n}
  /\ Accuse({n}, "node_deleted")
  /\ UNCHANGED <<rows, born, registered, agent, snap, listeners, reqs>>

-----------------------------------------------------------------------------
(* manager.Init in a worker with EnableRelay.                              *)

\* Some handler has had its answer from the agent and will take r off its present port.
Leaving(r) ==
  \E h \in Handlers :
    /\ Committing(h)
    /\ reqs[h].rule = r
    /\ reqs[h].op = "del" \/ reqs[h].target.port # reqs[h].row.port

\* One goroutine for each rule, as far as the first whose node is gone.
RelayStarts ==
  /\ relay = {}
  /\ LET read == UNION {RowsOf(n) : n \in Nodes}
         some == {e \in read : e[2].node \in nodes}
     IN  relay' \in IF some = read THEN {read} ELSE SUBSET some
  /\ UNCHANGED <<db, agent, snap, listeners, reqs, causes>>

(***************************************************************************)
(* A port that is taken is asked for again three seconds later: the worker *)
(* looks for "address already in use" in the answer, and would close the   *)
(* port, but the agent words that error as an internal one.  So is a port  *)
(* that was opened, if the answer is lost.                                 *)
(***************************************************************************)
RelayAdds(e) ==
  LET row == e[2] IN
  /\ agent[row.node] = "up" /\ listeners[row.node][row.port] = None
  /\ listeners' = [listeners EXCEPT ![row.node] = [@ EXCEPT ![row.port] = ConfOf(row)]]
  /\ relay' \in {relay, relay \ {e}}
  /\ Accuse(IF rows[e[1]] # row \/ Leaving(e[1]) THEN {row.node} ELSE {}, "relayed")
  /\ UNCHANGED <<db, agent, snap, reqs>>

\* The worker's process ends, and its goroutines with it.
RelayStops ==
  /\ relay # {} /\ relay' = {}
  /\ UNCHANGED <<db, agent, snap, listeners, reqs, causes>>

Relay == RelayStarts \/ RelayStops \/ \E e \in relay : RelayAdds(e)

-----------------------------------------------------------------------------
HandlerStep(h) ==
  \/ BeginAdd(h)
  \/ \E r \in RuleIds : BeginDel(h, r)
  \/ \E r \in RuleIds : BeginMove(h, r)
  \/ BeginBulk(h)
  \/ CallAccepted(h)
  \/ CallRejected(h)
  \/ CallRefused(h)
  \/ CommitAdd(h)
  \/ CommitDel(h)
  \/ CommitMove(h)

AgentStep(n) ==
  \/ RegisterNode(n)
  \/ InitAgent(n)
  \/ InitAgentPanics(n)

Disturbance ==
  \/ \E h \in Handlers : CallReplyLost(h) \/ CallFails(h) \/ CommitFails(h)
  \/ \E n \in Nodes : AgentStops(n) \/ DelNode(n)
  \/ \E r \in RuleIds : DelDangling(r)

\* What the worker has no part in.
Forwarding ==
  \/ \E h \in Handlers : HandlerStep(h)
  \/ \E n \in Nodes : AgentStep(n)
  \/ Disturbance

Next == Relay \/ (Forwarding /\ UNCHANGED relay)

Spec == Init /\ [][Next]_vars

\* The same system without that worker, on a day when nothing fails.
CalmStep ==
  /\ (\E h \in Handlers : HandlerStep(h)) \/ (\E n \in Nodes : AgentStep(n))
  /\ UNCHANGED relay

CalmSpec == Init /\ [][CalmStep]_vars

-----------------------------------------------------------------------------
(***************************************************************************)
(* Type correctness: whatever ModifyRule merges into a row or sends to an  *)
(* agent, and whatever a registration hands out, is a row or configuration *)
(* the other side can read.                                                *)
(***************************************************************************)
TypeOK ==
  /\ rows \in [RuleIds -> Row \cup {None}]
  /\ born \subseteq RuleIds
  /\ nodes \subseteq Nodes
  /\ registered \subseteq Nodes
  /\ agent \in [Nodes -> {"down", "registering", "up"}]
  /\ snap \in [Nodes -> SUBSET Seen]
  /\ listeners \in [Nodes -> [Ports -> Conf \cup {None}]]
  /\ reqs \in [Handlers -> Request \cup {None}]
  /\ relay \subseteq Seen
  /\ causes \in [Nodes -> SUBSET Causes]

RowAt(r, n, p) == rows[r] # None /\ rows[r].node = n /\ rows[r].port = p

\* A handler that will leave a row at (n, p) when it commits.
BoundFor(h, n, p) ==
  /\ Committing(h)
  /\ reqs[h].op # "del"
  /\ reqs[h].target.node = n /\ reqs[h].target.port = p

Backed(n, p) ==
  \/ \E r \in RuleIds : RowAt(r, n, p) /\ ~Leaving(r)
  \/ \E h \in Handlers : BoundFor(h, n, p)

OrphanCauses == {"overlap", "lost_reply", "uncommitted", "raced", "relayed", "node_deleted"}

(***************************************************************************)
(* A port an agent listens on belongs to a rule that stays, or to a        *)
(* request about to save one: no forward outlives its rule, unless a named *)
(* event hit the node.  A rejected move and a diverging request are not    *)
(* among them, nor is a worker that reopens the port of a rule it has read *)
(* and that is still as it was.                                            *)
(***************************************************************************)
NoOrphan ==
  \A n \in Nodes : causes[n] \cap OrphanCauses = {} =>
    \A p \in Ports : listeners[n][p] # None => Backed(n, p)

-----------------------------------------------------------------------------
(* What makes NoOrphan inductive. *)

\* The rows a handler has read and may still rewrite or delete.
SeenBy(q) == IF q.op = "add" THEN {} ELSE {<<q.rule, q.row>>} \cup q.todo

\* Only a running agent listens.
DownIsSilent == \A n \in Nodes : agent[n] # "up" => listeners[n] = Empty

GoneIsBlamed == \A n \in Nodes \ nodes : "node_deleted" \in causes[n]

LiveIsBorn == \A r \in RuleIds : rows[r] # None => r \in born

\* How the fields of a request hang together.
WellFormed(q) ==
  /\ q.op = "add" => q.rule = None /\ q.todo = {} /\ q.target = q.row
  /\ q.op = "del" => q.target = q.row
  /\ q.op = "bulk" => q.target.port = q.row.port
  /\ q.op # "bulk" => q.todo = {}
  /\ q.target.node = q.row.node /\ q.target.proto = q.row.proto
  /\ \A e \in SeenBy(q) : e[1] \in born
  /\ \A e \in q.todo : e[1] # q.rule
  /\ \A e, f \in q.todo : e[1] = f[1] => e = f

RequestsWellFormed == \A h \in Handlers : Busy(h) => WellFormed(reqs[h])

\* A rule never changes node.
NodeStable ==
  \A h \in Handlers : Busy(h) => \A e \in SeenBy(reqs[h]) :
    rows[e[1]] # None => rows[e[1]].node = e[2].node

\* Two handlers on one rule are an overlap.
OverlapBlamed ==
  \A h, g \in Handlers : h # g /\ Busy(h) /\ Busy(g) =>
    \A e \in SeenBy(reqs[h]), f \in SeenBy(reqs[g]) :
      e[1] = f[1] => "overlap" \in causes[e[2].node]

\* On a node without orphan causes, what a handler has read is still so.
StillFresh ==
  \A h \in Handlers : Busy(h) => \A e \in SeenBy(reqs[h]) :
    causes[e[2].node] \cap OrphanCauses = {} => rows[e[1]] = e[2]

(***************************************************************************)
(* The inductive invariant: handlers work on rows nobody else is working   *)
(* on and that are as they read them, or the node carries the blame.       *)
(***************************************************************************)
OrphanInv ==
  /\ DownIsSilent /\ GoneIsBlamed /\ LiveIsBorn /\ RequestsWellFormed
  /\ NodeStable /\ OverlapBlamed /\ StillFresh
  /\ NoOrphan

-----------------------------------------------------------------------------
Clean(n) == agent[n] = "up" /\ causes[n] = {}

\* No handler that has had its answer is about to rewrite r.
Settled(r) == \A h \in Handlers : Committing(h) => reqs[h].rule # r

(***************************************************************************)
(* Every rule of an undisturbed node is served, with the destination,      *)
(* chain and connector its row says; one whose change has been accepted is *)
(* served as it will be saved.                                             *)
(***************************************************************************)
Served ==
  \A n \in Nodes : Clean(n) =>
    /\ \A r \in RuleIds : rows[r] # None /\ rows[r].node = n /\ Settled(r) =>
         listeners[n][rows[r].port] = ConfOf(rows[r])
    /\ \A h \in Handlers : Committing(h) /\ reqs[h].op # "del" /\ reqs[h].row.node = n =>
         listeners[n][reqs[h].target.port] = ConfOf(reqs[h].target)

(***************************************************************************)
(* On an undisturbed node no two rules that stay share a port, so the next *)
(* InitAgent can open them all.                                            *)
(***************************************************************************)
NoClash ==
  \A n \in Nodes : Clean(n) =>
    \A r, s \in RuleIds, p \in Ports :
      r # s /\ RowAt(r, n, p) /\ RowAt(s, n, p) => Leaving(r) \/ Leaving(s)

(***************************************************************************)
(* What the "port already has a forwarding rule" reply of AddRule says:    *)
(* when no request runs, a port of a node has one rule at most.            *)
(***************************************************************************)
OneRulePerPort ==
  (\A h \in Handlers : ~Busy(h)) =>
    \A n \in Nodes, p \in Ports, r, s \in RuleIds :
      RowAt(r, n, p) /\ RowAt(s, n, p) => r = s
=============================================================================
