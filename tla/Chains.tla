------------------------------- MODULE Chains -------------------------------
(***************************************************************************)
(* Relay chains of one node: the controller's `chains` table, the table of *)
(* who holds them, and the listeners of the node's agent.                  *)
(*                                                                         *)
(* A chain is a row with a port and one of the node's two addresses.  Two  *)
(* rows may share a port, one for each address; the agent has one listener *)
(* for both.  So AddChain asks the agent only for the first chain of a     *)
(* port and DelChain only for the last one, by counting rows, and nothing  *)
(* holds the count still until the row is written.  Besides, the agent     *)
(* opens what the table says when it starts, and a worker with EnableRelay *)
(* asks every agent for it again when the worker starts.  The node itself  *)
(* may be deleted: its chains stay, and its agent is not told.             *)
(***************************************************************************)
EXTENDS Absent, Naturals, FiniteSets, FiniteSetsExt

CONSTANTS
  MaxChain,   \* bounds the auto-increment ids of chains
  Ports,
  Ips,        \* the node's addresses, IPv4 and IPv6
  Protos,     \* connector types
  Admin,      \* the super admin
  Users,      \* other accounts: each may have one request running
  Offers      \* the addresses and connectors asked for: a subset of Ips \X Protos

Row == [port : Ports, ip : Ips, proto : Protos]

ASSUME ChainsAssumption ==
  /\ MaxChain \in Nat /\ Offers \subseteq Ips \X Protos
  /\ None \notin Row /\ None \notin Protos

ChainIds == 1 .. MaxChain

VARIABLES
  node,       \* whether the node's row is there
  chains,     \* chains table
  born,       \* ids already handed out
  mappings,   \* user_role_chain_mappings: who holds which chain
  agent,      \* the node's agent
  snap,       \* the listeners a registering agent is about to open
  listeners,  \* its listeners: the connector on each port
  reqs,       \* running handlers
  relay,      \* the worker's goroutine for each chain it has read
  disturbed,  \* history: ports something has come between since a clean registration
  mixed,      \* history: ports that have had chains of two connectors since then
  unowned     \* history: chains whose mapping was not written

db   == <<node, chains, born, mappings>>
hist == <<disturbed, mixed, unowned>>
vars == <<db, agent, snap, listeners, reqs, relay, hist>>

Accounts == Users \cup {Admin}

Idle == [pc |-> "idle"]

NoRequest == [stage |-> "none"]

Init ==
  /\ node = TRUE
  /\ chains = [c \in ChainIds |-> None] /\ born = {} /\ mappings = {}
  /\ agent = "up"
  /\ snap = [p \in Ports |-> None] /\ listeners = [p \in Ports |-> None]
  /\ reqs = [h \in Accounts |-> NoRequest]
  /\ relay = [c \in ChainIds |-> Idle]
  /\ disturbed = {} /\ mixed = {} /\ unowned = {}

-----------------------------------------------------------------------------
Live == {c \in ChainIds : chains[c] # None}

On(p) == {c \in Live : chains[c].port = p}

At(p, a) == {c \in On(p) : chains[c].ip = a}

Busy(h) == reqs[h] # NoRequest

AtStage(h, stage) == reqs[h].stage = stage

Finish(h) == reqs' = [reqs EXCEPT ![h] = NoRequest]

GoTo(h, stage) == reqs' = [reqs EXCEPT ![h].stage = stage]

\* A registration reads the table afresh: what happens before it does not count.
Disturb(p) == disturbed' = IF agent = "up" THEN disturbed \cup {p} ELSE {}

Relaying(c) == relay[c].pc = "add"

\* A request on port p starts or the relay does: a deletion at work there is crossed.
Deleting(p) == \E h \in Accounts : Busy(h) /\ reqs[h].op = "del" /\ reqs[h].port = p

AtWork(p) ==
  \/ \E h \in Accounts : Busy(h) /\ reqs[h].port = p
  \/ \E c \in ChainIds : Relaying(c) /\ relay[c].port = p

\* An administrator's DelChain reads the node with the chain.
FindsNoNode(h) == h = Admin /\ ~node

Request(h, op, stage, id, port, ip, proto) ==
  [op |-> op, stage |-> stage, id |-> id, port |-> port, ip |-> ip,
   proto |-> proto, key |-> ~FindsNoNode(h), called |-> FALSE]

-----------------------------------------------------------------------------
(* The agent's half: one listener for the port, TCP or TLS, and the UDP    *)
(* proxy with it; a port that is bound already is refused.                 *)

AgentAdds(p, proto) ==
  /\ agent = "up" /\ listeners[p] = None
  /\ listeners' = [listeners EXCEPT ![p] = proto]

\* A port nobody listens on is closed without a word.
AgentDels(p) ==
  /\ agent = "up"
  /\ listeners' = [listeners EXCEPT ![p] = None]

-----------------------------------------------------------------------------
(* AddChain.  The caller may use the node, which has registered with both  *)
(* its addresses; a node that is deleted meanwhile was read before that.   *)

BeginAdd(h) ==
  /\ ~Busy(h) /\ node
  /\ \E p \in Ports, o \in Offers :
       /\ reqs' = [reqs EXCEPT ![h] = Request(h, "add", "check", None, p, o[1], o[2])]
       /\ IF Deleting(p) THEN Disturb(p) ELSE UNCHANGED disturbed
  /\ UNCHANGED <<db, agent, snap, listeners, relay, mixed, unowned>>

\* The address has a chain already: conflict.
AddChecks(h) ==
  /\ AtStage(h, "check")
  /\ IF At(reqs[h].port, reqs[h].ip) = {} THEN GoTo(h, "count") ELSE Finish(h)
  /\ UNCHANGED <<db, agent, snap, listeners, relay, hist>>

\* The agent is asked for the first chain of the port only.
AddCounts(h) ==
  /\ AtStage(h, "count") /\ reqs[h].op = "add"
  /\ GoTo(h, IF On(reqs[h].port) = {} THEN "call" ELSE "insert")
  /\ UNCHANGED <<db, agent, snap, listeners, relay, hist>>

\* The agent opens the port; its answer may be lost.
AddCalls(h) ==
  LET q == reqs[h] IN
  /\ AtStage(h, "call") /\ q.op = "add"
  /\ AgentAdds(q.port, q.proto)
  /\ \/ reqs' = [reqs EXCEPT ![h].stage = "insert", ![h].called = TRUE] /\ UNCHANGED disturbed
     \/ Finish(h) /\ Disturb(q.port)
  /\ UNCHANGED <<db, agent, snap, relay, mixed, unowned>>

\* The port is taken, or the agent does not answer.
AddRefused(h) ==
  /\ AtStage(h, "call") /\ reqs[h].op = "add"
  /\ agent # "up" \/ listeners[reqs[h].port] # None
  /\ Finish(h)
  /\ UNCHANGED <<db, agent, snap, listeners, relay, hist>>

\* A row of the same address, or of another connector, on the port is left unnoticed.
AddInserts(h) ==
  LET q == reqs[h]
      c == Min(ChainIds \ born)
  IN
  /\ AtStage(h, "insert") /\ ChainIds # born
  /\ chains' = [chains EXCEPT ![c] = [port |-> q.port, ip |-> q.ip, proto |-> q.proto]]
  /\ born' = born \cup {c}
  /\ reqs' = [reqs EXCEPT ![h].stage = "map", ![h].id = c]
  /\ unowned' = IF At(q.port, q.ip) # {} THEN unowned \cup {c} ELSE unowned
  /\ mixed' = IF agent = "up" /\ \E d \in On(q.port) : chains[d].proto # q.proto
              THEN mixed \cup {q.port} ELSE mixed
  /\ UNCHANGED <<node, mappings, agent, snap, listeners, relay, disturbed>>

\* The insert fails, or the controller dies before it.
AddInsertFails(h) ==
  /\ AtStage(h, "insert")
  /\ Finish(h)
  /\ IF reqs[h].called THEN Disturb(reqs[h].port) ELSE UNCHANGED disturbed
  /\ UNCHANGED <<db, agent, snap, listeners, relay, mixed, unowned>>

\* Mutant: the creator is not written down.
AddMaps_Nobody(h) ==
  /\ AtStage(h, "map")
  /\ Finish(h)
  /\ UNCHANGED <<db, agent, snap, listeners, relay, hist>>

\* The row is looked up by its address, not by its id; if it is gone the handler panics.
AddMaps(h) ==
  LET q     == reqs[h]
      found == At(q.port, q.ip)
  IN
  /\ AtStage(h, "map")
  /\ mappings' = IF found = {} THEN mappings ELSE mappings \cup {<<h, Min(found)>>}
  /\ Finish(h)
  /\ UNCHANGED <<node, chains, born, agent, snap, listeners, relay, hist>>

AddMapFails(h) ==
  /\ AtStage(h, "map")
  /\ Finish(h)
  /\ unowned' = unowned \cup {reqs[h].id}
  /\ UNCHANGED <<db, agent, snap, listeners, relay, disturbed, mixed>>

AddChain(h) ==
  \/ BeginAdd(h) \/ AddChecks(h) \/ AddCounts(h) \/ AddCalls(h) \/ AddRefused(h)
  \/ AddInserts(h) \/ AddInsertFails(h) \/ AddMaps(h) \/ AddMapFails(h)

-----------------------------------------------------------------------------
(* DelChain.                                                               *)

\* An administrator names any chain, another account one it holds.
BeginDel(h) ==
  /\ ~Busy(h)
  /\ \E c \in Live :
       /\ h = Admin \/ <<h, c>> \in mappings
       /\ reqs' = [reqs EXCEPT ![h] = Request(h, "del", "count", c, chains[c].port, None, None)]
       /\ IF AtWork(chains[c].port) \/ FindsNoNode(h) THEN Disturb(chains[c].port)
                                                  ELSE UNCHANGED disturbed
  /\ UNCHANGED <<db, agent, snap, listeners, relay, mixed, unowned>>

\* Mutant: nobody closes the port.
DelCounts_Never(h) ==
  /\ AtStage(h, "count") /\ reqs[h].op = "del"
  /\ GoTo(h, "delete")
  /\ UNCHANGED <<db, agent, snap, listeners, relay, hist>>

\* Mutant: whoever deletes a chain closes its port.
DelCounts_Always(h) ==
  /\ AtStage(h, "count") /\ reqs[h].op = "del"
  /\ GoTo(h, "call")
  /\ UNCHANGED <<db, agent, snap, listeners, relay, hist>>

(***************************************************************************)
(* The port is closed with the last chain on it.  While it has two, or     *)
(* when there is no node to ask, only an administrator may delete one:     *)
(* another account's request reads the node now, and panics.               *)
(***************************************************************************)
DelCounts(h) ==
  LET q    == reqs[h]
      last == Cardinality(On(q.port)) = 1
      key  == q.key /\ (h = Admin \/ node)
  IN
  /\ AtStage(h, "count") /\ q.op = "del"
  /\ IF last /\ key THEN GoTo(h, "call") ELSE IF h = Admin THEN GoTo(h, "delete") ELSE Finish(h)
  /\ UNCHANGED <<db, agent, snap, listeners, relay, hist>>

\* The agent closes the port; its answer may be lost.
DelCalls(h) ==
  LET q == reqs[h] IN
  /\ AtStage(h, "call") /\ q.op = "del"
  /\ AgentDels(q.port)
  /\ \/ reqs' = [reqs EXCEPT ![h].stage = "delete", ![h].called = TRUE] /\ UNCHANGED disturbed
     \/ Finish(h) /\ Disturb(q.port)
  /\ UNCHANGED <<db, agent, snap, relay, mixed, unowned>>

\* Unlike DelRule, a refused connection keeps the row.
DelRefused(h) ==
  /\ AtStage(h, "call") /\ reqs[h].op = "del"
  /\ agent # "up"
  /\ Finish(h)
  /\ UNCHANGED <<db, agent, snap, listeners, relay, hist>>

\* Rules that name the chain keep its id.
DelDeletes(h) ==
  /\ AtStage(h, "delete")
  /\ chains' = [chains EXCEPT ![reqs[h].id] = None]
  /\ GoTo(h, "unmap")
  /\ UNCHANGED <<node, born, mappings, agent, snap, listeners, relay, hist>>

DelDeleteFails(h) ==
  /\ AtStage(h, "delete")
  /\ Finish(h)
  /\ IF reqs[h].called THEN Disturb(reqs[h].port) ELSE UNCHANGED disturbed
  /\ UNCHANGED <<db, agent, snap, listeners, relay, mixed, unowned>>

\* An administrator takes the chain from everyone, another account from itself.
DelUnmaps(h) ==
  LET q == reqs[h] IN
  /\ AtStage(h, "unmap")
  /\ mappings' = {m \in mappings : ~(m[2] = q.id /\ h \in {Admin, m[1]})}
  /\ Finish(h)
  /\ UNCHANGED <<node, chains, born, agent, snap, listeners, relay, hist>>

DelUnmapFails(h) ==
  /\ AtStage(h, "unmap")
  /\ Finish(h)
  /\ UNCHANGED <<db, agent, snap, listeners, relay, hist>>

DelChain(h) ==
  \/ BeginDel(h) \/ DelCounts(h) \/ DelCalls(h) \/ DelRefused(h)
  \/ DelDeletes(h) \/ DelDeleteFails(h) \/ DelUnmaps(h) \/ DelUnmapFails(h)

-----------------------------------------------------------------------------
(* The node and its agent.                                                 *)

\* Its chains stay, and so do the agent and its listeners.
DelNode ==
  /\ node /\ node' = FALSE
  /\ UNCHANGED <<chains, born, mappings, agent, snap, listeners, reqs, relay, hist>>

\* InitAgent closes and opens the port of every row: the last of two rows decides.
Opened == [p \in Ports |-> IF On(p) = {} THEN None ELSE chains[Max(On(p))].proto]

\* It is looked up by its key.
RegisterNode ==
  /\ agent = "down" /\ node
  /\ agent' = "registering"
  /\ snap' = Opened
  /\ UNCHANGED <<db, listeners, reqs, relay, hist>>

\* Nobody has the key any more: the agent exits, to be started again.
RegisterRefused == agent = "down" /\ ~node /\ UNCHANGED vars

InitAgent ==
  /\ agent = "registering"
  /\ agent' = "up"
  /\ listeners' = snap
  /\ snap' = [p \in Ports |-> None]
  /\ disturbed' = {p \in Ports : AtWork(p) \/ snap[p] # Opened[p]}
  /\ mixed' = {p \in Ports : \E c, d \in On(p) : chains[c].proto # chains[d].proto}
  /\ UNCHANGED <<db, reqs, relay, unowned>>

\* Its listeners die with the process.
AgentStops ==
  /\ agent # "down"
  /\ agent' = "down"
  /\ listeners' = [p \in Ports |-> None]
  /\ snap' = [p \in Ports |-> None]
  /\ disturbed' = {} /\ mixed' = {}
  /\ UNCHANGED <<db, reqs, relay, unowned>>

Agent == DelNode \/ RegisterNode \/ RegisterRefused \/ InitAgent \/ AgentStops

-----------------------------------------------------------------------------
(* manager.Init in a worker with EnableRelay.                              *)

\* One goroutine for each row of the table; without its node one panics.
RelayStarts ==
  /\ node /\ \A c \in ChainIds : ~Relaying(c)
  /\ Live # {}
  /\ relay' = [c \in ChainIds |-> IF c \in Live THEN [pc |-> "add", port |-> chains[c].port, proto |-> chains[c].proto] ELSE Idle]
  /\ disturbed' = IF agent = "up" THEN disturbed \cup {p \in Ports : Deleting(p)} ELSE {}
  /\ UNCHANGED <<db, agent, snap, listeners, reqs, mixed, unowned>>

(***************************************************************************)
(* A taken port is asked for again three seconds later, for as long as it  *)
(* takes: Init looks for "address already in use" in the answer and would  *)
(* close the port first, but the agent words that error as an internal one.*)
(* So is a port it has opened, if the answer is lost.                      *)
(***************************************************************************)
RelayAdds(c) ==
  /\ relay[c].pc = "add" /\ AgentAdds(relay[c].port, relay[c].proto)
  /\ relay' \in {relay, [relay EXCEPT ![c] = Idle]}
  /\ UNCHANGED <<db, agent, snap, reqs, hist>>

-----------------------------------------------------------------------------
Next ==
  \/ \E h \in Accounts : AddChain(h) \/ DelChain(h)
  \/ Agent
  \/ RelayStarts \/ \E c \in ChainIds : RelayAdds(c)

Spec == Init /\ [][Next]_vars

-----------------------------------------------------------------------------
(***************************************************************************)
(* Type correctness.                                                       *)
(***************************************************************************)
TypeOK ==
  /\ node \in BOOLEAN /\ chains \in [ChainIds -> Row \cup {None}]
  /\ Live \subseteq born /\ born \subseteq ChainIds
  /\ mappings \subseteq Accounts \X born
  /\ agent \in {"down", "registering", "up"}
  /\ snap \in [Ports -> Protos \cup {None}] /\ listeners \in [Ports -> Protos \cup {None}]
  /\ disturbed \subseteq Ports /\ mixed \subseteq Ports /\ unowned \subseteq born

\* A handler that is going to insert a row on p, or is about to delete one.
Inserting(p) == \E h \in Accounts : AtStage(h, "insert") /\ reqs[h].port = p

Closing(p) == \E h \in Accounts : AtStage(h, "delete") /\ reqs[h].port = p /\ reqs[h].called

(***************************************************************************)
(* A port the agent listens on for chains has a chain, or a request about  *)
(* to insert one; unless a deletion on it crossed another request or the   *)
(* relay or was an administrator's after the node had been deleted, an     *)
(* answer or a write was lost, or the agent registered in the middle of    *)
(* one.  Creations that cross each other do no harm, and neither does the  *)
(* node's deletion in the middle of a request.                             *)
(***************************************************************************)
NoStray ==
  \A p \in Ports \ disturbed : listeners[p] # None => On(p) # {} \/ Inserting(p)

(***************************************************************************)
(* A chain of an undisturbed port is served while the agent is up, by the  *)
(* connector its row names unless the port has had rows of two.            *)
(***************************************************************************)
ChainServed ==
  agent = "up" =>
    \A p \in Ports \ disturbed : \A c \in On(p) :
      \/ listeners[p] = chains[c].proto
      \/ p \in mixed /\ listeners[p] # None
      \/ Closing(p)

(***************************************************************************)
(* Every chain is held by somebody, or is about to be: administrators      *)
(* aside, a chain nobody holds can neither be listed nor deleted.  Unless  *)
(* the write of its mapping failed, or it is the second row of its         *)
(* address, whose mapping goes to the first.                               *)
(***************************************************************************)
Owned ==
  \A c \in Live \ unowned :
    \/ \E m \in mappings : m[2] = c
    \/ \E h \in Accounts : AtStage(h, "map") /\ reqs[h].id = c
=============================================================================
