--------------------------- MODULE RuleSync_proofs ---------------------------
(***************************************************************************)
(* Theorems about RuleSync, for every value of its constants.              *)
(***************************************************************************)
EXTENDS RuleSync, TLAPS

-----------------------------------------------------------------------------
(* Lemmas on the operators. *)

\* What a row makes the agent serve is a configuration.
LEMMA ConfOfType == \A row \in Row : ConfOf(row) \in Conf
BY DEF ConfOf, Conf, Row

\* A request record is never the idle mark, nor a row the absent row.
LEMMA NoneApart == /\ \A q \in Request : q # None
                   /\ \A row \in Row : row # None
                   /\ \A r \in RuleIds : r # None
                   /\ \A c \in Conf : c # None
BY ConstantAssumption

\* Blaming nodes keeps the history well typed.
LEMMA AccuseType ==
  ASSUME NEW ns, NEW c \in Causes, causes \in [Nodes -> SUBSET Causes], Accuse(ns, c)
  PROVE  causes' \in [Nodes -> SUBSET Causes]
BY DEF Accuse

\* The next rule of a ModifyRules request is a request.
LEMMA BulkItemType ==
  ASSUME NEW e \in Seen, NEW t \in Hosts, NEW rest \in SUBSET Seen
  PROVE  BulkItem(e, t, rest) \in Request
<1>1. e[1] \in RuleIds /\ e[2] \in Row
  BY DEF Seen
<1>2. [e[2] EXCEPT !.host = t] \in Row
  BY <1>1 DEF Row
<1>3. BulkSent(e[2], t) \in Conf
  BY <1>1 DEF BulkSent, Conf, Row, Routes
<1>. QED
  BY <1>1, <1>2, <1>3 DEF BulkItem, Request

\* A request leaves the agent's port table well typed.
LEMMA EffectType ==
  ASSUME NEW q \in Request, NEW table \in [Ports -> Conf \cup {None}]
  PROVE  Effect(q, table) \in [Ports -> Conf \cup {None}]
<1>1. q.row.port \in Ports /\ q.target.port \in Ports /\ q.sent \in Conf
  BY DEF Request, Row
<1>2. Freed(q, table) \in [Ports -> Conf \cup {None}]
  BY <1>1 DEF Freed
<1>. QED
  BY <1>1, <1>2 DEF Effect

\* Saving the changed columns of a row gives a row.
LEMMA SavedType ==
  ASSUME NEW now \in Row, NEW q \in Request
  PROVE  Saved(now, q) \in Row
<1>1. q.target \in Row
  BY DEF Request
<1>. QED
  BY <1>1 DEF Saved, Row

\* The table InitAgent builds is well typed.
LEMMA OpenedType ==
  ASSUME NEW s \in SUBSET Seen
  PROVE  Opened(s) \in [Ports -> Conf \cup {None}]
<1>. SUFFICES ASSUME NEW p \in Ports, \E e \in s : e[2].port = p
              PROVE  ConfOf((CHOOSE e \in s : e[2].port = p)[2]) \in Conf
  BY DEF Opened
<1>1. (CHOOSE e \in s : e[2].port = p) \in s
  OBVIOUS
<1>2. (CHOOSE e \in s : e[2].port = p)[2] \in Row
  BY <1>1 DEF Seen
<1>. QED
  BY <1>2, ConfOfType

-----------------------------------------------------------------------------
(* Type correctness. *)

\* A started handler holds a request; nothing else but the history changes.
LEMMA StartType ==
  ASSUME TypeOK, NEW h \in Handlers, NEW q \in Request, NEW S, Start(h, q, S),
         UNCHANGED relay
  PROVE  TypeOK'
<1>1. causes' \in [Nodes -> SUBSET Causes]
  BY AccuseType DEF TypeOK, Start, Causes
<1>2. reqs' \in [Handlers -> Request \cup {None}]
  BY DEF TypeOK, Start
<1>. QED
  BY <1>1, <1>2 DEF TypeOK, Start, db

LEMMA BeginType ==
  ASSUME TypeOK, NEW h \in Handlers,
         \/ BeginAdd(h)
         \/ \E r \in RuleIds : BeginDel(h, r)
         \/ \E r \in RuleIds : BeginMove(h, r)
         \/ BeginBulk(h),
         UNCHANGED relay
  PROVE  TypeOK'
<1>1. CASE BeginAdd(h)
  <2>1. PICK new \in Row :
          Start(h, [op |-> "add", stage |-> "call", rule |-> None, row |-> new,
                    target |-> new, sent |-> ConfOf(new), todo |-> {}], {})
    BY <1>1 DEF BeginAdd
  <2>2. [op |-> "add", stage |-> "call", rule |-> None, row |-> new,
         target |-> new, sent |-> ConfOf(new), todo |-> {}] \in Request
    BY ConfOfType DEF Request
  <2>. QED
    BY <2>1, <2>2, StartType
<1>2. CASE \E r \in RuleIds : BeginDel(h, r)
  <2>1. PICK r \in RuleIds : BeginDel(h, r)
    BY <1>2
  <2>2. rows[r] \in Row
    BY <2>1 DEF BeginDel, TypeOK
  <2>3. [op |-> "del", stage |-> "call", rule |-> r, row |-> rows[r],
         target |-> rows[r], sent |-> ConfOf(rows[r]), todo |-> {}] \in Request
    BY <2>2, ConfOfType DEF Request
  <2>. QED
    BY <2>1, <2>3, StartType DEF BeginDel
<1>3. CASE \E r \in RuleIds : BeginMove(h, r)
  <2>1. PICK r \in RuleIds : BeginMove(h, r)
    BY <1>3
  <2>2. rows[r] \in Row
    BY <2>1 DEF BeginMove, TypeOK
  <2>3. PICK p \in Ports, t \in Hosts, c \in Chains \cup {rows[r].chain} :
          Start(h, [op |-> "move", stage |-> "call", rule |-> r, row |-> rows[r],
                    target |-> Moved(rows[r], p, t, c),
                    sent |-> MoveSent(rows[r], p, t, c), todo |-> {}], {r})
    BY <2>1 DEF BeginMove
  <2>4. c \in Routes
    BY <2>2 DEF Row, Routes
  <2>5. Moved(rows[r], p, t, c) \in Row
    BY <2>2, <2>4 DEF Moved, Row
  <2>6. MoveSent(rows[r], p, t, c) \in Conf
    <3>1. (IF c = rows[r].chain THEN rows[r].proto ELSE ProtoOf[c]) \in Protos
      BY <2>2, ConstantAssumption DEF Row
    <3>. QED
      BY <3>1, <2>4 DEF MoveSent, Conf
  <2>7. [op |-> "move", stage |-> "call", rule |-> r, row |-> rows[r],
         target |-> Moved(rows[r], p, t, c),
         sent |-> MoveSent(rows[r], p, t, c), todo |-> {}] \in Request
    BY <2>2, <2>5, <2>6 DEF Request
  <2>. QED
    BY <2>3, <2>7, StartType
<1>4. CASE BeginBulk(h)
  <2>1. PICK S \in SUBSET {r \in RuleIds : rows[r] # None /\ rows[r].node \in nodes},
             first \in RuleIds, t \in Hosts :
          /\ first \in S
          /\ Start(h, BulkItem(<<first, rows[first]>>, t,
                               {<<r, rows[r]>> : r \in S \ {first}}), S)
    BY <1>4 DEF BeginBulk
  <2>2. \A r \in S : <<r, rows[r]>> \in Seen
    BY <2>1 DEF TypeOK, Seen
  <2>3. {<<r, rows[r]>> : r \in S \ {first}} \in SUBSET Seen
    BY <2>2
  <2>4. BulkItem(<<first, rows[first]>>, t, {<<r, rows[r]>> : r \in S \ {first}}) \in Request
    BY <2>1, <2>2, <2>3, BulkItemType
  <2>. QED
    BY <2>1, <2>4, StartType
<1>. QED
  BY <1>1, <1>2, <1>3, <1>4

LEMMA CallType ==
  ASSUME TypeOK, NEW h \in Handlers,
         \/ CallAccepted(h) \/ CallRejected(h) \/ CallReplyLost(h)
         \/ CallFails(h) \/ CallRefused(h),
         UNCHANGED relay
  PROVE  TypeOK'
<1>1. reqs[h] \in Request
  BY DEF TypeOK, CallAccepted, CallRejected, CallReplyLost, CallFails, CallRefused,
         Called, Busy
<1>2. [reqs[h] EXCEPT !.stage = "commit"] \in Request
  BY <1>1 DEF Request
<1>3. reqs' \in [Handlers -> Request \cup {None}]
  BY <1>1, <1>2 DEF TypeOK, CallAccepted, CallRejected, CallReplyLost, CallFails,
                    CallRefused, Finish
<1>4. causes' \in [Nodes -> SUBSET Causes]
  BY AccuseType DEF TypeOK, CallAccepted, CallRejected, CallReplyLost, CallFails,
                    CallRefused, Causes
<1>5. listeners' \in [Nodes -> [Ports -> Conf \cup {None}]]
  <2>1. Called(h) => listeners' \in [Nodes -> [Ports -> Conf \cup {None}]]
    <3>1. reqs[h].row.node \in Nodes
      BY <1>1 DEF Request, Row
    <3>. QED
      BY <1>1, <3>1, EffectType DEF TypeOK, Called
  <2>. QED
    BY <2>1 DEF TypeOK, CallAccepted, CallRejected, CallReplyLost, CallFails, CallRefused
<1>. QED
  BY <1>3, <1>4, <1>5
     DEF TypeOK, CallAccepted, CallRejected, CallReplyLost, CallFails, CallRefused,
         Called, db

LEMMA CommitType ==
  ASSUME TypeOK, NEW h \in Handlers,
         CommitAdd(h) \/ CommitDel(h) \/ CommitMove(h) \/ CommitFails(h),
         UNCHANGED relay
  PROVE  TypeOK'
<1>1. reqs[h] \in Request
  BY DEF TypeOK, CommitAdd, CommitDel, CommitMove, CommitFails, Committing, Busy
<1>2. CASE CommitAdd(h)
  <2>1. reqs[h].target \in Row
    BY <1>1 DEF Request
  <2>. QED
    BY <1>2, <2>1 DEF TypeOK, CommitAdd, Finish
<1>3. CASE CommitDel(h)
  BY <1>3 DEF TypeOK, CommitDel, Finish
<1>4. CASE CommitMove(h)
  <2>1. rows' \in [RuleIds -> Row \cup {None}]
    <3>1. rows[reqs[h].rule] # None /\ reqs[h].rule \in RuleIds
            => Saved(rows[reqs[h].rule], reqs[h]) \in Row
      BY <1>1, SavedType DEF TypeOK
    <3>. QED
      BY <1>4, <3>1 DEF TypeOK, CommitMove
  <2>2. reqs' \in [Handlers -> Request \cup {None}]
    <3>1. reqs[h].target.host \in Hosts /\ reqs[h].todo \in SUBSET Seen
      BY <1>1 DEF Request, Row
    <3>2. \A e \in reqs[h].todo :
            BulkItem(e, reqs[h].target.host, reqs[h].todo \ {e}) \in Request
      BY <3>1, BulkItemType
    <3>. QED
      BY <1>4, <3>2 DEF TypeOK, CommitMove, Finish
  <2>. QED
    BY <1>4, <2>1, <2>2 DEF TypeOK, CommitMove
<1>5. CASE CommitFails(h)
  <2>1. causes' \in [Nodes -> SUBSET Causes]
    BY <1>5, AccuseType DEF TypeOK, CommitFails, Causes
  <2>. QED
    BY <1>5, <2>1 DEF TypeOK, CommitFails, Finish, db
<1>. QED
  BY <1>2, <1>3, <1>4, <1>5

LEMMA AgentType ==
  ASSUME TypeOK, NEW n \in Nodes,
         \/ RegisterNode(n) \/ InitAgent(n) \/ InitAgentPanics(n)
         \/ AgentStops(n) \/ DelNode(n),
         UNCHANGED relay
  PROVE  TypeOK'
<1>1. CASE RegisterNode(n)
  <2>1. RowsOf(n) \in SUBSET Seen
    BY DEF RowsOf
  <2>. QED
    BY <1>1, <2>1 DEF TypeOK, RegisterNode
<1>2. CASE InitAgent(n)
  <2>1. Opened(snap[n]) \in [Ports -> Conf \cup {None}]
    BY OpenedType DEF TypeOK
  <2>. QED
    BY <1>2, <2>1 DEF TypeOK, InitAgent, db, Causes
<1>3. CASE InitAgentPanics(n)
  BY <1>3 DEF TypeOK, InitAgentPanics, db
<1>4. CASE AgentStops(n)
  BY <1>4 DEF TypeOK, AgentStops, db, Empty
<1>5. CASE DelNode(n)
  <2>1. causes' \in [Nodes -> SUBSET Causes]
    BY <1>5, AccuseType DEF TypeOK, DelNode, Causes
  <2>. QED
    BY <1>5, <2>1 DEF TypeOK, DelNode
<1>. QED
  BY <1>1, <1>2, <1>3, <1>4, <1>5

LEMMA InitType == Init => TypeOK
BY DEF Init, TypeOK, Empty

\* What the worker's goroutines ask for is rows, whatever has become of them.
LEMMA RelayType == TypeOK /\ Relay => TypeOK'
<1>. SUFFICES ASSUME TypeOK, Relay PROVE TypeOK'
  OBVIOUS
<1>1. CASE RelayStarts
  <2>1. UNION {RowsOf(n) : n \in Nodes} \subseteq Seen
    BY DEF RowsOf
  <2>2. relay' \subseteq Seen
    BY <1>1, <2>1 DEF RelayStarts
  <2>. QED
    BY <1>1, <2>2 DEF TypeOK, RelayStarts, db
<1>2. CASE RelayStops
  BY <1>2 DEF TypeOK, RelayStops, db
<1>3. ASSUME NEW e \in relay, RelayAdds(e) PROVE TypeOK'
  <2>1. e[2] \in Row /\ e[2].port \in Ports /\ ConfOf(e[2]) \in Conf
    BY ConfOfType DEF TypeOK, Seen, Row
  <2>2. listeners' \in [Nodes -> [Ports -> Conf \cup {None}]]
    BY <1>3, <2>1 DEF TypeOK, RelayAdds
  <2>3. causes' \in [Nodes -> SUBSET Causes]
    BY <1>3, AccuseType DEF TypeOK, RelayAdds, Causes
  <2>4. relay' \subseteq Seen
    BY <1>3 DEF TypeOK, RelayAdds
  <2>. QED
    BY <1>3, <2>2, <2>3, <2>4 DEF TypeOK, RelayAdds, db
<1>. QED
  BY <1>1, <1>2, <1>3 DEF Relay

LEMMA NextType == TypeOK /\ [Next]_vars => TypeOK'
<1>. SUFFICES ASSUME TypeOK, [Next]_vars PROVE TypeOK'
  OBVIOUS
<1>1. CASE UNCHANGED vars
  BY <1>1 DEF vars, TypeOK
<1>2. ASSUME NEW h \in Handlers, HandlerStep(h), UNCHANGED relay PROVE TypeOK'
  BY <1>2, BeginType, CallType, CommitType DEF HandlerStep
<1>3. ASSUME NEW n \in Nodes, AgentStep(n), UNCHANGED relay PROVE TypeOK'
  BY <1>3, AgentType DEF AgentStep
<1>4. ASSUME Disturbance, UNCHANGED relay PROVE TypeOK'
  <2>1. ASSUME NEW r \in RuleIds, DelDangling(r) PROVE TypeOK'
    BY <1>4, <2>1 DEF TypeOK, DelDangling
  <2>. QED
    BY <1>4, <2>1, CallType, CommitType, AgentType DEF Disturbance
<1>. QED
  BY <1>1, <1>2, <1>3, <1>4, RelayType DEF Next, Forwarding

\* Every variable keeps its type whatever the handlers, agents and failures do.
THEOREM TypeCorrect == Spec => []TypeOK
<1>. QED
  BY InitType, NextType, PTL DEF Spec

-----------------------------------------------------------------------------
(* No orphan: the steps that preserve OrphanInv, one lemma per step. *)

\* The parts of a busy handler's request, as the proofs use them.
LEMMA RequestParts ==
  ASSUME NEW q \in Request
  PROVE  /\ q # None
         /\ q.op \in {"add", "del", "move", "bulk"}
         /\ q.stage \in {"call", "commit"}
         /\ q.row \in Row /\ q.target \in Row /\ q.sent \in Conf
         /\ q.row.node \in Nodes /\ q.row.port \in Ports
         /\ q.target.node \in Nodes /\ q.target.port \in Ports
         /\ q.rule \in RuleIds \cup {None}
         /\ q.todo \in SUBSET Seen
BY ConstantAssumption DEF Request, Row

\* What a running handler has read is rows of known nodes.
LEMMA SeenTyped ==
  ASSUME TypeOK, OrphanInv
  PROVE  \A g \in Handlers : Busy(g) => \A f \in SeenBy(reqs[g]) :
           f[2] \in Row /\ f[2].node \in Nodes /\ f[1] \in RuleIds
<1>. SUFFICES ASSUME NEW g \in Handlers, Busy(g), NEW f \in SeenBy(reqs[g])
              PROVE  f[2] \in Row /\ f[2].node \in Nodes /\ f[1] \in RuleIds
  OBVIOUS
<1>1. reqs[g] \in Request /\ WellFormed(reqs[g])
  BY DEF TypeOK, Busy, OrphanInv, RequestsWellFormed
<1>2. f[1] \in RuleIds
  BY <1>1 DEF WellFormed, TypeOK
<1>3. f[2] \in Row
  BY <1>1, RequestParts DEF SeenBy, Seen
<1>. QED
  BY <1>2, <1>3 DEF Row

\* A running handler's request, with what OrphanInv says of it.
LEMMA BusyParts ==
  ASSUME TypeOK, OrphanInv, NEW g \in Handlers, Busy(g)
  PROVE  /\ reqs[g] \in Request
         /\ WellFormed(reqs[g])
         /\ reqs[g].op = "add" => reqs[g].rule = None
         /\ reqs[g].op # "add" => /\ reqs[g].rule \in RuleIds
                                 /\ <<reqs[g].rule, reqs[g].row>> \in SeenBy(reqs[g])
<1>1. reqs[g] \in Request /\ WellFormed(reqs[g])
  BY DEF TypeOK, Busy, OrphanInv, RequestsWellFormed
<1>2. reqs[g].op # "add" => <<reqs[g].rule, reqs[g].row>> \in SeenBy(reqs[g])
  BY DEF SeenBy
<1>. QED
  BY <1>1, <1>2, SeenTyped DEF WellFormed

\* A started handler reads rows as they are, and is not yet past its call.
LEMMA StartOrphan ==
  ASSUME TypeOK, OrphanInv, NEW h \in Handlers, ~Busy(h),
         NEW q \in Request, NEW S \in SUBSET RuleIds,
         q.stage = "call", WellFormed(q),
         \A e \in SeenBy(q) : e[1] \in S /\ rows[e[1]] = e[2] /\ rows[e[1]] # None,
         Start(h, q, S)
  PROVE  OrphanInv'
<1>. DEFINE taken == {r \in S : \E g \in Handlers : Busy(g) /\ r \in Touches(reqs[g])}
            ns == {rows[r].node : r \in taken}
<1>1. /\ UNCHANGED <<rows, born, nodes, registered, agent, snap, listeners>>
      /\ reqs' = [reqs EXCEPT ![h] = q]
      /\ causes' = [n \in Nodes |-> IF n \in ns THEN causes[n] \cup {"overlap"} ELSE causes[n]]
  BY DEF Start, db, Accuse
<1>2. /\ reqs'[h] = q /\ q # None
      /\ \A g \in Handlers : g # h => reqs'[g] = reqs[g]
  BY <1>1, RequestParts DEF TypeOK
<1>3. \A n \in Nodes : causes[n] \subseteq causes'[n]
  BY <1>1
<1>4. DownIsSilent' /\ LiveIsBorn'
  BY <1>1 DEF OrphanInv, DownIsSilent, LiveIsBorn, Empty
<1>5. GoneIsBlamed'
  BY <1>1, <1>3 DEF OrphanInv, GoneIsBlamed
<1>6. RequestsWellFormed'
  BY <1>1, <1>2 DEF OrphanInv, RequestsWellFormed, WellFormed, Busy
<1>7. NodeStable'
  BY <1>1, <1>2 DEF OrphanInv, NodeStable, Busy
<1>8. \A g \in Handlers : Busy(g) => \A f \in SeenBy(reqs[g]) : f[2].node \in Nodes /\ f[1] \in RuleIds
  BY SeenTyped
<1>9. OverlapBlamed'
  <2>. SUFFICES ASSUME NEW g \in Handlers, NEW k \in Handlers, g # k, Busy(g)', Busy(k)',
                       NEW e \in SeenBy(reqs'[g]), NEW f \in SeenBy(reqs'[k]), e[1] = f[1]
                PROVE  "overlap" \in causes'[e[2].node]
    BY DEF OverlapBlamed
  <2>1. CASE g # h /\ k # h
    BY <2>1, <1>2, <1>3, <1>8 DEF OrphanInv, OverlapBlamed, Busy
  <2>2. CASE g = h
    <3>1. k # h /\ Busy(k) /\ f \in SeenBy(reqs[k])
      BY <2>2, <1>2 DEF Busy
    <3>2. f[1] \in Touches(reqs[k])
      BY <3>1 DEF SeenBy, Touches
    <3>3. e[1] \in taken /\ rows[e[1]] = e[2] /\ rows[e[1]] # None
      BY <2>2, <1>2, <3>1, <3>2
    <3>4. e[2] \in Row
      BY <3>3 DEF TypeOK
    <3>5. e[2].node \in ns /\ e[2].node \in Nodes
      BY <3>3, <3>4 DEF Row
    <3>. QED
      BY <3>5, <1>1
  <2>3. CASE k = h
    <3>1. g # h /\ Busy(g) /\ e \in SeenBy(reqs[g])
      BY <2>3, <1>2 DEF Busy
    <3>2. e[1] \in Touches(reqs[g])
      BY <3>1 DEF SeenBy, Touches
    <3>3. f[1] \in taken /\ rows[f[1]] = f[2] /\ rows[f[1]] # None
      BY <2>3, <1>2, <3>1, <3>2
    <3>4. rows[e[1]].node = e[2].node
      BY <3>1, <3>3 DEF OrphanInv, NodeStable
    <3>5. e[2].node \in ns /\ e[2].node \in Nodes
      BY <3>1, <3>3, <3>4, <1>8
    <3>. QED
      BY <3>5, <1>1
  <2>. QED
    BY <2>1, <2>2, <2>3
<1>10. StillFresh'
  <2>. SUFFICES ASSUME NEW g \in Handlers, Busy(g)', NEW e \in SeenBy(reqs'[g]),
                       causes'[e[2].node] \cap OrphanCauses = {}
                PROVE  rows[e[1]] = e[2]
    BY <1>1 DEF StillFresh
  <2>1. CASE g = h
    BY <2>1, <1>2
  <2>2. CASE g # h
    <3>1. Busy(g) /\ e \in SeenBy(reqs[g])
      BY <2>2, <1>2 DEF Busy
    <3>2. causes[e[2].node] \cap OrphanCauses = {}
      BY <3>1, <1>3, <1>8
    <3>. QED
      BY <3>1, <3>2 DEF OrphanInv, StillFresh
  <2>. QED
    BY <2>1, <2>2
<1>11. NoOrphan'
  <2>1. \A g \in Handlers : Committing(g)' <=> Committing(g)
    BY <1>2 DEF Committing, Busy
  <2>2. \A g \in Handlers : Committing(g) => reqs'[g] = reqs[g]
    BY <1>2 DEF Committing, Busy
  <2>3. \A n \in Nodes, p \in Ports : Backed(n, p) => Backed(n, p)'
    BY <1>1, <2>1, <2>2 DEF Backed, RowAt, Leaving, BoundFor
  <2>4. \A n \in Nodes : causes'[n] \cap OrphanCauses = {} => causes[n] \cap OrphanCauses = {}
    BY <1>3
  <2>. QED
    BY <1>1, <2>3, <2>4 DEF OrphanInv, NoOrphan
<1>. QED
  BY <1>4, <1>5, <1>6, <1>7, <1>9, <1>10, <1>11 DEF OrphanInv

\* The rules of a node that a handler is about to take off a port are its own.
LEMMA LeavingOwn ==
  ASSUME TypeOK, OrphanInv, NEW g \in Handlers, Busy(g),
         NEW r \in RuleIds, rows[r] # None, reqs[g].rule = r
  PROVE  /\ reqs[g].op # "add"
         /\ rows[r].node = reqs[g].row.node
<1>1. reqs[g].op # "add"
  BY BusyParts, NoneApart
<1>2. <<r, reqs[g].row>> \in SeenBy(reqs[g])
  BY <1>1, BusyParts
<1>. QED
  BY <1>1, <1>2 DEF OrphanInv, NodeStable

\* Steps that touch no row and only advance or end handlers keep the bookkeeping.
LEMMA Bookkeeping ==
  ASSUME TypeOK, OrphanInv, UNCHANGED <<rows, born>>,
         \A n \in Nodes : causes[n] \subseteq causes'[n],
         \A n \in Nodes \ nodes' : n \notin nodes \/ "node_deleted" \in causes'[n],
         \A g \in Handlers : \/ reqs'[g] = None
                             \/ reqs'[g] = reqs[g]
                             \/ Busy(g) /\ reqs'[g] = [reqs[g] EXCEPT !.stage = "commit"]
  PROVE  LiveIsBorn' /\ GoneIsBlamed' /\ RequestsWellFormed' /\ NodeStable'
         /\ OverlapBlamed' /\ StillFresh'
<1>1. ASSUME NEW g \in Handlers, Busy(g)'
      PROVE  Busy(g) /\ SeenBy(reqs'[g]) = SeenBy(reqs[g])
             /\ (WellFormed(reqs[g]) => WellFormed(reqs[g])')
  <2>1. Busy(g)
    BY <1>1 DEF Busy
  <2>2. reqs[g] \in Request
    BY <2>1 DEF TypeOK, Busy
  <2>3. \/ reqs'[g] = reqs[g]
        \/ reqs'[g] = [reqs[g] EXCEPT !.stage = "commit"]
    BY <1>1 DEF Busy
  <2>4. /\ reqs'[g].op = reqs[g].op /\ reqs'[g].rule = reqs[g].rule
        /\ reqs'[g].row = reqs[g].row /\ reqs'[g].target = reqs[g].target
        /\ reqs'[g].todo = reqs[g].todo
    BY <2>2, <2>3 DEF Request
  <2>5. SeenBy(reqs'[g]) = SeenBy(reqs[g])
    BY <2>4 DEF SeenBy
  <2>. QED
    BY <2>1, <2>4, <2>5 DEF WellFormed
<1>2. \A g \in Handlers : Busy(g) => \A e \in SeenBy(reqs[g]) : e[2].node \in Nodes
  BY SeenTyped
<1>3. LiveIsBorn'
  BY DEF OrphanInv, LiveIsBorn
<1>4. GoneIsBlamed'
  BY DEF OrphanInv, GoneIsBlamed
<1>5. RequestsWellFormed'
  BY <1>1 DEF OrphanInv, RequestsWellFormed
<1>6. NodeStable'
  BY <1>1 DEF OrphanInv, NodeStable
<1>7. OverlapBlamed'
  <2>. SUFFICES ASSUME NEW g \in Handlers, NEW k \in Handlers, g # k, Busy(g)', Busy(k)',
                       NEW e \in SeenBy(reqs'[g]), NEW f \in SeenBy(reqs'[k]), e[1] = f[1]
                PROVE  "overlap" \in causes'[e[2].node]
    BY DEF OverlapBlamed
  <2>. QED
    BY <1>1, <1>2 DEF OrphanInv, OverlapBlamed
<1>8. StillFresh'
  <2>. SUFFICES ASSUME NEW g \in Handlers, Busy(g)', NEW e \in SeenBy(reqs'[g]),
                       causes'[e[2].node] \cap OrphanCauses = {}
                PROVE  rows[e[1]] = e[2]
    BY DEF StillFresh
  <2>1. Busy(g) /\ e \in SeenBy(reqs[g])
    BY <1>1
  <2>2. causes[e[2].node] \cap OrphanCauses = {}
    BY <2>1, <1>2
  <2>. QED
    BY <2>1, <2>2 DEF OrphanInv, StillFresh
<1>. QED
  BY <1>3, <1>4, <1>5, <1>6, <1>7, <1>8

\* A call that the agent acts on leaves every other agent's port table alone.
LEMMA CalledParts ==
  ASSUME TypeOK, OrphanInv, NEW h \in Handlers, Called(h)
  PROVE  /\ Busy(h) /\ ~Committing(h)
         /\ \A n \in Nodes : n # reqs[h].row.node => listeners'[n] = listeners[n]
         /\ listeners'[reqs[h].row.node] = Effect(reqs[h], listeners[reqs[h].row.node])
         /\ agent[reqs[h].row.node] = "up"
         /\ UNCHANGED <<rows, born, nodes, agent>>
         /\ DownIsSilent'
         /\ reqs[h] \in Request /\ reqs[h].row.node \in Nodes
         /\ reqs[h].row.port \in Ports /\ reqs[h].target.port \in Ports
         /\ listeners[reqs[h].row.node] \in [Ports -> Conf \cup {None}]
<1>1. Busy(h) /\ ~Committing(h) /\ agent[reqs[h].row.node] = "up"
  BY DEF Called, Committing
<1>2. reqs[h] \in Request /\ reqs[h].row.node \in Nodes
      /\ reqs[h].row.port \in Ports /\ reqs[h].target.port \in Ports
  BY <1>1, BusyParts, RequestParts
<1>3. /\ \A n \in Nodes : n # reqs[h].row.node => listeners'[n] = listeners[n]
      /\ listeners'[reqs[h].row.node] = Effect(reqs[h], listeners[reqs[h].row.node])
      /\ UNCHANGED <<rows, born, nodes, agent>>
  BY <1>2 DEF Called, db, TypeOK
<1>4. DownIsSilent'
  BY <1>1, <1>3 DEF OrphanInv, DownIsSilent, Empty
<1>. QED
  BY <1>1, <1>2, <1>3, <1>4 DEF TypeOK

\* Once a handler has its answer, the rule it leaves is on its own node and port.
LEMMA StillBacked ==
  ASSUME TypeOK, OrphanInv, NEW h \in Handlers, Busy(h), ~Committing(h),
         UNCHANGED rows, reqs' = [reqs EXCEPT ![h].stage = "commit"],
         NEW n \in Nodes, NEW p \in Ports, Backed(n, p),
         causes[n] \cap OrphanCauses = {},
         n = reqs[h].row.node => reqs[h].op = "add" \/ p # reqs[h].row.port
  PROVE  Backed(n, p)'
<1>1. reqs[h] \in Request /\ reqs[h] # None
  BY BusyParts, RequestParts
<1>2. \A g \in Handlers : g # h => reqs'[g] = reqs[g]
  OBVIOUS
<1>3. /\ reqs'[h].rule = reqs[h].rule /\ reqs'[h].row = reqs[h].row
      /\ reqs'[h].target = reqs[h].target /\ reqs'[h].op = reqs[h].op
  BY <1>1 DEF TypeOK, Request
<1>4. CASE \E r \in RuleIds : RowAt(r, n, p) /\ ~Leaving(r)
  <2>1. PICK r \in RuleIds : RowAt(r, n, p) /\ ~Leaving(r)
    BY <1>4
  <2>2. reqs[h].rule # r
    <3>. SUFFICES ASSUME reqs[h].rule = r PROVE FALSE
      OBVIOUS
    <3>1. reqs[h].op # "add" /\ reqs[h].row.node = n
      BY <2>1, LeavingOwn DEF RowAt
    <3>2. <<r, reqs[h].row>> \in SeenBy(reqs[h])
      BY <3>1, BusyParts
    <3>3. rows[r] = reqs[h].row
      BY <3>1, <3>2 DEF OrphanInv, StillFresh
    <3>. QED
      BY <2>1, <3>1, <3>3 DEF RowAt
  <2>3. ~Leaving(r)'
    BY <1>2, <1>3, <2>1, <2>2 DEF Leaving, Committing, Busy
  <2>. QED
    BY <2>1, <2>3 DEF Backed, RowAt
<1>5. CASE \E g \in Handlers : BoundFor(g, n, p)
  <2>1. PICK g \in Handlers : BoundFor(g, n, p)
    BY <1>5
  <2>2. g # h
    BY <2>1 DEF BoundFor
  <2>. QED
    BY <1>2, <2>1, <2>2 DEF Backed, BoundFor, Committing, Busy
<1>. QED
  BY <1>4, <1>5 DEF Backed

\* Ending a request that was not past its call backs what was backed.
LEMMA EndedBacked ==
  ASSUME TypeOK, NEW h \in Handlers, ~Committing(h), UNCHANGED rows, Finish(h),
         NEW n \in Nodes, NEW p \in Ports, Backed(n, p)
  PROVE  Backed(n, p)'
<1>1. \A g \in Handlers : g # h => reqs'[g] = reqs[g]
  BY DEF Finish
<1>2. reqs'[h] = None
  BY DEF Finish, TypeOK
<1>3. \A g \in Handlers : Committing(g)' <=> Committing(g)
  BY <1>1, <1>2 DEF Committing, Busy
<1>. QED
  BY <1>1, <1>3 DEF Backed, RowAt, Leaving, BoundFor

LEMMA CallAcceptedOrphan ==
  ASSUME TypeOK, OrphanInv, NEW h \in Handlers, CallAccepted(h)
  PROVE  OrphanInv'
<1>. DEFINE q == reqs[h]
            m == reqs[h].row.node
<1>1. Called(h)
  BY DEF CallAccepted
<1>2. \A n \in Nodes : causes[n] \subseteq causes'[n]
  BY DEF CallAccepted, Accuse
<1>3. reqs' = [reqs EXCEPT ![h].stage = "commit"]
  BY DEF CallAccepted
<1>4. LiveIsBorn' /\ GoneIsBlamed' /\ RequestsWellFormed' /\ NodeStable'
      /\ OverlapBlamed' /\ StillFresh'
  <2>1. \A g \in Handlers : \/ reqs'[g] = reqs[g]
                            \/ Busy(g) /\ reqs'[g] = [reqs[g] EXCEPT !.stage = "commit"]
    BY <1>1, <1>3, CalledParts DEF TypeOK
  <2>2. \A n \in Nodes \ nodes' : n \notin nodes
    BY <1>1, CalledParts
  <2>. QED
    BY <1>1, <1>2, <2>1, <2>2, Bookkeeping, CalledParts
<1>5. NoOrphan'
  <2>. SUFFICES ASSUME NEW n \in Nodes, causes'[n] \cap OrphanCauses = {},
                       NEW p \in Ports, listeners'[n][p] # None
                PROVE  Backed(n, p)'
    BY DEF NoOrphan
  <2>1. causes[n] \cap OrphanCauses = {}
    BY <1>2
  <2>2. CASE n # m
    <3>1. Backed(n, p)
      BY <1>1, <2>1, <2>2, CalledParts DEF OrphanInv, NoOrphan
    <3>. QED
      BY <1>1, <1>3, <2>1, <2>2, <3>1, CalledParts, StillBacked
  <2>3. CASE n = m /\ q.op # "del" /\ p = q.target.port
    <3>1. reqs'[h].op = q.op /\ reqs'[h].target = q.target /\ Committing(h)'
      <4>1. reqs'[h] = [q EXCEPT !.stage = "commit"] /\ q \in Request
        BY <1>1, <1>3, CalledParts DEF TypeOK
      <4>2. reqs'[h] \in Request /\ reqs'[h].stage = "commit"
            /\ reqs'[h].op = q.op /\ reqs'[h].target = q.target
        BY <4>1 DEF Request
      <4>. QED
        BY <4>2, NoneApart DEF Committing, Busy
    <3>2. q.target.node = m
      BY <1>1, CalledParts, BusyParts DEF WellFormed
    <3>. QED
      BY <2>3, <3>1, <3>2 DEF Backed, BoundFor
  <2>4. CASE n = m /\ (q.op = "del" \/ p # q.target.port)
    <3>1. Effect(q, listeners[m])[p] = Freed(q, listeners[m])[p]
      BY <1>1, <2>4, CalledParts DEF Effect, Freed
    <3>2. listeners[m][p] # None /\ (q.op = "add" \/ p # q.row.port)
      BY <1>1, <2>4, <3>1, CalledParts DEF Freed
    <3>3. Backed(n, p)
      BY <2>1, <2>4, <3>2 DEF OrphanInv, NoOrphan
    <3>. QED
      BY <1>1, <1>3, <2>1, <3>2, <3>3, CalledParts, StillBacked
  <2>. QED
    BY <2>2, <2>3, <2>4
<1>. QED
  BY <1>1, <1>4, <1>5, CalledParts DEF OrphanInv

\* A refused port closes a listener at most; a lost reply is blamed.
LEMMA CallEndsOrphan ==
  ASSUME TypeOK, OrphanInv, NEW h \in Handlers,
         CallRejected(h) \/ CallReplyLost(h) \/ CallFails(h)
  PROVE  OrphanInv'
<1>1. \A n \in Nodes : causes[n] \subseteq causes'[n]
  BY DEF CallRejected, CallReplyLost, CallFails, Accuse
<1>2. Finish(h) /\ UNCHANGED <<rows, born, nodes>> /\ ~Committing(h)
  BY DEF CallRejected, CallReplyLost, CallFails, Called, db, Committing
<1>3. LiveIsBorn' /\ GoneIsBlamed' /\ RequestsWellFormed' /\ NodeStable'
      /\ OverlapBlamed' /\ StillFresh'
  <2>1. \A g \in Handlers : reqs'[g] = reqs[g] \/ reqs'[g] = None
    BY <1>2 DEF Finish, TypeOK
  <2>. QED
    BY <1>1, <1>2, <2>1, Bookkeeping
<1>4. DownIsSilent'
  BY CalledParts DEF OrphanInv, DownIsSilent, CallRejected, CallReplyLost, CallFails, Empty
<1>5. ASSUME NEW n \in Nodes, causes'[n] \cap OrphanCauses = {},
             NEW p \in Ports, listeners'[n][p] # None
      PROVE  listeners[n][p] # None
  <2>1. CASE CallFails(h)
    BY <2>1, <1>5 DEF CallFails
  <2>2. CASE CallRejected(h)
    <3>1. Called(h) /\ ~Accepted(reqs[h], listeners[reqs[h].row.node])
      BY <2>2 DEF CallRejected
    <3>2. n = reqs[h].row.node => listeners'[n] = Freed(reqs[h], listeners[n])
      BY <3>1, CalledParts DEF Effect
    <3>. QED
      BY <1>5, <3>1, <3>2, CalledParts DEF Freed
  <2>3. CASE CallReplyLost(h)
    <3>1. Called(h)
      BY <2>3 DEF CallReplyLost
    <3>2. "lost_reply" \in causes'[reqs[h].row.node]
      BY <2>3, <3>1, CalledParts DEF CallReplyLost, Accuse
    <3>3. n # reqs[h].row.node
      BY <1>5, <3>2 DEF OrphanCauses
    <3>. QED
      BY <1>5, <3>1, <3>3, CalledParts
  <2>. QED
    BY <2>1, <2>2, <2>3
<1>6. NoOrphan'
  <2>. SUFFICES ASSUME NEW n \in Nodes, causes'[n] \cap OrphanCauses = {},
                       NEW p \in Ports, listeners'[n][p] # None
                PROVE  Backed(n, p)'
    BY DEF NoOrphan
  <2>1. causes[n] \cap OrphanCauses = {}
    BY <1>1
  <2>2. Backed(n, p)
    BY <1>5, <2>1 DEF OrphanInv, NoOrphan
  <2>. QED
    BY <1>2, <2>2, EndedBacked
<1>. QED
  BY <1>3, <1>4, <1>6 DEF OrphanInv

\* The refused call means the agent does not run, so it holds no listener.
LEMMA CallRefusedOrphan ==
  ASSUME TypeOK, OrphanInv, NEW h \in Handlers, CallRefused(h)
  PROVE  OrphanInv'
<1>1. /\ Busy(h) /\ ~Committing(h) /\ agent[reqs[h].row.node] # "up"
      /\ reqs' = [reqs EXCEPT ![h].stage = "commit"]
      /\ UNCHANGED <<rows, born, nodes, agent, listeners, causes>>
  BY DEF CallRefused, Committing, db
<1>2. LiveIsBorn' /\ GoneIsBlamed' /\ RequestsWellFormed' /\ NodeStable'
      /\ OverlapBlamed' /\ StillFresh'
  <2>1. \A g \in Handlers : \/ reqs'[g] = reqs[g]
                            \/ Busy(g) /\ reqs'[g] = [reqs[g] EXCEPT !.stage = "commit"]
    BY <1>1 DEF TypeOK
  <2>2. /\ \A n \in Nodes \ nodes' : n \notin nodes
        /\ \A n \in Nodes : causes[n] \subseteq causes'[n]
    BY <1>1
  <2>. QED
    BY <1>1, <2>1, <2>2, Bookkeeping
<1>3. DownIsSilent'
  BY <1>1 DEF OrphanInv, DownIsSilent, Empty
<1>4. NoOrphan'
  <2>. SUFFICES ASSUME NEW n \in Nodes, causes[n] \cap OrphanCauses = {},
                       NEW p \in Ports, listeners[n][p] # None
                PROVE  Backed(n, p)'
    BY <1>1 DEF NoOrphan
  <2>1. Backed(n, p)
    BY DEF OrphanInv, NoOrphan
  <2>2. n # reqs[h].row.node
    BY <1>1 DEF OrphanInv, DownIsSilent, Empty
  <2>. QED
    BY <1>1, <2>1, <2>2, StillBacked
<1>. QED
  BY <1>2, <1>3, <1>4 DEF OrphanInv

\* The bookkeeping after a write to row r by handler h, which read it and is done with it.
LEMMA WriteBookkeeping ==
  ASSUME TypeOK, OrphanInv, NEW h \in Handlers, Busy(h), reqs[h].op # "add",
         UNCHANGED <<born, nodes, causes>>,
         \A s \in RuleIds : s # reqs[h].rule => rows'[s] = rows[s],
         rows[reqs[h].rule] = None => rows'[reqs[h].rule] = None,
         rows'[reqs[h].rule] # None => rows'[reqs[h].rule].node = rows[reqs[h].rule].node,
         \A g \in Handlers : g # h => reqs'[g] = reqs[g],
         Busy(h)' => /\ WellFormed(reqs[h])'
                     /\ SeenBy(reqs'[h]) \subseteq SeenBy(reqs[h]) \ {<<reqs[h].rule, reqs[h].row>>}
  PROVE  LiveIsBorn' /\ GoneIsBlamed' /\ RequestsWellFormed' /\ NodeStable'
         /\ OverlapBlamed' /\ StillFresh'
<1>. DEFINE r == reqs[h].rule
<1>1. r \in RuleIds /\ <<r, reqs[h].row>> \in SeenBy(reqs[h])
  BY BusyParts
<1>2. ASSUME NEW g \in Handlers, Busy(g)'
      PROVE  Busy(g) /\ SeenBy(reqs'[g]) \subseteq SeenBy(reqs[g])
  BY <1>2 DEF Busy
<1>3. LiveIsBorn'
  BY DEF OrphanInv, LiveIsBorn
<1>4. GoneIsBlamed'
  BY DEF OrphanInv, GoneIsBlamed
<1>5. RequestsWellFormed'
  <2>. SUFFICES ASSUME NEW g \in Handlers, Busy(g)' PROVE WellFormed(reqs[g])'
    BY DEF RequestsWellFormed
  <2>1. CASE g = h
    BY <2>1
  <2>2. CASE g # h
    <3>1. Busy(g) /\ WellFormed(reqs[g]) /\ reqs'[g] = reqs[g]
      BY <2>2 DEF OrphanInv, RequestsWellFormed, Busy
    <3>. QED
      BY <3>1 DEF WellFormed, SeenBy
  <2>. QED
    BY <2>1, <2>2
<1>6. NodeStable'
  <2>. SUFFICES ASSUME NEW g \in Handlers, Busy(g)', NEW e \in SeenBy(reqs'[g]),
                       rows'[e[1]] # None
                PROVE  rows'[e[1]].node = e[2].node
    BY DEF NodeStable
  <2>1. Busy(g) /\ e \in SeenBy(reqs[g])
    BY <1>2
  <2>2. rows[e[1]] # None => rows[e[1]].node = e[2].node
    BY <2>1 DEF OrphanInv, NodeStable
  <2>3. e[1] \in RuleIds
    BY <2>1, SeenTyped
  <2>. QED
    BY <2>2, <2>3
<1>7. OverlapBlamed'
  <2>. SUFFICES ASSUME NEW g \in Handlers, NEW k \in Handlers, g # k, Busy(g)', Busy(k)',
                       NEW e \in SeenBy(reqs'[g]), NEW f \in SeenBy(reqs'[k]), e[1] = f[1]
                PROVE  "overlap" \in causes[e[2].node]
    BY DEF OverlapBlamed
  <2>. QED
    BY <1>2 DEF OrphanInv, OverlapBlamed
<1>8. StillFresh'
  <2>. SUFFICES ASSUME NEW g \in Handlers, Busy(g)', NEW e \in SeenBy(reqs'[g]),
                       causes[e[2].node] \cap OrphanCauses = {}
                PROVE  rows'[e[1]] = e[2]
    BY DEF StillFresh
  <2>1. Busy(g) /\ e \in SeenBy(reqs[g])
    BY <1>2
  <2>2. rows[e[1]] = e[2] /\ e[1] \in RuleIds
    BY <2>1, SeenTyped DEF OrphanInv, StillFresh
  <2>3. e[1] # r
    <3>. SUFFICES ASSUME e[1] = r PROVE FALSE
      OBVIOUS
    <3>1. CASE g # h
      <4>1. "overlap" \in causes[e[2].node]
        BY <1>1, <2>1, <3>1 DEF OrphanInv, OverlapBlamed
      <4>. QED
        BY <4>1 DEF OrphanCauses
    <3>2. CASE g = h
      <4>1. e \in reqs[h].todo
        <5>1. e # <<r, reqs[h].row>>
          BY <3>2
        <5>. QED
          BY <2>1, <3>2, <5>1 DEF SeenBy
      <4>. QED
        BY <4>1, BusyParts DEF WellFormed
    <3>. QED
      BY <3>1, <3>2
  <2>. QED
    BY <2>2, <2>3
<1>. QED
  BY <1>3, <1>4, <1>5, <1>6, <1>7, <1>8

\* A new row backs the port that its request backed.
LEMMA CommitAddOrphan ==
  ASSUME TypeOK, OrphanInv, NEW h \in Handlers, CommitAdd(h)
  PROVE  OrphanInv'
<1>1. PICK r \in RuleIds \ born :
        rows' = [rows EXCEPT ![r] = reqs[h].target] /\ born' = born \cup {r}
  BY DEF CommitAdd
<1>2. /\ Committing(h) /\ Busy(h) /\ reqs[h].op = "add"
      /\ UNCHANGED <<nodes, agent, listeners, causes>>
      /\ reqs'[h] = None /\ \A g \in Handlers : g # h => reqs'[g] = reqs[g]
  BY DEF CommitAdd, Committing, Finish, TypeOK
<1>3. rows[r] = None /\ rows'[r] = reqs[h].target
      /\ \A s \in RuleIds : s # r => rows'[s] = rows[s]
  BY <1>1 DEF OrphanInv, LiveIsBorn, TypeOK
<1>4. ASSUME NEW g \in Handlers, Busy(g)'
      PROVE  Busy(g) /\ reqs'[g] = reqs[g] /\ g # h
  BY <1>2, <1>4 DEF Busy
<1>5. ASSUME NEW g \in Handlers, Busy(g)
      PROVE  \A e \in SeenBy(reqs[g]) : e[1] # r /\ e[1] \in RuleIds
  <2>1. WellFormed(reqs[g])
    BY <1>5 DEF OrphanInv, RequestsWellFormed
  <2>. QED
    BY <1>1, <1>5, <2>1, SeenTyped DEF WellFormed
<1>6. DownIsSilent' /\ GoneIsBlamed'
  BY <1>2 DEF OrphanInv, DownIsSilent, GoneIsBlamed, Empty
<1>7. LiveIsBorn'
  BY <1>1, <1>3 DEF OrphanInv, LiveIsBorn
<1>8. RequestsWellFormed'
  <2>. SUFFICES ASSUME NEW g \in Handlers, Busy(g)' PROVE WellFormed(reqs[g])'
    BY DEF RequestsWellFormed
  <2>1. WellFormed(reqs[g]) /\ reqs'[g] = reqs[g]
    BY <1>4 DEF OrphanInv, RequestsWellFormed
  <2>. QED
    BY <1>1, <2>1 DEF WellFormed, SeenBy
<1>9. NodeStable'
  BY <1>3, <1>4, <1>5 DEF OrphanInv, NodeStable
<1>10. OverlapBlamed'
  BY <1>2, <1>4 DEF OrphanInv, OverlapBlamed
<1>11. StillFresh'
  BY <1>2, <1>3, <1>4, <1>5 DEF OrphanInv, StillFresh
<1>12. NoOrphan'
  <2>. SUFFICES ASSUME NEW n \in Nodes, causes[n] \cap OrphanCauses = {},
                       NEW p \in Ports, listeners[n][p] # None
                PROVE  Backed(n, p)'
    BY <1>2 DEF NoOrphan
  <2>1. \A s \in RuleIds : ~Leaving(s) => ~Leaving(s)'
    BY <1>2, <1>4 DEF Leaving, Committing, Busy
  <2>2. ~Leaving(r)
    <3>. SUFFICES ASSUME NEW g \in Handlers, Committing(g), reqs[g].rule = r PROVE FALSE
      BY DEF Leaving
    <3>1. Busy(g) /\ r \in RuleIds
      BY DEF Committing
    <3>2. reqs[g].op # "add"
      BY <3>1, BusyParts, NoneApart
    <3>3. <<r, reqs[g].row>> \in SeenBy(reqs[g])
      BY <3>1, <3>2, BusyParts
    <3>. QED
      BY <1>5, <3>1, <3>3
  <2>3. CASE \E s \in RuleIds : RowAt(s, n, p) /\ ~Leaving(s)
    BY <1>3, <2>1, <2>3 DEF Backed, RowAt
  <2>4. CASE BoundFor(h, n, p)
    <3>1. reqs[h].target # None
      BY <1>2, BusyParts, RequestParts, NoneApart
    <3>2. RowAt(r, n, p)'
      BY <1>3, <2>4, <3>1 DEF BoundFor, RowAt
    <3>. QED
      BY <2>1, <2>2, <3>2 DEF Backed
  <2>5. ASSUME NEW g \in Handlers, g # h, BoundFor(g, n, p)
        PROVE  Backed(n, p)'
    BY <1>2, <2>5 DEF Backed, BoundFor, Committing, Busy
  <2>. QED
    BY <2>3, <2>4, <2>5 DEF Backed, OrphanInv, NoOrphan
<1>. QED
  BY <1>6, <1>7, <1>8, <1>9, <1>10, <1>11, <1>12 DEF OrphanInv

\* The deleted row had been taken off its port by the agent.
LEMMA CommitDelOrphan ==
  ASSUME TypeOK, OrphanInv, NEW h \in Handlers, CommitDel(h)
  PROVE  OrphanInv'
<1>. DEFINE r == reqs[h].rule
<1>1. /\ Committing(h) /\ Busy(h) /\ reqs[h].op = "del"
      /\ UNCHANGED <<born, nodes, agent, listeners, causes>>
      /\ rows' = [rows EXCEPT ![r] = None]
      /\ reqs'[h] = None /\ \A g \in Handlers : g # h => reqs'[g] = reqs[g]
  BY DEF CommitDel, Committing, Finish, TypeOK
<1>2. r \in RuleIds
  BY <1>1, BusyParts
<1>3. rows'[r] = None /\ \A s \in RuleIds : s # r => rows'[s] = rows[s]
  BY <1>1, <1>2 DEF TypeOK
<1>4. LiveIsBorn' /\ GoneIsBlamed' /\ RequestsWellFormed' /\ NodeStable'
      /\ OverlapBlamed' /\ StillFresh'
  <2>1. ~Busy(h)'
    BY <1>1 DEF Busy
  <2>. QED
    BY <1>1, <1>3, <2>1, WriteBookkeeping
<1>5. DownIsSilent'
  BY <1>1 DEF OrphanInv, DownIsSilent, Empty
<1>6. NoOrphan'
  <2>. SUFFICES ASSUME NEW n \in Nodes, causes[n] \cap OrphanCauses = {},
                       NEW p \in Ports, listeners[n][p] # None
                PROVE  Backed(n, p)'
    BY <1>1 DEF NoOrphan
  <2>1. \A s \in RuleIds : ~Leaving(s) => ~Leaving(s)'
    BY <1>1 DEF Leaving, Committing, Busy
  <2>2. Leaving(r)
    BY <1>1 DEF Leaving
  <2>3. CASE \E s \in RuleIds : RowAt(s, n, p) /\ ~Leaving(s)
    BY <1>3, <2>1, <2>2, <2>3 DEF Backed, RowAt
  <2>4. ASSUME NEW g \in Handlers, BoundFor(g, n, p)
        PROVE  Backed(n, p)'
    BY <1>1, <2>4 DEF Backed, BoundFor, Committing, Busy
  <2>. QED
    BY <2>3, <2>4 DEF Backed, OrphanInv, NoOrphan
<1>. QED
  BY <1>4, <1>5, <1>6 DEF OrphanInv

\* The saved row is where the agent already serves it.
LEMMA CommitMoveOrphan ==
  ASSUME TypeOK, OrphanInv, NEW h \in Handlers, CommitMove(h)
  PROVE  OrphanInv'
<1>. DEFINE q == reqs[h]
<1>0. PICK r \in RuleIds : r = reqs[h].rule
  BY BusyParts DEF CommitMove, Committing, Modifies
<1>1. /\ Committing(h) /\ Busy(h) /\ q.op \in {"move", "bulk"}
      /\ UNCHANGED <<born, nodes, agent, listeners, causes>>
      /\ rows' = IF rows[r] = None THEN rows ELSE [rows EXCEPT ![r] = Saved(rows[r], q)]
      /\ \A g \in Handlers : g # h => reqs'[g] = reqs[g]
  BY <1>0 DEF CommitMove, Committing, Modifies, Finish, TypeOK
<1>2. r = q.rule /\ q \in Request /\ WellFormed(q) /\ <<r, q.row>> \in SeenBy(q)
  BY <1>0, <1>1, BusyParts
<1>3. \A s \in RuleIds : s # r => rows'[s] = rows[s]
  BY <1>1
<1>4. rows[r] = None => rows'[r] = None
  BY <1>1
<1>5. rows[r] # None => rows'[r] = Saved(rows[r], q) /\ rows[r] \in Row /\ rows'[r] \in Row
  BY <1>1, <1>2, SavedType DEF TypeOK
<1>6. rows'[r] # None => rows[r] # None /\ rows'[r].node = rows[r].node
  BY <1>4, <1>5 DEF Saved, Row
<1>7. Busy(h)' => \E e \in q.todo : reqs'[h] = BulkItem(e, q.target.host, q.todo \ {e})
  <2>1. Finish(h) => ~Busy(h)'
    BY DEF Finish, TypeOK, Busy
  <2>. QED
    BY <2>1 DEF CommitMove, TypeOK
<1>8. Busy(h)' => /\ WellFormed(reqs[h])' /\ ~Committing(h)'
                  /\ SeenBy(reqs'[h]) \subseteq SeenBy(q) \ {<<r, q.row>>}
  <2>. SUFFICES ASSUME Busy(h)'
                PROVE  /\ WellFormed(reqs[h])' /\ ~Committing(h)'
                       /\ SeenBy(reqs'[h]) \subseteq SeenBy(q) \ {<<r, q.row>>}
    OBVIOUS
  <2>1. PICK e \in q.todo : reqs'[h] = BulkItem(e, q.target.host, q.todo \ {e})
    BY <1>7
  <2>2. e \in Seen /\ e[2] \in Row /\ e = <<e[1], e[2]>> /\ e[1] # r
    BY <1>2, <2>1, RequestParts DEF Seen, WellFormed
  <2>3. SeenBy(reqs'[h]) = q.todo
    BY <2>1, <2>2 DEF SeenBy, BulkItem
  <2>4. q.todo \subseteq SeenBy(q) \ {<<r, q.row>>}
    BY <1>1, <1>2 DEF SeenBy, WellFormed
  <2>5. ~Committing(h)'
    BY <2>1 DEF BulkItem, Committing
  <2>6. WellFormed(reqs[h])'
    <3>1. \A f \in q.todo : f[1] \in born
      BY <1>2, <2>4 DEF WellFormed
    <3>2. \A f \in q.todo \ {e} : f[1] # e[1]
      BY <1>2, <2>1 DEF WellFormed
    <3>3. \A f, g \in q.todo : f[1] = g[1] => f = g
      BY <1>2 DEF WellFormed
    <3>4. /\ [e[2] EXCEPT !.host = q.target.host].port = e[2].port
          /\ [e[2] EXCEPT !.host = q.target.host].node = e[2].node
          /\ [e[2] EXCEPT !.host = q.target.host].proto = e[2].proto
      BY <2>2 DEF Row
    <3>. DEFINE it == BulkItem(e, q.target.host, q.todo \ {e})
    <3>5. /\ it.op = "bulk" /\ it.rule = e[1] /\ it.row = e[2]
          /\ it.target = [e[2] EXCEPT !.host = q.target.host] /\ it.todo = q.todo \ {e}
      BY DEF BulkItem
    <3>6. SeenBy(it) = q.todo /\ reqs'[h] = it
      BY <2>1, <2>3
    <3>7. born' = born
      BY <1>1
    <3>. HIDE DEF it
    <3>8. WellFormed(it)
      BY <3>1, <3>2, <3>3, <3>4, <3>5, <3>6 DEF WellFormed
    <3>. QED
      BY <3>6, <3>7, <3>8 DEF WellFormed, SeenBy
  <2>. QED
    BY <2>3, <2>4, <2>5, <2>6
<1>9. LiveIsBorn' /\ GoneIsBlamed' /\ RequestsWellFormed' /\ NodeStable'
      /\ OverlapBlamed' /\ StillFresh'
  BY <1>1, <1>2, <1>3, <1>4, <1>6, <1>8, WriteBookkeeping
<1>10. DownIsSilent'
  BY <1>1 DEF OrphanInv, DownIsSilent, Empty
<1>11. NoOrphan'
  <2>. SUFFICES ASSUME NEW n \in Nodes, causes[n] \cap OrphanCauses = {},
                       NEW p \in Ports, listeners[n][p] # None
                PROVE  Backed(n, p)'
    BY <1>1 DEF NoOrphan
  <2>1. \A s \in RuleIds : ~Leaving(s) => ~Leaving(s)'
    BY <1>1, <1>8 DEF Leaving, Committing, Busy
  <2>2. CASE \E s \in RuleIds : RowAt(s, n, p) /\ ~Leaving(s)
    <3>1. PICK s \in RuleIds : RowAt(s, n, p) /\ ~Leaving(s)
      BY <2>2
    <3>2. CASE s # r
      BY <1>3, <2>1, <3>1, <3>2 DEF Backed, RowAt
    <3>3. CASE s = r
      <4>1. q.target.port = q.row.port
        BY <1>1, <1>2, <3>1, <3>3 DEF Leaving
      <4>2. rows'[r].port = rows[r].port /\ rows'[r].node = rows[r].node /\ rows'[r] # None
        BY <1>5, <3>1, <3>3, <4>1, NoneApart DEF Saved, Row, RowAt
      <4>. QED
        BY <2>1, <3>1, <3>3, <4>2 DEF Backed, RowAt
    <3>. QED
      BY <3>2, <3>3
  <2>3. CASE BoundFor(h, n, p)
    <3>1. q.row.node = n /\ q.target.port = p
      BY <1>2, <2>3 DEF BoundFor, WellFormed
    <3>2. rows[r] = q.row /\ rows[r] # None
      BY <1>1, <1>2, <3>1, RequestParts, NoneApart DEF OrphanInv, StillFresh
    <3>3. rows'[r].port = p /\ rows'[r].node = n /\ rows'[r] # None
      <4>1. rows'[r] = Saved(q.row, q) /\ q.row \in Row /\ rows'[r] \in Row
        BY <1>5, <3>2
      <4>2. Saved(q.row, q).node = q.row.node /\ Saved(q.row, q).port = q.target.port
        BY <4>1 DEF Saved, Row
      <4>. QED
        BY <3>1, <4>1, <4>2, NoneApart
    <3>4. ~Leaving(r)'
      <4>. SUFFICES ASSUME NEW g \in Handlers, Committing(g)', reqs'[g].rule = r PROVE FALSE
        BY DEF Leaving
      <4>1. g # h
        BY <1>8 DEF Committing
      <4>2. Busy(g) /\ reqs[g].rule = r
        BY <1>1, <4>1 DEF Committing, Busy
      <4>3. <<r, reqs[g].row>> \in SeenBy(reqs[g])
        BY <1>2, <3>2, <4>2, LeavingOwn, BusyParts
      <4>4. "overlap" \in causes[q.row.node]
        BY <1>1, <1>2, <4>1, <4>2, <4>3 DEF OrphanInv, OverlapBlamed
      <4>. QED
        BY <3>1, <4>4 DEF OrphanCauses
    <3>. QED
      BY <1>2, <3>3, <3>4 DEF Backed, RowAt
  <2>4. ASSUME NEW g \in Handlers, g # h, BoundFor(g, n, p)
        PROVE  Backed(n, p)'
    BY <1>1, <2>4 DEF Backed, BoundFor, Committing, Busy
  <2>. QED
    BY <2>2, <2>3, <2>4 DEF Backed, OrphanInv, NoOrphan
<1>. QED
  BY <1>9, <1>10, <1>11 DEF OrphanInv

\* A write that never comes is blamed on the node.
LEMMA CommitFailsOrphan ==
  ASSUME TypeOK, OrphanInv, NEW h \in Handlers, CommitFails(h)
  PROVE  OrphanInv'
<1>1. /\ Busy(h) /\ UNCHANGED <<rows, born, nodes, agent, listeners>>
      /\ reqs'[h] = None /\ \A g \in Handlers : g # h => reqs'[g] = reqs[g]
      /\ \A n \in Nodes : causes[n] \subseteq causes'[n]
  BY DEF CommitFails, Committing, db, Finish, TypeOK, Accuse
<1>2. reqs[h].row.node \in Nodes /\ reqs[h].target.node = reqs[h].row.node
  BY <1>1, BusyParts, RequestParts DEF WellFormed
<1>3. "uncommitted" \in causes'[reqs[h].row.node]
  BY <1>2 DEF CommitFails, Accuse
<1>4. LiveIsBorn' /\ GoneIsBlamed' /\ RequestsWellFormed' /\ NodeStable'
      /\ OverlapBlamed' /\ StillFresh'
  BY <1>1, Bookkeeping
<1>5. DownIsSilent'
  BY <1>1 DEF OrphanInv, DownIsSilent, Empty
<1>6. NoOrphan'
  <2>. SUFFICES ASSUME NEW n \in Nodes, causes'[n] \cap OrphanCauses = {},
                       NEW p \in Ports, listeners[n][p] # None
                PROVE  Backed(n, p)'
    BY <1>1 DEF NoOrphan
  <2>1. Backed(n, p)
    BY <1>1 DEF OrphanInv, NoOrphan
  <2>2. \A s \in RuleIds : ~Leaving(s) => ~Leaving(s)'
    BY <1>1 DEF Leaving, Committing, Busy
  <2>3. ~BoundFor(h, n, p)
    BY <1>2, <1>3 DEF BoundFor, OrphanCauses
  <2>4. \A g \in Handlers : BoundFor(g, n, p) => BoundFor(g, n, p)'
    BY <1>1, <2>3 DEF BoundFor, Committing, Busy
  <2>. QED
    BY <1>1, <2>1, <2>2, <2>4 DEF Backed, RowAt
<1>. QED
  BY <1>4, <1>5, <1>6 DEF OrphanInv

\* A row without a node is on a node already blamed.
LEMMA DelDanglingOrphan ==
  ASSUME TypeOK, OrphanInv, NEW r \in RuleIds, DelDangling(r)
  PROVE  OrphanInv'
<1>1. /\ rows[r] # None /\ rows[r].node \notin nodes
      /\ rows'[r] = None /\ \A s \in RuleIds : s # r => rows'[s] = rows[s]
      /\ UNCHANGED <<born, nodes, agent, listeners, reqs, causes>>
  BY DEF DelDangling, TypeOK
<1>2. rows[r].node \in Nodes /\ "node_deleted" \in causes[rows[r].node]
  BY <1>1 DEF TypeOK, Row, OrphanInv, GoneIsBlamed
<1>3. DownIsSilent' /\ GoneIsBlamed' /\ RequestsWellFormed' /\ OverlapBlamed'
  BY <1>1 DEF OrphanInv, DownIsSilent, GoneIsBlamed, RequestsWellFormed, OverlapBlamed,
              WellFormed, SeenBy, Busy, Empty
<1>4. LiveIsBorn'
  BY <1>1 DEF OrphanInv, LiveIsBorn
<1>5. NodeStable'
  BY <1>1, SeenTyped DEF OrphanInv, NodeStable, Busy
<1>6. StillFresh'
  <2>. SUFFICES ASSUME NEW g \in Handlers, Busy(g), NEW e \in SeenBy(reqs[g]),
                       causes[e[2].node] \cap OrphanCauses = {}
                PROVE  rows'[e[1]] = e[2]
    BY <1>1 DEF StillFresh, Busy
  <2>1. rows[e[1]] = e[2] /\ e[1] \in RuleIds
    BY SeenTyped DEF OrphanInv, StillFresh
  <2>2. e[1] # r
    BY <1>2, <2>1 DEF OrphanCauses
  <2>. QED
    BY <1>1, <2>1, <2>2
<1>7. NoOrphan'
  <2>. SUFFICES ASSUME NEW n \in Nodes, causes[n] \cap OrphanCauses = {},
                       NEW p \in Ports, listeners[n][p] # None
                PROVE  Backed(n, p)'
    BY <1>1 DEF NoOrphan
  <2>1. rows[r].node # n
    BY <1>2 DEF OrphanCauses
  <2>2. \A s \in RuleIds : RowAt(s, n, p) => RowAt(s, n, p)'
    BY <1>1, <2>1 DEF RowAt
  <2>3. Backed(n, p)
    BY DEF OrphanInv, NoOrphan
  <2>. QED
    BY <1>1, <2>2, <2>3 DEF Backed, Leaving, BoundFor, Committing, Busy
<1>. QED
  BY <1>3, <1>4, <1>5, <1>6, <1>7 DEF OrphanInv

\* What InitAgent opens on an undisturbed node are rows that stay.
LEMMA InitAgentOrphan ==
  ASSUME TypeOK, OrphanInv, NEW m \in Nodes, InitAgent(m)
  PROVE  OrphanInv'
<1>1. /\ UNCHANGED <<rows, born, nodes, reqs>>
      /\ agent'[m] = "up" /\ \A n \in Nodes : n # m => agent'[n] = agent[n]
      /\ listeners'[m] = Opened(snap[m])
      /\ \A n \in Nodes : n # m => listeners'[n] = listeners[n] /\ causes'[n] = causes[n]
  BY DEF InitAgent, db, TypeOK
<1>2. causes'[m] = IF m \notin nodes THEN causes[m]
                   ELSE IF Quiet(m) /\ snap[m] = RowsOf(m) THEN {}
                   ELSE causes[m] \cup {"raced"}
  BY DEF InitAgent, TypeOK
<1>. DEFINE clean == m \in nodes /\ Quiet(m) /\ snap[m] = RowsOf(m)
<1>3. ASSUME NEW n \in Nodes, ~(clean /\ n = m)
      PROVE  causes[n] \subseteq causes'[n]
  BY <1>1, <1>2, <1>3
<1>4. ~clean => causes'[m] \cap OrphanCauses # {}
  <2>1. CASE m \notin nodes
    BY <1>2, <2>1 DEF OrphanInv, GoneIsBlamed, OrphanCauses
  <2>2. CASE m \in nodes /\ ~clean
    <3>1. "raced" \in causes'[m]
      BY <1>2, <2>2
    <3>. QED
      BY <3>1 DEF OrphanCauses
  <2>. QED
    BY <2>1, <2>2
<1>5. ASSUME clean, NEW g \in Handlers, Busy(g), NEW e \in SeenBy(reqs[g])
      PROVE  e[2].node # m
  BY <1>5 DEF Quiet, NodesOf, SeenBy
<1>6. ASSUME NEW g \in Handlers, Busy(g), NEW e \in SeenBy(reqs[g])
      PROVE  e[2].node \in Nodes /\ causes[e[2].node] \subseteq causes'[e[2].node]
  BY <1>3, <1>5, <1>6, SeenTyped
<1>7. DownIsSilent' /\ LiveIsBorn' /\ RequestsWellFormed' /\ NodeStable'
  <2>1. DownIsSilent'
    BY <1>1 DEF OrphanInv, DownIsSilent, Empty
  <2>2. LiveIsBorn' /\ NodeStable'
    BY <1>1 DEF OrphanInv, LiveIsBorn, NodeStable, Busy
  <2>3. RequestsWellFormed'
    BY <1>1 DEF OrphanInv, RequestsWellFormed, WellFormed, SeenBy, Busy
  <2>. QED
    BY <2>1, <2>2, <2>3
<1>8. GoneIsBlamed'
  BY <1>1, <1>3 DEF OrphanInv, GoneIsBlamed
<1>9. OverlapBlamed'
  <2>. SUFFICES ASSUME NEW g \in Handlers, NEW k \in Handlers, g # k, Busy(g), Busy(k),
                       NEW e \in SeenBy(reqs[g]), NEW f \in SeenBy(reqs[k]), e[1] = f[1]
                PROVE  "overlap" \in causes'[e[2].node]
    BY <1>1 DEF OverlapBlamed, Busy
  <2>. QED
    BY <1>6 DEF OrphanInv, OverlapBlamed
<1>10. StillFresh'
  <2>. SUFFICES ASSUME NEW g \in Handlers, Busy(g), NEW e \in SeenBy(reqs[g]),
                       causes'[e[2].node] \cap OrphanCauses = {}
                PROVE  rows[e[1]] = e[2]
    BY <1>1 DEF StillFresh, Busy
  <2>1. causes[e[2].node] \cap OrphanCauses = {}
    BY <1>6
  <2>. QED
    BY <2>1 DEF OrphanInv, StillFresh
<1>11. NoOrphan'
  <2>. SUFFICES ASSUME NEW n \in Nodes, causes'[n] \cap OrphanCauses = {},
                       NEW p \in Ports, listeners'[n][p] # None
                PROVE  Backed(n, p)'
    BY DEF NoOrphan
  <2>1. Backed(n, p) => Backed(n, p)'
    BY <1>1 DEF Backed, RowAt, Leaving, BoundFor, Committing, Busy
  <2>2. CASE n # m
    BY <1>1, <2>1, <2>2 DEF OrphanInv, NoOrphan
  <2>3. CASE n = m
    <3>1. clean
      BY <1>4, <2>3
    <3>2. PICK e \in snap[m] : e[2].port = p
      BY <1>1, <2>3 DEF Opened
    <3>3. e[1] \in RuleIds /\ e[2] \in Row /\ rows[e[1]] = e[2] /\ e[2].node = m
      BY <3>1, <3>2 DEF RowsOf, Seen
    <3>4. RowAt(e[1], m, p)
      BY <3>2, <3>3, NoneApart DEF RowAt
    <3>5. ~Leaving(e[1])
      <4>. SUFFICES ASSUME NEW g \in Handlers, Committing(g), reqs[g].rule = e[1] PROVE FALSE
        BY DEF Leaving
      <4>1. Busy(g) /\ rows[e[1]] # None
        BY <3>4 DEF Committing, RowAt
      <4>2. reqs[g].row.node = m
        BY <3>3, <4>1, LeavingOwn
      <4>. QED
        BY <3>1, <4>1, <4>2 DEF Quiet, NodesOf
    <3>. QED
      BY <2>1, <2>3, <3>3, <3>4, <3>5 DEF Backed
  <2>. QED
    BY <2>2, <2>3
<1>. QED
  BY <1>7, <1>8, <1>9, <1>10, <1>11 DEF OrphanInv

\* A registration, a stop and a deleted node open no port and free no handler.
LEMMA AgentOrphan ==
  ASSUME TypeOK, OrphanInv, NEW m \in Nodes,
         RegisterNode(m) \/ InitAgentPanics(m) \/ AgentStops(m) \/ DelNode(m)
  PROVE  OrphanInv'
<1>1. /\ UNCHANGED <<rows, born, reqs>>
      /\ \A n \in Nodes : causes[n] \subseteq causes'[n]
      /\ \A n \in Nodes \ nodes' : n \notin nodes \/ "node_deleted" \in causes'[n]
  BY DEF RegisterNode, InitAgentPanics, AgentStops, DelNode, db, Accuse
<1>2. LiveIsBorn' /\ GoneIsBlamed' /\ RequestsWellFormed' /\ NodeStable'
      /\ OverlapBlamed' /\ StillFresh'
  BY <1>1, Bookkeeping
<1>3. \A n \in Nodes : listeners'[n] = listeners[n] \/ listeners'[n] = Empty
  BY DEF RegisterNode, InitAgentPanics, AgentStops, DelNode, TypeOK
<1>4. DownIsSilent'
  <2>1. CASE RegisterNode(m) \/ InitAgentPanics(m)
    BY <2>1 DEF OrphanInv, DownIsSilent, RegisterNode, InitAgentPanics, Empty, TypeOK
  <2>2. CASE AgentStops(m)
    BY <2>2 DEF OrphanInv, DownIsSilent, AgentStops, Empty, TypeOK
  <2>3. CASE DelNode(m)
    BY <2>3 DEF OrphanInv, DownIsSilent, DelNode, Empty
  <2>. QED
    BY <2>1, <2>2, <2>3
<1>5. NoOrphan'
  <2>. SUFFICES ASSUME NEW n \in Nodes, causes'[n] \cap OrphanCauses = {},
                       NEW p \in Ports, listeners'[n][p] # None
                PROVE  Backed(n, p)'
    BY DEF NoOrphan
  <2>1. causes[n] \cap OrphanCauses = {} /\ listeners[n][p] # None
    BY <1>1, <1>3 DEF Empty
  <2>2. Backed(n, p)
    BY <2>1 DEF OrphanInv, NoOrphan
  <2>. QED
    BY <1>1, <2>2 DEF Backed, RowAt, Leaving, BoundFor, Committing, Busy
<1>. QED
  BY <1>2, <1>4, <1>5 DEF OrphanInv

LEMMA BeginOrphan ==
  ASSUME TypeOK, OrphanInv, NEW h \in Handlers,
         \/ BeginAdd(h)
         \/ \E r \in RuleIds : BeginDel(h, r)
         \/ \E r \in RuleIds : BeginMove(h, r)
         \/ BeginBulk(h)
  PROVE  OrphanInv'
<1>1. CASE BeginAdd(h)
  <2>1. PICK new \in Row :
          Start(h, [op |-> "add", stage |-> "call", rule |-> None, row |-> new,
                    target |-> new, sent |-> ConfOf(new), todo |-> {}], {})
    BY <1>1 DEF BeginAdd
  <2>. DEFINE q == [op |-> "add", stage |-> "call", rule |-> None, row |-> new,
                    target |-> new, sent |-> ConfOf(new), todo |-> {}]
  <2>2. q \in Request
    BY ConfOfType DEF Request
  <2>3. SeenBy(q) = {} /\ WellFormed(q) /\ q.stage = "call"
    BY DEF SeenBy, WellFormed
  <2>. HIDE DEF q
  <2>4. \A e \in SeenBy(q) : e[1] \in {} /\ rows[e[1]] = e[2] /\ rows[e[1]] # None
    BY <2>3
  <2>. QED
    BY <1>1, <2>1, <2>2, <2>3, <2>4, StartOrphan DEF BeginAdd, q
<1>2. CASE \E r \in RuleIds : BeginDel(h, r)
  <2>1. PICK r \in RuleIds : BeginDel(h, r)
    BY <1>2
  <2>. DEFINE q == [op |-> "del", stage |-> "call", rule |-> r, row |-> rows[r],
                    target |-> rows[r], sent |-> ConfOf(rows[r]), todo |-> {}]
  <2>2. rows[r] # None /\ rows[r] \in Row /\ r \in born /\ ~Busy(h) /\ Start(h, q, {r})
    BY <2>1 DEF BeginDel, TypeOK, OrphanInv, LiveIsBorn
  <2>3. q \in Request
    BY <2>2, ConfOfType DEF Request
  <2>4. SeenBy(q) = {<<r, rows[r]>>} /\ WellFormed(q) /\ q.stage = "call"
    BY <2>2 DEF SeenBy, WellFormed
  <2>. HIDE DEF q
  <2>. QED
    BY <2>2, <2>3, <2>4, StartOrphan
<1>3. CASE \E r \in RuleIds : BeginMove(h, r)
  <2>1. PICK r \in RuleIds : BeginMove(h, r)
    BY <1>3
  <2>2. rows[r] # None /\ rows[r] \in Row /\ r \in born /\ ~Busy(h)
    BY <2>1 DEF BeginMove, TypeOK, OrphanInv, LiveIsBorn
  <2>3. PICK p \in Ports, t \in Hosts, c \in Chains \cup {rows[r].chain} :
          Start(h, [op |-> "move", stage |-> "call", rule |-> r, row |-> rows[r],
                    target |-> Moved(rows[r], p, t, c),
                    sent |-> MoveSent(rows[r], p, t, c), todo |-> {}], {r})
    BY <2>1 DEF BeginMove
  <2>. DEFINE q == [op |-> "move", stage |-> "call", rule |-> r, row |-> rows[r],
                    target |-> Moved(rows[r], p, t, c),
                    sent |-> MoveSent(rows[r], p, t, c), todo |-> {}]
  <2>4. Moved(rows[r], p, t, c) \in Row /\ MoveSent(rows[r], p, t, c) \in Conf
    <3>1. c \in Routes
      BY <2>2 DEF Row, Routes
    <3>2. (IF c = rows[r].chain THEN rows[r].proto ELSE ProtoOf[c]) \in Protos
      BY <2>2, ConstantAssumption DEF Row
    <3>. QED
      BY <2>2, <3>1, <3>2 DEF Moved, Row, MoveSent, Conf
  <2>5. q \in Request
    BY <2>2, <2>4 DEF Request
  <2>6. SeenBy(q) = {<<r, rows[r]>>}
    BY DEF SeenBy
  <2>7. Moved(rows[r], p, t, c).node = rows[r].node /\ Moved(rows[r], p, t, c).proto = rows[r].proto
    BY <2>2 DEF Moved, Row
  <2>8. /\ q.op = "move" /\ q.stage = "call" /\ q.rule = r /\ q.row = rows[r] /\ q.todo = {}
        /\ q.target.node = q.row.node /\ q.target.proto = q.row.proto
    BY <2>7
  <2>9. Start(h, q, {r})
    BY <2>3
  <2>. HIDE DEF q
  <2>10. WellFormed(q)
    BY <2>2, <2>6, <2>8 DEF WellFormed
  <2>. QED
    BY <2>2, <2>5, <2>6, <2>8, <2>9, <2>10, StartOrphan
<1>4. CASE BeginBulk(h)
  <2>1. PICK S \in SUBSET {r \in RuleIds : rows[r] # None /\ rows[r].node \in nodes},
             first \in RuleIds, t \in Hosts :
          /\ first \in S
          /\ Start(h, BulkItem(<<first, rows[first]>>, t,
                               {<<r, rows[r]>> : r \in S \ {first}}), S)
    BY <1>4 DEF BeginBulk
  <2>. DEFINE rest == {<<r, rows[r]>> : r \in S \ {first}}
              q == BulkItem(<<first, rows[first]>>, t, rest)
  <2>2. \A r \in S : r \in RuleIds /\ rows[r] # None /\ rows[r] \in Row /\ r \in born
                     /\ <<r, rows[r]>> \in Seen
    BY <2>1 DEF TypeOK, Seen, OrphanInv, LiveIsBorn
  <2>3. rest \in SUBSET Seen
    BY <2>2
  <2>4. q \in Request
    BY <2>1, <2>2, <2>3, BulkItemType
  <2>5. /\ q.op = "bulk" /\ q.stage = "call" /\ q.rule = first /\ q.row = rows[first]
        /\ q.target = [rows[first] EXCEPT !.host = t] /\ q.todo = rest
    BY DEF BulkItem
  <2>6. /\ q.target.node = q.row.node /\ q.target.port = q.row.port
        /\ q.target.proto = q.row.proto
    BY <2>1, <2>2, <2>5 DEF Row
  <2>7. Start(h, q, S) /\ ~Busy(h)
    BY <1>4, <2>1 DEF BeginBulk
  <2>. HIDE DEF q
  <2>8. \A e \in rest : e[1] \in S \ {first} /\ e = <<e[1], rows[e[1]]>>
    OBVIOUS
  <2>. HIDE DEF rest
  <2>9. SeenBy(q) = {<<first, rows[first]>>} \cup rest
    BY <2>5 DEF SeenBy
  <2>10. WellFormed(q)
    <3>1. \A e \in SeenBy(q) : e[1] \in born
      BY <2>1, <2>2, <2>8, <2>9
    <3>2. \A e \in rest : e[1] # first
      BY <2>8
    <3>3. \A e, f \in rest : e[1] = f[1] => e = f
      BY <2>8
    <3>. QED
      BY <2>5, <2>6, <3>1, <3>2, <3>3 DEF WellFormed
  <2>11. \A e \in SeenBy(q) : e[1] \in S /\ rows[e[1]] = e[2] /\ rows[e[1]] # None
    <3>1. \A e \in rest : rows[e[1]] = e[2]
      BY <2>8
    <3>. QED
      BY <2>1, <2>2, <2>8, <2>9, <3>1
  <2>12. S \in SUBSET RuleIds
    BY <2>1
  <2>. QED
    BY <2>4, <2>5, <2>7, <2>10, <2>11, <2>12, StartOrphan
<1>. QED
  BY <1>1, <1>2, <1>3, <1>4

\* A port that the worker reopens is that of a rule that stays, or the node is blamed.
LEMMA RelayOrphan ==
  ASSUME TypeOK, OrphanInv, Relay
  PROVE  OrphanInv'
<1>1. /\ UNCHANGED <<rows, born, nodes, agent, reqs>>
      /\ \A n \in Nodes : causes[n] \subseteq causes'[n]
  BY DEF Relay, RelayStarts, RelayStops, RelayAdds, db, Accuse
<1>2. LiveIsBorn' /\ GoneIsBlamed' /\ RequestsWellFormed' /\ NodeStable'
      /\ OverlapBlamed' /\ StillFresh'
  BY <1>1, Bookkeeping
<1>3. \A n \in Nodes, p \in Ports : Backed(n, p) => Backed(n, p)'
  BY <1>1 DEF Backed, RowAt, Leaving, BoundFor, Committing, Busy
<1>4. CASE RelayStarts \/ RelayStops
  <2>1. UNCHANGED <<listeners, causes>>
    BY <1>4 DEF RelayStarts, RelayStops
  <2>2. DownIsSilent' /\ NoOrphan'
    BY <1>1, <1>3, <2>1 DEF OrphanInv, DownIsSilent, NoOrphan, Empty
  <2>. QED
    BY <1>2, <2>2 DEF OrphanInv
<1>5. ASSUME NEW e \in relay, RelayAdds(e) PROVE OrphanInv'
  <2>1. /\ e[1] \in RuleIds /\ e[2] \in Row /\ e[2].node \in Nodes /\ e[2].port \in Ports
    BY DEF TypeOK, Seen, Row
  <2>2. /\ agent[e[2].node] = "up"
        /\ \A n \in Nodes : n # e[2].node => listeners'[n] = listeners[n]
        /\ \A p \in Ports : p # e[2].port => listeners'[e[2].node][p] = listeners[e[2].node][p]
    BY <1>5, <2>1 DEF RelayAdds, TypeOK
  <2>3. rows[e[1]] # e[2] \/ Leaving(e[1]) => "relayed" \in causes'[e[2].node]
    BY <1>5, <2>1 DEF RelayAdds, Accuse
  <2>4. DownIsSilent'
    BY <1>1, <2>2 DEF OrphanInv, DownIsSilent, Empty
  <2>5. NoOrphan'
    <3>. SUFFICES ASSUME NEW n \in Nodes, causes'[n] \cap OrphanCauses = {},
                         NEW p \in Ports, listeners'[n][p] # None
                  PROVE  Backed(n, p)
      BY <1>3 DEF NoOrphan
    <3>1. CASE n = e[2].node /\ p = e[2].port
      <4>1. rows[e[1]] = e[2] /\ ~Leaving(e[1])
        BY <2>3, <3>1 DEF OrphanCauses
      <4>2. RowAt(e[1], n, p)
        BY <2>1, <3>1, <4>1, NoneApart DEF RowAt
      <4>. QED
        BY <2>1, <4>1, <4>2 DEF Backed
    <3>2. CASE ~(n = e[2].node /\ p = e[2].port)
      BY <1>1, <2>2, <3>2 DEF OrphanInv, NoOrphan
    <3>. QED
      BY <3>1, <3>2
  <2>. QED
    BY <1>2, <2>4, <2>5 DEF OrphanInv
<1>. QED
  BY <1>4, <1>5 DEF Relay

LEMMA InitOrphan == Init => OrphanInv
BY DEF Init, OrphanInv, DownIsSilent, GoneIsBlamed, LiveIsBorn, RequestsWellFormed,
       NodeStable, OverlapBlamed, StillFresh, NoOrphan, Busy, Empty

LEMMA NextOrphan == TypeOK /\ OrphanInv /\ [Next]_vars => OrphanInv'
<1>. SUFFICES ASSUME TypeOK, OrphanInv, [Next]_vars PROVE OrphanInv'
  OBVIOUS
<1>1. CASE UNCHANGED vars
  <2>1. DownIsSilent' /\ GoneIsBlamed' /\ LiveIsBorn'
    BY <1>1 DEF vars, OrphanInv, DownIsSilent, GoneIsBlamed, LiveIsBorn, Empty
  <2>2. RequestsWellFormed' /\ NodeStable' /\ OverlapBlamed' /\ StillFresh'
    BY <1>1 DEF vars, OrphanInv, RequestsWellFormed, NodeStable, OverlapBlamed, StillFresh,
                WellFormed, SeenBy, Busy
  <2>3. NoOrphan'
    BY <1>1 DEF vars, OrphanInv, NoOrphan, Backed, RowAt, Leaving, BoundFor, Committing, Busy
  <2>. QED
    BY <2>1, <2>2, <2>3 DEF OrphanInv
<1>2. ASSUME NEW h \in Handlers, HandlerStep(h) PROVE OrphanInv'
  BY <1>2, BeginOrphan, CallAcceptedOrphan, CallEndsOrphan, CallRefusedOrphan,
     CommitAddOrphan, CommitDelOrphan, CommitMoveOrphan DEF HandlerStep
<1>3. ASSUME NEW n \in Nodes, AgentStep(n) PROVE OrphanInv'
  BY <1>3, InitAgentOrphan, AgentOrphan DEF AgentStep
<1>4. ASSUME Disturbance PROVE OrphanInv'
  BY <1>4, CallEndsOrphan, CommitFailsOrphan, AgentOrphan, DelDanglingOrphan DEF Disturbance
<1>. QED
  BY <1>1, <1>2, <1>3, <1>4, RelayOrphan DEF Next, Forwarding

\* The bookkeeping of handlers, rows and blame holds in every reachable state.
THEOREM OrphanInvariant == Spec => []OrphanInv
<1>. QED
  BY InitType, NextType, InitOrphan, NextOrphan, PTL DEF Spec

\* No forward outlives its rule unless one of the named events hit its node: for any
\* number of nodes, ports, rules and concurrent requests, with failures at every step.
THEOREM OrphanFree == Spec => []NoOrphan
<1>1. OrphanInv => NoOrphan
  BY DEF OrphanInv
<1>. QED
  BY <1>1, OrphanInvariant, PTL

-----------------------------------------------------------------------------
(***************************************************************************)
(* Rules are served.  What counts is not the table but the table as it     *)
(* will be: the rules no handler is about to rewrite and, in place of the  *)
(* others, what those handlers are about to save.                          *)
(***************************************************************************)
Stays(r, n) == rows[r] # None /\ rows[r].node = n /\ Settled(r)

Saves(h, n) == Committing(h) /\ reqs[h].op # "del" /\ reqs[h].row.node = n

ServedAt(n) ==
  /\ \A r \in RuleIds : Stays(r, n) => listeners[n][rows[r].port] = ConfOf(rows[r])
  /\ \A h \in Handlers : Saves(h, n) => listeners[n][reqs[h].target.port] = ConfOf(reqs[h].target)

ApartAt(n) ==
  /\ \A r, s \in RuleIds : r # s /\ Stays(r, n) /\ Stays(s, n) => rows[r].port # rows[s].port
  /\ \A r \in RuleIds, h \in Handlers :
       Stays(r, n) /\ Saves(h, n) => rows[r].port # reqs[h].target.port
  /\ \A h, g \in Handlers :
       h # g /\ Saves(h, n) /\ Saves(g, n) => reqs[h].target.port # reqs[g].target.port

SyncInv == \A n \in Nodes : Clean(n) => ServedAt(n) /\ ApartAt(n)

RowKept(r, n) == Stays(r, n)' => Stays(r, n) /\ rows'[r] = rows[r]

SaveKept(h, n) == Saves(h, n)' => Saves(h, n) /\ reqs'[h] = reqs[h]

\* Nothing that counts is new on n.
StillSo(n) ==
  Clean(n)' => /\ Clean(n) /\ listeners'[n] = listeners[n]
               /\ \A r \in RuleIds : RowKept(r, n)
               /\ \A h \in Handlers : SaveKept(h, n)

LEMMA KeptAt ==
  ASSUME NEW n \in Nodes, ServedAt(n), ApartAt(n), Clean(n)', StillSo(n)
  PROVE  ServedAt(n)' /\ ApartAt(n)'
<1>1. /\ listeners'[n] = listeners[n]
      /\ \A r \in RuleIds : Stays(r, n)' => Stays(r, n) /\ rows'[r] = rows[r]
      /\ \A h \in Handlers : Saves(h, n)' => Saves(h, n) /\ reqs'[h] = reqs[h]
  BY DEF StillSo, RowKept, SaveKept
<1>2. ServedAt(n)'
  BY <1>1 DEF ServedAt, ConfOf
<1>3. ApartAt(n)'
  BY <1>1 DEF ApartAt
<1>. QED
  BY <1>2, <1>3

LEMMA KeptSync ==
  ASSUME SyncInv, \A n \in Nodes : StillSo(n)
  PROVE  SyncInv'
<1>. SUFFICES ASSUME NEW n \in Nodes, Clean(n)' PROVE ServedAt(n)' /\ ApartAt(n)'
  BY DEF SyncInv
<1>1. StillSo(n)
  OBVIOUS
<1>2. ServedAt(n) /\ ApartAt(n)
  BY <1>1 DEF StillSo, SyncInv
<1>. QED
  BY <1>1, <1>2, KeptAt

\* What a handler on a node without causes knows of its rule.
LEMMA CleanParts ==
  ASSUME TypeOK, OrphanInv, NEW n \in Nodes, causes[n] = {},
         NEW h \in Handlers, Busy(h), reqs[h].row.node = n
  PROVE  /\ reqs[h].target.node = n /\ reqs[h].target.port \in Ports /\ reqs[h].row.port \in Ports
         /\ reqs[h].op # "add" =>
              /\ reqs[h].rule \in RuleIds /\ rows[reqs[h].rule] = reqs[h].row
              /\ \A g \in Handlers \ {h} : Busy(g) => reqs[g].rule # reqs[h].rule
<1>1. reqs[h] \in Request /\ WellFormed(reqs[h])
  BY BusyParts
<1>2. reqs[h].target.node = n /\ reqs[h].target.port \in Ports /\ reqs[h].row.port \in Ports
  BY <1>1, RequestParts DEF WellFormed
<1>3. ASSUME reqs[h].op # "add"
      PROVE  /\ reqs[h].rule \in RuleIds /\ rows[reqs[h].rule] = reqs[h].row
             /\ \A g \in Handlers \ {h} : Busy(g) => reqs[g].rule # reqs[h].rule
  <2>1. reqs[h].rule \in RuleIds /\ <<reqs[h].rule, reqs[h].row>> \in SeenBy(reqs[h])
    BY <1>3, BusyParts
  <2>2. rows[reqs[h].rule] = reqs[h].row
    BY <2>1 DEF OrphanInv, StillFresh
  <2>3. ASSUME NEW g \in Handlers, g # h, Busy(g), reqs[g].rule = reqs[h].rule PROVE FALSE
    <3>1. reqs[g].op # "add"
      BY <2>1, <2>3, BusyParts, NoneApart
    <3>2. <<reqs[g].rule, reqs[g].row>> \in SeenBy(reqs[g])
      BY <2>3, <3>1, BusyParts
    <3>. QED
      BY <2>1, <2>3, <3>2 DEF OrphanInv, OverlapBlamed
  <2>. QED
    BY <2>1, <2>2, <2>3
<1>. QED
  BY <1>2, <1>3

\* A rule that a handler elsewhere works on is not one of n.
LEMMA ElsewhereParts ==
  ASSUME TypeOK, OrphanInv, NEW n \in Nodes, NEW h \in Handlers, Busy(h), reqs[h].row.node # n
  PROVE  \A r \in RuleIds : rows[r] # None /\ rows[r].node = n => reqs[h].rule # r
BY LeavingOwn

LEMMA StartSync ==
  ASSUME TypeOK, SyncInv, NEW h \in Handlers, ~Busy(h), NEW q, q.stage = "call", NEW S, Start(h, q, S)
  PROVE  SyncInv'
<1>1. /\ UNCHANGED <<rows, agent, listeners>>
      /\ reqs'[h] = q /\ \A g \in Handlers \ {h} : reqs'[g] = reqs[g]
      /\ \A n \in Nodes : causes[n] \subseteq causes'[n]
  BY DEF Start, db, Accuse, TypeOK
<1>2. ~Committing(h)' /\ ~Committing(h) /\ \A g \in Handlers \ {h} : Committing(g)' <=> Committing(g)
  BY <1>1 DEF Committing, Busy
<1>3. \A r \in RuleIds : Settled(r)' => Settled(r)
  BY <1>1, <1>2 DEF Settled
<1>4. ASSUME NEW n \in Nodes PROVE StillSo(n)
  BY <1>1, <1>2, <1>3 DEF StillSo, RowKept, SaveKept, Stays, Saves, Clean
<1>. QED
  BY <1>4, KeptSync

LEMMA BeginSync ==
  ASSUME TypeOK, SyncInv, NEW h \in Handlers,
         \/ BeginAdd(h)
         \/ \E r \in RuleIds : BeginDel(h, r)
         \/ \E r \in RuleIds : BeginMove(h, r)
         \/ BeginBulk(h)
  PROVE  SyncInv'
<1>1. CASE BeginAdd(h)
  <2>1. PICK new \in Row :
          Start(h, [op |-> "add", stage |-> "call", rule |-> None, row |-> new,
                    target |-> new, sent |-> ConfOf(new), todo |-> {}], {})
    BY <1>1 DEF BeginAdd
  <2>2. ~Busy(h)
    BY <1>1 DEF BeginAdd
  <2>. QED
    BY <2>1, <2>2, StartSync
<1>2. ASSUME NEW r \in RuleIds, BeginDel(h, r) PROVE SyncInv'
  <2>1. ~Busy(h) /\ Start(h, [op |-> "del", stage |-> "call", rule |-> r, row |-> rows[r],
               target |-> rows[r], sent |-> ConfOf(rows[r]), todo |-> {}], {r})
    BY <1>2 DEF BeginDel
  <2>. QED
    BY <2>1, StartSync
<1>3. ASSUME NEW r \in RuleIds, BeginMove(h, r) PROVE SyncInv'
  <2>1. PICK p \in Ports, t \in Hosts, c \in Chains \cup {rows[r].chain} :
          ~Busy(h) /\
          Start(h, [op |-> "move", stage |-> "call", rule |-> r, row |-> rows[r],
                    target |-> Moved(rows[r], p, t, c),
                    sent |-> MoveSent(rows[r], p, t, c), todo |-> {}], {r})
    BY <1>3 DEF BeginMove
  <2>. QED
    BY <2>1, StartSync
<1>4. CASE BeginBulk(h)
  <2>1. PICK S \in SUBSET {r \in RuleIds : rows[r] # None /\ rows[r].node \in nodes},
             first \in RuleIds, t \in Hosts :
          ~Busy(h) /\ Start(h, BulkItem(<<first, rows[first]>>, t,
                                {<<r, rows[r]>> : r \in S \ {first}}), S)
    BY <1>4 DEF BeginBulk
  <2>2. PICK q : q = BulkItem(<<first, rows[first]>>, t, {<<r, rows[r]>> : r \in S \ {first}})
    OBVIOUS
  <2>3. q.stage = "call" /\ Start(h, q, S)
    BY <2>1, <2>2 DEF BulkItem
  <2>. QED
    BY <2>1, <2>3, StartSync
<1>. QED
  BY <1>1, <1>2, <1>3, <1>4

\* The agent's answer: the port is the request's, and no other rule's or request's.
LEMMA CallAcceptedSync ==
  ASSUME TypeOK, OrphanInv, SyncInv, NEW h \in Handlers, CallAccepted(h)
  PROVE  SyncInv'
<1>. DEFINE q == reqs[h]
<1>1. /\ Busy(h) /\ ~Committing(h) /\ q \in Request /\ q.row.node \in Nodes
      /\ UNCHANGED <<rows, agent>>
      /\ \A n \in Nodes : n # q.row.node => listeners'[n] = listeners[n]
      /\ listeners'[q.row.node] = Effect(q, listeners[q.row.node])
      /\ Accepted(q, listeners[q.row.node])
  BY CalledParts DEF CallAccepted
<1>2. /\ reqs'[h] = [q EXCEPT !.stage = "commit"]
      /\ \A g \in Handlers \ {h} : reqs'[g] = reqs[g]
      /\ \A n \in Nodes : causes[n] \subseteq causes'[n]
      /\ causes'[q.row.node] = {} => q.sent = ConfOf(q.target)
  BY <1>1 DEF CallAccepted, TypeOK, Accuse
<1>3. /\ reqs'[h].op = q.op /\ reqs'[h].rule = q.rule /\ reqs'[h].row = q.row /\ reqs'[h].target = q.target
      /\ Committing(h)'
      /\ \A g \in Handlers \ {h} : Committing(g)' <=> Committing(g)
  BY <1>1, <1>2, RequestParts DEF Committing, Busy, Request
<1>4. \A r \in RuleIds : Settled(r)' => Settled(r) /\ r # q.rule
  BY <1>1, <1>2, <1>3 DEF Settled
<1>. SUFFICES ASSUME NEW n \in Nodes, Clean(n)' PROVE ServedAt(n)' /\ ApartAt(n)'
  BY DEF SyncInv
<1>5. Clean(n) /\ causes'[n] = {} /\ causes[n] = {}
  BY <1>1, <1>2 DEF Clean
<1>6. ServedAt(n) /\ ApartAt(n)
  BY <1>5 DEF SyncInv
<1>7. /\ \A r \in RuleIds : Stays(r, n)' => Stays(r, n) /\ r # q.rule
      /\ \A g \in Handlers \ {h} : Saves(g, n)' => Saves(g, n)
  BY <1>1, <1>2, <1>3, <1>4 DEF Stays, Saves
<1>8. CASE q.row.node # n
  <2>1. ~Saves(h, n)'
    BY <1>3, <1>8 DEF Saves
  <2>2. StillSo(n)
    BY <1>1, <1>2, <1>5, <1>7, <1>8, <2>1 DEF StillSo, RowKept, SaveKept
  <2>. QED
    BY <1>6, <2>2, KeptAt
<1>9. CASE q.row.node = n
  <2>. DEFINE table == listeners[n]
  <2>1. /\ q.target.node = n /\ q.target.port \in Ports /\ q.row.port \in Ports
        /\ q.op # "add" =>
             /\ q.rule \in RuleIds /\ rows[q.rule] = q.row
             /\ \A g \in Handlers \ {h} : Busy(g) => reqs[g].rule # q.rule
    BY <1>1, <1>5, <1>9, CleanParts
  <2>2. table \in [Ports -> Conf \cup {None}]
    BY DEF TypeOK
  <2>3. q.op # "add" => Stays(q.rule, n)
    <3>1. ASSUME q.op # "add" PROVE rows[q.rule] # None /\ rows[q.rule].node = n
      BY <1>1, <1>9, <2>1, <3>1, RequestParts, NoneApart
    <3>2. ASSUME q.op # "add" PROVE Settled(q.rule)
      BY <1>1, <2>1, <3>2 DEF Settled, Committing
    <3>. QED
      BY <3>1, <3>2 DEF Stays
  \* Nothing else that counts is on the port the agent frees.
  <2>4. q.op # "add" =>
          /\ \A r \in RuleIds : Stays(r, n)' => rows[r].port # q.row.port
          /\ \A g \in Handlers \ {h} : Saves(g, n)' => reqs[g].target.port # q.row.port
    BY <1>6, <1>7, <2>1, <2>3 DEF ApartAt
  <2>5. /\ \A r \in RuleIds : Stays(r, n)' => table[rows[r].port] = ConfOf(rows[r])
        /\ \A g \in Handlers \ {h} : Saves(g, n)' => table[reqs[g].target.port] = ConfOf(reqs[g].target)
    BY <1>6, <1>7 DEF ServedAt
  <2>6. /\ \A r \in RuleIds : Stays(r, n)' => rows[r].port \in Ports /\ ConfOf(rows[r]) # None
        /\ \A g \in Handlers \ {h} : Saves(g, n)' => reqs[g].target.port \in Ports /\ ConfOf(reqs[g].target) # None
    <3>1. ASSUME NEW r \in RuleIds, Stays(r, n)' PROVE rows[r].port \in Ports /\ ConfOf(rows[r]) # None
      <4>1. rows[r] \in Row
        BY <1>7, <3>1 DEF Stays, TypeOK
      <4>. QED
        BY <4>1, ConfOfType, NoneApart DEF Row
    <3>2. ASSUME NEW g \in Handlers, g # h, Saves(g, n)'
          PROVE  reqs[g].target.port \in Ports /\ ConfOf(reqs[g].target) # None
      <4>1. reqs[g] \in Request
        BY <1>7, <3>2 DEF Saves, Committing, BusyParts, TypeOK, Busy
      <4>. QED
        BY <4>1, RequestParts, ConfOfType, NoneApart
    <3>. QED
      BY <3>1, <3>2
  \* Nor on the port it opens.
  <2>7. q.op # "del" => Freed(q, table)[q.target.port] = None
    BY <1>1, <1>9 DEF Accepted
  <2>8. q.op # "del" =>
          /\ \A r \in RuleIds : Stays(r, n)' => rows[r].port # q.target.port
          /\ \A g \in Handlers \ {h} : Saves(g, n)' => reqs[g].target.port # q.target.port
    <3>1. q.op # "del" => (q.target.port = q.row.port /\ q.op # "add") \/ table[q.target.port] = None
      BY <2>1, <2>2, <2>7 DEF Freed
    <3>. QED
      BY <2>4, <2>5, <2>6, <3>1
  <2>9. /\ \A p \in Ports : p # q.row.port /\ p # q.target.port => listeners'[n][p] = table[p]
        /\ q.op = "add" => \A p \in Ports : p # q.target.port => listeners'[n][p] = table[p]
        /\ q.op = "del" => \A p \in Ports : p # q.row.port => listeners'[n][p] = table[p]
        /\ q.op # "del" => listeners'[n][q.target.port] = q.sent
    BY <1>1, <1>9, <2>1, <2>2 DEF Effect, Freed
  <2>10. /\ \A r \in RuleIds : Stays(r, n)' => listeners'[n][rows[r].port] = table[rows[r].port]
         /\ \A g \in Handlers \ {h} : Saves(g, n)' =>
              listeners'[n][reqs[g].target.port] = table[reqs[g].target.port]
    <3>1. q.op \in {"add", "del", "move", "bulk"}
      BY <1>1, RequestParts
    <3>. QED
      BY <2>4, <2>6, <2>8, <2>9, <3>1
  <2>11. Saves(h, n)' => q.op # "del"
    BY <1>3 DEF Saves
  <2>12. ServedAt(n)'
    <3>1. \A r \in RuleIds : Stays(r, n)' => listeners'[n][rows'[r].port] = ConfOf(rows[r])
      BY <1>1, <2>5, <2>10
    <3>2. \A g \in Handlers \ {h} : Saves(g, n)' =>
            listeners'[n][reqs'[g].target.port] = ConfOf(reqs'[g].target)
      BY <1>2, <2>5, <2>10
    <3>3. Saves(h, n)' => listeners'[n][reqs'[h].target.port] = ConfOf(reqs'[h].target)
      BY <1>2, <1>3, <1>5, <1>9, <2>9, <2>11
    <3>. QED
      BY <1>1, <3>1, <3>2, <3>3 DEF ServedAt
  <2>13. ApartAt(n)'
    <3>1. \A r, s \in RuleIds : r # s /\ Stays(r, n)' /\ Stays(s, n)' => rows'[r].port # rows'[s].port
      BY <1>1, <1>6, <1>7 DEF ApartAt
    <3>2. \A r \in RuleIds, g \in Handlers : Stays(r, n)' /\ Saves(g, n)' => rows'[r].port # reqs'[g].target.port
      <4>1. \A r \in RuleIds, g \in Handlers \ {h} :
              Stays(r, n)' /\ Saves(g, n)' => rows'[r].port # reqs'[g].target.port
        BY <1>1, <1>2, <1>6, <1>7 DEF ApartAt
      <4>2. \A r \in RuleIds : Stays(r, n)' /\ Saves(h, n)' => rows'[r].port # reqs'[h].target.port
        BY <1>1, <1>3, <2>8, <2>11
      <4>. QED
        BY <4>1, <4>2
    <3>3. \A f, g \in Handlers : f # g /\ Saves(f, n)' /\ Saves(g, n)' =>
            reqs'[f].target.port # reqs'[g].target.port
      <4>1. \A f, g \in Handlers \ {h} : f # g /\ Saves(f, n)' /\ Saves(g, n)' =>
              reqs'[f].target.port # reqs'[g].target.port
        BY <1>2, <1>6, <1>7 DEF ApartAt
      <4>2. \A g \in Handlers \ {h} : Saves(g, n)' /\ Saves(h, n)' =>
              reqs'[g].target.port # reqs'[h].target.port
        BY <1>2, <1>3, <2>8, <2>11
      <4>. QED
        BY <4>1, <4>2
    <3>. QED
      BY <3>1, <3>2, <3>3 DEF ApartAt
  <2>. QED
    BY <2>12, <2>13
<1>. QED
  BY <1>8, <1>9

\* An agent that refuses, and a handler that gives up, leave what counts as it was.
LEMMA CallEndsSync ==
  ASSUME TypeOK, OrphanInv, SyncInv, NEW h \in Handlers,
         CallRejected(h) \/ CallReplyLost(h) \/ CallFails(h)
  PROVE  SyncInv'
<1>1. /\ Busy(h) /\ ~Committing(h) /\ UNCHANGED <<rows, agent>>
      /\ reqs'[h] = None /\ \A g \in Handlers \ {h} : reqs'[g] = reqs[g]
      /\ \A n \in Nodes : causes[n] \subseteq causes'[n]
  BY DEF CallRejected, CallReplyLost, CallFails, Called, db, Committing, Finish, TypeOK, Accuse
<1>2. ~Committing(h)' /\ \A g \in Handlers \ {h} : Committing(g)' <=> Committing(g)
  BY <1>1 DEF Committing, Busy
<1>3. \A r \in RuleIds : Settled(r)' => Settled(r)
  BY <1>1, <1>2 DEF Settled
<1>4. ASSUME NEW n \in Nodes, causes'[n] = {} PROVE listeners'[n] = listeners[n]
  <2>1. CASE CallFails(h)
    BY <2>1 DEF CallFails
  <2>2. CASE CallReplyLost(h)
    <3>1. Called(h) /\ reqs[h].row.node # n
      BY <1>4, <2>2 DEF CallReplyLost, Accuse
    <3>. QED
      BY <3>1, CalledParts
  <2>3. CASE CallRejected(h)
    <3>1. /\ Called(h) /\ ~Accepted(reqs[h], listeners[reqs[h].row.node])
          /\ reqs[h].row.node = n => ~Modifies(reqs[h])
      BY <1>4, <2>3 DEF CallRejected, Accuse
    <3>2. CASE reqs[h].row.node # n
      BY <3>1, <3>2, CalledParts
    <3>3. CASE reqs[h].row.node = n
      <4>1. reqs[h].op = "add"
        BY <1>1, <3>1, <3>3, BusyParts, RequestParts DEF Accepted, Modifies
      <4>2. Effect(reqs[h], listeners[n]) = listeners[n]
        BY <3>1, <3>3, <4>1 DEF Effect, Freed
      <4>. QED
        BY <3>1, <3>3, <4>2, CalledParts
    <3>. QED
      BY <3>2, <3>3
  <2>. QED
    BY <2>1, <2>2, <2>3
<1>5. ASSUME NEW n \in Nodes PROVE StillSo(n)
  BY <1>1, <1>2, <1>3, <1>4 DEF StillSo, RowKept, SaveKept, Stays, Saves, Clean
<1>. QED
  BY <1>5, KeptSync

LEMMA CallRefusedSync ==
  ASSUME TypeOK, OrphanInv, SyncInv, NEW h \in Handlers, CallRefused(h)
  PROVE  SyncInv'
<1>1. /\ Busy(h) /\ ~Committing(h) /\ UNCHANGED <<rows, agent, listeners, causes>>
      /\ reqs[h].op = "del"
      /\ reqs'[h] = [reqs[h] EXCEPT !.stage = "commit"]
      /\ \A g \in Handlers \ {h} : reqs'[g] = reqs[g]
  BY DEF CallRefused, Committing, db, TypeOK
<1>2. reqs'[h].op = "del"
  BY <1>1, BusyParts DEF Request
<1>3. \A g \in Handlers \ {h} : Committing(g)' <=> Committing(g)
  BY <1>1 DEF Committing, Busy
<1>4. \A r \in RuleIds : Settled(r)' => Settled(r)
  BY <1>1, <1>3 DEF Settled
<1>5. ASSUME NEW n \in Nodes PROVE StillSo(n)
  BY <1>1, <1>2, <1>3, <1>4 DEF StillSo, RowKept, SaveKept, Stays, Saves, Clean
<1>. QED
  BY <1>5, KeptSync

\* A write that puts what a request has had accepted into the table.
HandedOver(h, r, n) ==
  /\ Saves(h, n) /\ ~Saves(h, n)' /\ rows'[r] = reqs[h].target
  /\ listeners'[n] = listeners[n]
  /\ \A s \in RuleIds \ {r} : RowKept(s, n)
  /\ \A g \in Handlers \ {h} : SaveKept(g, n)

LEMMA HandOverAt ==
  ASSUME NEW n \in Nodes, ServedAt(n), ApartAt(n), NEW h \in Handlers, NEW r \in RuleIds,
         HandedOver(h, r, n)
  PROVE  ServedAt(n)' /\ ApartAt(n)'
<1>1. /\ Saves(h, n) /\ ~Saves(h, n)' /\ rows'[r] = reqs[h].target /\ listeners'[n] = listeners[n]
      /\ \A s \in RuleIds \ {r} : Stays(s, n)' => Stays(s, n) /\ rows'[s] = rows[s]
      /\ \A g \in Handlers \ {h} : Saves(g, n)' => Saves(g, n) /\ reqs'[g] = reqs[g]
  BY DEF HandedOver, RowKept, SaveKept
<1>2. ServedAt(n)'
  <2>1. \A s \in RuleIds : Stays(s, n)' => listeners'[n][rows'[s].port] = ConfOf(rows'[s])
    BY <1>1 DEF ServedAt
  <2>2. \A g \in Handlers : Saves(g, n)' =>
          listeners'[n][reqs'[g].target.port] = ConfOf(reqs'[g].target)
    BY <1>1 DEF ServedAt
  <2>. QED
    BY <2>1, <2>2 DEF ServedAt, ConfOf
<1>3. ApartAt(n)'
  <2>1. \A s, t \in RuleIds : s # t /\ Stays(s, n)' /\ Stays(t, n)' => rows'[s].port # rows'[t].port
    BY <1>1 DEF ApartAt
  <2>2. \A s \in RuleIds, g \in Handlers : Stays(s, n)' /\ Saves(g, n)' => rows'[s].port # reqs'[g].target.port
    BY <1>1 DEF ApartAt
  <2>3. \A f, g \in Handlers : f # g /\ Saves(f, n)' /\ Saves(g, n)' =>
          reqs'[f].target.port # reqs'[g].target.port
    BY <1>1 DEF ApartAt
  <2>. QED
    BY <2>1, <2>2, <2>3 DEF ApartAt
<1>. QED
  BY <1>2, <1>3

LEMMA CommitAddSync ==
  ASSUME TypeOK, OrphanInv, SyncInv, NEW h \in Handlers, CommitAdd(h)
  PROVE  SyncInv'
<1>1. PICK r \in RuleIds \ born :
        rows' = [rows EXCEPT ![r] = reqs[h].target] /\ born' = born \cup {r}
  BY DEF CommitAdd
<1>2. /\ Committing(h) /\ Busy(h) /\ reqs[h].op = "add"
      /\ UNCHANGED <<agent, listeners, causes>>
      /\ reqs'[h] = None /\ \A g \in Handlers \ {h} : reqs'[g] = reqs[g]
      /\ rows'[r] = reqs[h].target /\ \A s \in RuleIds \ {r} : rows'[s] = rows[s]
  BY <1>1 DEF CommitAdd, Committing, Finish, TypeOK
<1>3. reqs[h].rule = None /\ reqs[h].target.node = reqs[h].row.node
  BY <1>2, BusyParts DEF WellFormed
<1>4. ~Committing(h)' /\ \A g \in Handlers \ {h} : Committing(g)' <=> Committing(g)
  BY <1>2 DEF Committing, Busy
<1>5. \A s \in RuleIds : Settled(s)' => Settled(s)
  BY <1>2, <1>3, <1>4, NoneApart DEF Settled
<1>6. ASSUME NEW n \in Nodes
      PROVE  /\ \A s \in RuleIds \ {r} : RowKept(s, n)
             /\ \A g \in Handlers : SaveKept(g, n)
             /\ ~Saves(h, n)'
  BY <1>2, <1>4, <1>5 DEF RowKept, SaveKept, Stays, Saves
<1>. SUFFICES ASSUME NEW n \in Nodes, Clean(n)' PROVE ServedAt(n)' /\ ApartAt(n)'
  BY DEF SyncInv
<1>7. Clean(n) /\ ServedAt(n) /\ ApartAt(n)
  BY <1>2 DEF Clean, SyncInv
<1>8. CASE reqs[h].row.node = n
  <2>1. HandedOver(h, r, n)
    BY <1>2, <1>6, <1>8 DEF HandedOver, Saves
  <2>. QED
    BY <1>7, <2>1, HandOverAt
<1>9. CASE reqs[h].row.node # n
  <2>1. ~Stays(r, n)'
    BY <1>2, <1>3, <1>9 DEF Stays
  <2>2. StillSo(n)
    BY <1>2, <1>6, <1>7, <2>1 DEF StillSo, RowKept
  <2>. QED
    BY <1>7, <2>2, KeptAt
<1>. QED
  BY <1>8, <1>9

LEMMA CommitDelSync ==
  ASSUME TypeOK, OrphanInv, SyncInv, NEW h \in Handlers, CommitDel(h)
  PROVE  SyncInv'
<1>0. PICK r \in RuleIds : r = reqs[h].rule
  BY BusyParts DEF CommitDel, Committing
<1>1. /\ Committing(h) /\ Busy(h) /\ reqs[h].op = "del"
      /\ UNCHANGED <<agent, listeners, causes>>
      /\ reqs'[h] = None /\ \A g \in Handlers \ {h} : reqs'[g] = reqs[g]
      /\ rows'[r] = None /\ \A s \in RuleIds \ {r} : rows'[s] = rows[s]
  BY <1>0 DEF CommitDel, Committing, Finish, TypeOK
<1>2. ~Committing(h)' /\ \A g \in Handlers \ {h} : Committing(g)' <=> Committing(g)
  BY <1>1 DEF Committing, Busy
<1>3. \A s \in RuleIds \ {r} : Settled(s)' => Settled(s)
  BY <1>0, <1>1, <1>2 DEF Settled
<1>4. ASSUME NEW n \in Nodes PROVE StillSo(n)
  BY <1>1, <1>2, <1>3 DEF StillSo, RowKept, SaveKept, Stays, Saves, Clean
<1>. QED
  BY <1>4, KeptSync

LEMMA CommitMoveSync ==
  ASSUME TypeOK, OrphanInv, SyncInv, NEW h \in Handlers, CommitMove(h)
  PROVE  SyncInv'
<1>. DEFINE q == reqs[h]
<1>0. PICK r \in RuleIds : r = reqs[h].rule
  BY BusyParts DEF CommitMove, Committing, Modifies
<1>1. /\ Committing(h) /\ Busy(h) /\ q.op \in {"move", "bulk"}
      /\ UNCHANGED <<agent, listeners, causes>>
      /\ rows' = IF rows[r] = None THEN rows ELSE [rows EXCEPT ![r] = Saved(rows[r], q)]
      /\ \A g \in Handlers \ {h} : reqs'[g] = reqs[g]
  BY <1>0 DEF CommitMove, Committing, Modifies, Finish, TypeOK
<1>2. q \in Request /\ WellFormed(q) /\ q.row \in Row /\ q.target \in Row
  BY <1>1, BusyParts, RequestParts
<1>3. \A s \in RuleIds \ {r} : rows'[s] = rows[s]
  BY <1>1
<1>4. ~Committing(h)'
  <2>1. Finish(h) => ~Committing(h)'
    BY DEF Finish, TypeOK, Busy, Committing
  <2>2. ASSUME NEW e \in q.todo, reqs' = [reqs EXCEPT ![h] = BulkItem(e, q.target.host, q.todo \ {e})]
        PROVE  ~Committing(h)'
    BY <2>2 DEF BulkItem, Committing, TypeOK
  <2>. QED
    BY <2>1, <2>2 DEF CommitMove
<1>5. \A g \in Handlers \ {h} : Committing(g)' <=> Committing(g)
  BY <1>1 DEF Committing, Busy
<1>6. \A s \in RuleIds \ {r} : Settled(s)' => Settled(s)
  BY <1>0, <1>1, <1>4, <1>5 DEF Settled
<1>7. ASSUME NEW n \in Nodes
      PROVE  /\ \A s \in RuleIds \ {r} : RowKept(s, n)
             /\ \A g \in Handlers : SaveKept(g, n)
             /\ ~Saves(h, n)'
  BY <1>1, <1>3, <1>4, <1>5, <1>6 DEF RowKept, SaveKept, Stays, Saves
<1>. SUFFICES ASSUME NEW n \in Nodes, Clean(n)' PROVE ServedAt(n)' /\ ApartAt(n)'
  BY DEF SyncInv
<1>8. Clean(n) /\ causes[n] = {} /\ ServedAt(n) /\ ApartAt(n)
  BY <1>1 DEF Clean, SyncInv
<1>9. CASE q.row.node = n
  \* The row is as it was read, so the columns saved make it the target.
  <2>1. rows[r] = q.row
    BY <1>0, <1>1, <1>8, <1>9, CleanParts
  <2>2. rows'[r] = Saved(q.row, q)
    BY <1>1, <1>2, <2>1, NoneApart DEF TypeOK
  <2>3. Saved(q.row, q) = q.target
    <3>1. q.target.node = q.row.node /\ q.target.proto = q.row.proto
      BY <1>2 DEF WellFormed
    <3>. QED
      BY <1>2, <3>1 DEF Saved, Row
  <2>4. Saves(h, n)
    BY <1>1, <1>9 DEF Saves
  <2>5. HandedOver(h, r, n)
    BY <1>1, <1>7, <2>2, <2>3, <2>4 DEF HandedOver
  <2>. QED
    BY <1>8, <2>5, HandOverAt
<1>10. CASE q.row.node # n
  <2>1. ~Stays(r, n)'
    <3>1. rows[r] # None => rows[r].node # n
      BY <1>0, <1>1, <1>10, ElsewhereParts
    <3>2. rows[r] = None => rows'[r] = None
      BY <1>1
    <3>3. rows[r] # None => rows'[r] = Saved(rows[r], q) /\ rows[r] \in Row
      BY <1>1 DEF TypeOK
    <3>4. rows[r] # None => rows'[r].node = rows[r].node
      BY <3>3 DEF Saved, Row
    <3>. QED
      BY <3>1, <3>2, <3>4 DEF Stays
  <2>2. StillSo(n)
    BY <1>1, <1>7, <1>8, <2>1 DEF StillSo, RowKept
  <2>. QED
    BY <1>8, <2>2, KeptAt
<1>. QED
  BY <1>9, <1>10

LEMMA CommitFailsSync ==
  ASSUME TypeOK, OrphanInv, SyncInv, NEW h \in Handlers, CommitFails(h)
  PROVE  SyncInv'
<1>1. /\ Busy(h) /\ UNCHANGED <<rows, agent, listeners>>
      /\ reqs'[h] = None /\ \A g \in Handlers \ {h} : reqs'[g] = reqs[g]
      /\ \A n \in Nodes : causes[n] \subseteq causes'[n]
      /\ \A n \in Nodes : causes'[n] = {} => reqs[h].row.node # n
  BY DEF CommitFails, Committing, db, Finish, TypeOK, Accuse
<1>2. ~Committing(h)' /\ \A g \in Handlers \ {h} : Committing(g)' <=> Committing(g)
  BY <1>1 DEF Committing, Busy
<1>3. ASSUME NEW n \in Nodes PROVE StillSo(n)
  <2>. SUFFICES ASSUME Clean(n)'
                PROVE  /\ Clean(n) /\ listeners'[n] = listeners[n]
                       /\ \A r \in RuleIds : RowKept(r, n)
                       /\ \A g \in Handlers : SaveKept(g, n)
    BY DEF StillSo
  <2>1. Clean(n) /\ reqs[h].row.node # n /\ listeners'[n] = listeners[n]
    BY <1>1 DEF Clean
  <2>2. \A r \in RuleIds : rows[r] # None /\ rows[r].node = n => reqs[h].rule # r
    BY <1>1, <2>1, ElsewhereParts
  <2>3. \A r \in RuleIds : RowKept(r, n)
    BY <1>1, <1>2, <2>2 DEF RowKept, Stays, Settled
  <2>4. \A g \in Handlers : SaveKept(g, n)
    BY <1>1, <1>2 DEF SaveKept, Saves
  <2>. QED
    BY <2>1, <2>3, <2>4
<1>. QED
  BY <1>3, KeptSync

\* What a deleted node's rules are does not matter to the others.
LEMMA DelDanglingSync ==
  ASSUME TypeOK, OrphanInv, SyncInv, NEW r \in RuleIds, DelDangling(r)
  PROVE  SyncInv'
<1>1. /\ UNCHANGED <<agent, listeners, causes, reqs>>
      /\ rows'[r] = None /\ \A s \in RuleIds \ {r} : rows'[s] = rows[s]
  BY DEF DelDangling, TypeOK
<1>2. ASSUME NEW n \in Nodes PROVE StillSo(n)
  BY <1>1 DEF StillSo, RowKept, SaveKept, Stays, Saves, Clean, Settled, Committing, Busy
<1>. QED
  BY <1>2, KeptSync

\* An agent that has come up undisturbed serves every rule of its node.
LEMMA InitAgentSync ==
  ASSUME TypeOK, OrphanInv, SyncInv, NEW m \in Nodes, InitAgent(m)
  PROVE  SyncInv'
<1>1. /\ UNCHANGED <<rows, nodes, reqs>>
      /\ \A n \in Nodes \ {m} : agent'[n] = agent[n] /\ listeners'[n] = listeners[n] /\ causes'[n] = causes[n]
      /\ listeners'[m] = Opened(snap[m]) /\ ~Clash(snap[m])
      /\ causes'[m] = IF m \notin nodes THEN causes[m]
                      ELSE IF Quiet(m) /\ snap[m] = RowsOf(m) THEN {}
                      ELSE causes[m] \cup {"raced"}
  BY DEF InitAgent, db, TypeOK
<1>. SUFFICES ASSUME NEW n \in Nodes, Clean(n)' PROVE ServedAt(n)' /\ ApartAt(n)'
  BY DEF SyncInv
<1>2. CASE n # m
  <2>1. StillSo(n)
    BY <1>1, <1>2 DEF StillSo, RowKept, SaveKept, Stays, Saves, Clean, Settled, Committing, Busy
  <2>2. ServedAt(n) /\ ApartAt(n)
    BY <2>1 DEF StillSo, SyncInv
  <2>. QED
    BY <2>1, <2>2, KeptAt
<1>3. CASE n = m
  <2>1. Quiet(m) /\ snap[m] = RowsOf(m)
    BY <1>1, <1>3 DEF Clean, OrphanInv, GoneIsBlamed
  <2>2. \A h \in Handlers : ~Saves(h, m)'
    BY <1>1, <2>1 DEF Saves, Committing, Busy, Quiet, NodesOf
  <2>3. \A r \in RuleIds : Stays(r, m)' => <<r, rows[r]>> \in snap[m] /\ rows[r].port \in Ports
    <3>1. ASSUME NEW r \in RuleIds, Stays(r, m)' PROVE <<r, rows[r]>> \in RowsOf(m) /\ rows[r].port \in Ports
      <4>1. rows[r] \in Row /\ rows[r].node = m
        BY <1>1, <3>1 DEF Stays, TypeOK
      <4>. QED
        BY <4>1 DEF RowsOf, Seen, Row
    <3>. QED
      BY <2>1, <3>1
  <2>4. \A e, f \in snap[m] : e # f => e[2].port # f[2].port
    BY <1>1 DEF Clash
  <2>5. \A e \in snap[m] : e[2].port \in Ports => Opened(snap[m])[e[2].port] = ConfOf(e[2])
    <3>. SUFFICES ASSUME NEW e \in snap[m], e[2].port \in Ports
                  PROVE  Opened(snap[m])[e[2].port] = ConfOf(e[2])
      OBVIOUS
    <3>1. PICK c : c = CHOOSE f \in snap[m] : f[2].port = e[2].port
      OBVIOUS
    <3>2. c \in snap[m] /\ c[2].port = e[2].port
      BY <3>1
    <3>3. c = e
      BY <2>4, <3>2
    <3>. QED
      BY <3>1, <3>3 DEF Opened
  <2>6. ServedAt(m)'
    <3>1. ASSUME NEW r \in RuleIds, Stays(r, m)' PROVE listeners'[m][rows'[r].port] = ConfOf(rows'[r])
      <4>1. PICK e \in snap[m] : e = <<r, rows[r]>>
        BY <2>3, <3>1
      <4>2. e[2] = rows[r] /\ rows[r].port \in Ports
        BY <2>3, <3>1, <4>1
      <4>. QED
        BY <1>1, <2>5, <4>2
    <3>. QED
      BY <2>2, <3>1 DEF ServedAt, ConfOf
  <2>7. ApartAt(m)'
    <3>1. \A r, s \in RuleIds : r # s /\ Stays(r, m)' /\ Stays(s, m)' => rows[r].port # rows[s].port
      <4>1. ASSUME NEW r \in RuleIds, NEW s \in RuleIds, r # s, Stays(r, m)', Stays(s, m)'
            PROVE  rows[r].port # rows[s].port
        <5>1. PICK e, f : e = <<r, rows[r]>> /\ f = <<s, rows[s]>>
          OBVIOUS
        <5>2. e \in snap[m] /\ f \in snap[m] /\ e # f /\ e[2] = rows[r] /\ f[2] = rows[s]
          BY <2>3, <4>1, <5>1
        <5>. QED
          BY <2>4, <5>2
      <4>. QED
        BY <4>1
    <3>. QED
      BY <1>1, <2>2, <3>1 DEF ApartAt
  <2>. QED
    BY <1>3, <2>6, <2>7
<1>. QED
  BY <1>2, <1>3

LEMMA AgentSync ==
  ASSUME TypeOK, OrphanInv, SyncInv, NEW m \in Nodes,
         RegisterNode(m) \/ InitAgentPanics(m) \/ AgentStops(m) \/ DelNode(m)
  PROVE  SyncInv'
<1>1. /\ UNCHANGED <<rows, reqs>>
      /\ \A n \in Nodes : causes[n] \subseteq causes'[n]
      /\ \A n \in Nodes : agent'[n] = "up" => agent[n] = "up" /\ listeners'[n] = listeners[n]
  BY DEF RegisterNode, InitAgentPanics, AgentStops, DelNode, db, Accuse, TypeOK
<1>2. ASSUME NEW n \in Nodes PROVE StillSo(n)
  BY <1>1 DEF StillSo, RowKept, SaveKept, Stays, Saves, Clean, Settled, Committing, Busy
<1>. QED
  BY <1>2, KeptSync

\* On an undisturbed node every rule is served, so the worker is refused.
LEMMA RelaySync ==
  ASSUME TypeOK, OrphanInv, SyncInv, Relay
  PROVE  SyncInv'
<1>1. /\ UNCHANGED <<rows, agent, reqs>>
      /\ \A n \in Nodes : causes[n] \subseteq causes'[n]
  BY DEF Relay, RelayStarts, RelayStops, RelayAdds, db, Accuse
<1>2. ASSUME NEW n \in Nodes, Clean(n)', listeners'[n] = listeners[n]
      PROVE  StillSo(n)
  BY <1>1, <1>2 DEF StillSo, RowKept, SaveKept, Stays, Saves, Clean, Settled, Committing, Busy
<1>3. CASE RelayStarts \/ RelayStops
  <2>1. \A n \in Nodes : listeners'[n] = listeners[n]
    BY <1>3 DEF RelayStarts, RelayStops
  <2>2. \A n \in Nodes : StillSo(n)
    BY <1>2, <2>1 DEF StillSo
  <2>. QED
    BY <2>2, KeptSync
<1>4. ASSUME NEW e \in relay, RelayAdds(e) PROVE SyncInv'
  <2>1. e[1] \in RuleIds /\ e[2] \in Row /\ e[2].node \in Nodes
    BY DEF TypeOK, Seen, Row
  <2>2. /\ agent[e[2].node] = "up" /\ listeners[e[2].node][e[2].port] = None
        /\ \A n \in Nodes : n # e[2].node => listeners'[n] = listeners[n]
    BY <1>4 DEF RelayAdds, TypeOK
  <2>3. rows[e[1]] # e[2] \/ Leaving(e[1]) => causes'[e[2].node] # {}
    BY <1>4, <2>1 DEF RelayAdds, Accuse
  <2>4. ~Clean(e[2].node)'
    <3>. SUFFICES ASSUME Clean(e[2].node)' PROVE FALSE
      OBVIOUS
    <3>1. rows[e[1]] = e[2] /\ ~Leaving(e[1]) /\ causes[e[2].node] = {} /\ Clean(e[2].node)
      BY <1>1, <2>1, <2>3 DEF Clean
    <3>2. ServedAt(e[2].node) /\ rows[e[1]] # None
      BY <2>1, <3>1, NoneApart DEF SyncInv
    <3>3. CASE Settled(e[1])
      <4>1. listeners[e[2].node][e[2].port] = ConfOf(e[2])
        BY <2>1, <3>1, <3>2, <3>3 DEF ServedAt, Stays
      <4>. QED
        BY <2>1, <2>2, <4>1, ConfOfType, NoneApart
    <3>4. CASE ~Settled(e[1])
      <4>1. PICK h \in Handlers : Committing(h) /\ reqs[h].rule = e[1]
        BY <3>4 DEF Settled
      <4>2. reqs[h].op # "del" /\ reqs[h].target.port = reqs[h].row.port
        BY <3>1, <4>1 DEF Leaving
      <4>3. Busy(h) /\ reqs[h].op # "add" /\ reqs[h].row.node = e[2].node
        BY <2>1, <3>1, <3>2, <4>1, LeavingOwn DEF Committing
      <4>4. reqs[h].row = e[2]
        BY <2>1, <3>1, <4>1, <4>3, CleanParts
      <4>5. listeners[e[2].node][e[2].port] = ConfOf(reqs[h].target)
        BY <2>1, <3>2, <4>1, <4>2, <4>3, <4>4 DEF ServedAt, Saves
      <4>6. reqs[h].target \in Row
        BY <4>3, BusyParts, RequestParts
      <4>. QED
        BY <2>2, <4>5, <4>6, ConfOfType, NoneApart
    <3>. QED
      BY <3>3, <3>4
  <2>5. \A n \in Nodes : StillSo(n)
    BY <1>2, <2>2, <2>4 DEF StillSo
  <2>. QED
    BY <2>5, KeptSync
<1>. QED
  BY <1>3, <1>4 DEF Relay

LEMMA NextSync == TypeOK /\ OrphanInv /\ SyncInv /\ [Next]_vars => SyncInv'
<1>. SUFFICES ASSUME TypeOK, OrphanInv, SyncInv, [Next]_vars PROVE SyncInv'
  OBVIOUS
<1>1. CASE UNCHANGED vars
  <2>1. ASSUME NEW n \in Nodes PROVE StillSo(n)
    BY <1>1 DEF vars, StillSo, RowKept, SaveKept, Stays, Saves, Clean, Settled, Committing, Busy
  <2>. QED
    BY <2>1, KeptSync
<1>2. ASSUME NEW h \in Handlers, HandlerStep(h) PROVE SyncInv'
  BY <1>2, BeginSync, CallAcceptedSync, CallEndsSync, CallRefusedSync,
     CommitAddSync, CommitDelSync, CommitMoveSync DEF HandlerStep
<1>3. ASSUME NEW n \in Nodes, AgentStep(n) PROVE SyncInv'
  BY <1>3, InitAgentSync, AgentSync DEF AgentStep
<1>4. ASSUME Disturbance PROVE SyncInv'
  BY <1>4, CallEndsSync, CommitFailsSync, AgentSync, DelDanglingSync DEF Disturbance
<1>. QED
  BY <1>1, <1>2, <1>3, <1>4, RelaySync DEF Next, Forwarding

\* The listeners are those of the table as it will be, and no two of its rules share a port.
THEOREM SyncInvariant == Spec => []SyncInv
<1>1. Init => SyncInv
  BY DEF Init, SyncInv, Clean
<1>. QED
  BY <1>1, InitType, NextType, InitOrphan, NextOrphan, NextSync, PTL DEF Spec

\* Every rule of an undisturbed node is served as its row says, or as the change
\* its agent has accepted will make it.
THEOREM RulesAreServed == Spec => []Served
<1>1. TypeOK /\ OrphanInv /\ SyncInv => Served
  <2>. SUFFICES ASSUME TypeOK, OrphanInv, SyncInv, NEW n \in Nodes, Clean(n)
                PROVE  /\ \A r \in RuleIds : rows[r] # None /\ rows[r].node = n /\ Settled(r) =>
                            listeners[n][rows[r].port] = ConfOf(rows[r])
                       /\ \A h \in Handlers : Committing(h) /\ reqs[h].op # "del" /\ reqs[h].row.node = n =>
                            listeners[n][reqs[h].target.port] = ConfOf(reqs[h].target)
    BY DEF Served
  <2>. QED
    BY DEF SyncInv, ServedAt, Stays, Saves
<1>. QED
  BY <1>1, TypeCorrect, OrphanInvariant, SyncInvariant, PTL

\* No two rules of an undisturbed node share a port unless one is about to leave it,
\* though nothing in the table forbids it: the agent refuses the second.
THEOREM RulesDoNotClash == Spec => []NoClash
<1>1. TypeOK /\ OrphanInv /\ SyncInv => NoClash
  <2>. SUFFICES ASSUME TypeOK, OrphanInv, SyncInv, NEW n \in Nodes, Clean(n),
                       NEW r \in RuleIds, NEW s \in RuleIds, NEW p \in Ports,
                       r # s, RowAt(r, n, p), RowAt(s, n, p), ~Leaving(r), ~Leaving(s)
                PROVE  FALSE
    BY DEF NoClash
  <2>1. ApartAt(n) /\ causes[n] = {}
    BY DEF SyncInv, Clean
  \* A rule that stays on its port counts there, itself or by the change it waits for.
  <2>2. ASSUME NEW t \in RuleIds, RowAt(t, n, p), ~Leaving(t)
        PROVE  \/ Stays(t, n)
               \/ \E h \in Handlers : Saves(h, n) /\ reqs[h].rule = t /\ reqs[h].target.port = p
    <3>. SUFFICES ASSUME ~Settled(t)
                  PROVE  \E h \in Handlers : Saves(h, n) /\ reqs[h].rule = t /\ reqs[h].target.port = p
      BY <2>2 DEF Stays, RowAt
    <3>1. PICK h \in Handlers : Committing(h) /\ reqs[h].rule = t
      BY DEF Settled
    <3>2. reqs[h].op # "del" /\ reqs[h].target.port = reqs[h].row.port
      BY <2>2, <3>1 DEF Leaving
    <3>3. reqs[h].op # "add" /\ reqs[h].row.node = n
      BY <2>2, <3>1, LeavingOwn DEF RowAt, Committing
    <3>4. rows[t] = reqs[h].row
      BY <2>1, <3>1, <3>3, CleanParts DEF Committing
    <3>. QED
      BY <2>2, <3>1, <3>2, <3>3, <3>4 DEF Saves, RowAt
  <2>. QED
    BY <2>1, <2>2 DEF ApartAt, RowAt
<1>. QED
  BY <1>1, TypeCorrect, OrphanInvariant, SyncInvariant, PTL
=============================================================================
