---------------------------- MODULE Chains_proofs ----------------------------
(***************************************************************************)
(* NoStray, ChainServed and Owned for any accounts, chains and ports.      *)
(*                                                                         *)
(* The first two speak of ports nothing has come between.  On such a port  *)
(* a deletion is alone: whatever else begins there notes it.  So the rows  *)
(* it counts are the rows it finds when it deletes, and whether the port   *)
(* is to be closed has not changed.  Creations need not be alone: one that *)
(* has not called the agent has seen a row that is still there, and one    *)
(* that has called holds the listener it opened.                           *)
(*                                                                         *)
(* The last part is about Resources, whose state is its own: the names of  *)
(* nodes and chain groups, and who may use what.                           *)
(***************************************************************************)
EXTENDS Chains, Resources, FiniteSetTheorems, WellFoundedInduction, TLAPS

-----------------------------------------------------------------------------
(***************************************************************************)
(* The least and the greatest of some ids (nextId, and the last row of a   *)
(* port that InitAgent opens).                                             *)
(***************************************************************************)
LEMMA LeastId ==
  ASSUME NEW S \in SUBSET Nat, S # {}
  PROVE  Min(S) \in S /\ \A y \in S : Min(S) =< y
<1> DEFINE R == OpToRel(<, Nat)
<1>1. \A x, y \in Nat : x < y => <<x, y>> \in R
  BY DEF OpToRel
<1>2. IsWellFoundedOn(R, Nat)
  BY NatLessThanWellFounded
<1> HIDE DEF R
<1>3. PICK x \in S : \A y \in S : ~(<<y, x>> \in R)
  BY <1>2, WFMin
<1>4. \A y \in S : x =< y
  <2>1. SUFFICES ASSUME NEW y \in S
                 PROVE  x =< y
    OBVIOUS
  <2>2. x \in Nat /\ y \in Nat /\ ~(y < x)
    BY <1>1, <1>3
  <2>3. QED BY <2>2
<1>5. QED BY <1>4 DEF Min

LEMMA GreatestId ==
  ASSUME NEW S \in SUBSET ChainIds, S # {}
  PROVE  Max(S) \in S
<1> DEFINE T == {MaxChain - x : x \in S}
<1>1. T \in SUBSET Nat /\ T # {}
  <2>1. ASSUME NEW x \in S
        PROVE  MaxChain - x \in Nat
    BY ChainsAssumption DEF ChainIds
  <2>2. QED BY <2>1
<1> DEFINE R == OpToRel(<, Nat)
<1>2. \A x, y \in Nat : x < y => <<x, y>> \in R
  BY DEF OpToRel
<1>3. IsWellFoundedOn(R, Nat)
  BY NatLessThanWellFounded
<1> HIDE DEF R, T
<1>4. PICK t \in T : \A u \in T : ~(<<u, t>> \in R)
  BY <1>1, <1>3, WFMin
<1>5. \A u \in T : t =< u
  <2>1. SUFFICES ASSUME NEW u \in T
                 PROVE  t =< u
    OBVIOUS
  <2>2. t \in Nat /\ u \in Nat /\ ~(u < t)
    BY <1>1, <1>2, <1>4
  <2>3. QED BY <2>2
<1>6. PICK x \in S : t = MaxChain - x
  BY DEF T
<1>7. \A y \in S : x >= y
  <2>1. SUFFICES ASSUME NEW y \in S
                 PROVE  x >= y
    OBVIOUS
  <2>2. MaxChain - x =< MaxChain - y
    BY <1>5, <1>6 DEF T
  <2>3. QED BY <2>2, ChainsAssumption DEF ChainIds
<1>8. QED BY <1>7 DEF Max

-----------------------------------------------------------------------------
(* The invariant.                                                          *)

RequestRecord ==
  [op : {"add", "del"}, stage : {"check", "count", "call", "insert", "map", "delete", "unmap"},
   id : ChainIds \cup {None}, port : Ports, ip : Ips \cup {None}, proto : Protos \cup {None},
   key : BOOLEAN, called : BOOLEAN]

WellFormed(q) ==
  /\ q \in RequestRecord
  /\ q.called => q.stage \in {"insert", "map", "delete", "unmap"}
  /\ \/ q.op = "add" /\ q.proto \in Protos /\ q.ip \in Ips
        /\ q.stage \in {"check", "count", "call", "insert", "map"}
     \/ q.op = "del" /\ q.id \in ChainIds
        /\ q.stage \in {"count", "call", "delete", "unmap"}

\* The chain a deletion names is on the port it remembers, while there is such a chain.
Names(q) ==
  q.op = "del" => q.id \in born /\ (chains[q.id] # None => chains[q.id].port = q.port)

RequestsOK ==
  /\ reqs = [h \in Accounts |-> reqs[h]]
  /\ \A h \in Accounts : Busy(h) => WellFormed(reqs[h]) /\ Names(reqs[h])

ChainsOK ==
  /\ chains \in [ChainIds -> Row \cup {None}]
  /\ Live \subseteq born /\ born \subseteq ChainIds

AgentOK ==
  /\ agent \in {"down", "registering", "up"}
  /\ snap \in [Ports -> Protos \cup {None}] /\ listeners \in [Ports -> Protos \cup {None}]
  /\ agent # "up" => \A p \in Ports : listeners[p] = None

RelayOK == relay \in [ChainIds -> [pc : {"add"}, port : Ports, proto : Protos] \cup {Idle}]

TypesOK == RequestsOK /\ ChainsOK /\ AgentOK /\ RelayOK

HasRequest(h, p) == Busy(h) /\ reqs[h].port = p

\* Nothing else is at work on the port of a deletion.
Alone(h, p) ==
  /\ \A g \in Accounts \ {h} : ~HasRequest(g, p)
  /\ \A c \in ChainIds : Relaying(c) => relay[c].port # p

\* What a deletion has counted is still so, and there was a node it could ask.
DelFine(q, p) ==
  /\ q.key
  /\ q.stage \in {"count", "call", "delete"} => q.id \in On(p)
  /\ q.stage = "call" \/ (q.stage = "delete" /\ q.called) => On(p) \subseteq {q.id}
  /\ q.stage = "delete" /\ ~q.called => \E d \in On(p) : d # q.id
  /\ q.stage = "delete" /\ q.called => listeners[p] = None

\* So is what a creation has counted, or what the agent has answered it.
AddFine(q, p) ==
  q.stage = "insert" => IF q.called THEN listeners[p] = q.proto ELSE On(p) # {}

RequestFine(h, p) ==
  IF reqs[h].op = "del" THEN Alone(h, p) /\ DelFine(reqs[h], p) ELSE AddFine(reqs[h], p)

RelayFine(p) ==
  \A c \in ChainIds : Relaying(c) /\ relay[c].port = p => c \in On(p) /\ chains[c].proto = relay[c].proto

ServedOn(p) ==
  \A c \in On(p) :
    \/ listeners[p] = chains[c].proto
    \/ p \in mixed /\ listeners[p] # None
    \/ Closing(p)

PortFine(p) ==
  /\ \A h \in Accounts : HasRequest(h, p) => RequestFine(h, p)
  /\ RelayFine(p)
  /\ ServedOn(p)
  /\ listeners[p] # None => On(p) # {} \/ Inserting(p)

ChainInv == TypesOK /\ (agent = "up" => \A p \in Ports \ disturbed : PortFine(p))

-----------------------------------------------------------------------------
(***************************************************************************)
(* A port a step does not touch.                                           *)
(***************************************************************************)
LEMMA Untouched ==
  ASSUME NEW p \in Ports, PortFine(p), On(p)' = On(p), \A c \in On(p) : chains'[c] = chains[c],
         listeners'[p] = listeners[p], p \in mixed => p \in mixed', UNCHANGED relay,
         \A h \in Accounts : HasRequest(h, p) \/ HasRequest(h, p)' => reqs'[h] = reqs[h]
  PROVE  PortFine(p)'
<1>1. \A h \in Accounts : HasRequest(h, p)' <=> HasRequest(h, p)
  BY DEF HasRequest, Busy
<1>2. ASSUME NEW h \in Accounts, HasRequest(h, p)'
      PROVE  RequestFine(h, p)'
  <2>1. HasRequest(h, p) /\ reqs'[h] = reqs[h] /\ RequestFine(h, p)
    BY <1>1, <1>2 DEF PortFine
  <2>2. Alone(h, p) => Alone(h, p)'
    BY <1>1 DEF Alone, Relaying
  <2>3. QED BY <2>1, <2>2 DEF RequestFine, DelFine, AddFine
<1>3. RelayFine(p)'
  BY DEF PortFine, RelayFine, Relaying
<1>4. /\ Closing(p) => Closing(p)'
      /\ Inserting(p) => Inserting(p)'
  <2>1. \A h \in Accounts : reqs[h].port = p /\ reqs[h].stage \in {"delete", "insert"} => HasRequest(h, p)
    BY DEF HasRequest, Busy, NoRequest
  <2>2. QED BY <2>1 DEF Closing, Inserting, AtStage
<1>5. ServedOn(p)'
  BY <1>4 DEF PortFine, ServedOn
<1>6. QED BY <1>2, <1>3, <1>4, <1>5 DEF PortFine

(***************************************************************************)
(* A step of one request, on the port p of that request.                   *)
(***************************************************************************)
LEMMA RequestMoves ==
  ASSUME TypesOK, NEW h \in Accounts, NEW n, reqs' = [reqs EXCEPT ![h] = n]
  PROVE  /\ reqs'[h] = n
         /\ \A g \in Accounts \ {h} : reqs'[g] = reqs[g]
         /\ \A g \in Accounts \ {h}, p \in Ports : HasRequest(g, p)' <=> HasRequest(g, p)
<1>1. reqs = [g \in Accounts |-> reqs[g]]
  BY DEF TypesOK, RequestsOK
<1>2. reqs'[h] = n /\ \A g \in Accounts \ {h} : reqs'[g] = reqs[g]
  BY <1>1
<1>3. QED BY <1>2 DEF HasRequest, Busy

Still(o) ==
  /\ On(o)' = On(o) /\ \A c \in On(o) : chains'[c] = chains[c]
  /\ listeners'[o] = listeners[o]
  /\ o \in mixed => o \in mixed'

LEMMA RequestStep ==
  ASSUME ChainInv, TypesOK', UNCHANGED <<agent, relay>>,
         NEW h \in Accounts, NEW n, reqs' = [reqs EXCEPT ![h] = n],
         NEW p \in Ports,
         Busy(h) => reqs[h].port = p,
         n # NoRequest => n.port = p,
         \A o \in Ports \ {p} : Still(o),
         agent = "up" => disturbed \subseteq disturbed',
         agent = "up" /\ p \notin disturbed' => PortFine(p)'
  PROVE  ChainInv'
<1>1. SUFFICES ASSUME agent = "up", NEW o \in Ports \ disturbed'
               PROVE  PortFine(o)'
  BY DEF ChainInv
<1>2. CASE o = p
  BY <1>1, <1>2
<1>3. CASE o # p
  <2>1. PortFine(o)
    BY <1>1 DEF ChainInv
  <2>2. /\ reqs'[h] = n
        /\ \A g \in Accounts \ {h} : reqs'[g] = reqs[g]
    BY RequestMoves DEF ChainInv
  <2>3. ~HasRequest(h, o) /\ ~HasRequest(h, o)'
    BY <1>3, <2>2 DEF HasRequest, Busy
  <2>4. \A g \in Accounts : HasRequest(g, o) \/ HasRequest(g, o)' => reqs'[g] = reqs[g]
    BY <2>2, <2>3
  <2>5. QED BY <1>3, <2>1, <2>4, Untouched DEF Still
<1>4. QED BY <1>2, <1>3

(***************************************************************************)
(* One request moves on and nothing else about its port changes.           *)
(***************************************************************************)
LEMMA OnlyRequest ==
  ASSUME TypesOK, NEW p \in Ports, PortFine(p), NEW h \in Accounts, NEW n, reqs' = [reqs EXCEPT ![h] = n],
         UNCHANGED <<chains, listeners, relay>>, p \in mixed => p \in mixed',
         n # NoRequest /\ n.op = "del" => Alone(h, p) /\ DelFine(n, p),
         n # NoRequest /\ n.op # "del" =>
           /\ AddFine(n, p)
           /\ \A g \in Accounts \ {h} : HasRequest(g, p) => reqs[g].op # "del",
         HasRequest(h, p) /\ reqs[h].stage = "delete" /\ reqs[h].called => n.stage = "delete" /\ n.called /\ n.port = p,
         HasRequest(h, p) /\ reqs[h].stage = "insert" =>
              (n.stage = "insert" /\ n.port = p) \/ On(p) # {} \/ listeners[p] = None
  PROVE  PortFine(p)'
<1>1. /\ reqs'[h] = n
      /\ \A g \in Accounts \ {h} : reqs'[g] = reqs[g]
      /\ \A g \in Accounts \ {h} : HasRequest(g, p)' <=> HasRequest(g, p)
  BY RequestMoves
<1>2. On(p)' = On(p)
  BY DEF On, Live
<1>3. ASSUME NEW g \in Accounts, HasRequest(g, p)'
      PROVE  RequestFine(g, p)'
  <2>1. CASE g = h
    <3>1. n # NoRequest
      BY <1>1, <1>3, <2>1 DEF HasRequest, Busy
    <3>2. Alone(h, p) => Alone(h, p)'
      BY <1>1 DEF Alone, Relaying
    <3>3. QED BY <1>1, <1>2, <2>1, <3>1, <3>2 DEF RequestFine, DelFine, AddFine
  <2>2. CASE g # h
    <3>1. HasRequest(g, p) /\ reqs'[g] = reqs[g] /\ RequestFine(g, p)
      BY <1>1, <1>3, <2>2 DEF PortFine
    <3>2. reqs[g].op = "del" => Alone(g, p)'
      <4>1. SUFFICES ASSUME reqs[g].op = "del"
                     PROVE  Alone(g, p)'
        OBVIOUS
      <4>2. Alone(g, p)
        BY <3>1, <4>1 DEF RequestFine
      <4>3. n = NoRequest
        BY <3>1, <4>1, <2>2 DEF Alone
      <4>4. ~HasRequest(h, p)'
        BY <1>1, <4>3 DEF HasRequest, Busy
      <4>5. QED BY <1>1, <4>2, <4>4 DEF Alone, Relaying
    <3>3. QED BY <3>1, <3>2, <1>2 DEF RequestFine, DelFine, AddFine
  <2>3. QED BY <2>1, <2>2
<1>4. RelayFine(p)'
  BY <1>2 DEF PortFine, RelayFine, Relaying
<1>5. Closing(p) => Closing(p)'
  <2>1. SUFFICES ASSUME NEW g \in Accounts, reqs[g].stage = "delete", reqs[g].port = p, reqs[g].called
                 PROVE  reqs'[g].stage = "delete" /\ reqs'[g].port = p /\ reqs'[g].called
    BY DEF Closing, AtStage
  <2>2. HasRequest(g, p)
    BY <2>1 DEF HasRequest, Busy, NoRequest
  <2>3. QED BY <1>1, <2>1, <2>2
<1>6. Inserting(p) => Inserting(p)' \/ On(p) # {} \/ listeners[p] = None
  <2>1. SUFFICES ASSUME NEW g \in Accounts, reqs[g].stage = "insert", reqs[g].port = p
                 PROVE  (reqs'[g].stage = "insert" /\ reqs'[g].port = p) \/ On(p) # {} \/ listeners[p] = None
    BY DEF Inserting, AtStage
  <2>2. HasRequest(g, p)
    BY <2>1 DEF HasRequest, Busy, NoRequest
  <2>3. QED BY <1>1, <2>1, <2>2
<1>7. ServedOn(p)'
  BY <1>2, <1>5 DEF PortFine, ServedOn
<1>8. listeners'[p] # None => On(p)' # {} \/ Inserting(p)'
  BY <1>2, <1>6 DEF PortFine
<1>9. QED BY <1>3, <1>4, <1>7, <1>8 DEF PortFine

(***************************************************************************)
(* The same for ChainInv.  What the step has to show, it may show on a     *)
(* port nothing has come between.                                          *)
(***************************************************************************)
LEMMA QuietStep ==
  ASSUME ChainInv, NEW h \in Accounts, NEW n, n = NoRequest \/ (WellFormed(n) /\ Names(n)),
         reqs' = [reqs EXCEPT ![h] = n],
         NEW p \in Ports,
         Busy(h) => reqs[h].port = p,
         n # NoRequest => n.port = p,
         Busy(h) /\ n # NoRequest => n.op = reqs[h].op,
         UNCHANGED <<chains, born, agent, snap, listeners, relay, mixed>>,
         agent = "up" => disturbed \subseteq disturbed',
         agent = "up" /\ p \notin disturbed' /\ PortFine(p) =>
           /\ ~Busy(h) /\ n # NoRequest => ~Deleting(p) /\ (n.op = "del" => ~AtWork(p))
           /\ n # NoRequest => IF n.op = "del" THEN DelFine(n, p) ELSE AddFine(n, p)
           /\ Busy(h) /\ reqs[h].stage = "delete" /\ reqs[h].called => n.stage = "delete" /\ n.called
           /\ Busy(h) /\ reqs[h].stage = "insert" => n.stage = "insert" \/ On(p) # {} \/ listeners[p] = None
  PROVE  ChainInv'
<1>1. TypesOK
  BY DEF ChainInv
<1>2. TypesOK'
  <2>1. /\ reqs'[h] = n
        /\ \A g \in Accounts \ {h} : reqs'[g] = reqs[g]
    BY <1>1, RequestMoves
  <2>2. RequestsOK'
    BY <1>1, <2>1 DEF TypesOK, RequestsOK, Busy, Names
  <2>3. ChainsOK' /\ AgentOK' /\ RelayOK'
    BY <1>1 DEF TypesOK, ChainsOK, AgentOK, RelayOK, Live
  <2>4. QED BY <2>2, <2>3 DEF TypesOK
<1>3. ASSUME agent = "up", p \notin disturbed'
      PROVE  PortFine(p)'
  <2>1. PortFine(p)
    BY <1>3 DEF ChainInv
  <2>2. n # NoRequest => IF n.op = "del" THEN DelFine(n, p) ELSE AddFine(n, p)
    BY <1>3, <2>1
  <2>3. ASSUME n # NoRequest, n.op = "del" PROVE Alone(h, p)
    <3>1. CASE Busy(h)
      <4>1. HasRequest(h, p) /\ reqs[h].op = "del"
        BY <2>3, <3>1 DEF HasRequest
      <4>2. QED BY <2>1, <4>1 DEF PortFine, RequestFine
    <3>2. CASE ~Busy(h)
      BY <1>3, <2>1, <2>3, <3>2 DEF AtWork, Alone, HasRequest
    <3>3. QED BY <3>1, <3>2
  <2>4. ASSUME n # NoRequest, n.op # "del", NEW g \in Accounts \ {h}, HasRequest(g, p)
        PROVE  reqs[g].op # "del"
    <3>1. CASE Busy(h)
      <4>1. HasRequest(h, p)
        BY <3>1 DEF HasRequest
      <4>2. reqs[g].op = "del" => Alone(g, p)
        BY <2>1, <2>4 DEF PortFine, RequestFine
      <4>3. QED BY <4>1, <4>2 DEF Alone
    <3>2. CASE ~Busy(h)
      BY <1>3, <2>1, <2>4, <3>2 DEF Deleting, HasRequest
    <3>3. QED BY <3>1, <3>2
  <2>5. HasRequest(h, p) /\ reqs[h].stage = "delete" /\ reqs[h].called
          => n.stage = "delete" /\ n.called /\ n.port = p
    BY <1>3, <2>1 DEF HasRequest, NoRequest
  <2>6. HasRequest(h, p) /\ reqs[h].stage = "insert"
          => (n.stage = "insert" /\ n.port = p) \/ On(p) # {} \/ listeners[p] = None
    BY <1>3, <2>1 DEF HasRequest, NoRequest
  <2>7. QED BY <1>1, <2>1, <2>2, <2>3, <2>4, <2>5, <2>6, OnlyRequest
<1>4. \A o \in Ports \ {p} : On(o)' = On(o)
  BY DEF On, Live
<1>5. QED BY <1>2, <1>3, <1>4, RequestStep DEF Still

-----------------------------------------------------------------------------
(* AddChain and DelChain, their quiet steps.                               *)

\* The request of a handler that is at work.
LEMMA AtWorkOn ==
  ASSUME ChainInv, NEW h \in Accounts, NEW st \in {"check", "count", "call", "insert", "map", "delete", "unmap"},
         AtStage(h, st)
  PROVE  /\ Busy(h) /\ WellFormed(reqs[h]) /\ Names(reqs[h]) /\ reqs[h].port \in Ports
         /\ reqs[h].stage = st /\ reqs[h] # NoRequest
<1>1. Busy(h)
  BY DEF AtStage, Busy, NoRequest
<1>2. WellFormed(reqs[h]) /\ Names(reqs[h])
  BY <1>1 DEF ChainInv, TypesOK, RequestsOK
<1>3. QED BY <1>1, <1>2 DEF AtStage, WellFormed, RequestRecord, Busy

LEMMA BeginAddInv ==
  ASSUME ChainInv, NEW h \in Accounts, BeginAdd(h)
  PROVE  ChainInv'
<1>1. PICK p \in Ports, o \in Offers :
        /\ reqs' = [reqs EXCEPT ![h] = Request(h, "add", "check", None, p, o[1], o[2])]
        /\ IF Deleting(p) THEN Disturb(p) ELSE UNCHANGED disturbed
  BY DEF BeginAdd
<1>2. ~Busy(h) /\ UNCHANGED <<chains, born, agent, snap, listeners, relay, mixed>>
  BY DEF BeginAdd, db
<1> DEFINE n == Request(h, "add", "check", None, p, o[1], o[2])
<1>3. WellFormed(n) /\ n.port = p /\ n.op = "add" /\ n.stage = "check" /\ Names(n)
  BY ChainsAssumption DEF Request, FindsNoNode, WellFormed, RequestRecord, Names
<1>4. agent = "up" => disturbed \subseteq disturbed' /\ (p \notin disturbed' => ~Deleting(p))
  BY <1>1 DEF Disturb
<1>5. reqs' = [reqs EXCEPT ![h] = n]
  BY <1>1
<1> HIDE DEF n
<1>6. AddFine(n, p)
  BY <1>3 DEF AddFine
<1>7. QED BY <1>2, <1>3, <1>4, <1>5, <1>6, QuietStep

LEMMA BeginDelInv ==
  ASSUME ChainInv, NEW h \in Accounts, BeginDel(h)
  PROVE  ChainInv'
<1>1. PICK c \in Live :
        /\ reqs' = [reqs EXCEPT ![h] = Request(h, "del", "count", c, chains[c].port, None, None)]
        /\ IF AtWork(chains[c].port) \/ FindsNoNode(h) THEN Disturb(chains[c].port) ELSE UNCHANGED disturbed
  BY DEF BeginDel
<1>2. ~Busy(h) /\ UNCHANGED <<chains, born, agent, snap, listeners, relay, mixed>>
  BY DEF BeginDel, db
<1> DEFINE p == chains[c].port
           n == Request(h, "del", "count", c, p, None, None)
<1>3. p \in Ports /\ c \in On(p) /\ c \in ChainIds
  BY DEF On, Live, ChainInv, TypesOK, ChainsOK, Row
<1>4. WellFormed(n) /\ n.port = p /\ n.op = "del" /\ n.stage = "count" /\ n.id = c /\ Names(n)
      /\ n.key = ~FindsNoNode(h)
  <2>1. c \in born
    BY DEF ChainInv, TypesOK, ChainsOK
  <2>2. QED BY <1>3, <2>1 DEF Request, FindsNoNode, WellFormed, RequestRecord, Names
<1>5. agent = "up" => disturbed \subseteq disturbed' /\ (p \notin disturbed' => ~AtWork(p) /\ ~FindsNoNode(h))
  BY <1>1 DEF Disturb
<1>6. ~AtWork(p) => ~Deleting(p)
  BY DEF AtWork, Deleting
<1>7. reqs' = [reqs EXCEPT ![h] = n]
  BY <1>1
<1> HIDE DEF n, p
<1>8. ~FindsNoNode(h) => DelFine(n, p)
  BY <1>3, <1>4 DEF DelFine
<1>9. QED BY <1>2, <1>3, <1>4, <1>5, <1>6, <1>7, <1>8, QuietStep

\* A request ends, and nothing hangs on it.
LEMMA FinishInv ==
  ASSUME ChainInv, NEW h \in Accounts, Busy(h), Finish(h),
         UNCHANGED <<chains, born, agent, snap, listeners, relay, mixed>>,
         agent = "up" => disturbed \subseteq disturbed',
         agent = "up" /\ reqs[h].port \notin disturbed' /\ PortFine(reqs[h].port) =>
           /\ ~(reqs[h].stage = "delete" /\ reqs[h].called)
           /\ reqs[h].stage = "insert" => On(reqs[h].port) # {} \/ listeners[reqs[h].port] = None
  PROVE  ChainInv'
<1>1. reqs[h].port \in Ports
  BY DEF ChainInv, TypesOK, RequestsOK, WellFormed, RequestRecord
<1>2. reqs' = [reqs EXCEPT ![h] = NoRequest]
  BY DEF Finish
<1>3. QED BY <1>1, <1>2, QuietStep

\* A request goes to another stage.
LEMMA GoToInv ==
  ASSUME ChainInv, NEW h \in Accounts, Busy(h), NEW st, GoTo(h, st),
         IF reqs[h].op = "add" THEN st \in {"check", "count", "call", "insert", "map"}
                               ELSE st \in {"count", "call", "delete", "unmap"},
         reqs[h].called => st \in {"insert", "map", "delete", "unmap"},
         UNCHANGED <<chains, born, agent, snap, listeners, relay, mixed, disturbed>>,
         agent = "up" /\ reqs[h].port \notin disturbed /\ PortFine(reqs[h].port) =>
           /\ ~(reqs[h].stage = "delete" /\ reqs[h].called) /\ reqs[h].stage # "insert"
           /\ IF reqs[h].op = "del" THEN DelFine([reqs[h] EXCEPT !.stage = st], reqs[h].port)
                                    ELSE AddFine([reqs[h] EXCEPT !.stage = st], reqs[h].port)
  PROVE  ChainInv'
<1> DEFINE n == [reqs[h] EXCEPT !.stage = st]
           p == reqs[h].port
<1>1. WellFormed(reqs[h]) /\ Names(reqs[h]) /\ p \in Ports
  BY DEF ChainInv, TypesOK, RequestsOK, WellFormed, RequestRecord
<1>2. WellFormed(n) /\ Names(n) /\ n.port = p /\ n.op = reqs[h].op
  BY <1>1 DEF WellFormed, RequestRecord, Names
<1>3. reqs' = [reqs EXCEPT ![h] = n]
  BY DEF GoTo, ChainInv, TypesOK, RequestsOK
<1>4. agent = "up" /\ p \notin disturbed /\ PortFine(p) =>
        /\ ~(reqs[h].stage = "delete" /\ reqs[h].called) /\ reqs[h].stage # "insert"
        /\ IF n.op = "del" THEN DelFine(n, p) ELSE AddFine(n, p)
  BY <1>2
<1> HIDE DEF n, p
<1>5. reqs[h].port = p
  BY DEF p
<1>6. QED BY <1>1, <1>2, <1>3, <1>4, <1>5, QuietStep

LEMMA AddQuietInv ==
  ASSUME ChainInv, NEW h \in Accounts,
         AddChecks(h) \/ AddCounts(h) \/ AddRefused(h) \/ AddInsertFails(h) \/ AddMaps(h) \/ AddMapFails(h)
  PROVE  ChainInv'
<1>1. UNCHANGED <<chains, born, agent, snap, listeners, relay, mixed>>
  BY DEF AddChecks, AddCounts, AddRefused, AddInsertFails, AddMaps, AddMapFails, db, hist
<1>2. CASE AddChecks(h)
  <2>1. Busy(h) /\ WellFormed(reqs[h]) /\ reqs[h].stage = "check" /\ UNCHANGED disturbed
    BY <1>2, AtWorkOn DEF AddChecks, hist
  <2>2. reqs[h].op = "add" /\ ~reqs[h].called
    BY <2>1 DEF WellFormed
  <2>3. CASE GoTo(h, "count")
    <3>1. AddFine([reqs[h] EXCEPT !.stage = "count"], reqs[h].port)
      BY <2>1 DEF AddFine, WellFormed, RequestRecord
    <3>2. QED BY <1>1, <2>1, <2>2, <2>3, <3>1, GoToInv
  <2>4. CASE Finish(h)
    BY <1>1, <2>1, <2>4, FinishInv
  <2>5. QED BY <1>2, <2>3, <2>4 DEF AddChecks
<1>3. CASE AddCounts(h)
  <2>1. Busy(h) /\ WellFormed(reqs[h]) /\ reqs[h].stage = "count" /\ reqs[h].op = "add" /\ UNCHANGED disturbed
    BY <1>3, AtWorkOn DEF AddCounts, hist
  <2>2. ~reqs[h].called
    BY <2>1 DEF WellFormed
  <2> DEFINE st == IF On(reqs[h].port) = {} THEN "call" ELSE "insert"
  <2>3. GoTo(h, st)
    BY <1>3 DEF AddCounts
  <2>4. AddFine([reqs[h] EXCEPT !.stage = st], reqs[h].port)
    BY <2>1, <2>2 DEF AddFine, WellFormed, RequestRecord
  <2>5. st \in {"call", "insert"}
    OBVIOUS
  <2> HIDE DEF st
  <2>6. QED BY <1>1, <2>1, <2>2, <2>3, <2>4, <2>5, GoToInv
<1>4. CASE AddRefused(h)
  <2>1. Busy(h) /\ reqs[h].stage = "call" /\ UNCHANGED disturbed /\ Finish(h)
    BY <1>4, AtWorkOn DEF AddRefused, hist
  <2>2. QED BY <1>1, <2>1, FinishInv
<1>5. CASE AddInsertFails(h)
  <2>1. Busy(h) /\ WellFormed(reqs[h]) /\ reqs[h].stage = "insert" /\ Finish(h)
    BY <1>5, AtWorkOn DEF AddInsertFails
  <2>2. reqs[h].op = "add"
    BY <2>1 DEF WellFormed
  <2>3. agent = "up" => disturbed \subseteq disturbed' /\ (reqs[h].called => reqs[h].port \in disturbed')
    BY <1>5 DEF AddInsertFails, Disturb
  <2>4. PortFine(reqs[h].port) /\ ~reqs[h].called => On(reqs[h].port) # {}
    BY <2>1, <2>2 DEF PortFine, HasRequest, RequestFine, AddFine
  <2>5. QED BY <1>1, <2>1, <2>3, <2>4, FinishInv
<1>6. CASE AddMaps(h) \/ AddMapFails(h)
  <2>1. Busy(h) /\ reqs[h].stage = "map" /\ UNCHANGED disturbed /\ Finish(h)
    BY <1>6, AtWorkOn DEF AddMaps, AddMapFails, hist
  <2>2. QED BY <1>1, <2>1, FinishInv
<1>7. QED BY <1>2, <1>3, <1>4, <1>5, <1>6

\* Of a deletion: what it finds when it counts decides whether it is the last.
LEMMA DelCountsInv ==
  ASSUME ChainInv, NEW h \in Accounts, DelCounts(h)
  PROVE  ChainInv'
<1> DEFINE p == reqs[h].port
           i == reqs[h].id
<1>1. /\ Busy(h) /\ WellFormed(reqs[h]) /\ reqs[h].stage = "count" /\ reqs[h].op = "del"
      /\ UNCHANGED <<chains, born, agent, snap, listeners, relay, mixed, disturbed>>
  BY AtWorkOn DEF DelCounts, db, hist
<1>2. ~reqs[h].called /\ reqs[h] \in RequestRecord
  BY <1>1 DEF WellFormed
<1>3. PortFine(p) => i \in On(p) /\ reqs[h].key
  BY <1>1 DEF PortFine, HasRequest, RequestFine, DelFine
<1>4. IsFiniteSet(On(p))
  <2>1. IsFiniteSet(ChainIds)
    BY FS_Interval, ChainsAssumption DEF ChainIds
  <2>2. On(p) \in SUBSET ChainIds
    BY DEF On, Live
  <2>3. QED BY <2>1, <2>2, FS_Subset
<1>5. Cardinality(On(p)) = 1 <=> \E c : On(p) = {c}
  BY <1>4, FS_Singleton
<1>6. CASE Cardinality(On(p)) = 1 /\ GoTo(h, "call")
  <2>1. PortFine(p) => On(p) = {i}
    BY <1>3, <1>5, <1>6
  <2>2. PortFine(p) => DelFine([reqs[h] EXCEPT !.stage = "call"], p)
    BY <1>2, <1>3, <2>1 DEF DelFine, RequestRecord
  <2>3. QED BY <1>1, <1>2, <1>6, <2>2, GoToInv
<1>7. CASE ~(Cardinality(On(p)) = 1 /\ reqs[h].key) /\ GoTo(h, "delete")
  <2>1. PortFine(p) => \E d \in On(p) : d # i
    BY <1>3, <1>5, <1>7
  <2>2. PortFine(p) => DelFine([reqs[h] EXCEPT !.stage = "delete"], p)
    BY <1>2, <1>3, <2>1 DEF DelFine, RequestRecord
  <2>3. QED BY <1>1, <1>2, <1>7, <2>2, GoToInv
<1>8. CASE Finish(h)
  BY <1>1, <1>8, FinishInv
<1>9. QED BY <1>6, <1>7, <1>8 DEF DelCounts

LEMMA DelQuietInv ==
  ASSUME ChainInv, NEW h \in Accounts,
         DelRefused(h) \/ DelDeleteFails(h) \/ DelUnmaps(h) \/ DelUnmapFails(h)
  PROVE  ChainInv'
<1>1. UNCHANGED <<chains, born, agent, snap, listeners, relay, mixed>> /\ Finish(h)
  BY DEF DelRefused, DelDeleteFails, DelUnmaps, DelUnmapFails, db, hist
<1>2. CASE DelRefused(h)
  <2>1. Busy(h) /\ reqs[h].stage = "call" /\ UNCHANGED disturbed
    BY <1>2, AtWorkOn DEF DelRefused, hist
  <2>2. QED BY <1>1, <2>1, FinishInv
<1>3. CASE DelDeleteFails(h)
  <2>1. Busy(h) /\ reqs[h].stage = "delete"
    BY <1>3, AtWorkOn DEF DelDeleteFails
  <2>2. agent = "up" => disturbed \subseteq disturbed' /\ (reqs[h].called => reqs[h].port \in disturbed')
    BY <1>3 DEF DelDeleteFails, Disturb
  <2>3. QED BY <1>1, <2>1, <2>2, FinishInv
<1>4. CASE DelUnmaps(h) \/ DelUnmapFails(h)
  <2>1. Busy(h) /\ reqs[h].stage = "unmap" /\ UNCHANGED disturbed
    BY <1>4, AtWorkOn DEF DelUnmaps, DelUnmapFails, hist
  <2>2. QED BY <1>1, <2>1, FinishInv
<1>5. QED BY <1>2, <1>3, <1>4

-----------------------------------------------------------------------------
(* The steps that move a listener or a row.                                *)

LEMMA RequestsStayOK ==
  ASSUME TypesOK, NEW h \in Accounts, NEW n, reqs' = [reqs EXCEPT ![h] = n],
         n = NoRequest \/ (WellFormed(n) /\ Names(n)'),
         born \subseteq born',
         \A g \in Accounts \ {h} : Busy(g) /\ Names(reqs[g]) /\ reqs'[g] = reqs[g] => Names(reqs[g])'
  PROVE  RequestsOK'
<1>1. /\ reqs'[h] = n
      /\ \A g \in Accounts \ {h} : reqs'[g] = reqs[g]
  BY RequestMoves
<1>2. reqs' = [g \in Accounts |-> reqs'[g]]
  BY DEF TypesOK, RequestsOK
<1>3. ASSUME NEW g \in Accounts \ {h}, reqs'[g] # NoRequest
      PROVE  WellFormed(reqs'[g]) /\ Names(reqs[g])'
  <2>1. Busy(g) /\ WellFormed(reqs[g]) /\ Names(reqs[g])
    BY <1>1, <1>3 DEF TypesOK, RequestsOK, Busy
  <2>2. Names(reqs[g])'
    BY <1>3, <2>1, <1>1
  <2>3. QED BY <1>1, <2>1, <2>2
<1>4. n # NoRequest => WellFormed(reqs'[h]) /\ Names(reqs[h])'
  BY <1>1 DEF Names
<1>5. QED BY <1>1, <1>2, <1>3, <1>4 DEF RequestsOK, Busy

\* On an undisturbed port a handler at work keeps every deletion but its own away.
LEMMA NoOtherDeletion ==
  ASSUME TypesOK, NEW p \in Ports, PortFine(p), NEW h \in Accounts, HasRequest(h, p), reqs[h].op # "del"
  PROVE  /\ \A g \in Accounts : HasRequest(g, p) => reqs[g].op # "del"
         /\ ~Closing(p)
<1>1. ASSUME NEW g \in Accounts, HasRequest(g, p)
      PROVE  reqs[g].op # "del"
  <2>1. reqs[g].op = "del" => Alone(g, p)
    BY <1>1 DEF PortFine, RequestFine
  <2>2. QED BY <2>1 DEF Alone
<1>2. ASSUME NEW g \in Accounts, reqs[g].stage = "delete", reqs[g].port = p
      PROVE  FALSE
  <2>1. Busy(g)
    BY <1>2 DEF Busy, NoRequest
  <2>2. reqs[g].op = "del"
    BY <1>2, <2>1 DEF TypesOK, RequestsOK, WellFormed
  <2>3. QED BY <1>1, <1>2, <2>1, <2>2 DEF HasRequest
<1>3. QED BY <1>1, <1>2 DEF Closing, AtStage

\* The agent's answer is lost: the port is disturbed from now on.
LEMMA LostAnswer ==
  ASSUME ChainInv, NEW h \in Accounts, Busy(h), Finish(h), agent = "up", Disturb(reqs[h].port),
         UNCHANGED <<chains, born, agent, snap, relay, mixed>>,
         NEW v \in Protos \cup {None}, listeners' = [listeners EXCEPT ![reqs[h].port] = v]
  PROVE  ChainInv'
<1> DEFINE p == reqs[h].port
<1>1. TypesOK /\ p \in Ports
  BY DEF ChainInv, TypesOK, RequestsOK, WellFormed, RequestRecord
<1>2. reqs' = [reqs EXCEPT ![h] = NoRequest]
  BY DEF Finish
<1>3. TypesOK'
  <2>1. RequestsOK'
    <3>1. \A g \in Accounts \ {h} : Names(reqs[g]) /\ reqs'[g] = reqs[g] => Names(reqs[g])'
      BY DEF Names
    <3>2. QED BY <1>1, <1>2, <3>1, RequestsStayOK
  <2>2. ChainsOK' /\ AgentOK' /\ RelayOK'
    BY <1>1 DEF TypesOK, ChainsOK, AgentOK, RelayOK, Live
  <2>3. QED BY <2>1, <2>2 DEF TypesOK
<1>4. disturbed \subseteq disturbed' /\ p \in disturbed'
  BY DEF Disturb
<1>5. \A o \in Ports \ {p} : On(o)' = On(o) /\ listeners'[o] = listeners[o]
  BY <1>1 DEF On, Live, TypesOK, AgentOK
<1> HIDE DEF p
<1>6. reqs[h].port = p
  BY DEF p
<1>7. QED BY <1>1, <1>2, <1>3, <1>4, <1>5, <1>6, RequestStep DEF Still

LEMMA AddCallsInv ==
  ASSUME ChainInv, NEW h \in Accounts, AddCalls(h)
  PROVE  ChainInv'
<1>0. PICK q, p : q = reqs[h] /\ p = q.port
  OBVIOUS
<1>1. /\ Busy(h) /\ WellFormed(q) /\ Names(q) /\ p \in Ports /\ q.stage = "call" /\ q.op = "add"
      /\ agent = "up" /\ listeners[p] = None /\ listeners' = [listeners EXCEPT ![p] = q.proto]
      /\ UNCHANGED <<chains, born, agent, snap, relay, mixed>>
  BY <1>0, AtWorkOn DEF AddCalls, AgentAdds, db
<1>2. TypesOK /\ q.proto \in Protos /\ q \in RequestRecord
  BY <1>1 DEF ChainInv, WellFormed
<1>3. CASE Finish(h) /\ Disturb(p)
  BY <1>0, <1>1, <1>2, <1>3, LostAnswer
<1>4. CASE reqs' = [reqs EXCEPT ![h].stage = "insert", ![h].called = TRUE] /\ UNCHANGED disturbed
  <2>0. PICK n : n = [q EXCEPT !.stage = "insert", !.called = TRUE]
    OBVIOUS
  <2>1. reqs' = [reqs EXCEPT ![h] = n]
    BY <1>0, <1>2, <1>4, <2>0 DEF TypesOK, RequestsOK
  <2>2. /\ WellFormed(n) /\ Names(n)' /\ n.port = p /\ n.op = "add" /\ n # NoRequest
        /\ n.stage = "insert" /\ n.called /\ n.proto = q.proto
    <3>1. n.port = p /\ n.op = "add" /\ n.stage = "insert" /\ n.called /\ n.proto = q.proto /\ n.id = q.id
      BY <1>0, <1>1, <1>2, <2>0 DEF RequestRecord
    <3>2. WellFormed(n)
      BY <1>0, <1>1, <1>2, <2>0 DEF WellFormed, RequestRecord
    <3>3. Names(n)'
      BY <1>0, <1>1, <3>1 DEF Names
    <3>4. QED BY <3>1, <3>2, <3>3 DEF NoRequest
  <2>3. TypesOK'
    <3>1. RequestsOK'
      <4>1. born \subseteq born' /\ \A g \in Accounts \ {h} : Names(reqs[g]) /\ reqs'[g] = reqs[g] => Names(reqs[g])'
        BY <1>1 DEF Names
      <4>2. QED BY <1>2, <2>1, <2>2, <4>1, RequestsStayOK
    <3>2. ChainsOK' /\ AgentOK' /\ RelayOK'
      BY <1>1, <1>2 DEF TypesOK, ChainsOK, AgentOK, RelayOK, Live
    <3>3. QED BY <3>1, <3>2 DEF TypesOK
  <2>4. \A o \in Ports : On(o)' = On(o) /\ (o # p => listeners'[o] = listeners[o])
    BY <1>1, <1>2 DEF On, Live, TypesOK, AgentOK
  <2>5. listeners'[p] = q.proto
    BY <1>1, <1>2 DEF TypesOK, AgentOK
  <2>6. ASSUME p \notin disturbed
        PROVE  PortFine(p)'
    <3>1. PortFine(p) /\ HasRequest(h, p)
      BY <1>0, <1>1, <2>6 DEF ChainInv, HasRequest
    <3>2. (\A g \in Accounts : HasRequest(g, p) => reqs[g].op # "del") /\ ~Closing(p)
      BY <1>0, <1>1, <1>2, <3>1, NoOtherDeletion
    <3>3. On(p) = {}
      <4>1. ASSUME NEW c \in On(p) PROVE FALSE
        <5>1. chains[c] \in Row
          BY <1>2, <4>1 DEF On, Live, TypesOK, ChainsOK
        <5>2. chains[c].proto # None
          BY <5>1, ChainsAssumption DEF Row
        <5>3. QED BY <1>1, <3>1, <3>2, <4>1, <5>2 DEF PortFine, ServedOn
      <4>2. QED BY <4>1
    <3>4. ASSUME NEW g \in Accounts, HasRequest(g, p)'
          PROVE  RequestFine(g, p)'
      <4>1. CASE g = h
        <5>1. reqs'[g] = n
          BY <1>2, <2>1, <4>1, RequestMoves
        <5>2. QED BY <2>2, <2>5, <5>1 DEF RequestFine, AddFine
      <4>2. CASE g # h
        <5>0. HasRequest(g, p) /\ reqs'[g] = reqs[g]
          BY <1>1, <1>2, <2>1, <3>4, <4>2, RequestMoves
        <5>1. AddFine(reqs[g], p) /\ reqs[g].op # "del" /\ HasRequest(g, p) /\ reqs'[g] = reqs[g]
          BY <3>1, <3>2, <5>0 DEF PortFine, RequestFine
        <5>2. WellFormed(reqs[g])
          BY <1>2, <5>1 DEF TypesOK, RequestsOK, HasRequest
        <5>3. reqs[g].stage # "insert"
          BY <1>1, <3>3, <5>1, <5>2, ChainsAssumption DEF AddFine, WellFormed
        <5>4. QED BY <5>1, <5>3 DEF RequestFine, AddFine
      <4>3. QED BY <4>1, <4>2
    <3>5. RelayFine(p)' /\ ServedOn(p)'
      BY <1>1, <2>4, <3>1, <3>3 DEF PortFine, RelayFine, ServedOn, Relaying
    <3>6. Inserting(p)'
      BY <1>2, <2>1, <2>2, RequestMoves DEF Inserting, AtStage
    <3>7. QED BY <3>4, <3>5, <3>6 DEF PortFine
  <2>7. reqs[h].port = p
    BY <1>0
  <2>8. \A o \in Ports \ {p} : On(o)' = On(o) /\ listeners'[o] = listeners[o]
    BY <2>4
  <2>9. /\ UNCHANGED <<chains, agent, relay, mixed>> /\ disturbed \subseteq disturbed'
        /\ agent = "up" /\ p \notin disturbed' => PortFine(p)'
        /\ p \in Ports /\ n.port = p
    BY <1>1, <1>4, <2>2, <2>6
  <2>10. QED BY <2>1, <2>3, <2>7, <2>8, <2>9, RequestStep DEF Still
<1>5. QED BY <1>0, <1>3, <1>4 DEF AddCalls

LEMMA DelCallsInv ==
  ASSUME ChainInv, NEW h \in Accounts, DelCalls(h)
  PROVE  ChainInv'
<1>0. PICK q, p : q = reqs[h] /\ p = q.port
  OBVIOUS
<1>1. /\ Busy(h) /\ WellFormed(q) /\ Names(q) /\ p \in Ports /\ q.stage = "call" /\ q.op = "del"
      /\ agent = "up" /\ listeners' = [listeners EXCEPT ![p] = None]
      /\ UNCHANGED <<chains, born, agent, snap, relay, mixed>>
  BY <1>0, AtWorkOn DEF DelCalls, AgentDels, db
<1>2. TypesOK /\ q \in RequestRecord
  BY <1>1 DEF ChainInv, WellFormed
<1>3. CASE Finish(h) /\ Disturb(p)
  BY <1>0, <1>1, <1>2, <1>3, LostAnswer
<1>4. CASE reqs' = [reqs EXCEPT ![h].stage = "delete", ![h].called = TRUE] /\ UNCHANGED disturbed
  <2>0. PICK n : n = [q EXCEPT !.stage = "delete", !.called = TRUE]
    OBVIOUS
  <2>1. reqs' = [reqs EXCEPT ![h] = n]
    BY <1>0, <1>2, <1>4, <2>0 DEF TypesOK, RequestsOK
  <2>2. /\ WellFormed(n) /\ Names(n)' /\ n.port = p /\ n.op = "del" /\ n # NoRequest
        /\ n.stage = "delete" /\ n.called /\ n.id = q.id /\ n.key = q.key
    <3>1. n.port = p /\ n.op = "del" /\ n.stage = "delete" /\ n.called
         /\ n.proto = q.proto /\ n.id = q.id /\ n.key = q.key
      BY <1>0, <1>1, <1>2, <2>0 DEF RequestRecord
    <3>2. WellFormed(n)
      BY <1>0, <1>1, <1>2, <2>0 DEF WellFormed, RequestRecord
    <3>3. Names(n)'
      BY <1>0, <1>1, <3>1 DEF Names
    <3>4. QED BY <3>1, <3>2, <3>3 DEF NoRequest
  <2>3. TypesOK'
    <3>1. RequestsOK'
      <4>1. born \subseteq born' /\ \A g \in Accounts \ {h} : Names(reqs[g]) /\ reqs'[g] = reqs[g] => Names(reqs[g])'
        BY <1>1 DEF Names
      <4>2. QED BY <1>2, <2>1, <2>2, <4>1, RequestsStayOK
    <3>2. ChainsOK' /\ AgentOK' /\ RelayOK'
      BY <1>1, <1>2 DEF TypesOK, ChainsOK, AgentOK, RelayOK, Live
    <3>3. QED BY <3>1, <3>2 DEF TypesOK
  <2>4. \A o \in Ports : On(o)' = On(o) /\ (o # p => listeners'[o] = listeners[o])
    BY <1>1, <1>2 DEF On, Live, TypesOK, AgentOK
  <2>5. listeners'[p] = None
    BY <1>1, <1>2 DEF TypesOK, AgentOK
  <2>6. ASSUME p \notin disturbed
        PROVE  PortFine(p)'
    <3>1. PortFine(p) /\ HasRequest(h, p)
      BY <1>0, <1>1, <2>6 DEF ChainInv, HasRequest
    <3>2. Alone(h, p) /\ q.key /\ q.id \in On(p) /\ On(p) \subseteq {q.id}
      BY <1>0, <1>1, <3>1 DEF PortFine, RequestFine, DelFine
    <3>3. reqs'[h] = n /\ \A g \in Accounts \ {h} : ~HasRequest(g, p)'
      BY <1>1, <1>2, <2>1, <3>2, RequestMoves DEF Alone
    <3>4. Alone(h, p)'
      BY <1>1, <3>2, <3>3 DEF Alone, Relaying
    <3>5. DelFine(n, p)'
      BY <1>1, <2>2, <2>4, <2>5, <3>2 DEF DelFine
    <3>6. RequestFine(h, p)'
      BY <2>2, <3>3, <3>4, <3>5 DEF RequestFine, DelFine
    <3>7. RelayFine(p)'
      BY <3>4 DEF Alone, RelayFine
    <3>8. Closing(p)'
      BY <2>2, <3>3 DEF Closing, AtStage
    <3>9. QED BY <2>5, <3>3, <3>6, <3>7, <3>8 DEF PortFine, ServedOn
  <2>7. reqs[h].port = p
    BY <1>0
  <2>8. \A o \in Ports \ {p} : On(o)' = On(o) /\ listeners'[o] = listeners[o]
    BY <2>4
  <2>9. /\ UNCHANGED <<chains, agent, relay, mixed>> /\ disturbed \subseteq disturbed'
        /\ agent = "up" /\ p \notin disturbed' => PortFine(p)'
        /\ p \in Ports /\ n.port = p
    BY <1>1, <1>4, <2>2, <2>6
  <2>10. QED BY <2>1, <2>3, <2>7, <2>8, <2>9, RequestStep DEF Still
<1>5. QED BY <1>0, <1>3, <1>4 DEF DelCalls

LEMMA AddInsertsInv ==
  ASSUME ChainInv, NEW h \in Accounts, AddInserts(h)
  PROVE  ChainInv'
<1>0. PICK q, p, c : q = reqs[h] /\ p = q.port /\ c = Min(ChainIds \ born)
  OBVIOUS
<1>1. PICK r : r = [port |-> p, ip |-> q.ip, proto |-> q.proto]
  OBVIOUS
<1>2. /\ Busy(h) /\ WellFormed(q) /\ Names(q) /\ p \in Ports /\ q.stage = "insert"
      /\ ChainIds # born /\ born' = born \cup {c} /\ chains' = [chains EXCEPT ![c] = r]
      /\ reqs' = [reqs EXCEPT ![h].stage = "map", ![h].id = c]
      /\ mixed' = IF agent = "up" /\ \E d \in On(p) : chains[d].proto # q.proto THEN mixed \cup {p} ELSE mixed
      /\ UNCHANGED <<agent, snap, listeners, relay, disturbed>>
  BY <1>0, <1>1, AtWorkOn DEF AddInserts
<1>3. TypesOK /\ q.op = "add" /\ q.proto \in Protos /\ q.ip \in Ips /\ q \in RequestRecord
  BY <1>2 DEF ChainInv, WellFormed
<1>4. r \in Row /\ r # None /\ r.port = p /\ r.proto = q.proto
  BY <1>1, <1>2, <1>3, ChainsAssumption DEF Row
<1>5. c \in ChainIds /\ c \notin born
  <2>1. ChainIds \ born \in SUBSET Nat /\ ChainIds \ born # {}
    <3>1. ChainIds \ born \in SUBSET Nat
      BY ChainsAssumption DEF ChainIds
    <3>2. ChainIds \ born # {}
      BY <1>2, <1>3 DEF TypesOK, ChainsOK
    <3>3. QED BY <3>1, <3>2
  <2>2. QED BY <1>0, <2>1, LeastId
<1>6. /\ chains'[c] = r
      /\ \A d \in ChainIds \ {c} : chains'[d] = chains[d]
  BY <1>2, <1>3, <1>5 DEF TypesOK, ChainsOK
<1>7. c \notin Live /\ Live' = Live \cup {c}
  BY <1>3, <1>4, <1>5, <1>6 DEF Live, TypesOK, ChainsOK
<1>8. /\ On(p)' = On(p) \cup {c}
      /\ \A o \in Ports \ {p} : On(o)' = On(o)
      /\ \A o \in Ports : \A d \in On(o) : d \in Live /\ d # c /\ chains'[d] = chains[d]
  <2>1. \A d \in Live : d # c /\ d \in ChainIds /\ chains'[d] = chains[d]
    BY <1>6, <1>7 DEF Live
  <2>2. QED BY <1>4, <1>6, <1>7, <2>1 DEF On
<1>9. PICK n : n = [q EXCEPT !.stage = "map", !.id = c]
  OBVIOUS
<1>10. reqs' = [reqs EXCEPT ![h] = n]
  BY <1>0, <1>2, <1>3, <1>9 DEF TypesOK, RequestsOK
<1>11. WellFormed(n) /\ n.port = p /\ n.op = "add" /\ n.stage = "map"
  BY <1>0, <1>2, <1>3, <1>5, <1>9 DEF WellFormed, RequestRecord
<1>12. TypesOK'
  <2>1. Names(n)'
    BY <1>11 DEF Names
  <2>2. \A g \in Accounts \ {h} : Names(reqs[g]) /\ reqs'[g] = reqs[g] => Names(reqs[g])'
    <3>1. SUFFICES ASSUME NEW g \in Accounts \ {h}, Names(reqs[g]), reqs'[g] = reqs[g], reqs[g].op = "del"
                   PROVE  /\ reqs[g].id \in born'
                          /\ chains'[reqs[g].id] # None => chains'[reqs[g].id].port = reqs[g].port
      BY DEF Names
    <3>2. reqs[g].id \in born /\ (chains[reqs[g].id] # None => chains[reqs[g].id].port = reqs[g].port)
      BY <3>1 DEF Names
    <3>3. reqs[g].id # c /\ reqs[g].id \in ChainIds
      BY <1>3, <1>5, <3>2 DEF TypesOK, ChainsOK
    <3>4. QED BY <1>2, <1>6, <3>2, <3>3
  <2>3. RequestsOK'
    BY <1>2, <1>3, <1>10, <1>11, <2>1, <2>2, RequestsStayOK
  <2>4. ChainsOK'
    <3>1. chains' \in [ChainIds -> Row \cup {None}]
      BY <1>2, <1>3, <1>4, <1>5 DEF TypesOK, ChainsOK
    <3>2. QED BY <1>2, <1>3, <1>5, <1>7, <3>1 DEF TypesOK, ChainsOK
  <2>5. AgentOK' /\ RelayOK'
    BY <1>2, <1>3 DEF TypesOK, AgentOK, RelayOK
  <2>6. QED BY <2>3, <2>4, <2>5 DEF TypesOK
<1>13. ASSUME agent = "up", p \notin disturbed'
       PROVE  PortFine(p)'
  <2>1. PortFine(p) /\ HasRequest(h, p) /\ HasRequest(h, p)
    BY <1>0, <1>2, <1>13 DEF ChainInv, HasRequest
  <2>2. (\A g \in Accounts : HasRequest(g, p) => reqs[g].op # "del") /\ ~Closing(p)
    BY <1>0, <1>2, <1>3, <2>1, NoOtherDeletion
  <2>3. IF q.called THEN listeners[p] = q.proto ELSE On(p) # {}
    BY <1>0, <1>2, <2>1, <2>2 DEF PortFine, RequestFine, AddFine
  <2>4. \A d \in On(p) : listeners[p] = chains[d].proto \/ (p \in mixed /\ listeners[p] # None)
    BY <2>1, <2>2 DEF PortFine, ServedOn
  <2>5. ASSUME NEW g \in Accounts, HasRequest(g, p)'
        PROVE  RequestFine(g, p)'
    <3>1. CASE g = h
      BY <1>2, <1>3, <1>10, <1>11, <3>1, RequestMoves DEF RequestFine, AddFine
    <3>2. CASE g # h
      <4>1. HasRequest(g, p) /\ reqs'[g] = reqs[g]
        BY <1>2, <1>3, <1>10, <2>5, <3>2, RequestMoves
      <4>2. AddFine(reqs[g], p) /\ reqs[g].op # "del" /\ reqs'[g] = reqs[g]
        BY <2>1, <2>2, <4>1 DEF PortFine, RequestFine
      <4>3. listeners'[p] = listeners[p] /\ (On(p) # {} => On(p)' # {})
        BY <1>2, <1>8
      <4>4. QED BY <4>2, <4>3 DEF RequestFine, AddFine
    <3>3. QED BY <3>1, <3>2
  <2>6. RelayFine(p)'
    <3>1. SUFFICES ASSUME NEW d \in ChainIds, relay[d].pc = "add", relay[d].port = p
                   PROVE  d \in On(p)' /\ chains'[d].proto = relay[d].proto
      BY <1>2 DEF RelayFine, Relaying
    <3>2. d \in On(p) /\ chains[d].proto = relay[d].proto
      BY <2>1, <3>1 DEF PortFine, RelayFine, Relaying
    <3>3. QED BY <1>2, <1>8, <3>2
  <2>7. ServedOn(p)'
    <3>1. SUFFICES ASSUME NEW d \in On(p)'
                   PROVE  listeners'[p] = chains'[d].proto \/ (p \in mixed' /\ listeners'[p] # None)
      BY DEF ServedOn
    <3>2. CASE d \in On(p)
      BY <1>2, <1>8, <2>4, <3>2
    <3>3. CASE d = c
      <4>1. CASE q.called
        BY <1>2, <1>4, <1>6, <2>3, <3>3, <4>1
      <4>2. CASE ~q.called
        <5>1. PICK e \in On(p) : TRUE
          BY <2>3, <4>2
        <5>2. chains[e] \in Row
          BY <1>3 DEF On, Live, TypesOK, ChainsOK
        <5>3. listeners[p] = chains[e].proto \/ (p \in mixed /\ listeners[p] # None)
          BY <2>4
        <5>4. chains[e].proto # None
          BY <5>2, ChainsAssumption DEF Row
        <5>5. chains[e].proto # q.proto => p \in mixed'
          BY <1>2, <1>13
        <5>6. p \in mixed => p \in mixed'
          BY <1>2
        <5>7. listeners'[p] = listeners[p] /\ chains'[d].proto = q.proto
          BY <1>2, <1>4, <1>6, <3>3
        <5>8. QED BY <5>3, <5>4, <5>5, <5>6, <5>7
      <4>3. QED BY <4>1, <4>2
    <3>4. QED BY <1>8, <3>1, <3>2, <3>3
  <2>8. On(p)' # {}
    BY <1>8
  <2>9. QED BY <2>5, <2>6, <2>7, <2>8 DEF PortFine
<1>14. \A o \in Ports \ {p} : Still(o)
  BY <1>2, <1>8 DEF Still
<1>15. Busy(h) => reqs[h].port = p
  BY <1>0
<1>16. UNCHANGED <<agent, relay, disturbed>> /\ p \in Ports
  BY <1>2
<1>17. QED BY <1>10, <1>11, <1>12, <1>13, <1>14, <1>15, <1>16, RequestStep

LEMMA DelDeletesInv ==
  ASSUME ChainInv, NEW h \in Accounts, DelDeletes(h)
  PROVE  ChainInv'
<1>0. PICK q, p, c : q = reqs[h] /\ p = q.port /\ c = q.id
  OBVIOUS
<1>1. /\ Busy(h) /\ WellFormed(q) /\ Names(q) /\ p \in Ports /\ q.stage = "delete"
      /\ chains' = [chains EXCEPT ![c] = None] /\ GoTo(h, "unmap")
      /\ UNCHANGED <<born, agent, snap, listeners, relay, disturbed, mixed>>
  BY <1>0, AtWorkOn DEF DelDeletes, hist
<1>2. TypesOK /\ q.op = "del" /\ c \in ChainIds /\ q \in RequestRecord
  BY <1>0, <1>1 DEF ChainInv, WellFormed
<1>3. chains'[c] = None /\ \A d \in ChainIds \ {c} : chains'[d] = chains[d]
  BY <1>1, <1>2 DEF TypesOK, ChainsOK
<1>4. Live' = Live \ {c}
  BY <1>2, <1>3 DEF Live
<1>5. /\ On(p)' = On(p) \ {c}
      /\ \A o \in Ports \ {p} : On(o)' = On(o)
      /\ \A o \in Ports : \A d \in On(o) \ {c} : chains'[d] = chains[d]
      /\ \A o \in Ports \ {p} : c \notin On(o)
  <2>1. \A d \in Live \ {c} : d \in ChainIds /\ chains'[d] = chains[d]
    BY <1>3 DEF Live
  <2>2. c \in Live => chains[c].port = p
    BY <1>0, <1>1, <1>2 DEF Names, Live
  <2>3. QED BY <1>4, <2>1, <2>2 DEF On
<1>6. PICK n : n = [q EXCEPT !.stage = "unmap"]
  OBVIOUS
<1>7. reqs' = [reqs EXCEPT ![h] = n]
  BY <1>0, <1>1, <1>2, <1>6 DEF GoTo, TypesOK, RequestsOK
<1>8. n.port = p /\ n.op = "del" /\ n.stage = "unmap" /\ n.id = c /\ n.called = q.called /\ n.key = q.key
  BY <1>0, <1>2, <1>6 DEF RequestRecord
<1>9. WellFormed(n)
  BY <1>1, <1>2, <1>6 DEF WellFormed, RequestRecord
<1>10. TypesOK'
  <2>1. Names(n)'
    BY <1>0, <1>1, <1>2, <1>3, <1>8 DEF Names
  <2>2. \A g \in Accounts \ {h} : Names(reqs[g]) /\ reqs'[g] = reqs[g] => Names(reqs[g])'
    <3>1. SUFFICES ASSUME NEW g \in Accounts \ {h}, Names(reqs[g]), reqs'[g] = reqs[g], reqs[g].op = "del"
                   PROVE  /\ reqs[g].id \in born'
                          /\ chains'[reqs[g].id] # None => chains'[reqs[g].id].port = reqs[g].port
      BY DEF Names
    <3>2. reqs[g].id \in born /\ (chains[reqs[g].id] # None => chains[reqs[g].id].port = reqs[g].port)
      BY <3>1 DEF Names
    <3>3. reqs[g].id \in ChainIds
      BY <1>2, <3>2 DEF TypesOK, ChainsOK
    <3>4. QED BY <1>1, <1>3, <3>2, <3>3
  <2>3. RequestsOK'
    BY <1>1, <1>2, <1>7, <1>9, <2>1, <2>2, RequestsStayOK
  <2>4. ChainsOK'
    <3>1. chains' \in [ChainIds -> Row \cup {None}]
      BY <1>1, <1>2 DEF TypesOK, ChainsOK
    <3>2. QED BY <1>1, <1>2, <1>4, <3>1 DEF TypesOK, ChainsOK
  <2>5. AgentOK' /\ RelayOK'
    BY <1>1, <1>2 DEF TypesOK, AgentOK, RelayOK
  <2>6. QED BY <2>3, <2>4, <2>5 DEF TypesOK
<1>11. ASSUME agent = "up", p \notin disturbed'
       PROVE  PortFine(p)'
  <2>1. PortFine(p) /\ HasRequest(h, p)
    BY <1>0, <1>1, <1>11 DEF ChainInv, HasRequest
  <2>2. Alone(h, p) /\ DelFine(q, p)
    BY <1>0, <1>2, <2>1 DEF PortFine, RequestFine
  <2>3. reqs'[h] = n /\ \A g \in Accounts \ {h} : ~HasRequest(g, p)'
    BY <1>1, <1>2, <1>7, <2>2, RequestMoves DEF Alone
  <2>4. Alone(h, p)'
    BY <1>1, <2>2, <2>3 DEF Alone, Relaying
  <2>5. RequestFine(h, p)'
    BY <1>8, <2>2, <2>3, <2>4 DEF RequestFine, DelFine
  <2>6. RelayFine(p)'
    BY <2>4 DEF Alone, RelayFine
  <2>7. CASE q.called
    <3>1. On(p)' = {} /\ listeners'[p] = None
      BY <1>0, <1>1, <1>5, <2>2, <2>7 DEF DelFine
    <3>2. QED BY <2>3, <2>5, <2>6, <3>1 DEF PortFine, ServedOn
  <2>8. CASE ~q.called
    <3>1. On(p)' # {}
      BY <1>0, <1>1, <1>5, <2>2, <2>8 DEF DelFine
    <3>2. ~Closing(p)
      <4>1. ASSUME NEW g \in Accounts, reqs[g].stage = "delete", reqs[g].port = p, reqs[g].called
            PROVE  FALSE
        <5>1. HasRequest(g, p)
          BY <4>1 DEF HasRequest, Busy, NoRequest
        <5>2. QED BY <1>0, <2>2, <2>8, <4>1, <5>1 DEF Alone
      <4>2. QED BY <4>1 DEF Closing, AtStage
    <3>3. ServedOn(p)'
      <4>1. SUFFICES ASSUME NEW d \in On(p)'
                     PROVE  listeners'[p] = chains'[d].proto \/ (p \in mixed' /\ listeners'[p] # None)
        BY DEF ServedOn
      <4>2. d \in On(p) /\ chains'[d] = chains[d]
        BY <1>1, <1>5, <4>1
      <4>3. listeners[p] = chains[d].proto \/ (p \in mixed /\ listeners[p] # None)
        BY <2>1, <3>2, <4>2 DEF PortFine, ServedOn
      <4>4. QED BY <1>1, <4>2, <4>3
    <3>4. QED BY <2>3, <2>5, <2>6, <3>1, <3>3 DEF PortFine
  <2>9. QED BY <2>7, <2>8
<1>12. \A o \in Ports \ {p} : Still(o)
  BY <1>1, <1>5 DEF Still
<1>13. UNCHANGED <<agent, relay, disturbed>> /\ p \in Ports /\ (Busy(h) => reqs[h].port = p)
  BY <1>0, <1>1
<1>14. QED BY <1>7, <1>8, <1>10, <1>11, <1>12, <1>13, RequestStep

-----------------------------------------------------------------------------
(* The agent and the relay.                                                *)

LEMMA OpenedType ==
  ASSUME TypesOK
  PROVE  /\ Opened \in [Ports -> Protos \cup {None}]
         /\ \A p \in Ports : IF On(p) = {} THEN Opened[p] = None
                                           ELSE \E c \in On(p) : Opened[p] = chains[c].proto
<1>1. ASSUME NEW p \in Ports, On(p) # {}
      PROVE  Max(On(p)) \in On(p) /\ chains[Max(On(p))].proto \in Protos
  <2>1. On(p) \in SUBSET ChainIds
    BY DEF On, Live
  <2>2. Max(On(p)) \in On(p)
    BY <1>1, <2>1, GreatestId
  <2>3. chains[Max(On(p))] \in Row
    BY <2>2 DEF On, Live, TypesOK, ChainsOK
  <2>4. QED BY <2>2, <2>3 DEF Row
<1>2. QED BY <1>1 DEF Opened

LEMMA AgentInv ==
  ASSUME ChainInv, Agent
  PROVE  ChainInv'
<1>1. TypesOK /\ UNCHANGED <<chains, born, reqs, relay>>
  BY DEF ChainInv, Agent, DelNode, RegisterNode, RegisterRefused, InitAgent, AgentStops, db, vars
<1>2. RequestsOK' /\ ChainsOK' /\ RelayOK'
  BY <1>1 DEF TypesOK, RequestsOK, ChainsOK, RelayOK, Live, Busy, Names
<1>3. CASE RegisterNode
  <2>1. AgentOK' /\ agent' # "up"
    BY <1>1, <1>3, OpenedType DEF RegisterNode, TypesOK, AgentOK
  <2>2. QED BY <1>2, <2>1 DEF ChainInv, TypesOK
<1>4. CASE AgentStops
  <2>1. AgentOK' /\ agent' # "up"
    BY <1>1, <1>4 DEF AgentStops, TypesOK, AgentOK
  <2>2. QED BY <1>2, <2>1 DEF ChainInv, TypesOK
<1>5. CASE InitAgent
  <2>1. AgentOK'
    BY <1>1, <1>5 DEF InitAgent, TypesOK, AgentOK
  <2>2. ASSUME NEW p \in Ports \ disturbed'
        PROVE  PortFine(p)'
    <3>1. ~AtWork(p) /\ snap[p] = Opened[p] /\ listeners'[p] = snap[p]
      BY <1>5, <2>2 DEF InitAgent
    <3>2. On(p)' = On(p) /\ \A c \in On(p) : chains'[c] = chains[c]
      BY <1>1 DEF On, Live
    <3>3. \A h \in Accounts : ~HasRequest(h, p)'
      BY <1>1, <3>1 DEF AtWork, HasRequest, Busy
    <3>4. RelayFine(p)'
      BY <1>1, <3>1 DEF AtWork, RelayFine, Relaying
    <3>5. ASSUME NEW c \in On(p)
          PROVE  listeners'[p] = chains[c].proto \/ (p \in mixed' /\ listeners'[p] # None)
      <4>1. PICK d \in On(p) : Opened[p] = chains[d].proto
        BY <1>1, <3>5, OpenedType
      <4>2. chains[d].proto # None
        <5>1. chains[d] \in Row
          BY <1>1 DEF On, Live, TypesOK, ChainsOK
        <5>2. QED BY <5>1, ChainsAssumption DEF Row
      <4>3. chains[d].proto # chains[c].proto => p \in mixed'
        BY <1>5, <3>5 DEF InitAgent
      <4>4. QED BY <3>1, <4>1, <4>2, <4>3
    <3>6. On(p) = {} => listeners'[p] = None
      BY <1>1, <3>1, OpenedType
    <3>7. QED BY <3>2, <3>3, <3>4, <3>5, <3>6 DEF PortFine, ServedOn
  <2>3. QED BY <1>2, <2>1, <2>2 DEF ChainInv, TypesOK
<1>6. CASE DelNode \/ RegisterRefused
  <2>1. UNCHANGED <<chains, agent, snap, listeners, reqs, relay, mixed, disturbed>>
    BY <1>6 DEF DelNode, RegisterRefused, vars, hist, db
  <2>2. AgentOK'
    BY <1>1, <2>1 DEF TypesOK, AgentOK
  <2>3. ASSUME agent = "up", NEW p \in Ports \ disturbed
        PROVE  PortFine(p)'
    <3>1. PortFine(p)
      BY <2>3 DEF ChainInv
    <3>2. Still(p)
      BY <2>1 DEF Still, On, Live
    <3>3. QED BY <2>1, <3>1, <3>2, Untouched DEF Still
  <2>4. QED BY <1>2, <2>1, <2>2, <2>3 DEF ChainInv, TypesOK
<1>7. QED BY <1>3, <1>4, <1>5, <1>6 DEF Agent

\* A port the relay's step does not concern, but that of its goroutines may.
LEMMA RelayMoves ==
  ASSUME NEW p \in Ports, PortFine(p), UNCHANGED <<chains, reqs, mixed>>, listeners'[p] = listeners[p],
         RelayFine(p)',
         \A h \in Accounts : HasRequest(h, p) /\ reqs[h].op = "del" => Alone(h, p)'
  PROVE  PortFine(p)'
<1>1. On(p)' = On(p) /\ (Closing(p)' <=> Closing(p)) /\ (Inserting(p)' <=> Inserting(p))
  BY DEF On, Live, Closing, Inserting, AtStage
<1>2. \A h \in Accounts : HasRequest(h, p)' <=> HasRequest(h, p)
  BY DEF HasRequest, Busy
<1>3. ASSUME NEW h \in Accounts, HasRequest(h, p)'
      PROVE  RequestFine(h, p)'
  BY <1>1, <1>2, <1>3 DEF PortFine, RequestFine, DelFine, AddFine
<1>4. QED BY <1>1, <1>3 DEF PortFine, ServedOn

LEMMA RelayStartsInv ==
  ASSUME ChainInv, RelayStarts
  PROVE  ChainInv'
<1>1. /\ TypesOK /\ UNCHANGED <<chains, born, agent, snap, listeners, reqs, mixed>>
      /\ relay' = [c \in ChainIds |->
                     IF c \in Live THEN [pc |-> "add", port |-> chains[c].port, proto |-> chains[c].proto] ELSE Idle]
      /\ disturbed' = IF agent = "up" THEN disturbed \cup {p \in Ports : Deleting(p)} ELSE {}
  BY DEF ChainInv, RelayStarts, db
<1>2. \A c \in Live : chains[c] \in Row
  BY <1>1 DEF Live, TypesOK, ChainsOK
<1>3. TypesOK'
  <2>1. RelayOK'
    BY <1>1, <1>2 DEF RelayOK, Row
  <2>2. QED BY <1>1, <2>1 DEF TypesOK, RequestsOK, ChainsOK, AgentOK, Live, Busy, Names
<1>4. ASSUME agent = "up", NEW p \in Ports \ disturbed'
      PROVE  PortFine(p)'
  <2>1. PortFine(p) /\ ~Deleting(p)
    BY <1>1, <1>4 DEF ChainInv
  <2>2. RelayFine(p)'
    <3>1. SUFFICES ASSUME NEW c \in ChainIds, relay'[c].pc = "add", relay'[c].port = p
                   PROVE  c \in On(p)' /\ chains'[c].proto = relay'[c].proto
      BY DEF RelayFine, Relaying
    <3>2. c \in Live
      BY <1>1, <3>1 DEF Idle
    <3>3. QED BY <1>1, <3>1, <3>2 DEF On, Live
  <2>3. QED BY <1>1, <2>1, <2>2, RelayMoves DEF Deleting, HasRequest
<1>5. QED BY <1>1, <1>3, <1>4 DEF ChainInv

\* On an undisturbed port there is nothing for the relay to add.
LEMMA RelayAddsInv ==
  ASSUME ChainInv, NEW c \in ChainIds, RelayAdds(c)
  PROVE  ChainInv'
<1>0. PICK o, t : o = relay[c].port /\ t = relay[c].proto
  OBVIOUS
<1>1. /\ TypesOK /\ UNCHANGED <<chains, born, agent, snap, reqs, mixed, disturbed>>
      /\ Relaying(c) /\ agent = "up" /\ listeners[o] = None
      /\ listeners' = [listeners EXCEPT ![o] = t] /\ relay' \in {relay, [relay EXCEPT ![c] = Idle]}
  BY <1>0 DEF ChainInv, RelayAdds, AgentAdds, Relaying, db, hist
<1>2. o \in Ports /\ t \in Protos
  BY <1>0, <1>1 DEF TypesOK, RelayOK, Relaying, Idle
<1>3. TypesOK'
  <2>1. RelayOK' /\ AgentOK'
    BY <1>1, <1>2 DEF TypesOK, RelayOK, AgentOK
  <2>2. QED BY <1>1, <2>1 DEF TypesOK, RequestsOK, ChainsOK, Live, Busy, Names
<1>4. o \in disturbed
  <2>1. SUFFICES ASSUME PortFine(o) PROVE FALSE
    BY <1>1, <1>2 DEF ChainInv
  <2>2. c \in On(o)
    BY <1>0, <1>1, <2>1 DEF PortFine, RelayFine
  <2>3. chains[c].proto # None
    <3>1. chains[c] \in Row
      BY <1>1, <2>2 DEF On, Live, TypesOK, ChainsOK
    <3>2. QED BY <3>1, ChainsAssumption DEF Row
  <2>4. Closing(o)
    BY <1>1, <2>1, <2>2, <2>3 DEF PortFine, ServedOn
  <2>5. PICK h \in Accounts : reqs[h].stage = "delete" /\ reqs[h].port = o
    BY <2>4 DEF Closing, AtStage
  <2>6. HasRequest(h, o)
    BY <2>5 DEF HasRequest, Busy, NoRequest
  <2>7. reqs[h].op = "del"
    BY <1>1, <2>5, <2>6 DEF TypesOK, RequestsOK, HasRequest, WellFormed
  <2>8. Alone(h, o)
    BY <2>1, <2>6, <2>7 DEF PortFine, RequestFine
  <2>9. QED BY <1>0, <1>1, <2>8 DEF Alone
<1>5. ASSUME NEW p \in Ports \ disturbed
      PROVE  PortFine(p)'
  <2>1. PortFine(p) /\ p # o /\ listeners'[p] = listeners[p]
    BY <1>1, <1>4, <1>5 DEF ChainInv, TypesOK, AgentOK
  <2>2. \A d \in ChainIds : Relaying(d)' => Relaying(d) /\ relay'[d] = relay[d]
    BY <1>1 DEF TypesOK, RelayOK, Relaying, Idle
  <2>3. On(p)' = On(p)
    BY <1>1 DEF On, Live
  <2>4. RelayFine(p)'
    BY <1>1, <2>1, <2>2, <2>3 DEF PortFine, RelayFine
  <2>5. \A h \in Accounts : HasRequest(h, p) /\ reqs[h].op = "del" => Alone(h, p)'
    <3>1. SUFFICES ASSUME NEW h \in Accounts, HasRequest(h, p), reqs[h].op = "del"
                   PROVE  Alone(h, p)'
      OBVIOUS
    <3>2. Alone(h, p)
      BY <2>1, <3>1 DEF PortFine, RequestFine
    <3>3. QED BY <1>1, <2>2, <3>2 DEF Alone, HasRequest, Busy
  <2>6. QED BY <1>1, <2>1, <2>4, <2>5, RelayMoves
<1>6. QED BY <1>1, <1>3, <1>5 DEF ChainInv

-----------------------------------------------------------------------------
(* The invariant holds, and the properties with it.                        *)

LEMMA ChainInitInv ==
  ASSUME Init
  PROVE  ChainInv
<1>1. /\ Live = {} /\ \A p \in Ports : On(p) = {}
      /\ \A h \in Accounts : ~Busy(h)
      /\ \A c \in ChainIds : ~Relaying(c)
  BY DEF Init, Live, On, Busy, Relaying, Idle
<1>2. TypesOK
  BY <1>1 DEF Init, TypesOK, RequestsOK, ChainsOK, AgentOK, RelayOK
<1>3. \A p \in Ports : PortFine(p)
  BY <1>1 DEF Init, PortFine, HasRequest, RelayFine, ServedOn
<1>4. QED BY <1>2, <1>3 DEF ChainInv

LEMMA ChainStepInv ==
  ASSUME ChainInv, [Next]_vars
  PROVE  ChainInv'
<1>1. ASSUME NEW h \in Accounts, AddChain(h)
      PROVE  ChainInv'
  BY <1>1, BeginAddInv, AddQuietInv, AddCallsInv, AddInsertsInv DEF AddChain
<1>2. ASSUME NEW h \in Accounts, DelChain(h)
      PROVE  ChainInv'
  BY <1>2, BeginDelInv, DelCountsInv, DelCallsInv, DelDeletesInv, DelQuietInv DEF DelChain
<1>3. CASE Agent
  BY <1>3, AgentInv
<1>4. CASE RelayStarts
  BY <1>4, RelayStartsInv
<1>5. ASSUME NEW c \in ChainIds, RelayAdds(c)
      PROVE  ChainInv'
  BY <1>5, RelayAddsInv
<1>6. CASE UNCHANGED vars
  <2>1. TypesOK'
    BY <1>6 DEF vars, db, hist, ChainInv, TypesOK, RequestsOK, ChainsOK, AgentOK, RelayOK, Live, Busy, Names
  <2>2. ASSUME NEW p \in Ports, PortFine(p)
        PROVE  PortFine(p)'
    <3>1. On(p)' = On(p)
      BY <1>6 DEF vars, db, On, Live
    <3>2. QED BY <1>6, <2>2, <3>1, Untouched DEF vars, db, hist
  <2>3. QED BY <1>6, <2>1, <2>2 DEF vars, db, hist, ChainInv
<1>7. QED BY <1>1, <1>2, <1>3, <1>4, <1>5, <1>6 DEF Next

(***************************************************************************)
(* The inductive invariant of a port's listeners and rows holds in every   *)
(* reachable state.                                                        *)
(***************************************************************************)
THEOREM ChainInvariant == Spec => []ChainInv
<1>1. Init => ChainInv
  BY ChainInitInv
<1>2. ChainInv /\ [Next]_vars => ChainInv'
  BY ChainStepInv
<1>3. QED BY <1>1, <1>2, PTL DEF Spec

(***************************************************************************)
(* A port nothing has come between has no listener without a chain or a    *)
(* creation about to insert one, for any number of handlers.               *)
(***************************************************************************)
THEOREM NoListenerIsStray == Spec => []NoStray
<1>1. ChainInv => NoStray
  <2>1. SUFFICES ASSUME ChainInv, NEW p \in Ports \ disturbed, listeners[p] # None
                 PROVE  On(p) # {} \/ Inserting(p)
    BY DEF NoStray
  <2>2. agent = "up"
    BY <2>1 DEF ChainInv, TypesOK, AgentOK
  <2>3. QED BY <2>1, <2>2 DEF ChainInv, PortFine
<1>2. QED BY <1>1, ChainInvariant, PTL

(***************************************************************************)
(* A chain of such a port is served while the agent is up, by the          *)
(* connector its row names unless the port has had rows of two.            *)
(***************************************************************************)
THEOREM ChainsAreServed == Spec => []ChainServed
<1>1. ChainInv => ChainServed
  BY DEF ChainInv, PortFine, ServedOn, ChainServed
<1>2. QED BY <1>1, ChainInvariant, PTL

-----------------------------------------------------------------------------
(***************************************************************************)
(* Who holds a chain.  AddChain looks its own row up by the address and    *)
(* writes the first it finds down: it is its own because ids are handed    *)
(* out in order and a row found before its own was there when it inserted. *)
(***************************************************************************)
InOrderBorn == \A c \in born, d \in ChainIds : d < c => d \in born

SameAddress(c, d) == chains[c].port = chains[d].port /\ chains[c].ip = chains[d].ip

FirstOfAddress == \A c \in Live \ unowned, d \in Live : SameAddress(c, d) => c =< d

\* What the handlers at work on mappings know of their chain.
MapsOwn ==
  \A h \in Accounts :
    /\ AtStage(h, "map") =>
         /\ reqs[h].id \in born
         /\ chains[reqs[h].id] # None =>
              chains[reqs[h].id].port = reqs[h].port /\ chains[reqs[h].id].ip = reqs[h].ip
    /\ AtStage(h, "unmap") => reqs[h].id \in born /\ chains[reqs[h].id] = None

HistoryOK ==
  /\ mappings \subseteq Accounts \X born
  /\ disturbed \subseteq Ports /\ mixed \subseteq Ports /\ unowned \subseteq born

OwnInv == HistoryOK /\ InOrderBorn /\ FirstOfAddress /\ MapsOwn /\ Owned

\* A request that moves on without coming to its mapping or leaving it.
LEMMA OtherRequest ==
  ASSUME TypesOK, OwnInv, NEW h \in Accounts, NEW n, reqs' = [reqs EXCEPT ![h] = n],
         n.stage \notin {"map", "unmap"}, reqs[h].stage # "map",
         UNCHANGED <<chains, born, mappings>>, HistoryOK',
         unowned \subseteq unowned'
  PROVE  OwnInv'
<1>1. reqs'[h] = n /\ \A g \in Accounts \ {h} : reqs'[g] = reqs[g]
  BY RequestMoves
<1>2. Live' = Live
  BY DEF Live
<1>3. InOrderBorn' /\ FirstOfAddress'
  BY <1>2 DEF OwnInv, InOrderBorn, FirstOfAddress, SameAddress
<1>4. MapsOwn'
  BY <1>1 DEF OwnInv, MapsOwn, AtStage
<1>5. Owned'
  <2>1. SUFFICES ASSUME NEW c \in Live \ unowned, \A m \in mappings : m[2] # c
                 PROVE  \E g \in Accounts : reqs'[g].stage = "map" /\ reqs'[g].id = c
    BY <1>2 DEF Owned, AtStage
  <2>2. PICK g \in Accounts : reqs[g].stage = "map" /\ reqs[g].id = c
    BY <2>1 DEF OwnInv, Owned, AtStage
  <2>3. QED BY <1>1, <2>2
<1>6. QED BY <1>3, <1>4, <1>5 DEF OwnInv

LEMMA AddInsertsOwn ==
  ASSUME TypesOK, OwnInv, NEW h \in Accounts, AddInserts(h)
  PROVE  OwnInv'
<1>0. PICK q, p, a, c : q = reqs[h] /\ p = q.port /\ a = q.ip /\ c = Min(ChainIds \ born)
  OBVIOUS
<1>1. PICK r : r = [port |-> p, ip |-> a, proto |-> q.proto]
  OBVIOUS
<1>2. /\ Busy(h) /\ WellFormed(q) /\ q.stage = "insert"
      /\ ChainIds # born /\ born' = born \cup {c} /\ chains' = [chains EXCEPT ![c] = r]
      /\ reqs' = [reqs EXCEPT ![h].stage = "map", ![h].id = c]
      /\ unowned' = IF At(p, a) # {} THEN unowned \cup {c} ELSE unowned
      /\ mixed' = IF agent = "up" /\ \E d \in On(p) : chains[d].proto # q.proto THEN mixed \cup {p} ELSE mixed
      /\ UNCHANGED <<mappings, disturbed>>
  <2>1. Busy(h)
    BY DEF AddInserts, AtStage, Busy, NoRequest
  <2>2. WellFormed(reqs[h])
    BY <2>1 DEF TypesOK, RequestsOK
  <2>3. QED BY <1>0, <1>1, <2>1, <2>2 DEF AddInserts, AtStage
<1>3. q \in RequestRecord /\ p \in Ports /\ a \in Ips /\ q.proto \in Protos /\ reqs = [g \in Accounts |-> reqs[g]]
  BY <1>0, <1>2 DEF WellFormed, RequestRecord, TypesOK, RequestsOK
<1>4. r # None /\ r.port = p /\ r.ip = a
  BY <1>1, <1>3, ChainsAssumption DEF Row
<1>5. c \in ChainIds /\ c \notin born /\ \A d \in ChainIds \ born : c =< d
  <2>1. ChainIds \ born \in SUBSET Nat
    BY ChainsAssumption DEF ChainIds
  <2>2. ChainIds \ born # {}
    BY <1>2 DEF TypesOK, ChainsOK
  <2>3. QED BY <1>0, <2>1, <2>2, LeastId
<1>6. chains'[c] = r /\ \A d \in ChainIds \ {c} : chains'[d] = chains[d]
  BY <1>2, <1>5 DEF TypesOK, ChainsOK
<1>7. Live' = Live \cup {c} /\ Live \subseteq born /\ born \subseteq ChainIds
  BY <1>4, <1>5, <1>6 DEF Live, TypesOK, ChainsOK
<1>8. PICK n : n = [q EXCEPT !.stage = "map", !.id = c]
  OBVIOUS
<1>9. n.stage = "map" /\ n.id = c /\ n.port = p /\ n.ip = a
  BY <1>0, <1>3, <1>8 DEF RequestRecord
<1>10. reqs'[h] = n /\ \A g \in Accounts \ {h} : reqs'[g] = reqs[g]
  BY <1>0, <1>2, <1>3, <1>8
<1>11. HistoryOK'
  BY <1>2, <1>3 DEF OwnInv, HistoryOK
<1>12. InOrderBorn'
  <2>1. SUFFICES ASSUME NEW e \in born \cup {c}, NEW d \in ChainIds, d < e, d \notin born
                 PROVE  d = c
    BY <1>2 DEF InOrderBorn
  <2>2. e = c
    BY <2>1 DEF OwnInv, InOrderBorn
  <2>3. c =< d
    BY <1>5, <2>1
  <2>4. QED BY <1>5, <2>1, <2>2, <2>3, ChainsAssumption DEF ChainIds
<1>13. FirstOfAddress'
  <2>1. SUFFICES ASSUME NEW e \in Live' \ unowned', NEW d \in Live',
                        chains'[e].port = chains'[d].port, chains'[e].ip = chains'[d].ip
                 PROVE  e =< d
    BY DEF FirstOfAddress, SameAddress
  <2>2. e \in ChainIds /\ d \in ChainIds /\ e \in Nat /\ d \in Nat /\ c \in Nat
    BY <1>5, <1>7, <2>1, ChainsAssumption DEF ChainIds, TypesOK, ChainsOK
  <2>3. CASE e # c /\ d # c
    <3>1. e \in Live \ unowned /\ d \in Live /\ SameAddress(e, d)
      BY <1>2, <1>6, <1>7, <2>1, <2>2, <2>3 DEF SameAddress
    <3>2. QED BY <3>1 DEF OwnInv, FirstOfAddress
  <2>4. CASE e # c /\ d = c
    <3>1. e \in born
      BY <1>7, <2>1, <2>4
    <3>2. ~(c < e)
      BY <1>5, <3>1 DEF OwnInv, InOrderBorn
    <3>3. QED BY <2>2, <2>4, <3>2
  <2>5. CASE e = c /\ d # c
    <3>1. d \in Live /\ chains[d].port = p /\ chains[d].ip = a
      BY <1>4, <1>6, <1>7, <2>1, <2>2, <2>5
    <3>2. At(p, a) # {}
      BY <3>1 DEF At, On
    <3>3. QED BY <1>2, <2>1, <2>5, <3>2
  <2>6. CASE e = c /\ d = c
    BY <2>2, <2>6
  <2>7. QED BY <2>3, <2>4, <2>5, <2>6
<1>14. MapsOwn'
  <2>1. SUFFICES ASSUME NEW g \in Accounts
                 PROVE  /\ reqs'[g].stage = "map" =>
                             /\ reqs'[g].id \in born'
                             /\ chains'[reqs'[g].id] # None =>
                                  chains'[reqs'[g].id].port = reqs'[g].port /\ chains'[reqs'[g].id].ip = reqs'[g].ip
                        /\ reqs'[g].stage = "unmap" => reqs'[g].id \in born' /\ chains'[reqs'[g].id] = None
    BY DEF MapsOwn, AtStage
  <2>2. CASE g = h
    <3>1. reqs'[g] = n /\ c \in born' /\ chains'[c] = r
      BY <1>2, <1>6, <1>10, <2>2
    <3>2. QED BY <1>4, <1>9, <3>1
  <2>3. CASE g # h
    <3>1. reqs'[g] = reqs[g] /\ \A i \in born : i \in born' /\ chains'[i] = chains[i]
      BY <1>2, <1>5, <1>6, <1>7, <1>10, <2>3
    <3>2. QED BY <3>1 DEF OwnInv, MapsOwn, AtStage
  <2>4. QED BY <2>2, <2>3
<1>15. Owned'
  <2>1. SUFFICES ASSUME NEW d \in Live' \ unowned', \A m \in mappings : m[2] # d
                 PROVE  \E g \in Accounts : reqs'[g].stage = "map" /\ reqs'[g].id = d
    BY <1>2 DEF Owned, AtStage
  <2>2. CASE d = c
    BY <1>9, <1>10, <2>2
  <2>3. CASE d # c
    <3>1. d \in Live \ unowned
      BY <1>2, <1>7, <2>1, <2>3
    <3>2. PICK g \in Accounts : reqs[g].stage = "map" /\ reqs[g].id = d
      BY <2>1, <3>1 DEF OwnInv, Owned, AtStage
    <3>3. g # h
      BY <1>0, <1>2, <3>2
    <3>4. QED BY <1>10, <3>2, <3>3
  <2>4. QED BY <2>2, <2>3
<1>16. QED BY <1>11, <1>12, <1>13, <1>14, <1>15 DEF OwnInv

\* The first row of its own address is its own.
LEMMA AddMapsOwn ==
  ASSUME TypesOK, OwnInv, NEW h \in Accounts, AddMaps(h) \/ AddMapFails(h)
  PROVE  OwnInv'
<1>0. PICK q, c, F : q = reqs[h] /\ c = q.id /\ F = At(q.port, q.ip)
  OBVIOUS
<1>1. /\ q.stage = "map" /\ reqs' = [reqs EXCEPT ![h] = NoRequest] /\ UNCHANGED <<chains, born, disturbed, mixed>>
      /\ \/ mappings' = (IF F = {} THEN mappings ELSE mappings \cup {<<h, Min(F)>>}) /\ UNCHANGED unowned
         \/ UNCHANGED mappings /\ unowned' = unowned \cup {c}
  BY <1>0 DEF AddMaps, AddMapFails, AtStage, Finish, db, hist
<1>2. reqs'[h] = NoRequest /\ \A g \in Accounts \ {h} : reqs'[g] = reqs[g]
  BY <1>1, RequestMoves
<1>3. /\ c \in born /\ Live' = Live
      /\ chains[c] # None => chains[c].port = q.port /\ chains[c].ip = q.ip
  BY <1>0, <1>1 DEF OwnInv, MapsOwn, AtStage, Live
<1>4. F \in SUBSET Nat /\ F \subseteq born /\ F \subseteq Live
  BY <1>0, ChainsAssumption DEF At, On, Live, ChainIds, TypesOK, ChainsOK
<1>5. F # {} => Min(F) \in F /\ \A d \in F : Min(F) =< d
  BY <1>4, LeastId
<1>6. HistoryOK'
  <2>1. PICK m : m = Min(F)
    OBVIOUS
  <2>2. mappings' \subseteq mappings \cup {<<h, m>>} /\ (F = {} => mappings' \subseteq mappings)
    BY <1>1, <2>1
  <2>3. F # {} => m \in born
    BY <1>4, <1>5, <2>1
  <2>4. mappings' \subseteq Accounts \X born
    BY <2>2, <2>3 DEF OwnInv, HistoryOK
  <2>5. QED BY <1>1, <1>3, <2>4 DEF OwnInv, HistoryOK
<1>7. InOrderBorn'
  BY <1>1 DEF OwnInv, InOrderBorn
<1>8. unowned \subseteq unowned'
  BY <1>1
<1>9. FirstOfAddress'
  BY <1>1, <1>3, <1>8 DEF OwnInv, FirstOfAddress, SameAddress
<1>10. MapsOwn'
  BY <1>1, <1>2 DEF OwnInv, MapsOwn, AtStage, NoRequest
<1>11. Owned'
  <2>1. SUFFICES ASSUME NEW d \in Live \ unowned', \A m \in mappings' : m[2] # d
                 PROVE  \E g \in Accounts : reqs'[g].stage = "map" /\ reqs'[g].id = d
    BY <1>3 DEF Owned, AtStage
  <2>2. d \in Live \ unowned /\ \A m \in mappings : m[2] # d
    BY <1>1, <2>1
  <2>3. PICK g \in Accounts : reqs[g].stage = "map" /\ reqs[g].id = d
    BY <2>2 DEF OwnInv, Owned, AtStage
  <2>4. g # h
    <3>1. SUFFICES ASSUME d = c PROVE FALSE
      BY <1>0, <2>3
    <3>2. c \in F
      BY <1>0, <1>3, <2>2, <3>1 DEF At, On, Live
    <3>3. \A e \in F : c =< e
      <4>1. SUFFICES ASSUME NEW e \in F PROVE c =< e
        OBVIOUS
      <4>2. e \in Live /\ chains[e].port = q.port /\ chains[e].ip = q.ip
        BY <1>0, <4>1 DEF At, On
      <4>3. SameAddress(c, e)
        BY <1>3, <2>2, <3>1, <4>2 DEF SameAddress, Live
      <4>4. QED BY <2>2, <3>1, <4>2, <4>3 DEF OwnInv, FirstOfAddress
    <3>4. Min(F) = c
      <4>0. PICK m : m = Min(F)
        OBVIOUS
      <4>1. m \in F /\ m =< c /\ c =< m
        BY <1>5, <3>2, <3>3, <4>0
      <4>2. m \in Nat /\ c \in Nat
        BY <1>4, <3>2, <4>1
      <4>3. m = c
        BY <4>1, <4>2
      <4>4. QED BY <4>0, <4>3
    <3>5. <<h, c>> \in mappings'
      BY <1>1, <2>1, <3>1, <3>2, <3>4
    <3>6. QED BY <2>1, <3>1, <3>5
  <2>5. QED BY <1>2, <2>3, <2>4
<1>12. QED BY <1>6, <1>7, <1>9, <1>10, <1>11 DEF OwnInv

\* A row is gone for good, and who is about to take its mappings away knows.
LEMMA DelDeletesOwn ==
  ASSUME TypesOK, OwnInv, NEW h \in Accounts, DelDeletes(h)
  PROVE  OwnInv'
<1>0. PICK q, c : q = reqs[h] /\ c = q.id
  OBVIOUS
<1>1. /\ q.stage = "delete" /\ chains' = [chains EXCEPT ![c] = None] /\ reqs' = [reqs EXCEPT ![h].stage = "unmap"]
      /\ UNCHANGED <<born, mappings, disturbed, mixed, unowned>>
  BY <1>0 DEF DelDeletes, AtStage, GoTo, hist
<1>2. /\ q \in RequestRecord /\ c \in born /\ c \in ChainIds /\ reqs = [g \in Accounts |-> reqs[g]]
  <2>1. Busy(h)
    BY <1>0, <1>1 DEF Busy, NoRequest
  <2>2. WellFormed(q) /\ Names(q)
    BY <1>0, <2>1 DEF TypesOK, RequestsOK
  <2>3. QED BY <1>0, <1>1, <2>2 DEF WellFormed, Names, TypesOK, RequestsOK
<1>3. PICK n : n = [q EXCEPT !.stage = "unmap"]
  OBVIOUS
<1>4. n.stage = "unmap" /\ n.id = c
  BY <1>0, <1>2, <1>3 DEF RequestRecord
<1>5. reqs'[h] = n /\ \A g \in Accounts \ {h} : reqs'[g] = reqs[g]
  BY <1>0, <1>1, <1>2, <1>3
<1>6. chains'[c] = None /\ \A d \in ChainIds \ {c} : chains'[d] = chains[d]
  BY <1>1, <1>2 DEF TypesOK, ChainsOK
<1>7. Live' = Live \ {c} /\ \A d \in Live' : d \in Live /\ chains'[d] = chains[d]
  BY <1>2, <1>6 DEF Live
<1>8. HistoryOK' /\ InOrderBorn'
  BY <1>1 DEF OwnInv, HistoryOK, InOrderBorn
<1>9. FirstOfAddress'
  BY <1>1, <1>7 DEF OwnInv, FirstOfAddress, SameAddress
<1>10. MapsOwn'
  <2>1. SUFFICES ASSUME NEW g \in Accounts
                 PROVE  /\ reqs'[g].stage = "map" =>
                             /\ reqs'[g].id \in born
                             /\ chains'[reqs'[g].id] # None =>
                                  chains'[reqs'[g].id].port = reqs'[g].port /\ chains'[reqs'[g].id].ip = reqs'[g].ip
                        /\ reqs'[g].stage = "unmap" => reqs'[g].id \in born /\ chains'[reqs'[g].id] = None
    BY <1>1 DEF MapsOwn, AtStage
  <2>2. CASE g = h
    BY <1>2, <1>4, <1>5, <1>6, <2>2
  <2>3. CASE g # h
    <3>1. reqs'[g] = reqs[g] /\ \A i \in born : chains'[i] = chains[i] \/ chains'[i] = None
      BY <1>1, <1>5, <1>6, <2>3 DEF TypesOK, ChainsOK
    <3>2. QED BY <3>1 DEF OwnInv, MapsOwn, AtStage
  <2>4. QED BY <2>2, <2>3
<1>11. Owned'
  <2>1. SUFFICES ASSUME NEW d \in Live \ unowned, \A m \in mappings : m[2] # d
                 PROVE  \E g \in Accounts : reqs'[g].stage = "map" /\ reqs'[g].id = d
    BY <1>1, <1>7 DEF Owned, AtStage
  <2>2. PICK g \in Accounts : reqs[g].stage = "map" /\ reqs[g].id = d
    BY <2>1 DEF OwnInv, Owned, AtStage
  <2>3. QED BY <1>0, <1>1, <1>5, <2>2
<1>12. QED BY <1>8, <1>9, <1>10, <1>11 DEF OwnInv

LEMMA DelUnmapsOwn ==
  ASSUME TypesOK, OwnInv, NEW h \in Accounts, DelUnmaps(h)
  PROVE  OwnInv'
<1>0. PICK q, c : q = reqs[h] /\ c = q.id
  OBVIOUS
<1>1. /\ q.stage = "unmap" /\ reqs' = [reqs EXCEPT ![h] = NoRequest]
      /\ mappings' \subseteq mappings /\ \A m \in mappings : m[2] # c => m \in mappings'
      /\ UNCHANGED <<chains, born, disturbed, mixed, unowned>>
  BY <1>0 DEF DelUnmaps, AtStage, Finish, hist
<1>2. reqs'[h] = NoRequest /\ \A g \in Accounts \ {h} : reqs'[g] = reqs[g]
  BY <1>1, RequestMoves
<1>3. c \notin Live /\ Live' = Live
  BY <1>0, <1>1 DEF OwnInv, MapsOwn, AtStage, Live
<1>4. HistoryOK' /\ InOrderBorn' /\ FirstOfAddress'
  BY <1>1, <1>3 DEF OwnInv, HistoryOK, InOrderBorn, FirstOfAddress, SameAddress
<1>5. MapsOwn'
  BY <1>1, <1>2 DEF OwnInv, MapsOwn, AtStage, NoRequest
<1>6. Owned'
  <2>1. SUFFICES ASSUME NEW d \in Live \ unowned
                 PROVE  \/ \E m \in mappings' : m[2] = d
                        \/ \E g \in Accounts : reqs'[g].stage = "map" /\ reqs'[g].id = d
    BY <1>1, <1>3 DEF Owned, AtStage
  <2>2. CASE \E m \in mappings : m[2] = d
    BY <1>1, <1>3, <2>1, <2>2
  <2>3. CASE \E g \in Accounts : reqs[g].stage = "map" /\ reqs[g].id = d
    BY <1>0, <1>1, <1>2, <2>3
  <2>4. QED BY <2>1, <2>2, <2>3 DEF OwnInv, Owned, AtStage
<1>7. QED BY <1>4, <1>5, <1>6 DEF OwnInv

LEMMA OwnStepInv ==
  ASSUME TypesOK, OwnInv, [Next]_vars
  PROVE  OwnInv'
<1>1. ASSUME NEW h \in Accounts, AddChain(h) \/ DelChain(h)
      PROVE  OwnInv'
  <2>1. CASE \/ BeginAdd(h) \/ AddChecks(h) \/ AddCounts(h) \/ AddCalls(h) \/ AddRefused(h) \/ AddInsertFails(h)
             \/ BeginDel(h) \/ DelCounts(h) \/ DelCalls(h) \/ DelRefused(h) \/ DelDeleteFails(h) \/ DelUnmapFails(h)
    <3>1. UNCHANGED <<chains, born, mappings, mixed, unowned>> /\ reqs[h].stage # "map"
      BY <2>1 DEF BeginAdd, AddChecks, AddCounts, AddCalls, AddRefused, AddInsertFails, BeginDel, DelCounts,
                  DelCalls, DelRefused, DelDeleteFails, DelUnmapFails, db, hist, AtStage, Busy, NoRequest
    <3>2. \E n : reqs' = [reqs EXCEPT ![h] = n] /\ n.stage \notin {"map", "unmap"}
      <4>1. CASE BeginAdd(h) \/ BeginDel(h)
        <5>1. CASE BeginAdd(h)
          <6>1. PICK p \in Ports, o \in Offers :
                  reqs' = [reqs EXCEPT ![h] = Request(h, "add", "check", None, p, o[1], o[2])]
            BY <5>1 DEF BeginAdd
          <6>2. PICK n : n = Request(h, "add", "check", None, p, o[1], o[2])
            OBVIOUS
          <6>3. n.stage = "check" /\ reqs' = [reqs EXCEPT ![h] = n]
            BY <6>1, <6>2 DEF Request
          <6>4. QED BY <6>3
        <5>2. CASE BeginDel(h)
          <6>1. PICK c \in Live :
                  reqs' = [reqs EXCEPT ![h] = Request(h, "del", "count", c, chains[c].port, None, None)]
            BY <5>2 DEF BeginDel
          <6>2. PICK n : n = Request(h, "del", "count", c, chains[c].port, None, None)
            OBVIOUS
          <6>3. n.stage = "count" /\ reqs' = [reqs EXCEPT ![h] = n]
            BY <6>1, <6>2 DEF Request
          <6>4. QED BY <6>3
        <5>3. QED BY <4>1, <5>1, <5>2
      <4>2. CASE Finish(h)
        <5>1. PICK n : n = NoRequest
          OBVIOUS
        <5>2. n.stage = "none" /\ reqs' = [reqs EXCEPT ![h] = n]
          BY <4>2, <5>1 DEF Finish, NoRequest
        <5>3. QED BY <5>2
      <4>3. ASSUME reqs[h].stage # "none", NEW st \in {"count", "call", "insert", "delete"}, GoTo(h, st)
            PROVE  \E n : reqs' = [reqs EXCEPT ![h] = n] /\ n.stage \notin {"map", "unmap"}
        <5>1. PICK n : n = [reqs[h] EXCEPT !.stage = st]
          OBVIOUS
        <5>2. reqs[h] \in RequestRecord
          BY <4>3 DEF TypesOK, RequestsOK, WellFormed, Busy, NoRequest
        <5>3. n.stage = st
          BY <5>1, <5>2 DEF RequestRecord
        <5>4. reqs' = [reqs EXCEPT ![h] = n]
          BY <4>3, <5>1 DEF GoTo, TypesOK, RequestsOK
        <5>5. QED BY <5>3, <5>4
      <4>4. CASE AddChecks(h) \/ AddCounts(h) \/ DelCounts(h)
        BY <4>2, <4>3, <4>4 DEF AddChecks, AddCounts, DelCounts, AtStage
      <4>5. CASE AddCalls(h) \/ DelCalls(h)
        <5>1. CASE Finish(h)
          BY <4>2, <5>1
        <5>2. ASSUME NEW st \in {"insert", "delete"}, reqs' = [reqs EXCEPT ![h].stage = st, ![h].called = TRUE]
              PROVE  \E n : reqs' = [reqs EXCEPT ![h] = n] /\ n.stage \notin {"map", "unmap"}
          <6>1. PICK n : n = [reqs[h] EXCEPT !.stage = st, !.called = TRUE]
            OBVIOUS
          <6>2. reqs[h] \in RequestRecord
            BY <4>5 DEF AddCalls, DelCalls, AtStage, TypesOK, RequestsOK, WellFormed, Busy, NoRequest
          <6>3. n.stage = st
            BY <6>1, <6>2 DEF RequestRecord
          <6>4. reqs' = [reqs EXCEPT ![h] = n]
            BY <5>2, <6>1 DEF TypesOK, RequestsOK
          <6>5. QED BY <6>3, <6>4
        <5>3. QED BY <4>5, <5>1, <5>2 DEF AddCalls, DelCalls
      <4>6. CASE AddRefused(h) \/ AddInsertFails(h) \/ DelRefused(h) \/ DelDeleteFails(h) \/ DelUnmapFails(h)
        BY <4>2, <4>6 DEF AddRefused, AddInsertFails, DelRefused, DelDeleteFails, DelUnmapFails
      <4>7. QED BY <2>1, <4>1, <4>4, <4>5, <4>6
    <3>3. disturbed' \subseteq Ports
      <4>1. \A p \in Ports : Disturb(p) => disturbed' \subseteq Ports
        BY DEF OwnInv, HistoryOK, Disturb
      <4>2. \A c \in Live : chains[c].port \in Ports
        BY DEF Live, TypesOK, ChainsOK, Row
      <4>3. reqs[h] # NoRequest => reqs[h].port \in Ports
        BY DEF TypesOK, RequestsOK, WellFormed, RequestRecord, Busy
      <4>4. ~(BeginAdd(h) \/ BeginDel(h)) => reqs[h] # NoRequest
        BY <2>1 DEF AddChecks, AddCounts, AddCalls, AddRefused, AddInsertFails, DelCounts,
                    DelCalls, DelRefused, DelDeleteFails, DelUnmapFails, AtStage, NoRequest
      <4>5. UNCHANGED disturbed \/ \E p \in Ports : Disturb(p)
        BY <2>1, <4>2, <4>3, <4>4 DEF BeginAdd, AddChecks, AddCounts, AddCalls, AddRefused, AddInsertFails, BeginDel,
                  DelCounts, DelCalls, DelRefused, DelDeleteFails, DelUnmapFails, hist
      <4>6. QED BY <4>1, <4>5 DEF OwnInv, HistoryOK
    <3>4. HistoryOK'
      BY <3>1, <3>3 DEF OwnInv, HistoryOK
    <3>5. QED BY <3>1, <3>2, <3>4, OtherRequest
  <2>2. QED BY <1>1, <2>1, AddInsertsOwn, AddMapsOwn, DelDeletesOwn, DelUnmapsOwn DEF AddChain, DelChain
<1>2. CASE Agent \/ RelayStarts \/ (\E c \in ChainIds : RelayAdds(c)) \/ UNCHANGED vars
  <2>1. UNCHANGED <<chains, born, mappings, reqs, unowned>>
    BY <1>2 DEF Agent, DelNode, RegisterNode, RegisterRefused, InitAgent, AgentStops,
                 RelayStarts, RelayAdds, db, hist, vars
  <2>2. disturbed' \subseteq Ports /\ mixed' \subseteq Ports
    BY <1>2 DEF Agent, DelNode, RegisterNode, RegisterRefused, InitAgent, AgentStops,
                 RelayStarts, RelayAdds, db, hist, vars, OwnInv, HistoryOK
  <2>3. HistoryOK' /\ InOrderBorn'
    BY <2>1, <2>2 DEF OwnInv, HistoryOK, InOrderBorn
  <2>4. FirstOfAddress' /\ MapsOwn' /\ Owned'
    BY <2>1 DEF OwnInv, FirstOfAddress, SameAddress, MapsOwn, Owned, Live, AtStage
  <2>5. QED BY <2>3, <2>4 DEF OwnInv
<1>3. QED BY <1>1, <1>2 DEF Next

(***************************************************************************)
(* Every chain is held by an account, or its creation is about to map it,  *)
(* unless the mapping failed or an older row has its address: AddChain     *)
(* finds the row to map by its address, for any number of accounts.        *)
(***************************************************************************)
THEOREM ChainsHaveOwners == Spec => []Owned
<1>1. Init => OwnInv
  <2>1. SUFFICES ASSUME Init PROVE OwnInv
    OBVIOUS
  <2>2. Live = {} /\ born = {} /\ \A h \in Accounts : reqs[h].stage = "none"
    BY <2>1 DEF Init, Live, NoRequest
  <2>3. HistoryOK
    BY <2>1 DEF Init, HistoryOK
  <2>4. QED BY <2>2, <2>3 DEF OwnInv, InOrderBorn, FirstOfAddress, MapsOwn, Owned, AtStage
<1>2. ChainInv /\ OwnInv /\ [Next]_vars => OwnInv'
  BY OwnStepInv DEF ChainInv
<1>3. OwnInv => Owned
  BY DEF OwnInv
<1>4. QED BY <1>1, <1>2, <1>3, ChainInvariant, PTL DEF Spec

-----------------------------------------------------------------------------
(***************************************************************************)
(* GrantsExist and RuleRouted for any nodes, chains, rules and accounts.   *)
(*                                                                         *)
(* Both are about ids that are read in one step and used in a later one.   *)
(* For a grant the step between is a deletion, and raced notes it.  For a  *)
(* route it is the deletion of the chain, its creation, or another request *)
(* about the rule: the second cannot happen, because an id a rule names    *)
(* has been spent, and astray notes the third.                             *)
(***************************************************************************)
\* Requests are under way in one of three ways, or not at all.
CallsOK ==
  /\ calls = [u \in Callers |-> calls[u]]
  /\ exists \subseteq spent

\* What a request is about to grant exists, or its deletion has been noted.
GrantInv ==
  \A u \in Callers : Within(u, "grant") => calls[u].granted \subseteq exists \cup raced

ResourceInv == CallsOK /\ GrantInv /\ GrantsExist

-----------------------------------------------------------------------------
(***************************************************************************)
(* Steps that neither delete a thing nor touch what a caller is at.        *)
(***************************************************************************)
LEMMA GrantsKeep ==
  ASSUME ResourceInv, exists \subseteq exists', exists' \subseteq spent', UNCHANGED <<calls, raced>>,
         \A g \in grants' : g \in grants \/ g[2] \in exists'
  PROVE  ResourceInv'
<1>1. CallsOK'
  BY DEF ResourceInv, CallsOK
<1>2. GrantInv'
  BY DEF ResourceInv, GrantInv, Within
<1>3. GrantsExist'
  BY DEF ResourceInv, GrantsExist, Within
<1>4. QED BY <1>1, <1>2, <1>3 DEF ResourceInv

(***************************************************************************)
(* A caller moves on.                                                      *)
(***************************************************************************)
LEMMA CallKeeps ==
  ASSUME ResourceInv, NEW u \in Callers, NEW q, calls' = [calls EXCEPT ![u] = q]
  PROVE  /\ calls' = [v \in Callers |-> calls'[v]]
         /\ calls'[u] = q
         /\ \A v \in Callers : v # u => calls'[v] = calls[v]
<1>1. calls = [v \in Callers |-> calls[v]]
  BY DEF ResourceInv, CallsOK
<1>2. QED BY <1>1

(***************************************************************************)
(* A request has what it will grant: SetUserResources has checked it, and  *)
(* AddChain created it.                                                    *)
(***************************************************************************)
LEMMA GrantBegins ==
  ASSUME ResourceInv, NEW u \in Callers, GrantChecks(u) \/ InsertsChain(u)
  PROVE  ResourceInv'
<1>1. PICK q : /\ Quiet(u) /\ calls' = [calls EXCEPT ![u] = q]
               /\ q.pc = "grant" /\ q.granted \subseteq exists'
  <2>1. CASE GrantChecks(u)
    <3>1. PICK v \in Clients, G \in SUBSET spent :
            /\ G \subseteq exists /\ Quiet(u)
            /\ calls' = [calls EXCEPT ![u] =
                           [pc |-> "grant", user |-> v, granted |-> G, replaces |-> Grantable]]
      BY <2>1 DEF GrantChecks, allExist, Begins
    <3> DEFINE k == [pc |-> "grant", user |-> v, granted |-> G, replaces |-> Grantable]
    <3>2. k.pc = "grant" /\ k.granted \subseteq exists'
      BY <2>1, <3>1 DEF GrantChecks
    <3>3. calls' = [calls EXCEPT ![u] = k]
      BY <3>1
    <3> HIDE DEF k
    <3>4. QED BY <3>1, <3>2, <3>3
  <2>2. CASE InsertsChain(u)
    <3>1. PICK c \in ChainRows \ spent :
            /\ Quiet(u) /\ exists' = exists \cup {c}
            /\ calls' = [calls EXCEPT ![u] =
                           [pc |-> "grant", user |-> u, granted |-> {c}, replaces |-> {}]]
      BY <2>2 DEF InsertsChain, Begins
    <3> DEFINE k == [pc |-> "grant", user |-> u, granted |-> {c}, replaces |-> {}]
    <3>2. k.pc = "grant" /\ k.granted \subseteq exists'
      BY <3>1
    <3>3. calls' = [calls EXCEPT ![u] = k]
      BY <3>1
    <3> HIDE DEF k
    <3>4. QED BY <3>1, <3>2, <3>3
  <2>3. QED BY <2>1, <2>2
<1>2. UNCHANGED <<grants, raced>> /\ exists \subseteq exists' /\ exists' \subseteq spent'
  BY DEF GrantChecks, InsertsChain, ResourceInv, CallsOK
<1>3. /\ calls' = [w \in Callers |-> calls'[w]]
      /\ calls'[u] = q
      /\ \A w \in Callers : w # u => calls'[w] = calls[w]
  BY <1>1, CallKeeps
<1>4. ~Within(u, "unmap")
  BY <1>1 DEF Quiet, Within, Rest
<1>5. GrantInv'
  BY <1>1, <1>2, <1>3 DEF ResourceInv, GrantInv, Within
<1>6. GrantsExist'
  BY <1>2, <1>3, <1>4 DEF ResourceInv, GrantsExist, Within
<1>7. CallsOK'
  BY <1>2, <1>3 DEF CallsOK
<1>8. QED BY <1>5, <1>6, <1>7 DEF ResourceInv

LEMMA GrantEnds ==
  ASSUME ResourceInv, NEW u \in Callers, GrantStores(u) \/ GrantFails(u)
  PROVE  ResourceInv'
<1>1. /\ Within(u, "grant") /\ calls' = [calls EXCEPT ![u] = Rest]
      /\ UNCHANGED <<exists, spent, raced>>
  BY DEF GrantStores, GrantFails, Ends
<1>2. /\ calls' = [w \in Callers |-> calls'[w]]
      /\ calls'[u] = Rest
      /\ \A w \in Callers : w # u => calls'[w] = calls[w]
  BY <1>1, CallKeeps
<1>3. calls[u].granted \subseteq exists \cup raced
  BY <1>1 DEF ResourceInv, GrantInv
<1>4. \A g \in grants' : g \in grants \/ g[2] \in exists \cup raced
  BY <1>3 DEF GrantStores, GrantFails
<1>5. \A w \in Callers : Within(w, "unmap") => Within(w, "unmap")' /\ calls'[w] = calls[w]
  BY <1>1, <1>2 DEF Within
<1>6. GrantsExist'
  BY <1>1, <1>4, <1>5 DEF ResourceInv, GrantsExist
<1>7. GrantInv'
  BY <1>1, <1>2 DEF ResourceInv, GrantInv, Within, Rest
<1>8. CallsOK'
  BY <1>1, <1>2 DEF ResourceInv, CallsOK
<1>9. QED BY <1>6, <1>7, <1>8 DEF ResourceInv

(***************************************************************************)
(* A deletion: the row goes, and until its mappings do the caller is at    *)
(* "unmap"; what a grant has checked is noted.                             *)
(***************************************************************************)
LEMMA DeletesInv ==
  ASSUME ResourceInv, NEW u \in Callers, Deletes(u)
  PROVE  ResourceInv'
<1>1. PICK i \in exists :
        /\ Quiet(u) /\ calls' = [calls EXCEPT ![u] = [pc |-> "unmap", id |-> i]]
        /\ exists' = exists \ {i}
        /\ raced' = IF i \in Promised THEN raced \cup {i} ELSE raced
  BY DEF Deletes, Begins
<1>2. UNCHANGED <<spent, grants>>
  BY DEF Deletes
<1>3. /\ calls' = [w \in Callers |-> calls'[w]]
      /\ calls'[u] = [pc |-> "unmap", id |-> i]
      /\ \A w \in Callers : w # u => calls'[w] = calls[w]
  BY <1>1, CallKeeps
<1>4. \A w \in Callers : Within(w, "unmap") => w # u
  BY <1>1 DEF Quiet, Within, Rest
<1>5. GrantsExist'
  <2>1. SUFFICES ASSUME NEW g \in grants
                 PROVE  \/ g[2] \in exists' \cup raced'
                        \/ \E w \in Callers : Within(w, "unmap")' /\ calls'[w].id = g[2]
    BY <1>2 DEF GrantsExist
  <2>2. CASE g[2] = i
    BY <2>2, <1>3 DEF Within
  <2>3. CASE g[2] # i /\ g[2] \in exists \cup raced
    BY <2>3, <1>1
  <2>4. CASE \E w \in Callers : Within(w, "unmap") /\ calls[w].id = g[2]
    BY <2>4, <1>3, <1>4 DEF Within
  <2>5. QED BY <2>2, <2>3, <2>4 DEF ResourceInv, GrantsExist
<1>6. GrantInv'
  <2>1. SUFFICES ASSUME NEW w \in Callers, Within(w, "grant")'
                 PROVE  calls'[w].granted \subseteq exists' \cup raced'
    BY DEF GrantInv
  <2>2. w # u /\ calls'[w] = calls[w] /\ Within(w, "grant")
    BY <2>1, <1>3 DEF Within
  <2>3. calls[w].granted \subseteq exists \cup raced
    BY <2>2 DEF ResourceInv, GrantInv
  <2>4. i \in calls[w].granted => i \in raced'
    BY <2>2, <1>1 DEF Promised
  <2>5. QED BY <2>2, <2>3, <2>4, <1>1
<1>7. CallsOK'
  BY <1>1, <1>2, <1>3 DEF ResourceInv, CallsOK
<1>8. QED BY <1>5, <1>6, <1>7 DEF ResourceInv

LEMMA UnmapsInv ==
  ASSUME ResourceInv, NEW u \in Callers, Unmaps(u) \/ UnmapFails(u)
  PROVE  ResourceInv'
<1> DEFINE i == calls[u].id
<1>1. /\ Within(u, "unmap") /\ calls' = [calls EXCEPT ![u] = Rest]
      /\ UNCHANGED <<exists, spent>>
      /\ grants' \subseteq grants
      /\ raced \subseteq raced'
      /\ \A g \in grants' : g[2] = i => i \in raced'
  BY DEF Unmaps, UnmapFails, Ends
<1> HIDE DEF i
<1>2. /\ calls' = [w \in Callers |-> calls'[w]]
      /\ calls'[u] = Rest
      /\ \A w \in Callers : w # u => calls'[w] = calls[w]
  BY <1>1, CallKeeps
<1>3. GrantsExist'
  <2>1. SUFFICES ASSUME NEW g \in grants'
                 PROVE  \/ g[2] \in exists \cup raced'
                        \/ \E w \in Callers : Within(w, "unmap")' /\ calls'[w].id = g[2]
    BY <1>1 DEF GrantsExist
  <2>2. CASE g[2] = i
    BY <2>2, <1>1
  <2>3. CASE g[2] \in exists \cup raced
    BY <2>3, <1>1
  <2>4. CASE g[2] # i /\ \E w \in Callers : Within(w, "unmap") /\ calls[w].id = g[2]
    BY <2>4, <1>2 DEF Within, i
  <2>5. QED BY <2>2, <2>3, <2>4, <1>1 DEF ResourceInv, GrantsExist
<1>4. GrantInv'
  BY <1>1, <1>2 DEF ResourceInv, GrantInv, Within, Rest
<1>5. CallsOK'
  BY <1>1, <1>2 DEF ResourceInv, CallsOK
<1>6. QED BY <1>3, <1>4, <1>5 DEF ResourceInv

(***************************************************************************)
(* Nodes, and whatever only concerns rules.                                *)
(***************************************************************************)
LEMMA NodesInv ==
  ASSUME ResourceInv, NEW u \in Callers, AddNode \/ EditNode(u)
  PROVE  ResourceInv'
<1>1. CASE AddNode
  BY <1>1, GrantsKeep DEF AddNode, ResourceInv, CallsOK
<1>2. CASE EditNode(u)
  BY <1>2, GrantsKeep DEF EditNode, ResourceInv, CallsOK
<1>3. QED BY <1>1, <1>2

LEMMA RuleStepsInv ==
  ASSUME ResourceInv, NEW u \in Callers,
         BeginAddRule(u) \/ BeginModifyRule(u) \/ RuleTells(u) \/ RuleRefused(u) \/ RuleWrites(u)
           \/ RuleUnwritten(u) \/ DelRule(u) \/ ModifyRules(u) \/ Reregisters
  PROVE  ResourceInv'
<1> DEFINE Away == {"rest", "tell", "write"}
<1>1. UNCHANGED <<exists, spent, grants, raced>>
  BY DEF BeginAddRule, BeginModifyRule, RuleTells, RuleRefused, RuleWrites, RuleUnwritten, DelRule,
         ModifyRules, Reregisters
<1>2. CASE UNCHANGED calls
  BY <1>1, <1>2, GrantsKeep DEF ResourceInv, CallsOK
<1>3. CASE \E q : calls' = [calls EXCEPT ![u] = q] /\ q.pc \in Away /\ calls[u].pc \in Away
  <2>1. PICK q : calls' = [calls EXCEPT ![u] = q] /\ q.pc \in Away /\ calls[u].pc \in Away
    BY <1>3
  <2>2. /\ calls' = [w \in Callers |-> calls'[w]]
        /\ calls'[u] = q
        /\ \A w \in Callers : w # u => calls'[w] = calls[w]
    BY <2>1, CallKeeps
  <2>3. GrantsExist'
    BY <1>1, <2>1, <2>2 DEF ResourceInv, GrantsExist, Within
  <2>4. GrantInv'
    BY <1>1, <2>1, <2>2 DEF ResourceInv, GrantInv, Within
  <2>5. CallsOK'
    BY <1>1, <2>2 DEF ResourceInv, CallsOK
  <2>6. QED BY <2>3, <2>4, <2>5 DEF ResourceInv
<1>4. CASE BeginAddRule(u) \/ BeginModifyRule(u)
  <2>1. PICK q : calls' = [calls EXCEPT ![u] = q] /\ q.pc = "tell" /\ Quiet(u)
    BY <1>4 DEF BeginAddRule, BeginModifyRule, Begins
  <2>2. calls[u].pc = "rest"
    BY <2>1 DEF Quiet, Rest
  <2>3. QED BY <2>1, <2>2, <1>3
<1>5. CASE RuleTells(u)
  <2>1. calls[u].pc = "tell" /\ \E q : q.pc = "write" /\ calls' = [calls EXCEPT ![u] = q]
    BY <1>5 DEF RuleTells, Within
  <2>2. QED BY <2>1, <1>3
<1>6. CASE RuleRefused(u) \/ RuleWrites(u) \/ RuleUnwritten(u)
  <2>1. calls[u].pc \in Away /\ calls' = [calls EXCEPT ![u] = Rest] /\ Rest.pc = "rest"
    BY <1>6 DEF RuleRefused, RuleWrites, RuleUnwritten, Within, Ends, Rest
  <2>2. QED BY <2>1, <1>3
<1>7. CASE DelRule(u) \/ ModifyRules(u) \/ Reregisters
  BY <1>7, <1>2 DEF DelRule, ModifyRules, Reregisters
<1>8. QED BY <1>4, <1>5, <1>6, <1>7

LEMMA ResourceInitInv == ResourcesInit => ResourceInv
  BY DEF ResourcesInit, ResourceInv, CallsOK, GrantInv, GrantsExist, Within, Rest

LEMMA ResourceStepInv == ResourceInv /\ [ResourcesNext]_resourceVars => ResourceInv'
<1> SUFFICES ASSUME ResourceInv, [ResourcesNext]_resourceVars
             PROVE  ResourceInv'
  OBVIOUS
<1>1. Root \in Callers
  BY DEF Callers
<1>2. CASE ResourcesNext
  BY <1>1, <1>2, NodesInv, DeletesInv, UnmapsInv, GrantBegins, GrantEnds, RuleStepsInv
     DEF ResourcesNext, SetUserResources
<1>3. CASE UNCHANGED resourceVars
  BY <1>3, GrantsKeep DEF resourceVars, ResourceInv, CallsOK
<1>4. QED BY <1>2, <1>3

(***************************************************************************)
(* No grant of what does not exist, except for deletions that race it or   *)
(* fail half way (SetUserResources, AddChain, DelNode, DelChain).          *)
(***************************************************************************)
THEOREM GrantsNameWhatExists == ResourcesSpec => []GrantsExist
<1>1. ResourcesSpec => []ResourceInv
  BY ResourceInitInv, ResourceStepInv, PTL DEF ResourcesSpec
<1>2. ResourceInv => GrantsExist
  BY DEF ResourceInv
<1>3. QED BY <1>1, <1>2, PTL

-----------------------------------------------------------------------------
(* RuleRouted.                                                             *)

Named == (spent \cap ChainRows) \cup {Direct}

There == exists \cup {Direct}

AtRule == {"tell", "write"}

OnRule(u, r) == calls[u].pc \in AtRule /\ calls[u].rule = r

\* The chain the rule will have when the request has written it.
Aim(u) == IF calls[u].chain = None THEN rules[calls[u].rule].chain ELSE calls[u].chain

RuleRows == [chain : Named, owner : Callers]

RuleCallOK(u) ==
  /\ calls[u].rule \in RuleIds
  /\ calls[u].new \in BOOLEAN
  /\ calls[u].chain \in Named \cup {None}
  /\ calls[u].new => calls[u].chain # None

\* What a rule or a request names was there once.
RouteTypes ==
  /\ rules = [r \in RuleIds |-> rules[r]] /\ via = [r \in RuleIds |-> via[r]]
  /\ \A r \in RuleIds : rules[r] # None => rules[r] \in RuleRows
  /\ \A u \in Callers : calls[u].pc \in AtRule => RuleCallOK(u)

\* One request at most is about the rule, and the rule is there if that only
\* modifies it.
OneRequest ==
  \A r \in RuleIds \ astray :
    /\ \A u, v \in Callers : OnRule(u, r) /\ OnRule(v, r) => u = v
    /\ \A u \in Callers : OnRule(u, r) /\ calls[u].chain = None => rules[r] # None

\* The route a request carries, and then the agent has, is that of the chain
\* the rule will have, as long as that exists.
Carried ==
  \A r \in RuleIds \ astray : \A u \in Callers :
    OnRule(u, r) /\ Aim(u) \in There =>
      /\ Within(u, "tell") => calls[u].route = Aim(u)
      /\ Within(u, "write") => via[r] \in {None, Aim(u)}

Routed ==
  \A r \in RuleIds \ astray :
    rules[r] # None /\ rules[r].chain \in There /\ via[r] # None /\ ~BeingWritten(r)
      => via[r] = rules[r].chain

RoutedInv == ResourceInv /\ exists \subseteq Grantable /\ RouteTypes /\ OneRequest /\ Carried /\ Routed

LEMMA AddressThere == \A c \in There : Address(c) = c
  BY DEF There, Address

LEMMA RoutedIsRuleRouted == RoutedInv => RuleRouted
  BY AddressThere DEF RoutedInv, Routed, RuleRouted, TestRule, There

(***************************************************************************)
(* Steps of nodes, chains and grants: rules stay, requests about rules     *)
(* stay, and only ids that nobody has named come into existence.           *)
(***************************************************************************)
LEMMA RoutesKeep ==
  ASSUME RoutedInv, ResourceInv', UNCHANGED <<rules, via, astray>>,
         spent \subseteq spent', exists' \subseteq Grantable,
         \A i \in exists' : i \in exists \/ i \notin spent,
         \A u \in Callers : calls[u].pc \in AtRule => calls'[u] = calls[u],
         \A u \in Callers : calls'[u].pc \in AtRule => calls'[u] = calls[u]
  PROVE  RoutedInv'
<1>1. Named \subseteq Named' /\ \A c \in Named : c \in There' => c \in There
  BY ResourcesAssumption DEF Named, There, Grantable
<1>2. \A u \in Callers : calls'[u].pc \in AtRule => calls'[u] = calls[u]
  OBVIOUS
<1>3. \A u \in Callers, r \in RuleIds : OnRule(u, r)' => OnRule(u, r) /\ calls'[u] = calls[u]
  BY <1>2 DEF OnRule
<1>4. RouteTypes'
  BY <1>1, <1>2 DEF RoutedInv, RouteTypes, RuleRows, RuleCallOK
<1>5. OneRequest'
  BY <1>3 DEF RoutedInv, OneRequest
<1>6. Carried'
  <2>1. SUFFICES ASSUME NEW r \in RuleIds \ astray, NEW u \in Callers, OnRule(u, r)', Aim(u)' \in There'
                 PROVE  /\ Within(u, "tell")' => calls'[u].route = Aim(u)'
                        /\ Within(u, "write")' => via[r] \in {None, Aim(u)'}
    BY DEF Carried
  <2>2. OnRule(u, r) /\ calls'[u] = calls[u] /\ Aim(u)' = Aim(u)
    BY <2>1, <1>3 DEF Aim
  <2>3. Aim(u) \in Named
    BY <2>2 DEF Aim, OnRule, RoutedInv, RouteTypes, RuleCallOK, RuleRows, OneRequest
  <2>4. QED BY <2>1, <2>2, <2>3, <1>1 DEF RoutedInv, Carried, Within
<1>7. Routed'
  <2>1. \A r \in RuleIds : BeingWritten(r) => BeingWritten(r)'
    BY DEF BeingWritten, Within, AtRule
  <2>2. \A r \in RuleIds : rules[r] # None => rules[r].chain \in Named
    BY DEF RoutedInv, RouteTypes, RuleRows
  <2>3. QED BY <2>1, <2>2, <1>1 DEF RoutedInv, Routed
<1>8. QED BY <1>4, <1>5, <1>6, <1>7 DEF RoutedInv

\* A caller begins or ends what is no request about a rule.
LEMMA RoutesKeepCall ==
  ASSUME RoutedInv, ResourceInv', NEW u \in Callers, NEW q, q.pc \notin AtRule, calls[u].pc \notin AtRule,
         calls' = [calls EXCEPT ![u] = q], UNCHANGED <<rules, via, astray>>,
         spent \subseteq spent', exists' \subseteq Grantable,
         \A i \in exists' : i \in exists \/ i \notin spent
  PROVE  RoutedInv'
<1>1. /\ calls'[u] = q
      /\ \A v \in Callers : v # u => calls'[v] = calls[v]
  BY CallKeeps DEF RoutedInv
<1>2. /\ \A v \in Callers : calls[v].pc \in AtRule => calls'[v] = calls[v]
      /\ \A v \in Callers : calls'[v].pc \in AtRule => calls'[v] = calls[v]
  BY <1>1
<1>3. QED BY <1>2, RoutesKeep

LEMMA RoutesOfThings ==
  ASSUME RoutedInv, ResourceInv', NEW u \in Callers,
         \/ AddNode \/ InsertsChain(u) \/ EditNode(u) \/ Deletes(u) \/ Unmaps(u) \/ UnmapFails(u)
         \/ GrantChecks(u) \/ GrantStores(u) \/ GrantFails(u)
  PROVE  RoutedInv'
<1>1. CASE AddNode \/ EditNode(u)
  <2>1. UNCHANGED <<rules, via, astray, calls>>
    BY <1>1 DEF AddNode, EditNode
  <2>2. /\ spent \subseteq spent' /\ exists' \subseteq Grantable
        /\ \A i \in exists' : i \in exists \/ i \notin spent
    BY <1>1 DEF AddNode, EditNode, RoutedInv, Grantable
  <2>3. QED BY <2>1, <2>2, RoutesKeep
<1>2. Rest.pc \notin AtRule
  BY DEF Rest, AtRule
<1>3. CASE InsertsChain(u)
  <2>1. PICK c \in ChainRows \ spent :
          /\ calls' = [calls EXCEPT ![u] = [pc |-> "grant", user |-> u, granted |-> {c}, replaces |-> {}]]
          /\ calls[u] = Rest
          /\ exists' = exists \cup {c} /\ spent' = spent \cup {c}
    BY <1>3 DEF InsertsChain, Begins, Quiet
  <2>2. UNCHANGED <<rules, via, astray>>
    BY <1>3 DEF InsertsChain
  <2>3. exists' \subseteq Grantable
    BY <2>1 DEF RoutedInv, Grantable
  <2> DEFINE q == [pc |-> "grant", user |-> u, granted |-> {c}, replaces |-> {}]
  <2>4. q.pc \notin AtRule /\ calls' = [calls EXCEPT ![u] = q] /\ calls[u].pc \notin AtRule
    BY <2>1, <1>2 DEF AtRule
  <2>5. spent \subseteq spent' /\ \A i \in exists' : i \in exists \/ i \notin spent
    BY <2>1
  <2> HIDE DEF q
  <2>6. QED BY <2>2, <2>3, <2>4, <2>5, RoutesKeepCall
<1>4. CASE Deletes(u)
  <2>1. PICK i \in exists :
          /\ calls' = [calls EXCEPT ![u] = [pc |-> "unmap", id |-> i]] /\ exists' = exists \ {i}
          /\ calls[u] = Rest
    BY <1>4 DEF Deletes, Begins, Quiet
  <2>2. UNCHANGED <<rules, via, astray, spent>>
    BY <1>4 DEF Deletes
  <2> DEFINE q == [pc |-> "unmap", id |-> i]
  <2>3. q.pc \notin AtRule /\ calls' = [calls EXCEPT ![u] = q] /\ calls[u].pc \notin AtRule
    BY <2>1, <1>2 DEF AtRule
  <2>4. exists' \subseteq exists /\ exists' \subseteq Grantable
    BY <2>1 DEF RoutedInv
  <2> HIDE DEF q
  <2>5. QED BY <2>2, <2>3, <2>4, RoutesKeepCall
<1>5. CASE Unmaps(u) \/ UnmapFails(u) \/ GrantStores(u) \/ GrantFails(u)
  <2>1. calls' = [calls EXCEPT ![u] = Rest] /\ UNCHANGED <<rules, via, astray, spent, exists>>
    BY <1>5 DEF Unmaps, UnmapFails, GrantStores, GrantFails, Ends
  <2>2. calls[u].pc \notin AtRule /\ exists' \subseteq Grantable
    BY <1>5, <2>1 DEF Unmaps, UnmapFails, GrantStores, GrantFails, Within, AtRule, RoutedInv
  <2>3. QED BY <1>2, <2>1, <2>2, RoutesKeepCall
<1>6. CASE GrantChecks(u)
  <2>1. PICK v \in Clients, G \in SUBSET spent :
          /\ calls' = [calls EXCEPT ![u] =
                         [pc |-> "grant", user |-> v, granted |-> G, replaces |-> Grantable]]
          /\ calls[u] = Rest
    BY <1>6 DEF GrantChecks, Begins, Quiet
  <2>2. UNCHANGED <<rules, via, astray, spent, exists>>
    BY <1>6 DEF GrantChecks
  <2> DEFINE q == [pc |-> "grant", user |-> v, granted |-> G, replaces |-> Grantable]
  <2>3. q.pc \notin AtRule /\ calls' = [calls EXCEPT ![u] = q] /\ calls[u].pc \notin AtRule
    BY <2>1, <1>2 DEF AtRule
  <2>4. exists' \subseteq Grantable
    BY <2>2 DEF RoutedInv
  <2> HIDE DEF q
  <2>5. QED BY <2>2, <2>3, <2>4, RoutesKeepCall
<1>7. QED BY <1>1, <1>3, <1>4, <1>5, <1>6

(***************************************************************************)
(* A request about a rule begins: it names a chain that is there or was    *)
(* there, or leaves the rule its own, and carries the address of the one   *)
(* the rule is going to have.                                              *)
(***************************************************************************)
LEMMA RouteBegins ==
  ASSUME RoutedInv, ResourceInv', NEW u \in Callers, BeginAddRule(u) \/ BeginModifyRule(u)
  PROVE  RoutedInv'
<1>1. PICK q : /\ calls' = [calls EXCEPT ![u] = q]
               /\ q.pc = "tell" /\ q.rule \in RuleIds /\ q.new \in BOOLEAN
               /\ q.chain \in Named \cup {None} /\ (q.new => q.chain # None)
               /\ q.chain = None => rules[q.rule] # None
               /\ q.chain = None => q.route = Address(rules[q.rule].chain)
               /\ q.chain # None => q.route = Address(q.chain)
               /\ Touched(q.rule) => q.rule \in astray'
  <2>1. CASE BeginAddRule(u)
    <3>1. PICK n \in ListNode(u),
               c \in ListChain(u) \cup (IF IsSuperAdmin(u) THEN ChainRows \cap spent ELSE {}) \cup {Direct},
               r \in {s \in RuleIds : rules[s] = None /\ ~Touched(s)} :
            calls' = [calls EXCEPT ![u] =
                        [pc |-> "tell", new |-> TRUE, rule |-> r, chain |-> c, route |-> Address(c)]]
      BY <2>1 DEF BeginAddRule, Begins
    <3>2. c \in Named /\ c # None
      BY <3>1, ResourcesAssumption DEF ListChain, Named, RoutedInv, ResourceInv, CallsOK
    <3> DEFINE k == [pc |-> "tell", new |-> TRUE, rule |-> r, chain |-> c, route |-> Address(c)]
    <3>3. /\ k.pc = "tell" /\ k.rule = r /\ k.new = TRUE /\ k.chain = c /\ k.route = Address(c)
          /\ calls' = [calls EXCEPT ![u] = k]
      BY <3>1
    <3>4. r \in RuleIds /\ ~Touched(r)
      BY <3>1
    <3> HIDE DEF k
    <3>5. QED BY <3>2, <3>3, <3>4
  <2>2. CASE BeginModifyRule(u)
    <3>1. PICK r \in ListRule(u), c \in ChainRows \cup {Direct} :
            /\ c = rules[r].chain \/ c \in ListChain(u)
            /\ calls' = [calls EXCEPT ![u] =
                        [pc |-> "tell", new |-> FALSE, rule |-> r,
                         chain |-> IF c = rules[r].chain THEN None ELSE c, route |-> Address(c)]]
            /\ Tangles(r)
      BY <2>2 DEF BeginModifyRule, Begins
    <3>2. r \in RuleIds /\ rules[r] # None
      BY <3>1 DEF ListRule, checkRuleOwnership
    <3>3. c \in Named /\ c # None
      BY <3>1, <3>2, ResourcesAssumption
         DEF ListChain, Named, RoutedInv, RouteTypes, RuleRows, ResourceInv, CallsOK
    <3> DEFINE k == [pc |-> "tell", new |-> FALSE, rule |-> r,
                     chain |-> IF c = rules[r].chain THEN None ELSE c, route |-> Address(c)]
    <3>4. /\ k.pc = "tell" /\ k.rule = r /\ k.new = FALSE /\ k.route = Address(c)
          /\ k.chain = IF c = rules[r].chain THEN None ELSE c
          /\ calls' = [calls EXCEPT ![u] = k]
      BY <3>1
    <3>5. Touched(r) => r \in astray'
      BY <3>1 DEF Tangles
    <3> HIDE DEF k
    <3>6. QED BY <3>2, <3>3, <3>4, <3>5
  <2>3. QED BY <2>1, <2>2
<1>2. /\ UNCHANGED <<exists, spent, rules, via>>
      /\ astray \subseteq astray'
  BY DEF BeginAddRule, BeginModifyRule, Tangles
<1>3. /\ calls'[u] = q
      /\ \A v \in Callers : v # u => calls'[v] = calls[v]
  BY <1>1, CallKeeps DEF RoutedInv
<1>4. calls[u] = Rest
  BY DEF BeginAddRule, BeginModifyRule, Begins, Quiet
<1>5. \A v \in Callers, r \in RuleIds \ astray' :
        OnRule(v, r)' => \/ v = u /\ r = q.rule /\ \A w \in Callers : ~OnRule(w, r)
                         \/ v # u /\ OnRule(v, r) /\ r # q.rule
  <2>1. SUFFICES ASSUME NEW v \in Callers, NEW r \in RuleIds \ astray', OnRule(v, r)'
                 PROVE  \/ v = u /\ r = q.rule /\ \A w \in Callers : ~OnRule(w, r)
                        \/ v # u /\ OnRule(v, r) /\ r # q.rule
    OBVIOUS
  <2>2. r = q.rule => \A w \in Callers : ~OnRule(w, r)
    BY <1>1 DEF Touched, OnRule, AtRule, Within
  <2>3. CASE v = u
    BY <2>1, <2>2, <2>3, <1>3 DEF OnRule
  <2>4. CASE v # u
    BY <2>1, <2>2, <2>4, <1>3 DEF OnRule
  <2>5. QED BY <2>3, <2>4
<1>6. RouteTypes'
  BY <1>1, <1>2, <1>3 DEF RoutedInv, RouteTypes, RuleRows, RuleCallOK, Named
<1>7. OneRequest'
  <2>1. \A r \in RuleIds \ astray' : \A v, w \in Callers : OnRule(v, r)' /\ OnRule(w, r)' => v = w
    BY <1>2, <1>5 DEF RoutedInv, OneRequest
  <2>2. \A r \in RuleIds \ astray' : \A v \in Callers : OnRule(v, r)' /\ calls'[v].chain = None => rules'[r] # None
    BY <1>1, <1>2, <1>3, <1>5 DEF RoutedInv, OneRequest
  <2>3. QED BY <2>1, <2>2 DEF OneRequest
<1>8. Carried'
  <2>1. SUFFICES ASSUME NEW r \in RuleIds \ astray', NEW v \in Callers, OnRule(v, r)', Aim(v)' \in There
                 PROVE  /\ Within(v, "tell")' => calls'[v].route = Aim(v)'
                        /\ Within(v, "write")' => via[r] \in {None, Aim(v)'}
    BY <1>2 DEF Carried, There
  <2>2. CASE v = u /\ r = q.rule
    <3>1. calls'[v].route = Address(Aim(v)') /\ ~Within(v, "write")'
      BY <2>2, <1>1, <1>2, <1>3 DEF Aim, Within
    <3>2. QED BY <2>1, <3>1, AddressThere
  <2>3. CASE v # u /\ OnRule(v, r)
    <3>1. calls'[v] = calls[v] /\ Aim(v)' = Aim(v)
      BY <2>3, <1>2, <1>3 DEF Aim
    <3>2. QED BY <2>1, <2>3, <3>1, <1>2 DEF RoutedInv, Carried, Within
  <2>4. QED BY <2>1, <2>2, <2>3, <1>5
<1>9. Routed'
  <2>1. \A r \in RuleIds : BeingWritten(r) => BeingWritten(r)'
    BY <1>3, <1>4 DEF BeingWritten, Within, Rest
  <2>2. QED BY <2>1, <1>2 DEF RoutedInv, Routed, There
<1>10. QED BY <1>2, <1>6, <1>7, <1>8, <1>9 DEF RoutedInv

(***************************************************************************)
(* The request goes on to the row, or ends.                                *)
(***************************************************************************)
LEMMA RouteSteps ==
  ASSUME RoutedInv, ResourceInv', NEW u \in Callers,
         RuleTells(u) \/ RuleRefused(u) \/ RuleWrites(u) \/ RuleUnwritten(u)
  PROVE  RoutedInv'
<1> DEFINE q == calls[u]
           s == q.rule
<1>1. /\ OnRule(u, s) /\ s \in RuleIds /\ RuleCallOK(u)
      /\ UNCHANGED <<exists, spent>> /\ astray \subseteq astray'
  BY DEF RuleTells, RuleRefused, RuleWrites, RuleUnwritten, OnRule, Within, AtRule, RoutedInv, RouteTypes,
         RuleCallOK
<1> HIDE DEF q, s
<1>2. PICK k : /\ calls' = [calls EXCEPT ![u] = k]
               /\ \/ k = Rest
                  \/ /\ RuleTells(u)
                     /\ k.pc = "write" /\ k.new = q.new /\ k.rule = s /\ k.chain = q.chain
  <2>1. CASE RuleTells(u)
    <3> DEFINE m == [pc |-> "write", new |-> calls[u].new, rule |-> calls[u].rule, chain |-> calls[u].chain]
    <3>1. calls' = [calls EXCEPT ![u] = m]
      BY <2>1 DEF RuleTells
    <3>2. m.pc = "write" /\ m.new = q.new /\ m.rule = s /\ m.chain = q.chain
      BY DEF q, s
    <3> HIDE DEF m
    <3>3. QED BY <2>1, <3>1, <3>2
  <2>2. CASE RuleRefused(u) \/ RuleWrites(u) \/ RuleUnwritten(u)
    BY <2>2 DEF RuleRefused, RuleWrites, RuleUnwritten, Ends
  <2>3. QED BY <2>1, <2>2
<1>3. /\ calls'[u] = k
      /\ \A v \in Callers : v # u => calls'[v] = calls[v]
  BY <1>2, CallKeeps DEF RoutedInv
<1>4. \A v \in Callers, r \in RuleIds :
        OnRule(v, r)' => OnRule(v, r) /\ (v # u \/ (r = s /\ k.pc = "write" /\ RuleTells(u)))
  <2>1. SUFFICES ASSUME NEW v \in Callers, NEW r \in RuleIds, OnRule(v, r)'
                 PROVE  OnRule(v, r) /\ (v # u \/ (r = s /\ k.pc = "write" /\ RuleTells(u)))
    OBVIOUS
  <2>2. CASE v = u
    <3>1. k # Rest
      BY <2>1, <2>2, <1>3 DEF OnRule, AtRule, Rest
    <3>2. QED BY <2>1, <2>2, <3>1, <1>1, <1>2, <1>3 DEF OnRule, s
  <2>3. CASE v # u
    BY <2>1, <2>3, <1>3 DEF OnRule
  <2>4. QED BY <2>2, <2>3
<1>5. /\ rules' = [r \in RuleIds |-> rules'[r]] /\ via' = [r \in RuleIds |-> via'[r]]
      /\ \A r \in RuleIds : r # s => rules'[r] = rules[r] /\ via'[r] = via[r]
  BY <1>1 DEF RuleTells, RuleRefused, RuleWrites, RuleUnwritten, RoutedInv, RouteTypes, q, s
<1>6. rules'[s] # None => rules'[s] \in RuleRows
  BY <1>1 DEF RuleTells, RuleRefused, RuleWrites, RuleUnwritten, RoutedInv, RouteTypes, RuleRows, RuleCallOK, q, s
<1>7. RouteTypes'
  <2>1. \A r \in RuleIds : rules'[r] # None => rules'[r] \in RuleRows
    BY <1>5, <1>6 DEF RoutedInv, RouteTypes
  <2>2. RuleRows' = RuleRows /\ Named' = Named
    BY <1>1 DEF RuleRows, Named
  <2>3. \A v \in Callers : calls'[v].pc \in AtRule => RuleCallOK(v)'
    BY <1>1, <1>2, <1>3, <2>2 DEF RoutedInv, RouteTypes, RuleCallOK, Rest, AtRule, q, s
  <2>4. QED BY <1>5, <2>1, <2>2, <2>3 DEF RouteTypes
\* What is about another rule, and about this one if it is a crossed one, stays as it is.
<1>8. \A r \in RuleIds \ astray' : r # s \/ \A v \in Callers : OnRule(v, r) => v = u
  BY <1>1 DEF RoutedInv, OneRequest
<1>9. OneRequest'
  <2>1. \A r \in RuleIds \ astray' : \A v, w \in Callers : OnRule(v, r)' /\ OnRule(w, r)' => v = w
    BY <1>1, <1>4 DEF RoutedInv, OneRequest
  <2>2. SUFFICES ASSUME NEW r \in RuleIds \ astray', NEW v \in Callers, OnRule(v, r)', calls'[v].chain = None
                 PROVE  rules'[r] # None
    BY <2>1 DEF OneRequest
  <2>3. CASE v = u
    <3>1. UNCHANGED rules /\ calls[u].chain = None /\ OnRule(u, r)
      BY <2>2, <2>3, <1>2, <1>3, <1>4 DEF RuleTells, q, OnRule, AtRule, Rest
    <3>2. QED BY <3>1, <1>1, <2>2 DEF RoutedInv, OneRequest
  <2>4. CASE v # u
    <3>1. OnRule(v, r) /\ r # s /\ calls[v].chain = None
      BY <2>2, <2>4, <1>3, <1>4, <1>8
    <3>2. QED BY <3>1, <1>1, <1>5, <2>2 DEF RoutedInv, OneRequest
  <2>5. QED BY <2>3, <2>4
<1>10. Carried'
  <2>1. SUFFICES ASSUME NEW r \in RuleIds \ astray', NEW v \in Callers, OnRule(v, r)', Aim(v)' \in There
                 PROVE  /\ Within(v, "tell")' => calls'[v].route = Aim(v)'
                        /\ Within(v, "write")' => via'[r] \in {None, Aim(v)'}
    BY <1>1 DEF Carried, There
  <2>2. CASE v = u
    <3>1. RuleTells(u) /\ r = s /\ k.pc = "write" /\ k.chain = q.chain /\ k.rule = s /\ OnRule(u, r)
      BY <2>1, <2>2, <1>2, <1>3, <1>4 DEF OnRule, AtRule, Rest
    <3>2. UNCHANGED rules /\ via'[s] = q.route /\ Within(u, "tell")
      BY <3>1, <1>1 DEF RuleTells, q, s, RoutedInv, RouteTypes
    <3>3. Aim(u)' = Aim(u)
      BY <3>1, <3>2, <1>3 DEF Aim, q, s
    <3>4. q.route = Aim(u)
      BY <2>1, <2>2, <3>1, <3>2, <3>3, <1>1 DEF RoutedInv, Carried, q
    <3>5. ~Within(v, "tell")'
      BY <2>2, <3>1, <1>3 DEF Within
    <3>6. QED BY <2>2, <3>1, <3>2, <3>3, <3>4, <3>5
  <2>3. CASE v # u
    <3>1. OnRule(v, r) /\ r # s /\ calls'[v] = calls[v] /\ calls[v].rule = r
      BY <2>1, <2>3, <1>3, <1>4, <1>8 DEF OnRule
    <3>2. rules'[r] = rules[r] /\ via'[r] = via[r] /\ Aim(v)' = Aim(v)
      BY <3>1, <1>5 DEF Aim
    <3>3. QED BY <2>1, <3>1, <3>2, <1>1 DEF RoutedInv, Carried, Within
  <2>4. QED BY <2>2, <2>3
<1>11. Routed'
  <2>1. SUFFICES ASSUME NEW r \in RuleIds \ astray', rules'[r] # None, rules'[r].chain \in There,
                        via'[r] # None, ~BeingWritten(r)'
                 PROVE  via'[r] = rules'[r].chain
    BY <1>1 DEF Routed, There
  <2>2. CASE r # s
    <3>1. BeingWritten(r) => BeingWritten(r)'
      <4>1. SUFFICES ASSUME NEW v \in Callers, Within(v, "write"), calls[v].rule = r
                     PROVE  BeingWritten(r)'
        BY DEF BeingWritten
      <4>2. v # u
        BY <4>1, <2>2 DEF q, s
      <4>3. QED BY <4>1, <4>2, <1>3 DEF BeingWritten, Within
    <3>2. QED BY <2>1, <2>2, <3>1, <1>1, <1>5 DEF RoutedInv, Routed
  <2>3. CASE r = s /\ RuleTells(u)
    <3>1. BeingWritten(r)'
      BY <2>3, <1>2, <1>3 DEF BeingWritten, Within, RuleTells, Rest
    <3>2. QED BY <2>1, <3>1
  <2>4. CASE r = s /\ RuleRefused(u)
    <3>1. UNCHANGED rules /\ via'[s] = via[s] /\ Within(u, "tell")
      BY <2>1, <2>4, <1>1 DEF RuleRefused, q, s, RoutedInv, RouteTypes
    <3>2. ~BeingWritten(r)
      BY <2>1, <2>4, <3>1, <1>1, <1>8 DEF BeingWritten, OnRule, AtRule, Within
    <3>3. QED BY <2>1, <2>4, <3>1, <3>2, <1>1 DEF RoutedInv, Routed
  <2>5. CASE r = s /\ RuleWrites(u)
    <3>1. Within(u, "write") /\ UNCHANGED via
      BY <2>5 DEF RuleWrites
    <3>2. rules'[s].chain = Aim(u)
      <4>1. CASE q.new
        BY <2>5, <4>1, <1>1 DEF RuleWrites, Aim, q, s, RuleCallOK, RoutedInv, RouteTypes
      <4>2. CASE ~q.new /\ q.chain = None
        BY <2>5, <4>2, <1>1 DEF RuleWrites, Aim, q, s, RuleCallOK
      <4>3. CASE ~q.new /\ q.chain # None
        <5>1. rules[s] # None
          BY <2>1, <2>5, <4>3, <1>1 DEF RuleWrites, q, s, RuleCallOK
        <5>2. rules' = [rules EXCEPT ![s].chain = q.chain] /\ rules[s] \in RuleRows
          BY <2>5, <4>3, <5>1, <1>1 DEF RuleWrites, q, s, RuleCallOK, RoutedInv, RouteTypes
        <5>3. QED BY <4>3, <5>2, <1>1 DEF Aim, q, s, RuleRows, RoutedInv, RouteTypes
      <4>4. QED BY <4>1, <4>2, <4>3
    <3>3. QED BY <2>1, <2>5, <3>1, <3>2, <1>1 DEF RoutedInv, Carried
  <2>6. CASE r = s /\ RuleUnwritten(u)
    BY <2>1, <2>6 DEF RuleUnwritten, q, s
  <2>7. QED BY <2>2, <2>3, <2>4, <2>5, <2>6
<1>12. QED BY <1>1, <1>7, <1>9, <1>10, <1>11 DEF RoutedInv

(***************************************************************************)
(* The other ways in which routes change: no request on a rule that is not *)
(* astray afterwards has been touched.                                     *)
(***************************************************************************)
LEMMA RouteChanges ==
  ASSUME RoutedInv, ResourceInv', NEW u \in Callers, DelRule(u) \/ ModifyRules(u) \/ Reregisters
  PROVE  RoutedInv'
<1>1. UNCHANGED <<exists, spent, calls>>
  BY DEF DelRule, ModifyRules, Reregisters
<1>2. /\ \A r \in RuleIds, v \in Callers : OnRule(v, r)' = OnRule(v, r)
      /\ \A r \in RuleIds : BeingWritten(r)' = BeingWritten(r)
      /\ Named' = Named /\ There' = There /\ RuleRows' = RuleRows
  BY <1>1 DEF OnRule, BeingWritten, Within, Named, There, RuleRows
<1>3. CASE DelRule(u) \/ ModifyRules(u)
  <2>1. PICK D \in SUBSET RuleIds :
          /\ astray \subseteq astray'
          /\ \A r \in D \ astray' : /\ \A v \in Callers : ~OnRule(v, r)
                                    /\ rules'[r] = None \/ via'[r] = None
          /\ \A r \in RuleIds \ D : rules'[r] = rules[r] /\ via'[r] = via[r]
          /\ \A r \in D : rules'[r] \in {None, rules[r]}
          /\ rules' = [r \in RuleIds |-> rules'[r]] /\ via' = [r \in RuleIds |-> via'[r]]
    <3>1. CASE DelRule(u)
      <4>1. PICK r \in ListRule(u) :
              /\ \/ rules' = [rules EXCEPT ![r] = None] /\ via' \in {via, [via EXCEPT ![r] = None]}
                 \/ via' = [via EXCEPT ![r] = None] /\ UNCHANGED rules
              /\ Tangles(r)
        BY <3>1 DEF DelRule
      <4>2. r \in RuleIds /\ {r} \in SUBSET RuleIds
        BY DEF ListRule
      <4>3. astray \subseteq astray' /\ (r \notin astray' => \A v \in Callers : ~OnRule(v, r))
        BY <4>1 DEF Tangles, Touched, OnRule, AtRule, Within
      <4>4. /\ rules'[r] = None \/ via'[r] = None
            /\ rules'[r] \in {None, rules[r]}
            /\ \A t \in RuleIds \ {r} : rules'[t] = rules[t] /\ via'[t] = via[t]
            /\ rules' = [t \in RuleIds |-> rules'[t]] /\ via' = [t \in RuleIds |-> via'[t]]
        BY <4>1, <4>2 DEF RoutedInv, RouteTypes
      <4> DEFINE D == {r}
      <4>5. /\ \A t \in D : /\ rules'[t] = None \/ via'[t] = None
                            /\ rules'[t] \in {None, rules[t]}
                            /\ t \notin astray' => \A v \in Callers : ~OnRule(v, t)
            /\ \A t \in RuleIds \ D : rules'[t] = rules[t] /\ via'[t] = via[t]
            /\ D \in SUBSET RuleIds
        BY <4>2, <4>3, <4>4
      <4> HIDE DEF D
      <4>6. QED BY <4>3, <4>4, <4>5
    <3>2. CASE ModifyRules(u)
      <4>1. PICK R \in SUBSET ListRule(u) :
              /\ via' = [r \in RuleIds |-> IF r \in R THEN Direct ELSE via[r]]
              /\ astray' = astray \cup R
        BY <3>2 DEF ModifyRules
      <4>2. UNCHANGED rules /\ R \in SUBSET RuleIds
        BY <3>2 DEF ModifyRules, ListRule
      <4>3. QED BY <4>1, <4>2 DEF RoutedInv, RouteTypes
    <3>3. QED BY <1>3, <3>1, <3>2
  <2>2. RouteTypes'
    <3>1. \A r \in RuleIds : rules'[r] # None => rules'[r] \in RuleRows
      BY <2>1 DEF RoutedInv, RouteTypes
    <3>2. \A v \in Callers : calls'[v].pc \in AtRule => RuleCallOK(v)'
      BY <1>1, <1>2 DEF RoutedInv, RouteTypes, RuleCallOK
    <3>3. QED BY <1>2, <2>1, <3>1, <3>2 DEF RouteTypes
  <2>3. OneRequest'
    BY <1>1, <1>2, <2>1 DEF RoutedInv, OneRequest
  <2>4. Carried'
    <3>1. SUFFICES ASSUME NEW r \in RuleIds \ astray', NEW v \in Callers, OnRule(v, r), Aim(v)' \in There
                   PROVE  /\ Within(v, "tell") => calls[v].route = Aim(v)'
                          /\ Within(v, "write") => via'[r] \in {None, Aim(v)'}
      BY <1>1, <1>2 DEF Carried, Within
    <3>2. rules'[r] = rules[r] /\ via'[r] = via[r] /\ calls[v].rule = r
      BY <2>1, <3>1 DEF OnRule
    <3>3. Aim(v)' = Aim(v)
      BY <1>1, <3>2 DEF Aim
    <3>4. QED BY <2>1, <3>1, <3>2, <3>3 DEF RoutedInv, Carried
  <2>5. Routed'
    BY <1>2, <2>1 DEF RoutedInv, Routed
  <2>6. QED BY <1>1, <2>2, <2>3, <2>4, <2>5 DEF RoutedInv
<1>4. CASE Reregisters
  <2>1. /\ via' = [r \in RuleIds |-> IF rules[r] = None THEN None ELSE Address(rules[r].chain)]
        /\ UNCHANGED rules
        /\ \A r \in RuleIds \ astray' : \A v \in Callers : ~OnRule(v, r)
    BY <1>4 DEF Reregisters, Touched, OnRule, AtRule, Within
  <2>2. RouteTypes'
    <3>1. \A v \in Callers : calls'[v].pc \in AtRule => RuleCallOK(v)'
      BY <1>1, <1>2 DEF RoutedInv, RouteTypes, RuleCallOK
    <3>2. QED BY <1>2, <2>1, <3>1 DEF RoutedInv, RouteTypes
  <2>3. OneRequest'
    BY <1>2, <2>1 DEF OneRequest
  <2>4. Carried'
    BY <1>2, <2>1 DEF Carried
  <2>5. Routed'
    BY <1>2, <2>1, AddressThere DEF Routed
  <2>6. QED BY <1>1, <2>2, <2>3, <2>4, <2>5 DEF RoutedInv
<1>5. QED BY <1>3, <1>4

LEMMA RoutedInitInv == ResourcesInit => RoutedInv
<1> SUFFICES ASSUME ResourcesInit PROVE RoutedInv
  OBVIOUS
<1>1. ResourceInv
  BY ResourceInitInv
<1>2. /\ exists = {} /\ rules = [r \in RuleIds |-> None] /\ via = [r \in RuleIds |-> None]
      /\ calls = [u \in Callers |-> Rest]
  BY DEF ResourcesInit
<1>3. \A u \in Callers : calls[u].pc \notin AtRule
  BY <1>2 DEF Rest, AtRule
<1>4. RouteTypes /\ Routed
  BY <1>2, <1>3 DEF RouteTypes, Routed
<1>5. OneRequest /\ Carried
  BY <1>3 DEF OneRequest, Carried, OnRule
<1>6. QED BY <1>1, <1>2, <1>4, <1>5 DEF RoutedInv

LEMMA RoutedStepInv == RoutedInv /\ [ResourcesNext]_resourceVars => RoutedInv'
<1> SUFFICES ASSUME RoutedInv, [ResourcesNext]_resourceVars
             PROVE  RoutedInv'
  OBVIOUS
<1>1. Root \in Callers /\ ResourceInv'
  BY ResourceStepInv DEF Callers, RoutedInv
<1>2. CASE ResourcesNext
  BY <1>1, <1>2, RoutesOfThings, RouteBegins, RouteSteps, RouteChanges
     DEF ResourcesNext, SetUserResources
<1>3. CASE UNCHANGED resourceVars
  <2>1. UNCHANGED <<exists, spent, rules, via, calls, astray>>
    BY <1>3 DEF resourceVars
  <2>2. exists' \subseteq Grantable
    BY <2>1 DEF RoutedInv
  <2>3. QED BY <1>1, <2>1, <2>2, RoutesKeep
<1>4. QED BY <1>2, <1>3

(***************************************************************************)
(* A rule's traffic takes the route its row and TestRule say, as long as   *)
(* its chain exists and no request is between the agent and the row, but   *)
(* for rules one stopped at there, that crossed requests are about, or     *)
(* that ModifyRules has rewritten (AddRule, ModifyRule, DelRule).          *)
(***************************************************************************)
THEOREM RulesAreRouted == ResourcesSpec => []RuleRouted
<1>1. ResourcesSpec => []RoutedInv
  BY RoutedInitInv, RoutedStepInv, PTL DEF ResourcesSpec
<1>2. QED BY <1>1, RoutedIsRuleRouted, PTL
=============================================================================
