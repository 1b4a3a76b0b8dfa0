---------------------------- MODULE UdpForwarder ----------------------------
(***************************************************************************)
(* The UDP half of a rule's port.  UDPForwarder keeps a socket to the      *)
(* destination for every peer that sends to the port, in a sync.Map from   *)
(* the peer's address to its Client.  Four kinds of goroutine share the    *)
(* map without a lock: the pump that reads the port, one goroutine per     *)
(* client that carries replies back, the sweep that drops idle clients     *)
(* once a minute, and whoever calls Close.                                 *)
(*                                                                         *)
(* Three of them drop a client through closeClient, which deletes the      *)
(* peer's key, whichever client it maps to by then, and closes the socket  *)
(* of the client it was given.                                             *)
(***************************************************************************)
EXTENDS Naturals, FiniteSets

CONSTANTS
  Peers,    \* addresses datagrams come from
  Ids,      \* clients the forwarder makes in its life: bounds the history
  Targets,  \* addresses datagrams may be sent to
  Target,   \* targetAddr: the one a forwarder sends to
  None

ASSUME UdpAssumption ==
  /\ Ids \subseteq Nat
  /\ None \notin Ids /\ None \notin Peers /\ None \notin Targets
  /\ Target \in Targets

VARIABLES
  table,     \* clients: the client of each peer
  client,    \* every client made: its peer, target, socket, goroutine and age
  pump,      \* the goroutine of Start
  sweep,     \* the goroutine of cleanupExpiredClients
  closer,    \* the caller of Close
  port,      \* the listening socket
  orphaned,  \* history: clients whose key was deleted for the sake of another
  late       \* history: clients made after Close was called

vars == <<table, client, pump, sweep, closer, port, orphaned, late>>

NoClient == [peer |-> None, target |-> None, sock |-> "none", ret |-> "none", idle |-> FALSE]

\* Start has bound the port and started the sweep.
Init ==
  /\ table = [k \in Peers |-> None]
  /\ client = [i \in Ids |-> NoClient]
  /\ pump = [pc |-> "top", c |-> None]
  /\ sweep = [pc |-> "wait", todo |-> {}, c |-> None]
  /\ closer = [pc |-> "serving", todo |-> {}]
  /\ port = "open"
  /\ orphaned = {} /\ late = {}

-----------------------------------------------------------------------------
\* shutdownChan is closed.
Down == closer.pc # "serving"

Made(i) == client[i].sock # "none"

Open(i) == client[i].sock = "open"

PumpTo(pc) == pump' = [pump EXCEPT !.pc = pc]

\* The loop of Start begins again.
PumpAgain == pump' = [pc |-> "top", c |-> None]

\* The first half of closeClient(k, c): the key goes, whatever it maps to.
DeleteKey(k, c) ==
  /\ table' = [table EXCEPT ![k] = None]
  /\ orphaned' = orphaned \cup ({table[k]} \ {None, c})

-----------------------------------------------------------------------------
(* The pump: Start and handlePacket.                                       *)

PumpLooks ==
  /\ pump.pc = "top"
  /\ PumpTo(IF Down THEN "ended" ELSE "read")
  /\ UNCHANGED <<table, client, sweep, closer, port, orphaned, late>>

\* The read times out after a second, or fails on the closed port.
PumpReadsNothing ==
  /\ pump.pc = "read"
  /\ PumpAgain
  /\ UNCHANGED <<table, client, sweep, closer, port, orphaned, late>>

\* A datagram of a peer without a client: one is made, stored and set going.
NewClient(k, t) ==
  /\ pump.pc = "read" /\ port = "open"
  /\ table[k] = None
  /\ \E i \in Ids :
       /\ ~Made(i) /\ \A j \in Ids : ~Made(j) => i <= j
       /\ client' = [client EXCEPT ![i] = [peer |-> k, target |-> t, sock |-> "open",
                                           ret |-> "reading", idle |-> FALSE]]
       /\ table' = [table EXCEPT ![k] = i]
       /\ pump' = [pc |-> "write", c |-> i]
       /\ late' = IF Down THEN late \cup {i} ELSE late
  /\ UNCHANGED <<sweep, closer, port, orphaned>>

\* A datagram of a known peer; it makes its client active.
KnownClient(k) ==
  /\ pump.pc = "read" /\ port = "open"
  /\ table[k] # None
  /\ client' = [client EXCEPT ![table[k]].idle = FALSE]
  /\ pump' = [pc |-> "write", c |-> table[k]]
  /\ UNCHANGED <<table, sweep, closer, port, orphaned, late>>

\* handlePacket; a dial that fails is PumpReadsNothing.
handlePacket(k, t) == NewClient(k, t) \/ KnownClient(k)

PumpWrites ==
  /\ pump.pc = "write" /\ Open(pump.c)
  /\ PumpAgain
  /\ UNCHANGED <<table, client, sweep, closer, port, orphaned, late>>

\* The write fails: closeClient.
PumpDrops ==
  /\ pump.pc = "write"
  /\ DeleteKey(client[pump.c].peer, pump.c)
  /\ PumpTo("shut")
  /\ UNCHANGED <<client, sweep, closer, port, late>>

PumpShuts ==
  /\ pump.pc = "shut"
  /\ client' = [client EXCEPT ![pump.c].sock = "closed"]
  /\ PumpAgain
  /\ UNCHANGED <<table, sweep, closer, port, orphaned, late>>

-----------------------------------------------------------------------------
(* handleTargetReturn of client i.                                         *)

\* A reply is carried back; it makes the client active.
ReturnCarries(i) ==
  /\ client[i].ret = "reading" /\ Open(i) /\ port = "open"
  /\ client' = [client EXCEPT ![i].idle = FALSE]
  /\ UNCHANGED <<table, pump, sweep, closer, port, orphaned, late>>

\* Mutant: the key goes and the socket stays.
ReturnDrops_NoShut(i) ==
  /\ client[i].ret = "reading"
  /\ DeleteKey(client[i].peer, i)
  /\ client' = [client EXCEPT ![i].ret = "ended"]
  /\ UNCHANGED <<pump, sweep, closer, port, late>>

\* The socket is closed or refuses, or the reply cannot be sent: closeClient.
ReturnDrops(i) ==
  /\ client[i].ret = "reading"
  /\ DeleteKey(client[i].peer, i)
  /\ client' = [client EXCEPT ![i].ret = "shut"]
  /\ UNCHANGED <<pump, sweep, closer, port, late>>

ReturnShuts(i) ==
  /\ client[i].ret = "shut"
  /\ client' = [client EXCEPT ![i].sock = "closed", ![i].ret = "ended"]
  /\ UNCHANGED <<table, pump, sweep, closer, port, orphaned, late>>

\* Mutant: the goroutine does not look at the channel.
ReturnLeaves_Never(i) == FALSE /\ UNCHANGED vars

\* The goroutine sees the channel closed and leaves its socket as it is.
ReturnLeaves(i) ==
  /\ client[i].ret = "reading" /\ Down
  /\ client' = [client EXCEPT ![i].ret = "ended"]
  /\ UNCHANGED <<table, pump, sweep, closer, port, orphaned, late>>

handleTargetReturn(i) ==
  \/ ReturnCarries(i) \/ ReturnLeaves(i)
  \/ ReturnDrops(i) \/ ReturnShuts(i)

-----------------------------------------------------------------------------
(* The sweep: cleanupExpiredClients.                                       *)

\* The client has not carried anything for longer than the timeout.
GoesIdle(i) ==
  /\ Open(i) /\ ~client[i].idle
  /\ client' = [client EXCEPT ![i].idle = TRUE]
  /\ UNCHANGED <<table, pump, sweep, closer, port, orphaned, late>>

Expired == {k \in Peers : table[k] # None /\ client[table[k]].idle}

\* Mutant: the sweep takes the clients that are active.
SweepCollects_Active ==
  /\ sweep.pc = "wait" /\ ~Down
  /\ sweep' = [pc |-> "next", todo |-> {k \in Peers : table[k] # None} \ Expired, c |-> None]
  /\ UNCHANGED <<table, client, pump, closer, port, orphaned, late>>

SweepCollects ==
  /\ sweep.pc = "wait" /\ ~Down
  /\ sweep' = [pc |-> "next", todo |-> Expired, c |-> None]
  /\ UNCHANGED <<table, client, pump, closer, port, orphaned, late>>

\* The key is looked up again: its client, if any, may be another one or active.
SweepLoads ==
  /\ sweep.pc = "next"
  /\ \E k \in sweep.todo :
       sweep' = [pc |-> IF table[k] = None THEN "next" ELSE "drop",
                 todo |-> sweep.todo \ {k}, c |-> table[k]]
  /\ UNCHANGED <<table, client, pump, closer, port, orphaned, late>>

SweepDrops ==
  /\ sweep.pc = "drop"
  /\ DeleteKey(client[sweep.c].peer, sweep.c)
  /\ sweep' = [sweep EXCEPT !.pc = "shut"]
  /\ UNCHANGED <<client, pump, closer, port, late>>

SweepShuts ==
  /\ sweep.pc = "shut"
  /\ client' = [client EXCEPT ![sweep.c].sock = "closed"]
  /\ sweep' = [sweep EXCEPT !.pc = "next", !.c = None]
  /\ UNCHANGED <<table, pump, closer, port, orphaned, late>>

SweepRests ==
  /\ sweep.pc = "next" /\ sweep.todo = {}
  /\ sweep' = [sweep EXCEPT !.pc = "wait"]
  /\ UNCHANGED <<table, client, pump, closer, port, orphaned, late>>

SweepLeaves ==
  /\ sweep.pc = "wait" /\ Down
  /\ sweep' = [sweep EXCEPT !.pc = "ended"]
  /\ UNCHANGED <<table, client, pump, closer, port, orphaned, late>>

cleanupExpiredClients ==
  \/ SweepCollects \/ SweepLoads \/ SweepDrops
  \/ SweepShuts \/ SweepRests \/ SweepLeaves

-----------------------------------------------------------------------------
(* Close.                                                                  *)

CloserTo(pc, todo) == closer' = [pc |-> pc, todo |-> todo]

CloseBegins ==
  /\ closer.pc = "serving"
  /\ CloserTo("range", Peers)
  /\ UNCHANGED <<table, client, pump, sweep, port, orphaned, late>>

\* Mutant: the clients are left to their goroutines.
CloseRanges_Skip(next) ==
  /\ closer.pc = "range"
  /\ CloserTo(next, {})
  /\ UNCHANGED <<table, client, pump, sweep, port, orphaned, late>>

\* Range closes the socket of each client it meets and leaves the map alone.
CloseRanges(next) ==
  /\ closer.pc = "range"
  /\ \/ \E k \in closer.todo :
          /\ CloserTo("range", closer.todo \ {k})
          /\ client' = [i \in Ids |-> IF table[k] = i THEN [client[i] EXCEPT !.sock = "closed"]
                                                      ELSE client[i]]
     \/ closer.todo = {} /\ CloserTo(next, {}) /\ UNCHANGED client
  /\ UNCHANGED <<table, pump, sweep, port, orphaned, late>>

ClosePort(next, todo) ==
  /\ closer.pc = "socket"
  /\ port' = "closed"
  /\ CloserTo(next, todo)
  /\ UNCHANGED <<table, client, pump, sweep, orphaned, late>>

\* The goroutines the WaitGroup counts have ended; the pump is not one of them.
AllLeft ==
  sweep.pc = "ended" /\ \A i \in Ids : client[i].ret \in {"none", "ended"}

CloseWaits ==
  /\ closer.pc = "wait" /\ AllLeft
  /\ CloserTo("closed", {})
  /\ UNCHANGED <<table, client, pump, sweep, port, orphaned, late>>

Close == CloseBegins \/ CloseRanges("socket") \/ ClosePort("wait", {}) \/ CloseWaits

-----------------------------------------------------------------------------
Pump == PumpLooks \/ PumpReadsNothing \/ PumpWrites \/ PumpDrops \/ PumpShuts

\* What the forwarder and the proxy server have in common.
Common ==
  \/ Pump \/ cleanupExpiredClients
  \/ \E i \in Ids : handleTargetReturn(i) \/ GoesIdle(i)

Next == Common \/ Close \/ \E k \in Peers : handlePacket(k, Target)

Spec == Init /\ [][Next]_vars

-----------------------------------------------------------------------------
Client ==
  [peer : Peers \cup {None}, target : Targets \cup {None}, sock : {"none", "open", "closed"},
   ret : {"none", "reading", "shut", "ended"}, idle : BOOLEAN]

(***************************************************************************)
(* Type correctness: what the map and the goroutines name are clients that *)
(* were made, of the peer the key is for.                                  *)
(***************************************************************************)
TypeOK ==
  /\ table \in [Peers -> Ids \cup {None}]
  /\ client \in [Ids -> Client]
  /\ \A i \in Ids : IF Made(i) THEN client[i].peer \in Peers /\ client[i].ret # "none"
                               ELSE client[i] = NoClient
  /\ \A k \in Peers : table[k] # None => Made(table[k]) /\ client[table[k]].peer = k
  /\ pump \in [pc : {"top", "read", "write", "shut", "ended"}, c : Ids \cup {None}]
  /\ pump.pc \in {"write", "shut"} <=> pump.c # None
  /\ pump.c # None => Made(pump.c)
  /\ sweep \in [pc : {"wait", "next", "drop", "shut", "ended"}, todo : SUBSET Peers,
                c : Ids \cup {None}]
  /\ sweep.pc \in {"drop", "shut"} <=> sweep.c # None
  /\ sweep.c # None => Made(sweep.c)
  /\ closer \in [pc : {"serving", "range", "socket", "wait", "closed"}, todo : SUBSET Peers]
  /\ port \in {"open", "closed"}
  /\ orphaned \subseteq Ids /\ late \subseteq Ids

\* Somebody has deleted the key of i and is about to close its socket.
BeingShut(i) ==
  \/ pump.pc = "shut" /\ pump.c = i
  \/ sweep.pc = "shut" /\ sweep.c = i
  \/ client[i].ret = "shut"

(***************************************************************************)
(* A client with an open socket is in the map, where the sweep and Close   *)
(* find it, or is being closed, or was put out of the map by the           *)
(* closeClient of another client of its peer: the one way in which a       *)
(* client is lost.                                                         *)
(***************************************************************************)
OpenIsListed ==
  \A i \in Ids : Open(i) => table[client[i].peer] = i \/ BeingShut(i) \/ i \in orphaned

(***************************************************************************)
(* When Close has returned the sockets to the destination are closed, but  *)
(* for those of lost clients, of clients made while Close was at work, and *)
(* of the one the pump, which Close does not wait for, is about to close.  *)
(***************************************************************************)
CloseReleases ==
  closer.pc = "closed" =>
    \A i \in Ids : Open(i) => i \in orphaned \cup late \/ (pump.pc = "shut" /\ pump.c = i)

\* Go schedules every goroutine; the read deadlines and the ticker fire.
Fairness ==
  /\ WF_vars(Pump)
  /\ WF_vars(SweepCollects \/ SweepRests \/ SweepLeaves)
  /\ WF_vars(SweepLoads \/ SweepDrops \/ SweepShuts)
  /\ \A i \in Ids : WF_vars(ReturnLeaves(i) \/ ReturnShuts(i))

(***************************************************************************)
(* A client that carries nothing any more is closed, as long as the        *)
(* forwarder runs and the client is not lost.                              *)
(***************************************************************************)
IdleExpires ==
  \A i \in Ids :
    Open(i) /\ client[i].idle ~> ~Open(i) \/ ~client[i].idle \/ i \in orphaned \/ Down

(***************************************************************************)
(* Close returns: every goroutine it waits for sees the channel, one that  *)
(* is in the middle of closeClient included.                               *)
(***************************************************************************)
CloseReturns == Down ~> closer.pc = "closed"
=============================================================================
