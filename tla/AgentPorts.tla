----------------------------- MODULE AgentPorts -----------------------------
(***************************************************************************)
(* Inside one agent: the requests of the controller against the ports of   *)
(* the machine.  The manager's srcConnMap names the listener of each port  *)
(* and is the only way back to it: a listener that is bound and not in the *)
(* map serves until the process ends.                                      *)
(*                                                                         *)
(* Every request runs in a goroutine of its own, AddRule starts another    *)
(* that binds the port, and no lock is held over any of this.  The steps   *)
(* below are the operations on the map and the sockets.  Gost, which       *)
(* replaces all of it where EnableGost is set, is not modelled.            *)
(***************************************************************************)
EXTENDS Naturals, FiniteSets

CONSTANTS
  Ports,      \* listen ports
  Reqs,       \* requests of one life of the agent
  EnableUdp,  \* the agent also forwards UDP
  None

ASSUME PortsAssumption ==
  EnableUdp \in BOOLEAN /\ None \notin Reqs \cup Ports

VARIABLES
  bound,     \* TCP sockets: the request whose connector listens on each port
  entry,     \* srcConnMap[port]
  udpBound,  \* UDP sockets: the request whose forwarder reads from each port
  udpEntry,  \* srcConnMap["udp#" port]
  fwd,       \* the UDP forwarder of each request
  req,       \* the requests
  crossed    \* history: ports that two requests have worked on at one time

tcp  == <<bound, entry>>
udp  == <<udpBound, udpEntry, fwd>>
vars == <<bound, entry, udpBound, udpEntry, fwd, req, crossed>>

Idle == [op |-> "none", old |-> None, port |-> None, pc |-> "idle",
         got |-> None, udpGot |-> None]

\* "cut": the process has ended, and what had no answer gets none.
Ended == {"idle", "ok", "error", "panic", "cut"}

Init ==
  /\ bound = [p \in Ports |-> None] /\ entry = [p \in Ports |-> None]
  /\ udpBound = [p \in Ports |-> None] /\ udpEntry = [p \in Ports |-> None]
  /\ fwd = [r \in Reqs |-> "none"]
  /\ req = [r \in Reqs |-> Idle]
  /\ crossed = {}

-----------------------------------------------------------------------------
At(r, pc) == req[r].pc = pc

Goto(r, pc) == req' = [req EXCEPT ![r].pc = pc]

Running(r) == req[r].pc \notin Ended

PortsOf(r) == {req[r].old, req[r].port} \ {None}

\* The forwarder that r left behind has not got to its socket yet.
Starting(r) == fwd[r] \in {"new", "cut", "nil"}

\* No request works on p, nor a forwarder that one has just left there.
Quiet(p) ==
  \A r \in Reqs : /\ Running(r) => p \notin PortsOf(r)
                  /\ Starting(r) => p # req[r].port

(***************************************************************************)
(* A request arrives: DelRule has an old port, AddRule a port, ModifyRule  *)
(* both.                                                                   *)
(***************************************************************************)
Arrive(r) ==
  /\ At(r, "idle")
  /\ \E old, port \in Ports \cup {None} :
       /\ {old, port} # {None}
       /\ req' = [req EXCEPT ![r] =
                    [op   |-> IF old = None THEN "add" ELSE IF port = None THEN "del" ELSE "move",
                     old  |-> old, port |-> port, got |-> None, udpGot |-> None,
                     pc   |-> IF old = None THEN "probe" ELSE "load"]]
       /\ crossed' = crossed \cup {p \in {old, port} \ {None} : ~Quiet(p)}
  /\ UNCHANGED <<tcp, udp>>

-----------------------------------------------------------------------------
(* DelPort.                                                                *)

\* DelPort has done: DelRule answers, ModifyRule goes on to AddRule.
AfterDelPort(r) == IF req[r].op = "move" THEN "probe" ELSE "ok"

Load(r) ==
  /\ At(r, "load")
  /\ \/ /\ entry[req[r].old] = None
        /\ Goto(r, AfterDelPort(r))
     \/ /\ entry[req[r].old] # None
        /\ req' = [req EXCEPT ![r].pc = "remove", ![r].got = entry[req[r].old]]
  /\ UNCHANGED <<tcp, udp, crossed>>

\* Mutant: the key stays.
Remove_Nothing(r) ==
  /\ At(r, "remove")
  /\ Goto(r, "close")
  /\ UNCHANGED <<tcp, udp, crossed>>

\* The key is deleted, whatever it maps to by now.
Remove(r) ==
  /\ At(r, "remove")
  /\ entry' = [entry EXCEPT ![req[r].old] = None]
  /\ Goto(r, "close")
  /\ UNCHANGED <<bound, udp, crossed>>

\* Mutant: the listener is dropped from the map and left open.
Close_Nothing(r) ==
  /\ At(r, "close")
  /\ Goto(r, "udpload")
  /\ UNCHANGED <<tcp, udp, crossed>>

\* Closing a listener a second time is an error that is only logged.
Close(r) ==
  /\ At(r, "close")
  /\ bound' = [bound EXCEPT ![req[r].old] = IF @ = req[r].got THEN None ELSE @]
  /\ Goto(r, "udpload")
  /\ UNCHANGED <<entry, udp, crossed>>

UdpLoad(r) ==
  /\ At(r, "udpload")
  /\ \/ /\ udpEntry[req[r].old] = None
        /\ Goto(r, AfterDelPort(r))
     \/ /\ udpEntry[req[r].old] # None
        /\ req' = [req EXCEPT ![r].pc = "udpremove", ![r].udpGot = udpEntry[req[r].old]]
  /\ UNCHANGED <<tcp, udp, crossed>>

UdpRemove(r) ==
  /\ At(r, "udpremove")
  /\ udpEntry' = [udpEntry EXCEPT ![req[r].old] = None]
  /\ Goto(r, "udpclose")
  /\ UNCHANGED <<tcp, udpBound, fwd, crossed>>

\* Mutant: the shutdown channel is closed and the socket is not.
UdpClose_NoSocket(r) ==
  LET f == req[r].udpGot IN
  /\ At(r, "udpclose")
  /\ fwd' = [fwd EXCEPT ![f] = "closed"]
  /\ Goto(r, AfterDelPort(r))
  /\ UNCHANGED <<tcp, udpBound, udpEntry, crossed>>

(***************************************************************************)
(* UDPForwarder.Close.  Before Start has bound its socket, or when that    *)
(* failed, there is no connection to close and the handler panics; so it   *)
(* does on a channel closed before.                                        *)
(***************************************************************************)
UdpClose(r) ==
  LET f == req[r].udpGot IN
  /\ At(r, "udpclose")
  /\ fwd' = [fwd EXCEPT ![f] = CASE @ = "bound" -> "closed" [] @ = "new" -> "cut" [] OTHER -> @]
  /\ udpBound' = [p \in Ports |->
                    IF p = req[r].old /\ udpBound[p] = f /\ fwd[f] = "bound" THEN None ELSE udpBound[p]]
  /\ Goto(r, IF fwd[f] = "bound" THEN AfterDelPort(r) ELSE "panic")
  /\ UNCHANGED <<tcp, udpEntry, crossed>>

-----------------------------------------------------------------------------
(* AddRule.                                                                *)

\* Mutant: a bound port is left for the goroutine to find out.
Probe_Skipped(r) ==
  /\ At(r, "probe")
  /\ Goto(r, "bind")
  /\ UNCHANGED <<tcp, udp, crossed>>

\* InitConfig listens on the port for an instant to see whether it is free.
Probe(r) ==
  /\ At(r, "probe")
  /\ Goto(r, IF bound[req[r].port] = None THEN "bind" ELSE "error")
  /\ UNCHANGED <<tcp, udp, crossed>>

(***************************************************************************)
(* The goroutine running Listen.  When it cannot bind it ends, and the     *)
(* handler waits for a listener that will never be there.                  *)
(***************************************************************************)
Listen(r) ==
  /\ At(r, "bind")
  /\ \/ /\ bound[req[r].port] = None
        /\ bound' = [bound EXCEPT ![req[r].port] = r]
        /\ Goto(r, "store")
     \/ /\ bound[req[r].port] # None
        /\ Goto(r, "spin")
        /\ UNCHANGED bound
  /\ UNCHANGED <<entry, udp, crossed>>

\* Mutant: the handler answers without waiting for the listener to store it.
StoreConn_Never(r) ==
  /\ At(r, "store")
  /\ Goto(r, IF EnableUdp THEN "udpstore" ELSE "ok")
  /\ UNCHANGED <<tcp, udp, crossed>>

StoreConn(r) ==
  /\ At(r, "store")
  /\ entry' = [entry EXCEPT ![req[r].port] = r]
  /\ Goto(r, IF EnableUdp THEN "udpstore" ELSE "ok")
  /\ UNCHANGED <<bound, udp, crossed>>

(***************************************************************************)
(* The forwarder is stored, and the request answered, while it starts.     *)
(* There is none when the destination does not resolve: that error is only *)
(* logged.                                                                 *)
(***************************************************************************)
UdpStore(r) ==
  /\ At(r, "udpstore")
  /\ udpEntry' = [udpEntry EXCEPT ![req[r].port] = r]
  /\ \E made \in {"new", "nil"} : fwd' = [fwd EXCEPT ![r] = made]
  /\ Goto(r, "ok")
  /\ UNCHANGED <<tcp, udpBound, crossed>>

(***************************************************************************)
(* UDPForwarder.Start binds the socket.  One that was closed before then   *)
(* returns at its first look at the channel and leaves the socket open.    *)
(***************************************************************************)
UdpStart(r) ==
  LET p == req[r].port IN
  /\ fwd[r] \in {"new", "cut"}
  /\ \/ /\ udpBound[p] = None
        /\ udpBound' = [udpBound EXCEPT ![p] = r]
        /\ fwd' = [fwd EXCEPT ![r] = IF @ = "new" THEN "bound" ELSE "closed"]
     \/ /\ udpBound[p] # None
        /\ fwd' = [fwd EXCEPT ![r] = "failed"]
        /\ UNCHANGED udpBound
  /\ UNCHANGED <<tcp, udpEntry, req, crossed>>

(***************************************************************************)
(* Start on a forwarder that was not made: the goroutine's panic ends the  *)
(* process, before the store or any time after it.                         *)
(***************************************************************************)
Dies(r) ==
  /\ At(r, "udpstore") \/ fwd[r] = "nil"
  /\ bound' = [p \in Ports |-> None] /\ entry' = [p \in Ports |-> None]
  /\ udpBound' = [p \in Ports |-> None] /\ udpEntry' = [p \in Ports |-> None]
  /\ fwd' = [s \in Reqs |-> "none"]
  /\ req' = [s \in Reqs |->
               IF req[s].pc \in {"ok", "error", "panic"} THEN req[s]
               ELSE [req[s] EXCEPT !.pc = "cut"]]
  /\ UNCHANGED crossed

-----------------------------------------------------------------------------
DelPort(r) == Load(r) \/ Remove(r) \/ Close(r) \/ UdpLoad(r) \/ UdpRemove(r) \/ UdpClose(r)

AddRule(r) == Probe(r) \/ Listen(r) \/ StoreConn(r) \/ UdpStore(r)

Work(r) == DelPort(r) \/ AddRule(r) \/ UdpStart(r) \/ Dies(r)

Next == \E r \in Reqs : Arrive(r) \/ Work(r)

Spec == Init /\ [][Next]_vars

(***************************************************************************)
(* The same agent under a controller that has one request at a time on a   *)
(* port, and lets its forwarder start before the next one.                 *)
(***************************************************************************)
ArriveAlone(r) == Arrive(r) /\ crossed' = {}

SerialNext == \E r \in Reqs : ArriveAlone(r) \/ Work(r)

Fairness == \A r \in Reqs : WF_vars(Work(r))

SerialSpec == Init /\ [][SerialNext]_vars /\ Fairness

-----------------------------------------------------------------------------
Request ==
  [op : {"add", "del", "move", "none"}, old : Ports \cup {None}, port : Ports \cup {None},
   pc : Ended \cup {"load", "remove", "close", "udpload", "udpremove", "udpclose",
                    "probe", "bind", "spin", "store", "udpstore"},
   got : Reqs \cup {None}, udpGot : Reqs \cup {None}]

\* The ports a step of a request uses are given.
PortsGiven ==
  \A r \in Reqs :
    /\ req[r].pc \in {"load", "remove", "close", "udpload", "udpremove", "udpclose"} =>
         req[r].old \in Ports
    /\ req[r].pc \in {"probe", "bind", "spin", "store", "udpstore"} \/ req[r].op = "move" =>
         req[r].port \in Ports

(***************************************************************************)
(* Type correctness: the map and the sockets name requests that opened     *)
(* them, and only a loaded entry is removed and closed.                    *)
(***************************************************************************)
TypeOK ==
  /\ bound \in [Ports -> Reqs \cup {None}] /\ entry \in [Ports -> Reqs \cup {None}]
  /\ udpBound \in [Ports -> Reqs \cup {None}] /\ udpEntry \in [Ports -> Reqs \cup {None}]
  /\ fwd \in [Reqs -> {"none", "new", "bound", "failed", "cut", "nil", "closed"}]
  /\ req \in [Reqs -> Request] /\ PortsGiven
  /\ crossed \subseteq Ports
  /\ \A r \in Reqs :
       /\ req[r].pc \in {"remove", "close"} => req[r].got # None
       /\ req[r].pc \in {"udpremove", "udpclose"} => req[r].udpGot # None

(***************************************************************************)
(* Whatever requests cross each other, the map never names a listener that *)
(* is closed: a rule the agent lists is a rule it serves.                  *)
(***************************************************************************)
EntryIsLive == \A p \in Ports : entry[p] # None => bound[p] = entry[p]

(***************************************************************************)
(* A listener can be closed again: on a port no two requests have crossed  *)
(* on, one that is bound when nobody works there is in the map.            *)
(***************************************************************************)
NoLeak ==
  \A p \in Ports \ crossed : Quiet(p) => entry[p] = bound[p]

-----------------------------------------------------------------------------
(* What makes EntryIsLive and NoLeak inductive.                            *)

\* The listener of r is in the map, or was.
HasStored(r) == req[r].pc \in {"udpstore", "ok"}

\* A listener that waits for its entry is bound.
StoringIsBound == \A r \in Reqs : At(r, "store") => bound[req[r].port] = r

EntryIsStored ==
  \A p \in Ports : entry[p] # None => HasStored(entry[p]) /\ bound[p] = entry[p]

\* What DelPort loaded was in the map, and is not when it gets to close it.
LoadedWasStored ==
  \A r \in Reqs :
    /\ req[r].pc \in {"remove", "close"} => HasStored(req[r].got)
    /\ At(r, "close") => entry[req[r].old] # req[r].got

\* Two requests at work on one port have crossed there.
CrossingsKnown ==
  \A r, s \in Reqs : r # s /\ Running(r) /\ Running(s) =>
    PortsOf(r) \cap PortsOf(s) \subseteq crossed

\* On a port without crossings what is to be removed is what was loaded.
RemovesLoaded ==
  \A r \in Reqs : At(r, "remove") /\ req[r].old \notin crossed => entry[req[r].old] = req[r].got

\* Such a port's listener is in the map, about to be put there, or about to be closed.
BoundIsReachable ==
  \A p \in Ports \ crossed : bound[p] # None =>
    \/ entry[p] = bound[p]
    \/ At(bound[p], "store") /\ req[bound[p]].port = p
    \/ \E r \in Reqs : At(r, "close") /\ req[r].old = p /\ req[r].got = bound[p]

(***************************************************************************)
(* The inductive invariant of the TCP half: the map is behind the sockets  *)
(* by what some request has in hand.                                       *)
(***************************************************************************)
PortInv ==
  /\ StoringIsBound /\ EntryIsStored /\ LoadedWasStored
  /\ CrossingsKnown /\ RemovesLoaded /\ BoundIsReachable

-----------------------------------------------------------------------------
(***************************************************************************)
(* The same of the UDP half: on such a port a forwarder reads only where   *)
(* the map names it.                                                       *)
(***************************************************************************)
NoUdpLeak ==
  \A p \in Ports \ crossed :
    Quiet(p) /\ udpBound[p] # None => udpEntry[p] = udpBound[p]

(***************************************************************************)
(* With one request at a time on a port every request is answered: no      *)
(* handler waits for a listener that never comes, and none panics.  Only   *)
(* a rule whose destination does not resolve, which ends the process,      *)
(* keeps the requests of that moment from their answers.                   *)
(***************************************************************************)
Answered == \A r \in Reqs : Running(r) ~> req[r].pc \in {"ok", "error", "cut"}

-----------------------------------------------------------------------------
(* Refinement of PortTable.                                                *)

\* A ModifyRule that has closed its old port and has not settled the new one.
Halfway(r) ==
  req[r].op = "move" /\ req[r].pc \in {"udpload", "udpremove", "udpclose", "probe", "bind"}

\* The two halves of a ModifyRule count as one step, taken when the new port is settled.
Table ==
  [p \in Ports |->
     IF \E r \in Reqs : Halfway(r) /\ req[r].old = p /\ req[r].got # None
     THEN req[CHOOSE r \in Reqs : Halfway(r) /\ req[r].old = p /\ req[r].got # None].got
     ELSE bound[p]]

Answer ==
  [r \in Reqs |->
     IF req[r].pc \in {"ok", "store", "udpstore"} \/ (req[r].op = "del" /\ req[r].pc \in
          {"udpload", "udpremove", "udpclose"}) THEN "ok"
     ELSE IF req[r].pc \in {"error", "cut"} THEN req[r].pc ELSE None]

Promise == INSTANCE PortTable WITH table <- Table, answer <- Answer

(***************************************************************************)
(* With one request at a time on a port each request acts as one step,     *)
(* ModifyRule with both its halves: what RuleSync assumes of an agent.     *)
(***************************************************************************)
KeepsPromise == Promise!Spec
=============================================================================
